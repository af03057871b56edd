------------------------------- MODULE MCVfs --------------------------------
(***************************************************************************)
(* Vfs for TLC, twice.  MCVfsTree.cfg: the tree, with a name too long for  *)
(* VFS_MAX_NAME and paths through it, "..", devices, a node deeper than    *)
(* MAX_DEPTH, and no writes.                                               *)
(* MCVfsFiles.cfg: two descriptors reading, writing, truncating and        *)
(* removing files.                                                         *)
(***************************************************************************)
EXTENDS Vfs

Abs(comps) == [abs |-> TRUE, comps |-> comps]
Rel(comps) == [abs |-> FALSE, comps |-> comps]

\* "long" is kept as "lo"; a path takes it for "lo" and "ng".
MCNames == {"a", "long", "lo", "ng"}
MCCut == ("long" :> "lo")
MCRest == ("long" :> "ng")
MCTreePaths == {Rel(<<"a">>), Abs(<<"a">>), Abs(<<"a", "a">>), Rel(<<"..", "a">>), Rel(<<"long">>)}
MCDevices == [dir : {"a"}, name : {"a"}, kind : Kinds]
MCTreeFlags == {{}, {"CREATE"}}
MCTreeSizes == {1}
MCNoVals == {}

MCFileNames == {"a"}
MCNoCut == << >>
MCFilePaths == {Rel(<<"a">>), Abs(<<>>)}
MCSizes == {1, 2}
MCFileFlags == {{}, {"CREATE"}, {"APPEND"}, {"CREATE", "TRUNC"}}

MCSymmetry == Permutations(Blocks) \cup Permutations(Vals)
=============================================================================
