-------------------------------- MODULE Vfs ---------------------------------
(***************************************************************************)
(* kernel/vfs.c: a tree of nodes in kmalloc memory, a table of open files, *)
(* a current directory.  One action is one call; nothing interrupts one,   *)
(* as the kernel task alone uses the file system.                          *)
(*                                                                         *)
(* A pointer is the address of a kmalloc block, and an address is used     *)
(* again once it is freed: a pointer that outlives its node then points at *)
(* nothing, at bytes of a file, or at another node.  The first two are     *)
(* undefined behaviour, where the model stops.                             *)
(***************************************************************************)
EXTENDS Integers, SequencesExt

CONSTANTS
  Blocks,        \* the addresses kmalloc can return
  Root,          \* the root's address, never freed
  Names,         \* the names callers use: not empty, and without "/"
  Cut, Rest,     \* what VFS_MAX_NAME makes of the names that are too long for it:
                 \* the part that fits, and what is left
  Paths,         \* the paths callers use: [abs |-> starts with "/", comps |-> names]
  Devices,       \* the devices vfs_init makes: [dir, name, kind]
  FlagSets,      \* the sets of flags callers pass to vfs_open
  Vals, Sizes,   \* the byte values and the lengths of reads and writes
  MIN_CAP,       \* the smallest capacity vfs_write allocates (256)
  MAX_OPEN,      \* VFS_MAX_OPEN
  MAX_DEPTH,     \* the levels vfs_get_path has room for (32)
  MaxEnd         \* bound: no write goes beyond this offset

NULL == "NULL"
JUNK == "JUNK"   \* memory nobody has written

\* What the functions of a device do: those of /dev, and all of /proc.
Kinds == {"null", "zero", "random", "proc"}

ASSUME VfsAssumption ==
  /\ Root \notin Blocks /\ NULL \notin Blocks \cup {Root}
  /\ DOMAIN Cut \subseteq Names /\ DOMAIN Rest = DOMAIN Cut
  /\ \A n \in DOMAIN Cut : {Cut[n], Rest[n]} \subseteq Names \ DOMAIN Cut
  /\ FlagSets \subseteq SUBSET {"CREATE", "APPEND", "TRUNC"}
  /\ Sizes \subseteq Nat \ {0} /\ MIN_CAP \in Nat /\ MAX_OPEN \in Nat /\ MAX_DEPTH \in Nat /\ MaxEnd \in Nat

\* Paths are of names, "." and "..", and what vfs_init makes can be found.
ASSUME PathAssumption ==
  /\ Paths \subseteq [abs : BOOLEAN, comps : Seq(Names \cup {".", ".."})]
  /\ LET Plain == Names \ (DOMAIN Cut \cup {".", ".."}) IN
     Devices \subseteq [dir : Plain, name : Plain, kind : Kinds]

VARIABLES
  nodes,         \* the live nodes: type, name, parent, children, size, data, cap
  mem,           \* the data blocks' bytes
  held,          \* the blocks kmalloc handed out
  cwd,
  fds,           \* fd_table: node, offset, in_use
  ret,           \* how the last call ended: ok, failed, or undefined, when it
                 \* read through a pointer to freed memory
  wrote,         \* history: offset -> byte written, of each file, since O_TRUNC
  orphaned       \* history: vfs_remove freed a node something still pointed at

vars == <<nodes, mem, held, cwd, fds, ret, wrote, orphaned>>

Fds == 0 .. (MAX_OPEN - 1)
Node(t, n, p) == [type |-> t, name |-> n, parent |-> p, children |-> <<>>,
                  size |-> 0, data |-> NULL, cap |-> 0]
\* functions with a key more or less
Add(f, k, v) == [x \in DOMAIN f \cup {k} |-> IF x = k THEN v ELSE f[x]]
Drop(f, k) == [x \in DOMAIN f \ {k} |-> f[x]]
Least(a, b) == IF a < b THEN a ELSE b
-----------------------------------------------------------------------------
\* A device x in the directory b.
DeviceTree(b, x, d) ==
  [a \in {Root, b, x} |->
     IF a = x THEN Node(d.kind, d.name, b)
     ELSE IF a = b THEN [Node("DIRECTORY", d.dir, Root) EXCEPT !.children = <<x>>]
     ELSE [Node("DIRECTORY", "/", Root) EXCEPT !.children = <<b>>]]

\* What vfs_init makes when callers have removed all of it, or all but a
\* device.
Init ==
  /\ \/ nodes = [a \in {Root} |-> Node("DIRECTORY", "/", Root)]
     \/ \E b \in Blocks : \E x \in Blocks \ {b}, d \in Devices : nodes = DeviceTree(b, x, d)
  /\ mem = << >> /\ held = DOMAIN nodes
  /\ cwd = Root
  /\ fds = [i \in Fds |-> [node |-> NULL, offset |-> 0, in_use |-> FALSE]]
  /\ ret = "ok"
  /\ wrote = [a \in DOMAIN nodes |-> << >>] /\ orphaned = FALSE

\* vfs_find_child: the newest child with that name.
FindChild(d, n) ==
  LET k == SelectInSeq(nodes[d].children, LAMBDA c : nodes[c].name = n) IN
  CASE nodes[d].type # "DIRECTORY" -> NULL
    [] nodes[d].type = "DIRECTORY" /\ n = "." -> d
    [] nodes[d].type = "DIRECTORY" /\ n = ".." -> nodes[d].parent
    [] OTHER -> IF k = 0 THEN NULL ELSE nodes[d].children[k]

\* One component of vfs_resolve_path.  It takes a name that is too long for two.
Find(d, n) == IF d = NULL THEN NULL ELSE FindChild(d, n)
Descend(d, n) == IF n \in DOMAIN Cut THEN Find(Find(d, Cut[n]), Rest[n]) ELSE Find(d, n)
Walk(from, comps) ==
  LET at[k \in 0 .. Len(comps)] == IF k = 0 THEN from ELSE Descend(at[k - 1], comps[k])
  IN at[Len(comps)]
Start(p) == IF p.abs THEN Root ELSE cwd
Resolve(p) == Walk(Start(p), p.comps)

\* Where vfs_open makes a file: what the path up to the last slash resolves
\* to; the empty path, which is what is left of "/name", is cwd.
Parent(p) == IF Len(p.comps) = 1 THEN cwd ELSE Resolve([p EXCEPT !.comps = Front(@)])

Live(a) == a \in DOMAIN nodes

\* A call that reads through a freed pointer: anything may happen from here.
Defined == ret # "undefined"
Undefined ==
  /\ ret' = "undefined"
  /\ UNCHANGED <<nodes, mem, held, cwd, fds, wrote, orphaned>>

Fail == ret' = "failed"
Succeed == ret' = "ok"
-----------------------------------------------------------------------------
\* Without looking for the name first.
CanCreateAnyName(d, n) == nodes[d].type = "DIRECTORY"
CanCreate(d, n) == nodes[d].type = "DIRECTORY" /\ FindChild(d, n) = NULL
Stored(n) == IF n \in DOMAIN Cut THEN Cut[n] ELSE n

\* The tree with a new node at a, first among the children of d.
Grown(a, d, n, t) ==
  Add([nodes EXCEPT ![d].children = <<a>> \o @], a, Node(t, Stored(n), d))

\* vfs_create by itself.  kmalloc may return NULL at any time.
VfsCreate(d, n, t) ==
  /\ Defined /\ Live(d)
  /\ \/ /\ Fail
        /\ UNCHANGED <<nodes, held, wrote>>
     \/ \E a \in Blocks \ held :
          /\ CanCreate(d, n)
          /\ nodes' = Grown(a, d, n, t)
          /\ held' = held \cup {a}
          /\ wrote' = Add(wrote, a, << >>)
          /\ Succeed
  /\ UNCHANGED <<mem, cwd, fds, orphaned>>

\* The node leaves its parent's list; frees, the node and its data, go back.
Unlink(a, frees) ==
  /\ nodes' = Drop([nodes EXCEPT ![nodes[a].parent].children = RemoveFirst(@, a)], a)
  /\ held' = held \ frees
  /\ mem' = Drop(mem, nodes[a].data)
  /\ wrote' = Drop(wrote, a)
  /\ orphaned' = (orphaned \/ cwd = a \/ \E i \in Fds : fds[i].in_use /\ fds[i].node = a)
  /\ Succeed

Refuse ==
  /\ Fail
  /\ UNCHANGED <<nodes, mem, held, wrote, orphaned>>

\* Trees: frees directories with what they hold.  Leaks: forgets the data.
VfsRemoveTrees(a) ==
  /\ Defined /\ Live(a)
  /\ IF a = Root THEN Refuse ELSE Unlink(a, {a, nodes[a].data})
  /\ UNCHANGED <<cwd, fds>>

VfsRemoveLeaks(a) ==
  /\ Defined /\ Live(a)
  /\ IF a = Root \/ nodes[a].children # <<>> THEN Refuse ELSE Unlink(a, {a})
  /\ UNCHANGED <<cwd, fds>>

VfsRemove(a) ==
  /\ Defined /\ Live(a)
  /\ IF a = Root \/ nodes[a].children # <<>> THEN Refuse ELSE Unlink(a, {a, nodes[a].data})
  /\ UNCHANGED <<cwd, fds>>

\* vfs_set_cwd refuses anything but a directory.  Any: takes what it is given.
VfsSetCwdAny(a) ==
  /\ Defined /\ Live(a)
  /\ cwd' = a
  /\ Succeed
  /\ UNCHANGED <<nodes, mem, held, fds, wrote, orphaned>>

VfsSetCwd(a) ==
  /\ Defined /\ Live(a)
  /\ cwd' = IF nodes[a].type = "DIRECTORY" THEN a ELSE cwd
  /\ Succeed
  /\ UNCHANGED <<nodes, mem, held, fds, wrote, orphaned>>
-----------------------------------------------------------------------------
\* vfs_open reads the node cwd points at: to resolve a relative path, and to
\* make "/name", which it does in cwd.  It reads the node it finds.
ReadsCwd(p, flags) ==
  p.abs => "CREATE" \in flags /\ Len(p.comps) = 1 /\ Resolve(p) = NULL
Dangles(p, flags) ==
  ~ (/\ ReadsCwd(p, flags) => Live(cwd)
     /\ Resolve(p) \in DOMAIN nodes \cup {NULL})

OpenDangling(p, flags) ==
  /\ Defined /\ Dangles(p, flags)
  /\ Undefined

\* The end of vfs_open: the first free descriptor, if any, for the node a of
\* the tree ns.
TakeFd(a, ns, ws, flags) ==
  LET free == {i \in Fds : ~ fds[i].in_use}
      trunc == "TRUNC" \in flags /\ free # {} IN
  /\ nodes' = IF trunc THEN [ns EXCEPT ![a].size = 0] ELSE ns
  /\ wrote' = IF trunc THEN [ws EXCEPT ![a] = << >>] ELSE ws
  /\ IF free = {}
       THEN Fail /\ UNCHANGED fds
       ELSE /\ fds' = [fds EXCEPT ![Min(free)] =
                         [node |-> a, in_use |-> TRUE,
                          offset |-> IF "APPEND" \in flags THEN ns[a].size ELSE 0]]
            /\ Succeed
  /\ UNCHANGED <<mem, cwd, orphaned>>

OpenNode(p, flags) ==
  /\ Defined /\ ~ Dangles(p, flags) /\ Resolve(p) # NULL
  /\ TakeFd(Resolve(p), nodes, wrote, flags)
  /\ UNCHANGED held

\* The file is made first; if no descriptor is free it stays.
OpenNew(p, flags) ==
  /\ Defined /\ ~ Dangles(p, flags) /\ Resolve(p) = NULL
  /\ "CREATE" \in flags /\ Parent(p) # NULL /\ CanCreate(Parent(p), Last(p.comps))
  /\ \E a \in Blocks \ held :
       /\ TakeFd(a, Grown(a, Parent(p), Last(p.comps), "FILE"), Add(wrote, a, << >>), flags)
       /\ held' = held \cup {a}

\* Nothing there and nothing made, for want of O_CREATE, of a directory or
\* of memory.
OpenMissing(p, flags) ==
  /\ Defined /\ ~ Dangles(p, flags) /\ Resolve(p) = NULL
  /\ Fail
  /\ UNCHANGED <<nodes, mem, held, cwd, fds, wrote, orphaned>>

VfsOpen(p, flags) ==
  OpenDangling(p, flags) \/ OpenNode(p, flags) \/ OpenNew(p, flags) \/ OpenMissing(p, flags)
-----------------------------------------------------------------------------
\* The node a descriptor leads to.
File(i) == nodes[fds[i].node]
Works(i) == fds[i].in_use /\ Live(fds[i].node) /\ File(i).type = "FILE"

FdDangling(i) ==
  /\ Defined /\ fds[i].in_use /\ ~ Live(fds[i].node)
  /\ Undefined

\* A read or write that returns -1: no such descriptor, a directory, or a
\* device without the function.
FdRefused(i) ==
  /\ Defined
  /\ fds[i].in_use => Live(fds[i].node) /\ File(i).type \in {"DIRECTORY", "random", "proc"}
  /\ Fail
  /\ UNCHANGED <<nodes, mem, held, cwd, fds, wrote, orphaned>>

VfsFdRead(i, s) ==
  /\ Defined /\ Works(i)
  /\ fds' = [fds EXCEPT ![i].offset = IF @ >= File(i).size THEN @ ELSE Least(@ + s, File(i).size)]
  /\ Succeed
  /\ UNCHANGED <<nodes, mem, held, cwd, wrote, orphaned>>

\* What a device answers to a read of s bytes: how many there are, whatever
\* the offset.  The files of /proc are of some length.
DeviceReads(k, s) ==
  CASE k = "null" -> {0}
    [] k \in {"zero", "random"} -> {s}
    [] k = "proc" -> 1 .. s

\* A read of, or a write to, a device moves the offset and nothing else.
OnDevice(i) == fds[i].in_use /\ Live(fds[i].node) /\ File(i).type \in Kinds
Advance(i, r) ==
  /\ fds[i].offset + r <= MaxEnd
  /\ fds' = [fds EXCEPT ![i].offset = @ + r]
  /\ Succeed
  /\ UNCHANGED <<nodes, mem, held, cwd, wrote, orphaned>>

DeviceRead(i, s) ==
  /\ Defined /\ OnDevice(i)
  /\ \E r \in DeviceReads(File(i).type, s) : Advance(i, r)

DeviceWrite(i, s) ==
  /\ Defined /\ OnDevice(i) /\ File(i).type \in {"null", "zero"}
  /\ Advance(i, s)

\* The bytes f with s bytes v from offset o on.
Put(f, o, s, v) == [k \in DOMAIN f \cup o .. (o + s - 1) |-> IF k \in o .. (o + s - 1) THEN v ELSE f[k]]

\* What every successful write of s bytes v ends with: the file's bytes are
\* in block b, of capacity c.
Wrote(i, s, v, b, c) ==
  LET a == fds[i].node  end == fds[i].offset + s IN
  /\ nodes' = [nodes EXCEPT ![a].data = b, ![a].cap = c,
                            ![a].size = IF end > @ THEN end ELSE @]
  /\ wrote' = [wrote EXCEPT ![a] = Put(@, fds[i].offset, s, v)]
  /\ fds' = [fds EXCEPT ![i].offset = end]
  /\ Succeed
  /\ UNCHANGED <<cwd, orphaned>>

End(i, s) == fds[i].offset + s

\* Does the file's block hold it?
Fits(i, s) == End(i, s) <= File(i).cap

WriteInPlace(i, s, v) ==
  /\ Defined /\ Works(i)
  /\ Fits(i, s) /\ End(i, s) <= MaxEnd
  /\ mem' = [mem EXCEPT ![File(i).data] = Put(@, fds[i].offset, s, v)]
  /\ Wrote(i, s, v, File(i).data, File(i).cap)
  /\ UNCHANGED held

\* AtMost: MIN_CAP taken for a maximum.
NewCapAtMost(needed) == IF 2 * needed > MIN_CAP THEN MIN_CAP ELSE 2 * needed
NewCap(needed) == IF 2 * needed < MIN_CAP THEN MIN_CAP ELSE 2 * needed

\* The bytes of a bigger block with the old contents.  OneShort: but the last.
MovedOneShort(i, c) ==
  [k \in 0 .. (c - 1) |-> IF k + 1 < File(i).size THEN mem[File(i).data][k] ELSE JUNK]
Moved(i, c) ==
  [k \in 0 .. (c - 1) |-> IF k < File(i).size THEN mem[File(i).data][k] ELSE JUNK]

WriteGrows(i, s, v) ==
  /\ Defined /\ Works(i)
  /\ ~ Fits(i, s) /\ End(i, s) <= MaxEnd
  /\ \E b \in Blocks \ held :
       LET c == NewCap(End(i, s)) IN
       /\ mem' = Add(Drop(mem, File(i).data), b, Put(Moved(i, c), fds[i].offset, s, v))
       /\ held' = (held \ {File(i).data}) \cup {b}
       /\ Wrote(i, s, v, b, c)

\* kmalloc returns NULL.  Late: noticed after the capacity is set.
WriteFailsLate(i, s) ==
  /\ Defined /\ Works(i) /\ ~ Fits(i, s) /\ End(i, s) <= MaxEnd
  /\ nodes' = [nodes EXCEPT ![fds[i].node].cap = NewCap(End(i, s))]
  /\ Fail
  /\ UNCHANGED <<mem, held, cwd, fds, wrote, orphaned>>

WriteFails(i, s) ==
  /\ Defined /\ Works(i) /\ ~ Fits(i, s)
  /\ Fail
  /\ UNCHANGED <<nodes, mem, held, cwd, fds, wrote, orphaned>>

VfsFdWrite(i, s, v) == WriteInPlace(i, s, v) \/ WriteGrows(i, s, v) \/ WriteFails(i, s)

VfsFdClose(i) ==
  /\ Defined
  /\ fds' = [fds EXCEPT ![i].in_use = FALSE]
  /\ ret' = IF fds[i].in_use THEN "ok" ELSE "failed"
  /\ UNCHANGED <<nodes, mem, held, cwd, wrote, orphaned>>
-----------------------------------------------------------------------------
TreeCall ==
  \E a \in Blocks \cup {Root} :
    \/ \E n \in Names, t \in {"FILE", "DIRECTORY"} : VfsCreate(a, n, t)
    \/ VfsRemove(a)
    \/ VfsSetCwd(a)

OpenCall == \E p \in Paths, flags \in FlagSets : VfsOpen(p, flags)

FdCall ==
  \E i \in Fds :
    \/ VfsFdClose(i) \/ FdDangling(i) \/ FdRefused(i)
    \/ \E s \in Sizes : DeviceRead(i, s) \/ DeviceWrite(i, s)
    \/ \E s \in Sizes : VfsFdRead(i, s) \/ \E v \in Vals : VfsFdWrite(i, s, v)

Next == TreeCall \/ OpenCall \/ FdCall

Spec == Init /\ [][Next]_vars
-----------------------------------------------------------------------------
Pointers == Blocks \cup {Root, NULL}
NodeType == [type : {"FILE", "DIRECTORY"} \cup Kinds, name : Names \cup {"/"}, parent : Pointers,
             children : Seq(Blocks), size : Nat, data : Blocks \cup {NULL}, cap : Nat]
TypeOK ==
  /\ DOMAIN nodes \subseteq Blocks \cup {Root} /\ Root \in DOMAIN nodes
  /\ \A a \in DOMAIN nodes : nodes[a] \in NodeType /\ nodes[a].size <= nodes[a].cap
  /\ held \subseteq Blocks \cup {Root}
  /\ DOMAIN wrote = DOMAIN nodes
  /\ \A b \in DOMAIN mem : b \in Blocks
  /\ cwd \in Blocks \cup {Root}
  /\ \A i \in Fds : fds[i] \in [node : Pointers, offset : Nat, in_use : BOOLEAN]
  /\ ret \in {"ok", "failed", "undefined"}
  /\ orphaned \in BOOLEAN

Below == DOMAIN nodes \ {Root}

(***************************************************************************)
(* The nodes are a tree: each is once in the list of the directory that is *)
(* its parent, and nothing else is in a list, whatever is created and      *)
(* removed (vfs.c:98-137) - even when an address is used again.  Two nodes *)
(* of a directory have the same name only if it was cut short.             *)
(***************************************************************************)
TreeShape ==
  /\ \A a \in Below :
       /\ Live(nodes[a].parent) /\ nodes[nodes[a].parent].type = "DIRECTORY"
       /\ Cardinality({k \in DOMAIN nodes[nodes[a].parent].children :
                         nodes[nodes[a].parent].children[k] = a}) = 1
  /\ \A a \in DOMAIN nodes : \A k \in DOMAIN nodes[a].children :
       LET c == nodes[a].children[k] IN c \in Below /\ nodes[c].parent = a
  /\ \A S \in SUBSET Below : S # {} => \E a \in S : nodes[a].parent \notin S
  /\ \A a, b \in Below :
       a # b /\ nodes[a].parent = nodes[b].parent /\ nodes[a].name = nodes[b].name
         => nodes[a].name \in Range(Cut)

\* vfs_get_path's climb: parts[] and the node after it.  It stops at the root,
\* or after MAX_DEPTH levels, wherever that is.
Climb(a) ==
  LET up[k \in 0 .. MAX_DEPTH] == IF k = 0 THEN a ELSE nodes[up[k - 1]].parent
  IN up
Depth(a) == Min({k \in 0 .. MAX_DEPTH : k = MAX_DEPTH \/ Climb(a)[k] = Root})
Stop(a) == Climb(a)[Depth(a)]

\* The names vfs_get_path writes, each after a "/", for a buf that has room for
\* them: strcat does not look at size.
GetPath(a) == [j \in 1 .. Depth(a) |-> nodes[Climb(a)[Depth(a) - j]].name]

(***************************************************************************)
(* The path vfs_get_path writes for a node is one vfs_resolve_path finds   *)
(* it by (vfs.c:153-200), unless a name on it is one that was cut short:   *)
(* those vfs_create makes twice.  For a node more than MAX_DEPTH levels    *)
(* deep the path begins below the root, without saying so: it finds the    *)
(* node from the directory where the climb stopped.                        *)
(***************************************************************************)
PathsRoundTrip ==
  \A a \in DOMAIN nodes :
    \/ \E k \in DOMAIN GetPath(a) : GetPath(a)[k] \in Range(Cut)
    \/ /\ Stop(a) = Root => Resolve([abs |-> TRUE, comps |-> GetPath(a)]) = a
       /\ Walk(Stop(a), GetPath(a)) = a

Holding == {a \in DOMAIN nodes : nodes[a].data # NULL}

(***************************************************************************)
(* Every block taken from the heap is a node in the tree or the contents   *)
(* of exactly one file (vfs.c:102, 134-135, 227-233): nothing leaks, and   *)
(* nothing is freed twice or while it is used.                             *)
(***************************************************************************)
MemoryOwned ==
  /\ held = DOMAIN nodes \cup {nodes[a].data : a \in Holding}
  /\ DOMAIN mem = {nodes[a].data : a \in Holding}
  /\ DOMAIN mem \cap DOMAIN nodes = {}
  /\ \A a, b \in Holding : nodes[a].data = nodes[b].data => a = b
  /\ \A a \in Holding : DOMAIN mem[nodes[a].data] = 0 .. (nodes[a].cap - 1)

(***************************************************************************)
(* A byte written to a file is there until it is overwritten or the file   *)
(* truncated, through whichever descriptors, and however the file grew and *)
(* moved in between (vfs.c:216-241).                                       *)
(***************************************************************************)
ContentsKept ==
  \A a \in Below : \A o \in DOMAIN wrote[a] :
    o < nodes[a].size /\ mem[nodes[a].data][o] = wrote[a][o]

(***************************************************************************)
(* As long as nobody removes a node that is open or the current directory, *)
(* no call reads freed memory, descriptors lead to nodes and the current   *)
(* directory is a directory.                                               *)
(***************************************************************************)
OnlyRemovalDangles ==
  ~ orphaned =>
    /\ Defined
    /\ Live(cwd) /\ nodes[cwd].type = "DIRECTORY"
    /\ \A i \in Fds : fds[i].in_use => Live(fds[i].node)

\* The new empty file of a vfs_open that found no descriptor.
LeftBehind ==
  /\ \A i \in Fds : fds[i].in_use
  /\ \E a \in DOMAIN nodes' \ DOMAIN nodes :
       /\ DOMAIN nodes' = DOMAIN nodes \cup {a}
       /\ nodes'[a].size = 0 /\ nodes'[a].data = NULL
       /\ \A x \in DOMAIN nodes : [nodes'[x] EXCEPT !.children = nodes[x].children] = nodes[x]
       /\ held' = held \cup {a}

(***************************************************************************)
(* A call that fails leaves everything as it was (vfs.c:228, 268), but for *)
(* vfs_open, which leaves the file it made when no descriptor is free.     *)
(***************************************************************************)
FailuresAreClean ==
  [][ret' = "failed" =>
       /\ UNCHANGED <<mem, cwd, fds>>
       /\ UNCHANGED <<nodes, held>> \/ LeftBehind]_vars
=============================================================================
