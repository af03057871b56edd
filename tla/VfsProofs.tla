----------------------------- MODULE VfsProofs ------------------------------
(***************************************************************************)
(* Vfs for every tree, name, path and number of descriptors, in two parts. *)
(* First memory and files, where nothing is assumed of what a path         *)
(* resolves to: they are safe even if it were the wrong node.  The         *)
(* inductive invariant IInv adds to MemoryOwned and ContentsKept the       *)
(* fields of a node they depend on (Sized) and the shape of the tables.    *)
(* Then the tree: TInv adds to IInv that the directories are a tree, and   *)
(* that its names lead to one node each.                                   *)
(***************************************************************************)
EXTENDS Vfs, TLAPS, WellFoundedInduction, FiniteSetTheorems, SequenceTheorems

\* A record with a node's fields, and the sizes that go together.
IsNode(r) ==
  r = [type |-> r.type, name |-> r.name, parent |-> r.parent, children |-> r.children,
       size |-> r.size, data |-> r.data, cap |-> r.cap]
Sized(r) ==
  /\ r.size \in Nat /\ r.cap \in Nat /\ r.size <= r.cap
  /\ r.data \in Blocks \cup {NULL}
  /\ r.data = NULL => r.cap = 0

IsFd(d) == d \in [node : {d.node}, offset : Nat, in_use : BOOLEAN]

Shape ==
  /\ DOMAIN nodes \subseteq Blocks \cup {Root} /\ Root \in DOMAIN nodes
  /\ nodes = [a \in DOMAIN nodes |-> nodes[a]]
  /\ \A a \in DOMAIN nodes : IsNode(nodes[a]) /\ Sized(nodes[a])
  /\ DOMAIN wrote = DOMAIN nodes
  /\ fds = [i \in Fds |-> fds[i]]
  /\ \A i \in Fds : IsFd(fds[i])

Contents ==
  \A a \in DOMAIN nodes : \A o \in DOMAIN wrote[a] :
    o \in Nat /\ o < nodes[a].size /\ mem[nodes[a].data][o] = wrote[a][o]

IInv == Shape /\ MemoryOwned /\ Contents

-----------------------------------------------------------------------------
LEMMA NewNode ==
  ASSUME NEW t, NEW n, NEW p
  PROVE  /\ IsNode(Node(t, n, p)) /\ Sized(Node(t, n, p))
         /\ Node(t, n, p).data = NULL /\ Node(t, n, p).size = 0 /\ Node(t, n, p).cap = 0
         /\ Node(t, n, p).type = t
BY DEF Node, IsNode, Sized

\* The writes to a node's fields.
LEMMA ChildrenWritten ==
  ASSUME NEW r, IsNode(r), Sized(r), NEW v, NEW q, q = [r EXCEPT !.children = v]
  PROVE  /\ IsNode(q) /\ Sized(q) /\ q.type = r.type /\ q.size = r.size /\ q.data = r.data
         /\ q.cap = r.cap /\ [q EXCEPT !.children = r.children] = r
<1>1. q = [type |-> r.type, name |-> r.name, parent |-> r.parent, children |-> v,
           size |-> r.size, data |-> r.data, cap |-> r.cap]
  BY DEF IsNode
<1>2. [q EXCEPT !.children = r.children] = r
  BY <1>1 DEF IsNode
<1>. QED
  BY <1>1, <1>2 DEF IsNode, Sized

LEMMA SizeCleared ==
  ASSUME NEW r, IsNode(r), Sized(r), NEW q, q = [r EXCEPT !.size = 0]
  PROVE  /\ IsNode(q) /\ Sized(q) /\ q.type = r.type /\ q.size = 0 /\ q.data = r.data
         /\ q.cap = r.cap
         /\ r.size = 0 => q = r
<1>1. q = [type |-> r.type, name |-> r.name, parent |-> r.parent, children |-> r.children,
           size |-> 0, data |-> r.data, cap |-> r.cap]
  BY DEF IsNode
<1>. QED
  BY <1>1 DEF IsNode, Sized

\* The empty tree has the invariant.
THEOREM InitEstablishes == Init => IInv
<1>. SUFFICES ASSUME Init PROVE IInv
  OBVIOUS
<1>. DEFINE Bare == /\ DOMAIN nodes \subseteq Blocks \cup {Root} /\ Root \in DOMAIN nodes
                    /\ nodes = [a \in DOMAIN nodes |-> nodes[a]]
                    /\ \A a \in DOMAIN nodes :
                         IsNode(nodes[a]) /\ Sized(nodes[a]) /\ nodes[a].data = NULL
<1>1. Bare
  <2>1. CASE nodes = [a \in {Root} |-> Node("DIRECTORY", "/", Root)]
    BY <2>1, NewNode
  <2>2. ASSUME NEW b \in Blocks, NEW x \in Blocks \ {b}, NEW d \in Devices,
               nodes = DeviceTree(b, x, d)
        PROVE  Bare
    <3>1. /\ DOMAIN nodes = {Root, b, x} /\ nodes = [a \in {Root, b, x} |-> nodes[a]]
          /\ \A a \in {Root, b, x} :
               \E t, n, p, v : nodes[a] \in {Node(t, n, p), [Node(t, n, p) EXCEPT !.children = v]}
      BY <2>2 DEF DeviceTree
    <3>2. ASSUME NEW a \in {Root, b, x}
          PROVE  IsNode(nodes[a]) /\ Sized(nodes[a]) /\ nodes[a].data = NULL
      <4>1. PICK t, n, p, v :
              nodes[a] \in {Node(t, n, p), [Node(t, n, p) EXCEPT !.children = v]}
        BY <3>1
      <4>. DEFINE e == Node(t, n, p)
                  q == nodes[a]
      <4>2. IsNode(e) /\ Sized(e) /\ e.data = NULL
        BY NewNode
      <4>3. q = e \/ q = [e EXCEPT !.children = v]
        BY <4>1
      <4>. HIDE DEF e, q
      <4>4. IsNode(q) /\ Sized(q) /\ q.data = NULL
        BY <4>2, <4>3, ChildrenWritten
      <4>. QED
        BY <4>4 DEF q
    <3>3. DOMAIN nodes \subseteq Blocks \cup {Root} /\ Root \in DOMAIN nodes
      BY <3>1
    <3>4. nodes = [a \in DOMAIN nodes |-> nodes[a]]
      BY <3>1
    <3>. QED
      BY <3>1, <3>2, <3>3, <3>4
  <2>. HIDE DEF Bare
  <2>. QED
    BY <2>1, <2>2 DEF Init
<1>2. DOMAIN mem = {} /\ held = DOMAIN nodes /\ DOMAIN wrote = DOMAIN nodes
      /\ \A a \in DOMAIN nodes : DOMAIN wrote[a] = {}
  BY DEF Init
<1>3. Holding = {}
  BY <1>1 DEF Holding
<1>4. \A i \in Fds : IsFd(fds[i])
  BY DEF Init, IsFd
<1>5. fds = [i \in Fds |-> fds[i]]
  BY DEF Init
<1>6. Shape
  BY <1>1, <1>2, <1>4, <1>5 DEF Shape
<1>7. MemoryOwned
  BY <1>1, <1>2, <1>3 DEF MemoryOwned
<1>8. Contents
  BY <1>2 DEF Contents
<1>. QED
  BY <1>6, <1>7, <1>8 DEF IInv

-----------------------------------------------------------------------------
FdsShaped == fds = [i \in Fds |-> fds[i]] /\ \A i \in Fds : IsFd(fds[i])

\* A write to a descriptor.
LEMMA FdWritten ==
  ASSUME Shape, NEW i \in Fds, NEW d, IsFd(d), fds' = [fds EXCEPT ![i] = d]
  PROVE  FdsShaped'
BY DEF Shape, FdsShaped

LEMMA FdFields ==
  ASSUME NEW d, IsFd(d), NEW o \in Nat
  PROVE  /\ IsFd([d EXCEPT !.offset = o])
         /\ IsFd([d EXCEPT !.in_use = FALSE])
         /\ ~ d.in_use => [d EXCEPT !.in_use = FALSE] = d
<1>1. IsFd([d EXCEPT !.offset = o])
  BY DEF IsFd
<1>2. IsFd([d EXCEPT !.in_use = FALSE])
  BY DEF IsFd
<1>3. ~ d.in_use => [d EXCEPT !.in_use = FALSE] = d
  BY DEF IsFd
<1>. QED
  BY <1>1, <1>2, <1>3

\* Calls that leave nodes and memory alone.
LEMMA NothingStored ==
  ASSUME IInv, UNCHANGED <<nodes, mem, held, wrote>>, FdsShaped'
  PROVE  IInv'
BY DEF IInv, Shape, MemoryOwned, Holding, Contents, FdsShaped

\* The fields of the old nodes when the lists of children change.
SameFields(x) ==
  /\ IsNode(nodes'[x]) /\ Sized(nodes'[x])
  /\ nodes'[x].data = nodes[x].data /\ nodes'[x].cap = nodes[x].cap
  /\ nodes'[x].size = nodes[x].size

\* A node in a block that was free.
LEMMA GrownKeeps ==
  ASSUME IInv, NEW a \in Blocks \ held, NEW d, NEW n, NEW t,
         nodes' = Grown(a, d, n, t), held' = held \cup {a}, wrote' = Add(wrote, a, << >>),
         mem' = mem, FdsShaped'
  PROVE  IInv'
<1>. USE DEF IInv
<1>1. a \notin DOMAIN nodes /\ a \notin DOMAIN mem /\ a # Root
  BY DEF MemoryOwned, Shape
<1>2. /\ DOMAIN nodes' = DOMAIN nodes \cup {a}
      /\ nodes' = [x \in DOMAIN nodes' |-> nodes'[x]]
      /\ nodes'[a] = Node(t, Stored(n), d)
      /\ \A x \in DOMAIN nodes :
           nodes'[x] = IF x = d THEN [nodes[x] EXCEPT !.children = <<a>> \o nodes[x].children]
                       ELSE nodes[x]
  BY <1>1 DEF Grown, Add
<1>3. \A x \in DOMAIN nodes : SameFields(x)
  <2>. SUFFICES ASSUME NEW x \in DOMAIN nodes PROVE SameFields(x)
    OBVIOUS
  <2>1. IsNode(nodes[x]) /\ Sized(nodes[x])
    BY DEF Shape
  <2>2. CASE x = d
    <3>. DEFINE v == <<a>> \o nodes[x].children
    <3>1. nodes'[x] = [nodes[x] EXCEPT !.children = v]
      BY <1>2, <2>2
    <3>. HIDE DEF v
    <3>. QED
      BY <2>1, <3>1, ChildrenWritten DEF SameFields
  <2>3. CASE x # d
    BY <1>2, <2>1, <2>3 DEF SameFields
  <2>. QED
    BY <2>2, <2>3
<1>4. IsNode(nodes'[a]) /\ Sized(nodes'[a]) /\ nodes'[a].data = NULL
  BY <1>2, NewNode
<1>5. /\ DOMAIN wrote' = DOMAIN wrote \cup {a} /\ DOMAIN wrote'[a] = {}
      /\ \A x \in DOMAIN nodes : wrote'[x] = wrote[x]
  BY <1>1 DEF Add, Shape
<1>6. Holding' = Holding /\ \A x \in Holding : nodes'[x].data = nodes[x].data /\ nodes'[x].cap = nodes[x].cap
  BY <1>2, <1>3, <1>4 DEF Holding, SameFields
<1>7. Shape'
  BY <1>2, <1>3, <1>4, <1>5 DEF Shape, FdsShaped, SameFields
<1>8. MemoryOwned'
  BY <1>1, <1>2, <1>6 DEF MemoryOwned
<1>9. Contents'
  BY <1>2, <1>3, <1>5 DEF Contents, SameFields
<1>. QED
  BY <1>7, <1>8, <1>9

\* O_TRUNC, of whatever the path resolves to.
LEMMA TruncatedKeeps ==
  ASSUME IInv, NEW a, nodes' = [nodes EXCEPT ![a].size = 0], wrote' = [wrote EXCEPT ![a] = << >>],
         UNCHANGED <<mem, held>>, FdsShaped'
  PROVE  IInv'
<1>. USE DEF IInv
<1>1. /\ DOMAIN nodes' = DOMAIN nodes /\ nodes' = [x \in DOMAIN nodes' |-> nodes'[x]]
      /\ \A x \in DOMAIN nodes : nodes'[x] = IF x = a THEN [nodes[x] EXCEPT !.size = 0] ELSE nodes[x]
  BY DEF Shape
<1>2. \A x \in DOMAIN nodes : /\ IsNode(nodes'[x]) /\ Sized(nodes'[x])
                              /\ nodes'[x].data = nodes[x].data /\ nodes'[x].cap = nodes[x].cap
                              /\ x # a => nodes'[x].size = nodes[x].size
  <2>. SUFFICES ASSUME NEW x \in DOMAIN nodes
                PROVE  /\ IsNode(nodes'[x]) /\ Sized(nodes'[x])
                       /\ nodes'[x].data = nodes[x].data /\ nodes'[x].cap = nodes[x].cap
                       /\ x # a => nodes'[x].size = nodes[x].size
    OBVIOUS
  <2>1. IsNode(nodes[x]) /\ Sized(nodes[x])
    BY DEF Shape
  <2>2. CASE x = a
    BY <1>1, <2>1, <2>2, SizeCleared
  <2>3. CASE x # a
    BY <1>1, <2>1, <2>3
  <2>. QED
    BY <2>2, <2>3
<1>3. /\ DOMAIN wrote' = DOMAIN wrote
      /\ \A x \in DOMAIN nodes : wrote'[x] = IF x = a THEN << >> ELSE wrote[x]
  BY DEF Shape
<1>4. DOMAIN << >> = {}
  OBVIOUS
<1>5. Holding' = Holding /\ \A x \in Holding : nodes'[x].data = nodes[x].data /\ nodes'[x].cap = nodes[x].cap
  BY <1>1, <1>2 DEF Holding
<1>6. Shape'
  BY <1>1, <1>2, <1>3 DEF Shape, FdsShaped
<1>7. MemoryOwned'
  BY <1>1, <1>5 DEF MemoryOwned
<1>8. Contents'
  BY <1>1, <1>2, <1>3, <1>4 DEF Contents
<1>. QED
  BY <1>6, <1>7, <1>8

\* vfs_remove gives back the node and its data.
LEMMA UnlinkKeeps ==
  ASSUME IInv, NEW a \in DOMAIN nodes, a # Root, Unlink(a, {a, nodes[a].data}), FdsShaped'
  PROVE  IInv'
<1>. USE DEF IInv
<1>. DEFINE p == nodes[a].parent
            b == nodes[a].data
<1>1. /\ DOMAIN nodes' = DOMAIN nodes \ {a} /\ nodes' = [x \in DOMAIN nodes' |-> nodes'[x]]
      /\ \A x \in DOMAIN nodes \ {a} :
           nodes'[x] = IF x = p THEN [nodes[x] EXCEPT !.children = RemoveFirst(nodes[x].children, a)]
                       ELSE nodes[x]
  BY DEF Unlink, Drop
<1>2. \A x \in DOMAIN nodes \ {a} : SameFields(x)
  <2>. SUFFICES ASSUME NEW x \in DOMAIN nodes \ {a} PROVE SameFields(x)
    OBVIOUS
  <2>1. IsNode(nodes[x]) /\ Sized(nodes[x])
    BY DEF Shape
  <2>2. CASE x = p
    BY <1>1, <2>1, <2>2, ChildrenWritten DEF SameFields
  <2>3. CASE x # p
    BY <1>1, <2>1, <2>3 DEF SameFields
  <2>. QED
    BY <2>2, <2>3
<1>3. /\ DOMAIN wrote' = DOMAIN wrote \ {a} /\ \A x \in DOMAIN nodes \ {a} : wrote'[x] = wrote[x]
      /\ DOMAIN mem' = DOMAIN mem \ {b} /\ \A k \in DOMAIN mem \ {b} : mem'[k] = mem[k]
      /\ held' = held \ {a, b}
  BY DEF Unlink, Drop, Shape
<1>4. Holding' = Holding \ {a}
      /\ \A x \in Holding \ {a} : nodes'[x].data = nodes[x].data /\ nodes'[x].cap = nodes[x].cap
                                  /\ nodes[x].data # b
  BY <1>1, <1>2 DEF Holding, SameFields, MemoryOwned
<1>5. Shape'
  BY <1>1, <1>2, <1>3 DEF Shape, FdsShaped, SameFields
<1>6. b \notin DOMAIN nodes /\ a \notin DOMAIN mem /\ NULL \notin DOMAIN mem
  BY VfsAssumption DEF MemoryOwned, Holding, Shape, Sized
<1>7. MemoryOwned'
  BY <1>1, <1>3, <1>4, <1>6 DEF MemoryOwned, Holding
<1>8. Contents'
  <2>. SUFFICES ASSUME NEW x \in DOMAIN nodes \ {a}, NEW o \in DOMAIN wrote[x]
                PROVE  mem'[nodes[x].data][o] = wrote[x][o]
    BY <1>1, <1>2, <1>3 DEF Contents, SameFields
  <2>1. o \in Nat /\ o < nodes[x].size /\ mem[nodes[x].data][o] = wrote[x][o]
    BY DEF Contents
  <2>2. nodes[x].data # NULL
    BY <2>1 DEF Shape, Sized
  <2>3. x \in Holding \ {a}
    BY <2>2 DEF Holding
  <2>4. nodes[x].data \in DOMAIN mem \ {b}
    BY <1>4, <2>3 DEF MemoryOwned
  <2>. QED
    BY <1>3, <2>1, <2>4
<1>. QED
  BY <1>5, <1>7, <1>8

\* A file whose z bytes are in block b, of capacity c.
FileWith(r, b, c, z) ==
  [type |-> r.type, name |-> r.name, parent |-> r.parent, children |-> r.children,
   size |-> z, data |-> b, cap |-> c]

LEMMA FieldsWritten ==
  ASSUME NEW r, IsNode(r), NEW b, NEW c, NEW z,
         NEW x, x = [r EXCEPT !.data = b], NEW y, y = [x EXCEPT !.cap = c],
         NEW q, q = [y EXCEPT !.size = z]
  PROVE  q = FileWith(r, b, c, z)
<1>1. PICK t, n, p, l, s, d, m :
        r = [type |-> t, name |-> n, parent |-> p, children |-> l, size |-> s, data |-> d, cap |-> m]
  BY DEF IsNode
<1>2. FileWith(r, b, c, z)
        = [type |-> t, name |-> n, parent |-> p, children |-> l, size |-> z, data |-> b, cap |-> c]
  BY <1>1 DEF FileWith
<1>. DEFINE R(size, data, cap) == [type |-> t, name |-> n, parent |-> p, children |-> l,
                                   size |-> size, data |-> data, cap |-> cap]
<1>3. x = R(s, b, m)
  BY <1>1
<1>4. y = R(s, b, c)
  <2>1. y = [R(s, b, m) EXCEPT !.cap = c]
    BY <1>3, Zenon
  <2>2. [R(s, b, m) EXCEPT !.cap = c] = R(s, b, c)
    OBVIOUS
  <2>. QED
    BY <2>1, <2>2, Zenon
<1>5. q = R(z, b, c)
  <2>1. q = [R(s, b, c) EXCEPT !.size = z]
    BY <1>4, Zenon
  <2>2. [R(s, b, c) EXCEPT !.size = z] = R(z, b, c)
    OBVIOUS
  <2>. QED
    BY <2>1, <2>2, Zenon
<1>. QED
  BY <1>2, <1>5

LEMMA FileWritten ==
  ASSUME Shape, NEW a \in DOMAIN nodes, NEW b, NEW c, NEW e,
         nodes' = [nodes EXCEPT ![a].data = b, ![a].cap = c, ![a].size = IF e > @ THEN e ELSE @]
  PROVE  /\ DOMAIN nodes' = DOMAIN nodes /\ nodes' = [x \in DOMAIN nodes' |-> nodes'[x]]
         /\ \A x \in DOMAIN nodes \ {a} : nodes'[x] = nodes[x]
         /\ nodes'[a] = FileWith(nodes[a], b, c, IF e > nodes[a].size THEN e ELSE nodes[a].size)
<1>. DEFINE r == nodes[a]
            z == IF e > r.size THEN e ELSE r.size
            x == [r EXCEPT !.data = b]
            y == [x EXCEPT !.cap = c]
            q == [y EXCEPT !.size = z]
<1>1. nodes'[a] = q
  OBVIOUS
<1>2. IsNode(r)
  BY DEF Shape
<1>3. nodes'[a] = FileWith(r, b, c, z)
  <2>1. x = [r EXCEPT !.data = b]
    OBVIOUS
  <2>2. y = [x EXCEPT !.cap = c]
    OBVIOUS
  <2>3. q = [y EXCEPT !.size = z]
    OBVIOUS
  <2>. HIDE DEF r, z, x, y, q
  <2>4. q = FileWith(r, b, c, z)
    BY ONLY <1>2, <2>1, <2>2, <2>3, FieldsWritten
  <2>. QED
    BY ONLY <1>1, <2>4
<1>4. /\ DOMAIN nodes' = DOMAIN nodes /\ nodes' = [k \in DOMAIN nodes' |-> nodes'[k]]
      /\ \A k \in DOMAIN nodes \ {a} : nodes'[k] = nodes[k]
  BY DEF Shape
<1>. QED
  BY <1>3, <1>4

LEMMA FileFields ==
  ASSUME NEW r, NEW b \in Blocks, NEW c \in Nat, NEW z \in Nat, z <= c,
         NEW q, q = FileWith(r, b, c, z)
  PROVE  IsNode(q) /\ Sized(q) /\ q.data = b /\ q.cap = c /\ q.size = z
<1>1. /\ q.type = r.type /\ q.name = r.name /\ q.parent = r.parent /\ q.children = r.children
      /\ q.size = z /\ q.data = b /\ q.cap = c
  BY DEF FileWith
<1>2. FileWith(q, q.data, q.cap, q.size) = FileWith(r, b, c, z)
  BY <1>1 DEF FileWith
<1>3. IsNode(q)
  BY <1>2 DEF IsNode, FileWith
<1>4. b # NULL
  BY VfsAssumption
<1>. QED
  BY <1>1, <1>3, <1>4 DEF Sized

\* What a write finds.
LEMMA WriteFinds ==
  ASSUME IInv, NEW i \in Fds, NEW s \in Sizes, Works(i)
  PROVE  /\ fds[i].node \in DOMAIN nodes /\ File(i) = nodes[fds[i].node]
         /\ IsNode(File(i)) /\ Sized(File(i)) /\ IsFd(fds[i])
         /\ fds[i].offset \in Nat /\ s \in Nat /\ s > 0
         /\ End(i, s) \in Nat /\ End(i, s) = fds[i].offset + s /\ End(i, s) > 0
<1>1. IsFd(fds[i]) /\ fds[i].node \in DOMAIN nodes
  BY DEF IInv, Shape, Works, Live
<1>2. fds[i].offset \in Nat
  BY <1>1 DEF IsFd
<1>. QED
  BY <1>1, <1>2, VfsAssumption DEF IInv, Shape, File, End

\* A write the file's block has room for.
LEMMA InPlaceKeeps ==
  ASSUME IInv, NEW i \in Fds, NEW s \in Sizes, NEW v, WriteInPlace(i, s, v)
  PROVE  IInv'
<1>. DEFINE a == fds[i].node
            o == fds[i].offset
            b == nodes[a].data
            new == o .. (o + s - 1)
<1>1. /\ a \in DOMAIN nodes /\ IsNode(nodes[a]) /\ Sized(nodes[a]) /\ IsFd(fds[i])
      /\ o \in Nat /\ s \in Nat /\ s > 0 /\ File(i) = nodes[a]
      /\ End(i, s) = o + s /\ o + s <= nodes[a].cap
  BY WriteFinds DEF WriteInPlace, Fits
<1>2. b \in Blocks /\ a \in Holding /\ b \in DOMAIN mem /\ DOMAIN mem[b] = 0 .. (nodes[a].cap - 1)
  <2>1. b # NULL
    BY <1>1 DEF Sized
  <2>2. a \in Holding
    BY <1>1, <2>1 DEF Holding
  <2>. QED
    BY <1>1, <2>1, <2>2 DEF Sized, IInv, MemoryOwned
<1>3. /\ mem' = [mem EXCEPT ![b] = Put(@, o, s, v)]
      /\ nodes' = [nodes EXCEPT ![a].data = b, ![a].cap = nodes[a].cap,
                                ![a].size = IF o + s > @ THEN o + s ELSE @]
      /\ wrote' = [wrote EXCEPT ![a] = Put(@, o, s, v)]
      /\ fds' = [fds EXCEPT ![i].offset = o + s]
      /\ held' = held
  BY <1>1 DEF WriteInPlace, Wrote
<1>4. /\ DOMAIN nodes' = DOMAIN nodes /\ nodes' = [x \in DOMAIN nodes' |-> nodes'[x]]
      /\ \A x \in DOMAIN nodes \ {a} : nodes'[x] = nodes[x]
      /\ nodes'[a] = FileWith(nodes[a], b, nodes[a].cap,
                              IF o + s > nodes[a].size THEN o + s ELSE nodes[a].size)
  <2>1. o + s \in Nat /\ Shape
    BY <1>1 DEF IInv
  <2>2. a \in DOMAIN nodes
    BY <1>1
  <2>3. nodes' = [nodes EXCEPT ![a].data = b, ![a].cap = nodes[a].cap,
                               ![a].size = IF o + s > @ THEN o + s ELSE @]
    BY <1>3
  <2>. HIDE DEF a, b, o
  <2>. QED
    BY ZenonT(60), <2>1, <2>2, <2>3, FileWritten
<1>5. /\ IsNode(nodes'[a]) /\ Sized(nodes'[a]) /\ nodes'[a].data = b /\ nodes'[a].cap = nodes[a].cap
      /\ nodes'[a].size >= o + s /\ nodes'[a].size >= nodes[a].size
  <2>. DEFINE z == IF o + s > nodes[a].size THEN o + s ELSE nodes[a].size
              q == nodes'[a]
  <2>1. q = FileWith(nodes[a], b, nodes[a].cap, z)
    BY <1>4
  <2>2. nodes[a].cap \in Nat /\ z \in Nat /\ z <= nodes[a].cap /\ z >= o + s /\ z >= nodes[a].size
    BY <1>1 DEF Sized
  <2>. HIDE DEF z, q
  <2>3. IsNode(q) /\ Sized(q) /\ q.data = b /\ q.cap = nodes[a].cap /\ q.size = z
    <3>. HIDE DEF a, b
    <3>. QED
      BY <1>2, <2>1, <2>2, FileFields
  <2>. QED
    BY <2>2, <2>3 DEF q
<1>6. FdsShaped'
  <2>1. o + s \in Nat
    BY <1>1
  <2>2. IsFd([fds[i] EXCEPT !.offset = o + s])
    BY <1>1, <2>1, FdFields
  <2>. QED
    BY <1>3, <2>2, FdWritten DEF IInv
<1>7. Shape'
  BY <1>3, <1>4, <1>5, <1>6 DEF IInv, Shape, FdsShaped
<1>8. /\ DOMAIN mem' = DOMAIN mem
      /\ \A k \in DOMAIN mem \ {b} : mem'[k] = mem[k]
      /\ DOMAIN mem'[b] = DOMAIN mem[b]
      /\ \A k \in DOMAIN mem[b] : mem'[b][k] = IF k \in new THEN v ELSE mem[b][k]
  <2>1. mem'[b] = Put(mem[b], o, s, v)
    BY <1>2, <1>3
  <2>2. new \subseteq DOMAIN mem[b]
    BY <1>1, <1>2 DEF Sized
  <2>. QED
    BY <1>3, <2>1, <2>2 DEF Put
<1>9. Holding' = Holding /\ \A x \in Holding : nodes'[x].data = nodes[x].data /\ nodes'[x].cap = nodes[x].cap
  BY <1>2, <1>4, <1>5 DEF Holding
<1>10. MemoryOwned'
  <2>1. ASSUME NEW x \in Holding PROVE DOMAIN mem'[nodes'[x].data] = 0 .. (nodes'[x].cap - 1)
    <3>1. nodes[x].data \in DOMAIN mem /\ DOMAIN mem[nodes[x].data] = 0 .. (nodes[x].cap - 1)
      BY DEF IInv, MemoryOwned
    <3>2. DOMAIN mem'[nodes[x].data] = DOMAIN mem[nodes[x].data]
      BY <3>1, <1>8
    <3>. QED
      BY <3>1, <3>2, <1>9
  <2>2. {nodes'[x].data : x \in Holding'} = {nodes[x].data : x \in Holding}
    BY <1>9
  <2>3. \A x, y \in Holding' : nodes'[x].data = nodes'[y].data => x = y
    BY <1>9 DEF IInv, MemoryOwned
  <2>4. held' = DOMAIN nodes' \cup {nodes'[x].data : x \in Holding'}
        /\ DOMAIN mem' = {nodes'[x].data : x \in Holding'}
        /\ DOMAIN mem' \cap DOMAIN nodes' = {}
    BY <1>3, <1>4, <1>8, <2>2 DEF IInv, MemoryOwned
  <2>. QED
    BY <1>9, <2>1, <2>3, <2>4 DEF MemoryOwned
<1>11. Contents'
  <2>1. /\ DOMAIN wrote'[a] = DOMAIN wrote[a] \cup new
        /\ \A k \in DOMAIN wrote'[a] : wrote'[a][k] = IF k \in new THEN v ELSE wrote[a][k]
        /\ \A x \in DOMAIN nodes \ {a} : wrote'[x] = wrote[x]
    BY <1>1, <1>3 DEF IInv, Shape, Put
  <2>2. ASSUME NEW k \in DOMAIN wrote'[a]
        PROVE  k \in Nat /\ k < nodes'[a].size /\ mem'[b][k] = wrote'[a][k]
    <3>1. CASE k \in new
      <4>1. k \in Nat /\ k < o + s /\ k \in DOMAIN mem[b]
        BY <3>1, <1>1, <1>2 DEF Sized
      <4>2. mem'[b][k] = v /\ wrote'[a][k] = v
        BY ONLY <1>8, <2>1, <3>1, <4>1, k \in DOMAIN wrote'[a]
      <4>3. k < nodes'[a].size
        BY <4>1, <1>1, <1>5 DEF Sized
      <4>. QED
        BY <3>1, <4>1, <4>2, <4>3
    <3>2. CASE k \notin new
      <4>1. k \in DOMAIN wrote[a]
        BY <2>1, <3>2
      <4>2. k \in Nat /\ k < nodes[a].size /\ mem[b][k] = wrote[a][k]
        BY <4>1, <1>1 DEF IInv, Contents
      <4>3. k \in DOMAIN mem[b]
        BY <4>2, <1>1, <1>2 DEF Sized
      <4>4. mem'[b][k] = mem[b][k] /\ wrote'[a][k] = wrote[a][k]
        BY ONLY <1>8, <2>1, <3>2, <4>1, <4>3, k \in DOMAIN wrote'[a]
      <4>5. k < nodes'[a].size
        BY <4>2, <1>1, <1>5 DEF Sized
      <4>. QED
        BY <3>2, <4>2, <4>3, <4>4, <4>5
    <3>. QED
      BY <3>1, <3>2
  <2>3. ASSUME NEW x \in DOMAIN nodes \ {a}, NEW k \in DOMAIN wrote[x]
        PROVE  k \in Nat /\ k < nodes[x].size /\ mem'[nodes[x].data][k] = wrote[x][k]
    <3>1. k \in Nat /\ k < nodes[x].size /\ mem[nodes[x].data][k] = wrote[x][k]
      BY DEF IInv, Contents
    <3>2. x \in Holding
      BY <3>1 DEF IInv, Shape, Sized, Holding
    <3>3. nodes[x].data \in DOMAIN mem \ {b}
      BY <3>2, <1>2 DEF IInv, MemoryOwned
    <3>. QED
      BY <3>1, <3>3, <1>8
  <2>4. ASSUME NEW x \in DOMAIN nodes', NEW k \in DOMAIN wrote'[x]
        PROVE  k \in Nat /\ k < nodes'[x].size /\ mem'[nodes'[x].data][k] = wrote'[x][k]
    <3>1. CASE x = a
      BY <1>5, <2>2, <3>1
    <3>2. CASE x # a
      BY <1>4, <2>1, <2>3, <3>2
    <3>. QED
      BY <3>1, <3>2
  <2>. QED
    BY <2>4 DEF Contents
<1>. QED
  BY <1>7, <1>10, <1>11 DEF IInv

\* A file that moves to a bigger block.
LEMMA GrowsKeeps ==
  ASSUME IInv, NEW i \in Fds, NEW s \in Sizes, NEW v, WriteGrows(i, s, v)
  PROVE  IInv'
<1>. DEFINE a == fds[i].node
            o == fds[i].offset
            d == nodes[a].data
            c == NewCap(o + s)
            new == o .. (o + s - 1)
<1>1. /\ a \in DOMAIN nodes /\ IsNode(nodes[a]) /\ Sized(nodes[a]) /\ IsFd(fds[i])
      /\ o \in Nat /\ s \in Nat /\ s > 0 /\ File(i) = nodes[a]
      /\ End(i, s) = o + s /\ ~ (o + s <= nodes[a].cap)
  BY WriteFinds DEF WriteGrows, Fits
<1>2. /\ c \in Nat /\ o + s <= c /\ nodes[a].size < c /\ nodes[a].size \in Nat
      /\ new \subseteq 0 .. (c - 1)
  BY <1>1, VfsAssumption DEF NewCap, Sized
<1>3. PICK b \in Blocks \ held :
        /\ mem' = Add(Drop(mem, d), b, Put(Moved(i, c), o, s, v))
        /\ held' = (held \ {d}) \cup {b}
        /\ nodes' = [nodes EXCEPT ![a].data = b, ![a].cap = c,
                                  ![a].size = IF o + s > @ THEN o + s ELSE @]
        /\ wrote' = [wrote EXCEPT ![a] = Put(@, o, s, v)]
        /\ fds' = [fds EXCEPT ![i].offset = o + s]
  BY <1>1 DEF WriteGrows, Wrote
<1>4. /\ DOMAIN nodes' = DOMAIN nodes /\ nodes' = [x \in DOMAIN nodes' |-> nodes'[x]]
      /\ \A x \in DOMAIN nodes \ {a} : nodes'[x] = nodes[x]
      /\ nodes'[a] = FileWith(nodes[a], b, c,
                              IF o + s > nodes[a].size THEN o + s ELSE nodes[a].size)
  <2>1. a \in DOMAIN nodes /\ Shape
    BY <1>1 DEF IInv
  <2>2. nodes' = [nodes EXCEPT ![a].data = b, ![a].cap = c,
                               ![a].size = IF o + s > @ THEN o + s ELSE @]
    BY <1>3
  <2>. HIDE DEF a, o, c
  <2>. QED
    BY ZenonT(60), <2>1, <2>2, FileWritten
<1>5. /\ IsNode(nodes'[a]) /\ Sized(nodes'[a]) /\ nodes'[a].data = b /\ nodes'[a].cap = c
      /\ nodes'[a].size >= o + s /\ nodes'[a].size >= nodes[a].size
  <2>. DEFINE z == IF o + s > nodes[a].size THEN o + s ELSE nodes[a].size
              q == nodes'[a]
  <2>1. q = FileWith(nodes[a], b, c, z)
    BY <1>4
  <2>2. c \in Nat /\ z \in Nat /\ z <= c /\ z >= o + s /\ z >= nodes[a].size
    BY <1>1, <1>2
  <2>. HIDE DEF z, q, c
  <2>3. IsNode(q) /\ Sized(q) /\ q.data = b /\ q.cap = c /\ q.size = z
    <3>. HIDE DEF a
    <3>. QED
      BY <1>3, <2>1, <2>2, FileFields
  <2>. QED
    BY <2>2, <2>3 DEF q
<1>6. FdsShaped'
  <2>1. o + s \in Nat
    BY <1>1
  <2>2. IsFd([fds[i] EXCEPT !.offset = o + s])
    BY <1>1, <2>1, FdFields
  <2>. QED
    BY <1>3, <2>2, FdWritten DEF IInv
<1>. HIDE DEF c
<1>7. Shape'
  BY <1>3, <1>4, <1>5, <1>6 DEF IInv, Shape, FdsShaped
<1>8. b \notin DOMAIN nodes /\ b \notin DOMAIN mem /\ b # NULL /\ d # b
      /\ d \notin DOMAIN nodes /\ (d # NULL => a \in Holding)
      /\ \A x \in Holding \ {a} : nodes[x].data # d /\ nodes[x].data # b
  <2>1. b \notin DOMAIN nodes /\ b \notin DOMAIN mem /\ b # NULL
    BY VfsAssumption DEF IInv, MemoryOwned
  <2>2. d # NULL => a \in Holding
    BY <1>1 DEF Holding
  <2>3. NULL \notin DOMAIN nodes
    BY VfsAssumption DEF IInv, Shape
  <2>4. d \notin DOMAIN nodes /\ d # b
    BY <2>1, <2>2, <2>3 DEF IInv, MemoryOwned
  <2>5. \A x \in Holding \ {a} : nodes[x].data # d /\ nodes[x].data # b
    <3>. SUFFICES ASSUME NEW x \in Holding \ {a} PROVE nodes[x].data # d /\ nodes[x].data # b
      OBVIOUS
    <3>1. nodes[x].data # NULL
      BY DEF Holding
    <3>. QED
      BY <2>1, <2>2, <3>1 DEF IInv, MemoryOwned
  <2>. QED
    BY <2>1, <2>2, <2>4, <2>5
<1>9. /\ DOMAIN mem' = (DOMAIN mem \ {d}) \cup {b}
      /\ \A k \in DOMAIN mem \ {d} : mem'[k] = mem[k]
      /\ DOMAIN mem'[b] = 0 .. (c - 1)
      /\ \A k \in 0 .. (c - 1) :
           mem'[b][k] = IF k \in new THEN v
                        ELSE IF k < nodes[a].size THEN mem[d][k] ELSE JUNK
  <2>1. mem'[b] = Put(Moved(i, c), o, s, v)
    BY <1>3 DEF Add
  <2>2. /\ DOMAIN mem' = (DOMAIN mem \ {d}) \cup {b}
        /\ \A k \in DOMAIN mem \ {d} : mem'[k] = mem[k]
    BY <1>3, <1>8 DEF Add, Drop
  <2>3. /\ DOMAIN Moved(i, c) = 0 .. (c - 1)
        /\ \A k \in 0 .. (c - 1) :
             Moved(i, c)[k] = IF k < nodes[a].size THEN mem[d][k] ELSE JUNK
    BY <1>1 DEF Moved
  <2>4. /\ DOMAIN mem'[b] = 0 .. (c - 1)
        /\ \A k \in 0 .. (c - 1) : mem'[b][k] = IF k \in new THEN v ELSE Moved(i, c)[k]
    BY <1>2, <2>1, <2>3 DEF Put
  <2>. QED
    BY SMTT(30), <2>2, <2>3, <2>4
<1>10. /\ Holding' = Holding \cup {a}
       /\ \A x \in Holding \ {a} : nodes'[x].data = nodes[x].data /\ nodes'[x].cap = nodes[x].cap
  BY ZenonT(60), <1>1, <1>4, <1>5, <1>8 DEF Holding
<1>11. MemoryOwned'
  <2>1. {nodes'[x].data : x \in Holding'} = ({nodes[x].data : x \in Holding} \ {d}) \cup {b}
    <3>1. ASSUME NEW x \in Holding'
          PROVE  nodes'[x].data \in ({nodes[y].data : y \in Holding} \ {d}) \cup {b}
      BY <1>5, <1>8, <1>10
    <3>2. ASSUME NEW x \in Holding, nodes[x].data # d
          PROVE  nodes[x].data \in {nodes'[y].data : y \in Holding'}
      BY <3>2, <1>10
    <3>3. b \in {nodes'[y].data : y \in Holding'}
      BY <1>5, <1>10
    <3>. QED
      BY <3>1, <3>2, <3>3
  <2>2. ASSUME NEW x \in Holding', NEW y \in Holding', nodes'[x].data = nodes'[y].data
        PROVE  x = y
    <3>1. x \in Holding \ {a} \/ x = a
      BY <1>10
    <3>2. y \in Holding \ {a} \/ y = a
      BY <1>10
    <3>. QED
      BY SMTT(30), <2>2, <3>1, <3>2, <1>5, <1>8, <1>10 DEF IInv, MemoryOwned
  <2>3. ASSUME NEW x \in Holding' PROVE DOMAIN mem'[nodes'[x].data] = 0 .. (nodes'[x].cap - 1)
    <3>1. CASE x = a
      BY <3>1, <1>5, <1>9
    <3>2. CASE x # a
      <4>1. x \in Holding \ {a}
        BY <3>2, <1>10
      <4>2. nodes[x].data \in DOMAIN mem \ {d} /\ DOMAIN mem[nodes[x].data] = 0 .. (nodes[x].cap - 1)
        BY <4>1, <1>8 DEF IInv, MemoryOwned
      <4>. QED
        BY <4>1, <4>2, <1>9, <1>10
    <3>. QED
      BY <3>1, <3>2
  <2>4. /\ held' = DOMAIN nodes' \cup {nodes'[x].data : x \in Holding'}
        /\ DOMAIN mem' = {nodes'[x].data : x \in Holding'}
        /\ DOMAIN mem' \cap DOMAIN nodes' = {}
    <3>. DEFINE H == {nodes[x].data : x \in Holding}
                I == {nodes'[x].data : x \in Holding'}
    <3>1. held = DOMAIN nodes \cup H /\ DOMAIN mem = H /\ DOMAIN mem \cap DOMAIN nodes = {}
      BY DEF IInv, MemoryOwned
    <3>2. /\ I = (H \ {d}) \cup {b} /\ held' = (held \ {d}) \cup {b}
          /\ DOMAIN nodes' = DOMAIN nodes /\ DOMAIN mem' = (DOMAIN mem \ {d}) \cup {b}
          /\ d \notin DOMAIN nodes /\ b \notin DOMAIN nodes
      BY <1>3, <1>4, <1>8, <1>9, <2>1
    <3>. HIDE DEF H, I, d
    <3>3. held' = DOMAIN nodes' \cup I /\ DOMAIN mem' = I /\ DOMAIN mem' \cap DOMAIN nodes' = {}
      BY <3>1, <3>2
    <3>. QED
      BY <3>3 DEF I
  <2>. QED
    BY <2>2, <2>3, <2>4 DEF MemoryOwned
<1>12. Contents'
  <2>1. /\ DOMAIN wrote'[a] = DOMAIN wrote[a] \cup new
        /\ \A k \in DOMAIN wrote'[a] : wrote'[a][k] = IF k \in new THEN v ELSE wrote[a][k]
        /\ \A x \in DOMAIN nodes \ {a} : wrote'[x] = wrote[x]
    BY <1>1, <1>3 DEF IInv, Shape, Put
  <2>2. ASSUME NEW k \in DOMAIN wrote'[a]
        PROVE  k \in Nat /\ k < nodes'[a].size /\ mem'[b][k] = wrote'[a][k]
    <3>1. CASE k \in new
      <4>1. k \in Nat /\ k < o + s /\ k \in 0 .. (c - 1)
        BY <3>1, <1>1, <1>2
      <4>2. mem'[b][k] = wrote'[a][k]
        BY <3>1, <4>1, <1>9, <2>1
      <4>. QED
        BY <4>1, <4>2, <1>1, <1>5 DEF Sized
    <3>2. CASE k \notin new
      <4>1. k \in DOMAIN wrote[a]
        BY <2>1, <3>2
      <4>2. k \in Nat /\ k < nodes[a].size /\ mem[d][k] = wrote[a][k]
        BY <4>1, <1>1 DEF IInv, Contents
      <4>3. k \in 0 .. (c - 1)
        BY <4>2, <1>2
      <4>4. mem'[b][k] = wrote'[a][k]
        BY <3>2, <4>2, <4>3, <1>9, <2>1
      <4>. QED
        BY <4>2, <4>4, <1>2, <1>5 DEF Sized
    <3>. QED
      BY <3>1, <3>2
  <2>3. ASSUME NEW x \in DOMAIN nodes \ {a}, NEW k \in DOMAIN wrote[x]
        PROVE  k \in Nat /\ k < nodes[x].size /\ mem'[nodes[x].data][k] = wrote[x][k]
    <3>1. k \in Nat /\ k < nodes[x].size /\ mem[nodes[x].data][k] = wrote[x][k]
      BY DEF IInv, Contents
    <3>2. x \in Holding
      BY <3>1 DEF IInv, Shape, Sized, Holding
    <3>3. nodes[x].data \in DOMAIN mem \ {d}
      BY <3>2, <1>8 DEF IInv, MemoryOwned
    <3>. QED
      BY <3>1, <3>3, <1>9
  <2>4. ASSUME NEW x \in DOMAIN nodes', NEW k \in DOMAIN wrote'[x]
        PROVE  k \in Nat /\ k < nodes'[x].size /\ mem'[nodes'[x].data][k] = wrote'[x][k]
    <3>1. CASE x = a
      BY <1>5, <2>2, <3>1
    <3>2. CASE x # a
      BY <1>4, <2>1, <2>3, <3>2
    <3>. QED
      BY <3>1, <3>2
  <2>. QED
    BY <2>4 DEF Contents
<1>. QED
  BY <1>7, <1>11, <1>12 DEF IInv

-----------------------------------------------------------------------------
\* A call that leaves the descriptors alone.
LEMMA FdsKept ==
  ASSUME IInv, UNCHANGED fds
  PROVE  FdsShaped'
BY DEF IInv, Shape, FdsShaped, IsFd

LEMMA TreeCallKeeps ==
  ASSUME IInv, TreeCall
  PROVE  IInv'
<1>1. PICK a \in Blocks \cup {Root} :
        \/ \E n \in Names, t \in {"FILE", "DIRECTORY"} : VfsCreate(a, n, t)
        \/ VfsRemove(a)
        \/ VfsSetCwd(a)
  BY DEF TreeCall
<1>2. FdsShaped'
  BY <1>1, FdsKept DEF VfsCreate, VfsRemove, VfsSetCwd
<1>3. ASSUME NEW n \in Names, NEW t \in {"FILE", "DIRECTORY"}, VfsCreate(a, n, t) PROVE IInv'
  <2>1. CASE UNCHANGED <<nodes, held, wrote>>
    BY <1>2, <1>3, <2>1, NothingStored DEF VfsCreate
  <2>2. CASE \E x \in Blocks \ held :
               nodes' = Grown(x, a, n, t) /\ held' = held \cup {x} /\ wrote' = Add(wrote, x, << >>)
    BY <1>2, <1>3, <2>2, GrownKeeps DEF VfsCreate
  <2>. QED
    BY <1>3, <2>1, <2>2 DEF VfsCreate
<1>4. ASSUME VfsRemove(a) PROVE IInv'
  <2>1. CASE Refuse
    BY <1>2, <2>1, NothingStored DEF Refuse
  <2>2. CASE a # Root /\ Unlink(a, {a, nodes[a].data})
    BY <1>2, <1>4, <2>2, UnlinkKeeps DEF VfsRemove, Live
  <2>. QED
    BY <1>4, <2>1, <2>2 DEF VfsRemove
<1>5. ASSUME VfsSetCwd(a) PROVE IInv'
  BY <1>2, <1>5, NothingStored DEF VfsSetCwd
<1>. QED
  BY <1>1, <1>3, <1>4, <1>5

\* The descriptor vfs_open fills in; which one it is does not matter.
LEMMA FdTaken ==
  ASSUME IInv, NEW a, NEW ns, NEW ws, NEW flags, TakeFd(a, ns, ws, flags), ns[a].size \in Nat
  PROVE  FdsShaped'
<1>. DEFINE free == {i \in Fds : ~ fds[i].in_use}
            d == [node |-> a, in_use |-> TRUE,
                  offset |-> IF "APPEND" \in flags THEN ns[a].size ELSE 0]
<1>1. CASE UNCHANGED fds
  BY <1>1, FdsKept
<1>2. CASE fds' = [fds EXCEPT ![Min(free)] = d]
  <2>. DEFINE m == Min(free)
  <2>1. IsFd(d)
    BY DEF IsFd
  <2>. HIDE DEF m, d
  <2>2. CASE m \in Fds
    BY <1>2, <2>1, <2>2, FdWritten DEF IInv, m, d
  <2>3. CASE m \notin Fds
    <3>1. UNCHANGED fds
      BY <1>2, <2>3 DEF IInv, Shape, m
    <3>. QED
      BY <3>1, FdsKept
  <2>. QED
    BY <2>2, <2>3
<1>. QED
  BY <1>1, <1>2 DEF TakeFd

LEMMA OpenCallKeeps ==
  ASSUME IInv, OpenCall
  PROVE  IInv'
<1>1. PICK p \in Paths, flags \in FlagSets : VfsOpen(p, flags)
  BY DEF OpenCall
<1>2. CASE OpenDangling(p, flags) \/ OpenMissing(p, flags)
  BY <1>2, FdsKept, NothingStored DEF OpenDangling, OpenMissing, Undefined
<1>3. CASE OpenNode(p, flags)
  <2>. DEFINE a == Resolve(p)
  <2>1. a \in DOMAIN nodes /\ TakeFd(a, nodes, wrote, flags) /\ UNCHANGED <<mem, held>>
    BY <1>3 DEF OpenNode, Dangles, Live, TakeFd
  <2>2. FdsShaped'
    <3>1. nodes[a].size \in Nat
      BY <2>1 DEF IInv, Shape, Sized
    <3>. HIDE DEF a
    <3>. QED
      BY <2>1, <3>1, FdTaken
  <2>. HIDE DEF a
  <2>3. CASE UNCHANGED <<nodes, wrote>>
    BY <2>1, <2>2, <2>3, NothingStored
  <2>4. CASE nodes' = [nodes EXCEPT ![a].size = 0] /\ wrote' = [wrote EXCEPT ![a] = << >>]
    BY <2>1, <2>2, <2>4, TruncatedKeeps
  <2>. QED
    BY <2>1, <2>3, <2>4 DEF TakeFd
<1>4. CASE OpenNew(p, flags)
  <2>. DEFINE d == Parent(p)
              n == Last(p.comps)
  <2>1. PICK a \in Blocks \ held :
          TakeFd(a, Grown(a, d, n, "FILE"), Add(wrote, a, << >>), flags) /\ held' = held \cup {a}
    BY <1>4 DEF OpenNew
  <2>. DEFINE ns == Grown(a, d, n, "FILE")
              ws == Add(wrote, a, << >>)
  <2>. HIDE DEF d, n
  <2>2. ns[a] = Node("FILE", Stored(n), d)
    BY DEF Grown, Add
  <2>3. IsNode(ns[a]) /\ Sized(ns[a]) /\ ns[a].size = 0
    BY <2>2, NewNode
  <2>4. FdsShaped'
    <3>1. ns[a].size \in Nat
      BY <2>3
    <3>. HIDE DEF ns, ws
    <3>. QED
      BY <2>1, <3>1, FdTaken DEF ns, ws
  <2>5. nodes' = ns /\ wrote' = ws
    <3>1. CASE nodes' = ns /\ wrote' = ws
      BY <3>1
    <3>2. CASE nodes' = [ns EXCEPT ![a].size = 0] /\ wrote' = [ws EXCEPT ![a] = << >>]
      <4>1. [ns[a] EXCEPT !.size = 0] = ns[a]
        BY <2>3, SizeCleared
      <4>2. ns = [x \in DOMAIN nodes \cup {a} |-> ns[x]]
        BY <2>1 DEF Grown, Add, IInv, Shape
      <4>3. ws[a] = << >> /\ ws = [x \in DOMAIN wrote \cup {a} |-> ws[x]]
        BY DEF Add
      <4>. HIDE DEF ns, ws
      <4>4. nodes' = ns
        BY <3>2, <4>1, <4>2
      <4>5. wrote' = ws
        BY <3>2, <4>3
      <4>. QED
        BY <4>4, <4>5
    <3>. QED
      BY <2>1, <3>1, <3>2 DEF TakeFd
  <2>. QED
    BY <2>1, <2>4, <2>5, GrownKeeps DEF TakeFd
<1>. QED
  BY <1>1, <1>2, <1>3, <1>4 DEF VfsOpen

LEMMA FdCallKeeps ==
  ASSUME IInv, FdCall
  PROVE  IInv'
<1>1. PICK i \in Fds :
        \/ VfsFdClose(i) \/ FdDangling(i) \/ FdRefused(i)
        \/ \E s \in Sizes : DeviceRead(i, s) \/ DeviceWrite(i, s)
        \/ \E s \in Sizes : VfsFdRead(i, s) \/ \E v \in Vals : VfsFdWrite(i, s, v)
  BY DEF FdCall
<1>2. IsFd(fds[i])
  BY DEF IInv, Shape
<1>3. ASSUME VfsFdClose(i) PROVE IInv'
  <2>1. IsFd([fds[i] EXCEPT !.in_use = FALSE])
    BY <1>2, FdFields
  <2>2. FdsShaped'
    BY <1>3, <2>1, FdWritten DEF IInv, VfsFdClose
  <2>. QED
    BY <1>3, <2>2, NothingStored DEF VfsFdClose
<1>4. ASSUME FdDangling(i) \/ FdRefused(i) PROVE IInv'
  BY <1>4, FdsKept, NothingStored DEF FdDangling, FdRefused, Undefined
<1>5. ASSUME NEW s \in Sizes, VfsFdRead(i, s) PROVE IInv'
  <2>. DEFINE o == IF fds[i].offset >= File(i).size THEN fds[i].offset
                   ELSE Least(fds[i].offset + s, File(i).size)
  <2>1. o \in Nat
    <3>1. File(i).size \in Nat
      BY <1>5 DEF VfsFdRead, Works, Live, File, IInv, Shape, Sized
    <3>2. fds[i].offset \in Nat /\ s \in Nat
      BY <1>2, VfsAssumption DEF IsFd
    <3>. QED
      BY <3>1, <3>2 DEF Least
  <2>2. fds' = [fds EXCEPT ![i] = [fds[i] EXCEPT !.offset = o]]
    BY <1>5 DEF VfsFdRead
  <2>. HIDE DEF o
  <2>3. FdsShaped'
    BY <1>2, <2>1, <2>2, FdFields, FdWritten DEF IInv
  <2>. QED
    BY <1>5, <2>3, NothingStored DEF VfsFdRead
<1>6. ASSUME NEW s \in Sizes, NEW v \in Vals, VfsFdWrite(i, s, v) PROVE IInv'
  <2>1. CASE WriteFails(i, s)
    BY <2>1, FdsKept, NothingStored DEF WriteFails
  <2>. QED
    BY <1>6, <2>1, InPlaceKeeps, GrowsKeeps DEF VfsFdWrite
<1>7. ASSUME NEW s \in Sizes, DeviceRead(i, s) \/ DeviceWrite(i, s) PROVE IInv'
  <2>1. PICK n \in Nat : Advance(i, n)
    BY <1>7, VfsAssumption DEF DeviceRead, DeviceWrite, DeviceReads, OnDevice, Kinds
  <2>. DEFINE o == fds[i].offset + n
  <2>2. fds' = [fds EXCEPT ![i] = [fds[i] EXCEPT !.offset = o]]
    BY <2>1 DEF Advance
  <2>3. o \in Nat
    BY <1>2 DEF IsFd
  <2>. HIDE DEF o
  <2>4. FdsShaped'
    BY <1>2, <2>2, <2>3, FdFields, FdWritten DEF IInv
  <2>. QED
    BY <2>1, <2>4, NothingStored DEF Advance
<1>. QED
  BY <1>1, <1>3, <1>4, <1>5, <1>6, <1>7

\* Every call keeps the invariant, whatever it is given.
THEOREM Invariance == IInv /\ [Next]_vars => IInv'
<1>. SUFFICES ASSUME IInv, [Next]_vars PROVE IInv'
  OBVIOUS
<1>1. CASE UNCHANGED vars
  BY <1>1, FdsKept, NothingStored DEF vars
<1>. QED
  BY <1>1, TreeCallKeeps, OpenCallKeeps, FdCallKeeps DEF Next

\* Every block from the heap is a node of the tree or the contents of one file,
\* after any calls: vfs_create, vfs_remove and vfs_write leak nothing and free
\* nothing that is used.
THEOREM BlocksAreOwned == Spec => []MemoryOwned
BY InitEstablishes, Invariance, PTL DEF Spec, IInv

\* A byte that vfs_fd_write stored is there until it is overwritten or cut off,
\* when its file grows and moves as well.
THEOREM BytesAreKept == Spec => []ContentsKept
<1>1. IInv => ContentsKept
  BY DEF IInv, Contents, ContentsKept, Below
<1>. QED
  BY <1>1, InitEstablishes, Invariance, PTL DEF Spec

-----------------------------------------------------------------------------
Clean ==
  /\ UNCHANGED <<mem, cwd, fds>>
  /\ UNCHANGED <<nodes, held>> \/ LeftBehind

\* vfs_open without a descriptor leaves the file it made, and only that.
LEMMA NewIsLeftBehind ==
  ASSUME IInv, NEW p \in Paths, NEW flags \in FlagSets, OpenNew(p, flags), ret' = "failed"
  PROVE  Clean
<1>. DEFINE d == Parent(p)
            n == Last(p.comps)
<1>1. PICK a \in Blocks \ held :
        TakeFd(a, Grown(a, d, n, "FILE"), Add(wrote, a, << >>), flags) /\ held' = held \cup {a}
  BY DEF OpenNew
<1>. HIDE DEF d, n
<1>2. /\ {i \in Fds : ~ fds[i].in_use} = {} /\ UNCHANGED <<mem, cwd, fds>>
      /\ nodes' = Grown(a, d, n, "FILE")
  BY <1>1 DEF TakeFd, Succeed
<1>3. a \notin DOMAIN nodes
  BY DEF IInv, MemoryOwned
<1>4. /\ DOMAIN nodes' = DOMAIN nodes \cup {a} /\ nodes'[a] = Node("FILE", Stored(n), d)
      /\ \A x \in DOMAIN nodes :
           nodes'[x] = IF x = d THEN [nodes[x] EXCEPT !.children = <<a>> \o nodes[x].children]
                       ELSE nodes[x]
  BY <1>2, <1>3 DEF Grown, Add
<1>5. nodes'[a].size = 0 /\ nodes'[a].data = NULL
  BY <1>4, NewNode
<1>6. ASSUME NEW x \in DOMAIN nodes
      PROVE  [nodes'[x] EXCEPT !.children = nodes[x].children] = nodes[x]
  <2>. DEFINE r == nodes[x]
              q == nodes'[x]
              v == <<a>> \o r.children
  <2>1. IsNode(r) /\ Sized(r)
    BY DEF IInv, Shape
  <2>2. q = r \/ q = [r EXCEPT !.children = v]
    BY <1>4
  <2>. HIDE DEF r, q, v
  <2>3. ASSUME q = r PROVE [q EXCEPT !.children = r.children] = r
    <3>1. [r EXCEPT !.children = r.children] = r
      BY <2>1 DEF IsNode
    <3>. QED
      BY <2>3, <3>1, Zenon
  <2>4. ASSUME q = [r EXCEPT !.children = v] PROVE [q EXCEPT !.children = r.children] = r
    BY <2>1, <2>4, ChildrenWritten
  <2>5. [q EXCEPT !.children = r.children] = r
    BY <2>2, <2>3, <2>4
  <2>. QED
    BY <2>5 DEF r, q
<1>. QED
  BY <1>1, <1>2, <1>3, <1>4, <1>5, <1>6 DEF Clean, LeftBehind

LEMMA FailureIsClean ==
  ASSUME IInv, Next, ret' = "failed"
  PROVE  Clean
<1>1. CASE TreeCall
  BY <1>1 DEF TreeCall, VfsCreate, VfsRemove, VfsSetCwd, Refuse, Unlink, Succeed, Clean
<1>2. CASE OpenCall
  <2>1. PICK p \in Paths, flags \in FlagSets : VfsOpen(p, flags)
    BY <1>2 DEF OpenCall
  <2>2. CASE OpenDangling(p, flags) \/ OpenMissing(p, flags)
    BY <2>2 DEF OpenDangling, OpenMissing, Undefined, Clean
  <2>3. CASE OpenNode(p, flags)
    BY <2>3 DEF OpenNode, TakeFd, Succeed, Clean
  <2>. QED
    BY <2>1, <2>2, <2>3, NewIsLeftBehind DEF VfsOpen
<1>3. CASE FdCall
  <2>1. PICK i \in Fds :
          \/ VfsFdClose(i) \/ FdDangling(i) \/ FdRefused(i)
          \/ \E s \in Sizes : DeviceRead(i, s) \/ DeviceWrite(i, s)
          \/ \E s \in Sizes : VfsFdRead(i, s) \/ \E v \in Vals : VfsFdWrite(i, s, v)
    BY <1>3 DEF FdCall
  <2>2. CASE VfsFdClose(i)
    <3>1. ~ fds[i].in_use /\ UNCHANGED <<nodes, mem, held, cwd>>
          /\ fds' = [fds EXCEPT ![i] = [fds[i] EXCEPT !.in_use = FALSE]]
      BY <2>2 DEF VfsFdClose
    <3>2. [fds[i] EXCEPT !.in_use = FALSE] = fds[i]
      BY <3>1, FdFields DEF IInv, Shape
    <3>3. UNCHANGED fds
      BY <3>1, <3>2 DEF IInv, Shape
    <3>. QED
      BY <3>1, <3>3 DEF Clean
  <2>3. CASE FdDangling(i) \/ FdRefused(i)
    BY <2>3 DEF FdDangling, FdRefused, Undefined, Clean
  <2>4. ASSUME NEW s \in Sizes, VfsFdRead(i, s) \/ \E v \in Vals : VfsFdWrite(i, s, v)
        PROVE  Clean
    BY <2>4 DEF VfsFdRead, VfsFdWrite, WriteInPlace, WriteGrows, WriteFails, Wrote, Succeed, Clean
  <2>5. ASSUME NEW s \in Sizes, DeviceRead(i, s) \/ DeviceWrite(i, s) PROVE Clean
    BY <2>5 DEF DeviceRead, DeviceWrite, Advance, Succeed
  <2>. QED
    BY <2>1, <2>2, <2>3, <2>4, <2>5
<1>. QED
  BY <1>1, <1>2, <1>3 DEF Next

\* A call that fails changes nothing, but for the file vfs_open leaves behind
\* when no descriptor is free.
THEOREM FailuresLeaveNothing == Spec => FailuresAreClean
<1>1. IInv /\ [Next]_vars => [ret' = "failed" => Clean]_vars
  BY FailureIsClean
<1>2. IInv /\ [Next]_vars
        => [ret' = "failed" => /\ UNCHANGED <<mem, cwd, fds>>
                               /\ UNCHANGED <<nodes, held>> \/ LeftBehind]_vars
  BY <1>1 DEF Clean
<1>. QED
  BY <1>2, InitEstablishes, Invariance, PTL DEF Spec, FailuresAreClean

-----------------------------------------------------------------------------
\* The equations of the recursive functions of the model, those over the
\* positions of a path and those over the parents of a node, have exactly one
\* solution.  up[x] is the argument of the recursive call for x, r the one
\* argument without a recursive call.
Grounded(N, r, up) ==
  /\ r \in N /\ up \in [N -> N]
  /\ \A S \in SUBSET (N \ {r}) : S # {} => \E x \in S : up[x] \notin S
Solves(f, N, r, up, v, g) ==
  \A x \in N : f[x] = IF x = r THEN v ELSE g[<<x, f[up[x]]>>]

LEMMA RecursionWorks ==
  ASSUME NEW N, NEW r, NEW up, Grounded(N, r, up), NEW V, NEW v \in V, NEW g \in [N \X V -> V]
  PROVE  \E f \in [N -> V] : Solves(f, N, r, up, v, g)
<1>. DEFINE Closed(R) == /\ <<r, v>> \in R
                         /\ \A x \in N \ {r}, w \in V : <<up[x], w>> \in R => <<x, g[<<x, w>>]>> \in R
            L == {e \in N \X V : \A R \in SUBSET (N \X V) : Closed(R) => e \in R}
            I == {e \in L : \/ e = <<r, v>>
                            \/ \E x \in N \ {r}, w \in V : <<up[x], w>> \in L /\ e = <<x, g[<<x, w>>]>>}
<1>1. Closed(L)
  <2>1. <<r, v>> \in L
    BY DEF Grounded
  <2>2. ASSUME NEW x \in N \ {r}, NEW w \in V, <<up[x], w>> \in L PROVE <<x, g[<<x, w>>]>> \in L
    <3>1. <<x, g[<<x, w>>]>> \in N \X V
      OBVIOUS
    <3>2. ASSUME NEW R \in SUBSET (N \X V), Closed(R) PROVE <<x, g[<<x, w>>]>> \in R
      BY <2>2, <3>2
    <3>. QED
      BY <3>1, <3>2
  <2>. QED
    BY <2>1, <2>2
<1>2. Closed(I)
  <2>1. <<r, v>> \in I
    BY <1>1
  <2>2. ASSUME NEW x \in N \ {r}, NEW w \in V, <<up[x], w>> \in I PROVE <<x, g[<<x, w>>]>> \in I
    BY <1>1, <2>2
  <2>. QED
    BY <2>1, <2>2
<1>3. I = L /\ L \subseteq N \X V
  <2>1. I \in SUBSET (N \X V)
    OBVIOUS
  <2>2. ASSUME NEW e \in L PROVE e \in I
    <3>1. \A R \in SUBSET (N \X V) : Closed(R) => e \in R
      OBVIOUS
    <3>. HIDE DEF Closed, I
    <3>. QED
      BY <1>2, <2>1, <3>1
  <2>. QED
    BY <2>2
<1>4. \A x \in N : \A w : <<x, w>> \in L =>
        /\ w \in V
        /\ x = r => w = v
        /\ x # r => \E u \in V : <<up[x], u>> \in L /\ w = g[<<x, u>>]
  <2>. SUFFICES ASSUME NEW x \in N, NEW w, <<x, w>> \in L
                PROVE  /\ w \in V
                       /\ x = r => w = v
                       /\ x # r => \E u \in V : <<up[x], u>> \in L /\ w = g[<<x, u>>]
    OBVIOUS
  <2>1. <<x, w>> \in I /\ w \in V
    BY <1>3
  <2>. QED
    BY <2>1
<1>. HIDE DEF L, I
<1>5. \A x \in N : \E w \in V : <<x, w>> \in L
  <2>. DEFINE B == {x \in N : ~ \E w \in V : <<x, w>> \in L}
  <2>1. r \notin B
    BY <1>1
  <2>2. SUFFICES ASSUME B # {} PROVE FALSE
    OBVIOUS
  <2>3. PICK x \in B : up[x] \notin B
    BY <2>1, <2>2 DEF Grounded
  <2>4. x \in N \ {r} /\ up[x] \in N
    BY <2>1 DEF Grounded
  <2>5. PICK w \in V : <<up[x], w>> \in L
    BY <2>3, <2>4
  <2>6. <<x, g[<<x, w>>]>> \in L /\ g[<<x, w>>] \in V
    BY <1>1, <2>4, <2>5
  <2>. QED
    BY <2>6
<1>6. \A x \in N : \A w, u : <<x, w>> \in L /\ <<x, u>> \in L => w = u
  <2>. DEFINE B == {x \in N : \E w, u : <<x, w>> \in L /\ <<x, u>> \in L /\ w # u}
  <2>1. r \notin B
    <3>1. r \in N /\ \A w : <<r, w>> \in L => w = v
      BY <1>4, Zenon DEF Grounded
    <3>. QED
      BY <3>1
  <2>2. SUFFICES ASSUME B # {} PROVE FALSE
    OBVIOUS
  <2>3. PICK x \in B : up[x] \notin B
    BY <2>1, <2>2 DEF Grounded
  <2>4. x \in N \ {r} /\ up[x] \in N
    BY <2>1 DEF Grounded
  <2>5. PICK w, u : <<x, w>> \in L /\ <<x, u>> \in L /\ w # u
    OBVIOUS
  <2>6. PICK y : <<up[x], y>> \in L /\ w = g[<<x, y>>]
    BY ZenonT(60), <1>4, <2>4, <2>5
  <2>7. PICK z : <<up[x], z>> \in L /\ u = g[<<x, z>>]
    BY ZenonT(60), <1>4, <2>4, <2>5
  <2>8. y = z
    BY <2>3, <2>4, <2>6, <2>7
  <2>. QED
    BY <2>5, <2>6, <2>7, <2>8
<1>. DEFINE f == [x \in N |-> CHOOSE w \in V : <<x, w>> \in L]
<1>7. \A x \in N : f[x] \in V /\ <<x, f[x]>> \in L
  BY <1>5
<1>8. f \in [N -> V]
  BY <1>7
<1>. HIDE DEF f
<1>9. ASSUME NEW x \in N PROVE f[x] = IF x = r THEN v ELSE g[<<x, f[up[x]]>>]
  <2>1. CASE x = r
    BY <1>4, <1>7, <2>1
  <2>2. CASE x # r
    <3>1. PICK u \in V : <<up[x], u>> \in L /\ f[x] = g[<<x, u>>]
      BY <1>4, <1>7, <2>2
    <3>2. up[x] \in N
      BY DEF Grounded
    <3>3. u = f[up[x]]
      BY <1>6, <1>7, <3>1, <3>2
    <3>. QED
      BY <2>2, <3>1, <3>3
  <2>. QED
    BY <2>1, <2>2
<1>. QED
  BY <1>8, <1>9 DEF Solves

LEMMA RecursionIsUnique ==
  ASSUME NEW N, NEW r, NEW up, Grounded(N, r, up), NEW v, NEW g, NEW f, NEW h,
         Solves(f, N, r, up, v, g), Solves(h, N, r, up, v, g)
  PROVE  \A x \in N : f[x] = h[x]
<1>. DEFINE B == {x \in N : f[x] # h[x]}
<1>1. r \notin B
  BY DEF Solves
<1>2. SUFFICES ASSUME B # {} PROVE FALSE
  OBVIOUS
<1>3. PICK x \in B : up[x] \notin B
  BY <1>1, <1>2 DEF Grounded
<1>4. x \in N \ {r} /\ up[x] \in N
  BY <1>1 DEF Grounded
<1>5. f[up[x]] = h[up[x]]
  BY <1>3, <1>4
<1>. QED
  BY <1>4, <1>5 DEF Solves

\* Every set of natural numbers has a least one.
LEMMA LeastExists ==
  ASSUME NEW S \in SUBSET Nat, S # {}
  PROVE  \E k \in S : \A j \in S : k <= j
<1>. DEFINE R == OpToRel(<, Nat)
<1>1. \A x, y \in Nat : <<y, x>> \in R <=> y < x
  BY DEF OpToRel
<1>2. IsWellFoundedOn(R, Nat)
  BY NatLessThanWellFounded
<1>. HIDE DEF R
<1>3. PICK k \in S : \A j \in S : ~ (<<j, k>> \in R)
  BY <1>2, WFMin
<1>4. \A j \in S : j \in Nat /\ k \in Nat /\ ~ (j < k)
  BY <1>1, <1>3
<1>. QED
  BY <1>4

Pred(n) == [k \in 0 .. n |-> IF k = 0 THEN 0 ELSE k - 1]

LEMMA PositionsGrounded ==
  ASSUME NEW n \in Nat
  PROVE  Grounded(0 .. n, 0, Pred(n))
<1>1. Pred(n) \in [0 .. n -> 0 .. n]
  BY DEF Pred
<1>2. ASSUME NEW S \in SUBSET ((0 .. n) \ {0}), S # {} PROVE \E x \in S : Pred(n)[x] \notin S
  <2>1. S \in SUBSET Nat
    OBVIOUS
  <2>2. PICK k \in S : \A j \in S : k <= j
    BY <1>2, <2>1, LeastExists
  <2>3. k \in 1 .. n
    OBVIOUS
  <2>4. Pred(n)[k] = k - 1 /\ ~ (k <= k - 1)
    BY <2>3 DEF Pred
  <2>. QED
    BY <2>2, <2>4
<1>. QED
  BY <1>1, <1>2 DEF Grounded

-----------------------------------------------------------------------------
\* Lists of children.
In(a, l) == \E k \in DOMAIN l : l[k] = a
Once(a, l) == \E k \in DOMAIN l : \A j \in DOMAIN l : l[j] = a <=> j = k

LEMMA OnceIsCardinality ==
  ASSUME NEW l \in Seq(Blocks), NEW a
  PROVE  Cardinality({k \in DOMAIN l : l[k] = a}) = 1 <=> Once(a, l)
<1>. DEFINE S == {k \in DOMAIN l : l[k] = a}
<1>1. DOMAIN l = 1 .. Len(l) /\ Len(l) \in Int /\ 1 \in Int
  OBVIOUS
<1>2. IsFiniteSet(1 .. Len(l))
  BY <1>1, FS_Interval
<1>3. IsFiniteSet(S)
  BY <1>1, <1>2, FS_Subset
<1>4. Cardinality(S) = 1 <=> \E k : S = {k}
  BY <1>3, FS_Singleton
<1>5. ASSUME NEW k, S = {k} PROVE Once(a, l)
  BY <1>5 DEF Once
<1>6. ASSUME Once(a, l) PROVE \E k : S = {k}
  <2>1. PICK k \in DOMAIN l : \A j \in DOMAIN l : l[j] = a <=> j = k
    BY <1>6 DEF Once
  <2>2. S = {k}
    BY <2>1
  <2>. QED
    BY <2>2
<1>. QED
  BY <1>4, <1>5, <1>6

LEMMA Prepended ==
  ASSUME NEW l \in Seq(Blocks), NEW a \in Blocks, NEW m, m = <<a>> \o l
  PROVE  /\ m \in Seq(Blocks) /\ DOMAIN m = 1 .. Len(l) + 1
         /\ m[1] = a /\ \A k \in DOMAIN l : k + 1 \in DOMAIN m /\ m[k + 1] = l[k]
         /\ \A k \in DOMAIN m : k = 1 \/ (k - 1 \in DOMAIN l /\ m[k] = l[k - 1])
         /\ \A b : In(b, m) <=> b = a \/ In(b, l)
         /\ \A b : b # a /\ Once(b, l) => Once(b, m)
         /\ ~ In(a, l) => Once(a, m)
<1>1. m \in Seq(Blocks) /\ Len(m) = Len(l) + 1 /\ DOMAIN m = 1 .. Len(l) + 1
  OBVIOUS
<1>2. m[1] = a /\ \A k \in DOMAIN l : k + 1 \in DOMAIN m /\ m[k + 1] = l[k]
  BY <1>1
<1>3. \A k \in DOMAIN m : k = 1 \/ (k - 1 \in DOMAIN l /\ m[k] = l[k - 1])
  BY <1>1
<1>. DEFINE M == DOMAIN m
            D == DOMAIN l
<1>4. 1 \in M /\ M \subseteq Int /\ D \subseteq Int /\ 0 \notin D
  BY <1>1
<1>. HIDE DEF M, D
<1>5. \A b : In(b, m) <=> b = a \/ In(b, l)
  BY ZenonT(60), <1>2, <1>3, <1>4 DEF In, M, D
<1>6. ASSUME NEW b, b # a, Once(b, l) PROVE Once(b, m)
  <2>1. PICK k \in D : \A j \in D : l[j] = b <=> j = k
    BY <1>6 DEF Once, D
  <2>2. ASSUME NEW j \in M PROVE m[j] = b <=> j = k + 1
    <3>1. CASE j = 1
      BY <1>2, <1>4, <1>6, <2>1, <3>1
    <3>2. CASE j # 1
      <4>1. j - 1 \in D /\ m[j] = l[j - 1]
        BY <1>3, <3>2 DEF M, D
      <4>2. j - 1 = k <=> j = k + 1
        BY <1>4
      <4>. QED
        BY <2>1, <4>1, <4>2
    <3>. QED
      BY <3>1, <3>2
  <2>3. k + 1 \in M
    BY <1>2 DEF M, D
  <2>. QED
    BY <2>2, <2>3 DEF Once, M
<1>7. ASSUME ~ In(a, l) PROVE Once(a, m)
  <2>1. \A j \in M : m[j] = a <=> j = 1
    BY <1>2, <1>3, <1>7 DEF In, M, D
  <2>. QED
    BY <1>4, <2>1 DEF Once, M
<1>. QED
  BY <1>1, <1>2, <1>3, <1>5, <1>6, <1>7

LEMMA Removed ==
  ASSUME NEW l \in Seq(Blocks), NEW a, Once(a, l), NEW m, m = RemoveFirst(l, a)
  PROVE  /\ m \in Seq(Blocks)
         /\ \A b : In(b, m) <=> b # a /\ In(b, l)
         /\ \A b : b # a /\ Once(b, l) => Once(b, m)
<1>. DEFINE I == {i \in 1 .. Len(l) : l[i] = a}
            n == Min(I)
<1>1. I # {}
  BY DEF Once
<1>2. n \in I
  <2>1. I \in SUBSET Nat
    OBVIOUS
  <2>2. \E k \in I : \A j \in I : k <= j
    BY <1>1, <2>1, LeastExists
  <2>. QED
    BY <2>2, Zenon DEF Min
<1>3. m = SubSeq(l, 1, n - 1) \o SubSeq(l, n + 1, Len(l))
  <2>. DEFINE k == SelectInSeq(l, LAMBDA v : v = a)
  <2>1. k = n
    BY <1>1 DEF SelectInSeq
  <2>2. m = RemoveAt(l, k)
    BY <1>1 DEF RemoveFirst
  <2>. HIDE DEF k, n
  <2>. QED
    BY <2>1, <2>2 DEF RemoveAt
<1>. HIDE DEF n
<1>4. n \in 1 .. Len(l) /\ \A j \in 1 .. Len(l) : l[j] = a <=> j = n
  <2>1. n \in DOMAIN l /\ l[n] = a /\ DOMAIN l = 1 .. Len(l)
    BY <1>2
  <2>. QED
    BY <2>1 DEF Once
<1>. DEFINE p == SubSeq(l, 1, n - 1)
            q == SubSeq(l, n + 1, Len(l))
<1>5. /\ p \in Seq(Blocks) /\ Len(p) = n - 1 /\ \A k \in 1 .. n - 1 : p[k] = l[k]
      /\ q \in Seq(Blocks) /\ Len(q) = Len(l) - n /\ \A k \in 1 .. Len(l) - n : q[k] = l[k + n]
  BY <1>4
<1>. HIDE DEF p, q
<1>6. /\ m \in Seq(Blocks) /\ DOMAIN m = 1 .. Len(l) - 1 /\ DOMAIN l = 1 .. Len(l)
      /\ \A k \in 1 .. Len(l) - 1 : m[k] = IF k < n THEN l[k] ELSE l[k + 1]
  <2>1. m = p \o q
    BY <1>3 DEF p, q
  <2>2. m \in Seq(Blocks) /\ Len(m) = Len(p) + Len(q)
    BY <1>5, <2>1, ConcatProperties
  <2>3. \A k \in 1 .. Len(p) + Len(q) : m[k] = IF k <= Len(p) THEN p[k] ELSE q[k - Len(p)]
    BY <1>5, <2>1, ConcatProperties
  <2>4. Len(m) = Len(l) - 1 /\ Len(l) \in Nat
    BY <1>4, <1>5, <2>2
  <2>5. ASSUME NEW k \in 1 .. Len(l) - 1 PROVE m[k] = IF k < n THEN l[k] ELSE l[k + 1]
    <3>. DEFINE c == n - 1
                b == Len(l)
    <3>1. /\ c \in Nat /\ b \in Nat /\ c < b /\ n = c + 1 /\ Len(p) = c /\ Len(q) = b - c - 1
          /\ k \in Nat /\ 1 <= k /\ k <= b - 1
      BY <1>4, <1>5, <2>4
    <3>. HIDE DEF c, b
    <3>2. m[k] = IF k <= c THEN p[k] ELSE q[k - c]
      BY <2>3, <3>1
    <3>3. CASE k <= c
      <4>1. p[k] = l[k]
        BY <1>5, <3>1, <3>3
      <4>. QED
        BY <3>1, <3>2, <3>3, <4>1
    <3>4. CASE ~ (k <= c)
      <4>1. k - c \in 1 .. Len(l) - n /\ k - c + n = k + 1
        BY <3>1, <3>4 DEF b
      <4>2. q[k - c] = l[k - c + n]
        BY <1>5, <4>1
      <4>. QED
        BY <3>1, <3>2, <3>4, <4>1, <4>2
    <3>. QED
      BY <3>3, <3>4
  <2>6. DOMAIN m = 1 .. Len(l) - 1 /\ DOMAIN l = 1 .. Len(l)
    BY <2>2, <2>4
  <2>. QED
    BY <2>2, <2>5, <2>6
<1>7. \A j \in DOMAIN l \ {n} :
        LET k == IF j < n THEN j ELSE j - 1 IN k \in DOMAIN m /\ m[k] = l[j]
  BY <1>4, <1>6
<1>8. \A k \in DOMAIN m :
        LET j == IF k < n THEN k ELSE k + 1 IN j \in DOMAIN l \ {n} /\ m[k] = l[j]
  BY <1>4, <1>6
<1>9. \A b : In(b, m) <=> b # a /\ In(b, l)
  <2>1. ASSUME NEW b, In(b, m) PROVE b # a /\ In(b, l)
    BY <1>4, <1>6, <1>8, <2>1 DEF In
  <2>2. ASSUME NEW b, b # a, In(b, l) PROVE In(b, m)
    <3>1. PICK j \in DOMAIN l : l[j] = b
      BY <2>2 DEF In
    <3>2. j \in DOMAIN l \ {n}
      BY <1>4, <1>6, <2>2, <3>1
    <3>. QED
      BY <1>7, <3>1, <3>2 DEF In
  <2>. QED
    BY <2>1, <2>2
<1>10. ASSUME NEW b, b # a, Once(b, l) PROVE Once(b, m)
  <2>1. PICK j \in DOMAIN l : \A i \in DOMAIN l : l[i] = b <=> i = j
    BY <1>10 DEF Once
  <2>2. j # n
    BY <1>4, <1>6, <1>10, <2>1
  <2>. DEFINE k == IF j < n THEN j ELSE j - 1
  <2>3. k \in DOMAIN m
    BY <1>7, <2>1, <2>2
  <2>4. ASSUME NEW i \in DOMAIN m PROVE m[i] = b <=> i = k
    BY <1>4, <1>6, <1>8, <2>1, <2>2
  <2>. QED
    BY <2>3, <2>4 DEF Once
<1>. QED
  BY <1>6, <1>9, <1>10

-----------------------------------------------------------------------------
\* A name that was cut short, or could be one.
Short(n) == n \in Range(Cut)

Typed(r) ==
  /\ r.type \in {"FILE", "DIRECTORY"} \cup Kinds /\ r.name \in Names \cup {"/"}
  /\ r.parent \in Pointers /\ r.children \in Seq(Blocks)

RootOK == nodes[Root].type = "DIRECTORY" /\ nodes[Root].parent = Root

\* TreeShape without cardinalities.
Hung == \A a \in Below :
  /\ Live(nodes[a].parent) /\ nodes[nodes[a].parent].type = "DIRECTORY"
  /\ Once(a, nodes[nodes[a].parent].children)
Listed == \A a \in DOMAIN nodes : \A c :
  In(c, nodes[a].children) => c \in Below /\ nodes[c].parent = a
Acyclic == \A S \in SUBSET Below : S # {} => \E a \in S : nodes[a].parent \notin S

\* A name leads to one node, unless it is one that was cut.
NamesApart ==
  \A a \in Below :
    /\ nodes[a].name \in Names \ DOMAIN Cut
    /\ Short(nodes[a].name) \/ nodes[a].name \notin {".", ".."}
    /\ \A b \in Below :
         nodes[a].parent = nodes[b].parent /\ nodes[a].name = nodes[b].name
           => a = b \/ Short(nodes[a].name)

Tree ==
  /\ Root \in DOMAIN nodes /\ DOMAIN nodes \subseteq Blocks \cup {Root}
  /\ \A a \in DOMAIN nodes : Typed(nodes[a])
  /\ RootOK /\ Hung /\ Listed /\ Acyclic /\ NamesApart

LEMMA FoundChild ==
  ASSUME Tree, NEW d \in DOMAIN nodes, NEW n
  PROVE  LET c == FindChild(d, n) IN
         /\ c \in DOMAIN nodes \cup {NULL}
         /\ nodes[d].type # "DIRECTORY" => c = NULL
         /\ nodes[d].type = "DIRECTORY" =>
              /\ n \in {".", ".."} => c # NULL
              /\ n \notin {".", ".."} =>
                   /\ c # NULL => In(c, nodes[d].children) /\ nodes[c].name = n
                   /\ c = NULL => \A b : In(b, nodes[d].children) => nodes[b].name # n
<1>. DEFINE l == nodes[d].children
            I == {i \in 1 .. Len(l) : nodes[l[i]].name = n}
            k == SelectInSeq(l, LAMBDA b : nodes[b].name = n)
            c == FindChild(d, n)
<1>1. l \in Seq(Blocks)
  BY DEF Tree, Typed
<1>2. k = IF I # {} THEN Min(I) ELSE 0
  BY DEF SelectInSeq
<1>3. I # {} => k \in I
  <2>1. I \in SUBSET Nat
    BY <1>1
  <2>2. SUFFICES ASSUME I # {} PROVE Min(I) \in I
    BY <1>2
  <2>3. \E i \in I : \A j \in I : i <= j
    BY <2>1, <2>2, LeastExists
  <2>. QED
    BY <2>3, Zenon DEF Min
<1>4. c = CASE nodes[d].type # "DIRECTORY" -> NULL
             [] nodes[d].type = "DIRECTORY" /\ n = "." -> d
             [] nodes[d].type = "DIRECTORY" /\ n = ".." -> nodes[d].parent
             [] OTHER -> IF k = 0 THEN NULL ELSE l[k]
  BY DEF FindChild
<1>. HIDE DEF k, c
<1>5. NULL \notin DOMAIN nodes
  BY VfsAssumption DEF Tree
<1>6. CASE nodes[d].type # "DIRECTORY"
  BY <1>4, <1>6, Zenon DEF c
<1>7. CASE nodes[d].type = "DIRECTORY" /\ n = "."
  <2>1. c = d
    BY <1>4, <1>7
  <2>. QED
    BY <1>5, <1>7, <2>1 DEF c
<1>8. CASE nodes[d].type = "DIRECTORY" /\ n = ".."
  <2>1. c = nodes[d].parent
    BY <1>4, <1>8
  <2>2. nodes[d].parent \in DOMAIN nodes
    BY DEF Tree, RootOK, Hung, Below, Live
  <2>. QED
    BY <1>5, <1>8, <2>1, <2>2 DEF c
<1>9. CASE nodes[d].type = "DIRECTORY" /\ n \notin {".", ".."}
  <2>1. c = IF k = 0 THEN NULL ELSE l[k]
    BY <1>4, <1>9
  <2>2. CASE I = {}
    <3>1. c = NULL
      BY <1>2, <2>1, <2>2
    <3>2. \A b : In(b, l) => nodes[b].name # n
      BY <1>1, <2>2 DEF In
    <3>. QED
      BY <1>9, <3>1, <3>2 DEF c
  <2>3. CASE I # {}
    <3>1. k \in 1 .. Len(l) /\ nodes[l[k]].name = n
      BY <1>3, <2>3
    <3>2. c = l[k] /\ In(c, l) /\ nodes[c].name = n
      BY <1>1, <2>1, <3>1 DEF In
    <3>3. c \in DOMAIN nodes
      BY <3>2 DEF Tree, Listed, Below
    <3>. QED
      BY <1>5, <1>9, <3>2, <3>3 DEF c
  <2>. QED
    BY <2>2, <2>3
<1>. QED
  BY <1>6, <1>7, <1>8, <1>9

\* No path leads out of the tree.
Found == DOMAIN nodes \cup {NULL}

LEMMA DescendStays ==
  ASSUME Tree, NEW d \in Found, NEW n
  PROVE  Descend(d, n) \in Found
<1>1. ASSUME NEW x \in Found, NEW m PROVE Find(x, m) \in Found
  BY <1>1, FoundChild DEF Find, Found
<1>. QED
  BY <1>1 DEF Descend

\* The nodes along a path.
Along(at, from, comps) ==
  /\ at \in [0 .. Len(comps) -> Found] /\ at[0] = from
  /\ \A k \in 1 .. Len(comps) : at[k] = Descend(at[k - 1], comps[k])

LEMMA WalkIsAlong ==
  ASSUME Tree, NEW from \in Found, NEW comps, Len(comps) \in Nat
  PROVE  \E at : Along(at, from, comps) /\ Walk(from, comps) = at[Len(comps)]
<1>. DEFINE n == Len(comps)
            N == 0 .. n
            g == [e \in N \X Found |-> Descend(e[2], comps[e[1]])]
            Sol(f) == f = [k \in 0 .. Len(comps) |->
                             IF k = 0 THEN from ELSE Descend(f[k - 1], comps[k])]
<1>1. g \in [N \X Found -> Found]
  BY DescendStays
<1>2. Grounded(N, 0, Pred(n))
  BY PositionsGrounded
<1>. HIDE DEF g
<1>3. PICK f \in [N -> Found] : Solves(f, N, 0, Pred(n), from, g)
  <2>. HIDE DEF N, n
  <2>. QED
    BY <1>1, <1>2, RecursionWorks
<1>4. \A k \in N : f[k] = IF k = 0 THEN from ELSE Descend(f[k - 1], comps[k])
  <2>. SUFFICES ASSUME NEW k \in N PROVE f[k] = IF k = 0 THEN from ELSE Descend(f[k - 1], comps[k])
    OBVIOUS
  <2>1. CASE k = 0
    BY <1>3, <2>1 DEF Solves
  <2>2. CASE k # 0
    <3>1. Pred(n)[k] = k - 1 /\ k - 1 \in N
      BY <2>2 DEF Pred
    <3>2. f[k] = g[<<k, f[k - 1]>>]
      BY <1>3, <2>2, <3>1 DEF Solves
    <3>3. <<k, f[k - 1]>> \in N \X Found
      BY <1>3, <3>1
    <3>. QED
      BY <2>2, <3>2, <3>3 DEF g
  <2>. QED
    BY <2>1, <2>2
<1>5. Sol(f)
  BY <1>4
<1>. DEFINE at == CHOOSE h : Sol(h)
<1>6. Sol(at)
  BY <1>5
<1>7. Walk(from, comps) = at[Len(comps)]
  BY DEF Walk
<1>. HIDE DEF at
<1>8. \A k \in N : at[k] = IF k = 0 THEN from ELSE Descend(at[k - 1], comps[k])
  BY <1>6
<1>9. \A k \in N : at[k] = f[k]
  <2>. DEFINE B == {k \in N : at[k] # f[k]}
  <2>1. 0 \notin B
    BY <1>4, <1>8
  <2>2. SUFFICES ASSUME B # {} PROVE FALSE
    OBVIOUS
  <2>3. B \in SUBSET (N \ {0})
    BY <2>1
  <2>4. PICK k \in B : Pred(n)[k] \notin B
    BY <1>2, <2>2, <2>3 DEF Grounded
  <2>5. k \in 1 .. n /\ Pred(n)[k] = k - 1 /\ k - 1 \in N
    BY <2>1 DEF Pred
  <2>6. at[k - 1] = f[k - 1]
    BY <2>4, <2>5
  <2>. QED
    BY <1>4, <1>8, <2>5, <2>6
<1>10. at = [k \in N |-> at[k]]
  BY <1>6
<1>11. at \in [N -> Found]
  BY <1>3, <1>9, <1>10
<1>12. Along(at, from, comps)
  BY <1>8, <1>11 DEF Along
<1>. QED
  BY <1>7, <1>12

\* Two such are the same.
LEMMA AlongIsUnique ==
  ASSUME NEW from, NEW c, NEW e, NEW n \in Nat, n <= Len(c), n <= Len(e),
         Len(c) \in Nat, Len(e) \in Nat,
         \A k \in 1 .. n : c[k] = e[k],
         NEW f, Along(f, from, c), NEW h, Along(h, from, e)
  PROVE  f[n] = h[n]
<1>. DEFINE B == {k \in 0 .. n : f[k] # h[k]}
<1>1. 0 \notin B
  BY DEF Along
<1>2. SUFFICES ASSUME B # {} PROVE FALSE
  OBVIOUS
<1>3. B \in SUBSET ((0 .. n) \ {0})
  BY <1>1
<1>4. PICK k \in B : Pred(n)[k] \notin B
  BY <1>2, <1>3, PositionsGrounded DEF Grounded
<1>5. k \in 1 .. n /\ Pred(n)[k] = k - 1 /\ k - 1 \in 0 .. n
  BY <1>1 DEF Pred
<1>6. f[k - 1] = h[k - 1] /\ k \in 1 .. Len(c) /\ k \in 1 .. Len(e)
  BY <1>4, <1>5
<1>. QED
  BY <1>5, <1>6 DEF Along

LEMMA WalkStays ==
  ASSUME Tree, NEW from \in Found, NEW comps, Len(comps) \in Nat
  PROVE  Walk(from, comps) \in Found
BY WalkIsAlong DEF Along

LEMMA WalkNowhere ==
  ASSUME Tree, NEW from \in Found
  PROVE  Walk(from, <<>>) = from
BY WalkIsAlong DEF Along

LEMMA WalkFurther ==
  ASSUME Tree, NEW from \in Found, NEW S, NEW comps \in Seq(S), NEW n \in S
  PROVE  Walk(from, Append(comps, n)) = Descend(Walk(from, comps), n)
<1>. DEFINE e == Append(comps, n)
            m == Len(comps)
<1>1. e \in Seq(S) /\ Len(e) = m + 1 /\ m \in Nat /\ e[m + 1] = n /\ \A k \in 1 .. m : e[k] = comps[k]
  BY AppendProperties
<1>. HIDE DEF e, m
<1>2. PICK f : Along(f, from, comps) /\ Walk(from, comps) = f[m]
  BY <1>1, WalkIsAlong DEF m
<1>3. PICK h : Along(h, from, e) /\ Walk(from, e) = h[Len(e)]
  BY <1>1, WalkIsAlong
<1>4. f[m] = h[m]
  BY <1>1, <1>2, <1>3, AlongIsUnique DEF m
<1>5. h[m + 1] = Descend(h[m], e[m + 1])
  BY <1>1, <1>3 DEF Along
<1>. QED
  BY <1>1, <1>2, <1>3, <1>4, <1>5 DEF e
-----------------------------------------------------------------------------
\* Calls that leave the directories as they are.
LEMMA TreeKept ==
  ASSUME Tree, DOMAIN nodes' = DOMAIN nodes,
         \A a \in DOMAIN nodes :
           /\ nodes'[a].type = nodes[a].type /\ nodes'[a].name = nodes[a].name
           /\ nodes'[a].parent = nodes[a].parent /\ nodes'[a].children = nodes[a].children
  PROVE  Tree'
<1>1. Below' = Below /\ Below \subseteq DOMAIN nodes /\ Root \in DOMAIN nodes
  BY DEF Below, Tree
<1>2. \A a \in Below : nodes[a].parent \in DOMAIN nodes
  BY DEF Tree, Hung, Live
<1>3. (\A a \in DOMAIN nodes : Typed(nodes[a]))' /\ RootOK'
  BY DEF Tree, Typed, RootOK
<1>4. Hung'
  BY <1>1, <1>2 DEF Tree, Hung, Live
<1>5. Listed'
  BY <1>1 DEF Tree, Listed
<1>6. Acyclic'
  BY <1>1 DEF Tree, Acyclic
<1>7. NamesApart'
  BY <1>1 DEF Tree, NamesApart
<1>. QED
  BY <1>3, <1>4, <1>5, <1>6, <1>7 DEF Tree

\* vfs_create: a new node, first among the children of d.
LEMMA TreeGrows ==
  ASSUME Tree, \A x \in DOMAIN nodes : IsNode(nodes[x]),
         NEW a \in Blocks \ DOMAIN nodes, a # Root,
         NEW d \in DOMAIN nodes, NEW n \in Names \cup {".", ".."},
         NEW t \in {"FILE", "DIRECTORY"},
         CanCreate(d, n), nodes' = Grown(a, d, n, t)
  PROVE  Tree'
<1>. DEFINE l == <<a>> \o nodes[d].children
            r == Node(t, Stored(n), d)
<1>1. /\ nodes[d].type = "DIRECTORY" /\ n \notin {".", ".."} /\ n \in Names
      /\ \A b : In(b, nodes[d].children) => nodes[b].name # n
  BY FoundChild DEF CanCreate
<1>2. Typed(nodes[d]) /\ nodes[d].children \in Seq(Blocks)
  BY DEF Tree, Typed
<1>3. /\ l \in Seq(Blocks)
      /\ \A b : In(b, l) <=> b = a \/ In(b, nodes[d].children)
      /\ \A b : b # a /\ Once(b, nodes[d].children) => Once(b, l)
      /\ ~ In(a, nodes[d].children) => Once(a, l)
  <2>. DEFINE c == nodes[d].children
  <2>1. l = <<a>> \o c /\ c \in Seq(Blocks)
    BY <1>2
  <2>. HIDE DEF l, c
  <2>2. /\ l \in Seq(Blocks)
        /\ \A b : In(b, l) <=> b = a \/ In(b, c)
        /\ \A b : b # a /\ Once(b, c) => Once(b, l)
        /\ ~ In(a, c) => Once(a, l)
    BY <2>1, Prepended
  <2>. QED
    BY <2>2 DEF c
<1>4. ~ In(a, nodes[d].children)
  BY DEF Tree, Listed, Below
<1>5. /\ r.type = t /\ r.name = Stored(n) /\ r.parent = d /\ r.children = << >>
      /\ \A b : ~ In(b, r.children)
  BY DEF Node, In
<1>6. Typed(r) /\ r.name \in Names \ DOMAIN Cut
  <2>1. Stored(n) \in Names \ DOMAIN Cut
    <3>1. CASE n \in DOMAIN Cut
      <4>1. {Cut[n], Rest[n]} \subseteq Names \ DOMAIN Cut
        BY <3>1, VfsAssumption, Zenon
      <4>. QED
        BY <3>1, <4>1 DEF Stored
    <3>2. CASE n \notin DOMAIN Cut
      BY <1>1, <3>2 DEF Stored
    <3>. QED
      BY <3>1, <3>2
  <2>2. d \in Pointers
    BY DEF Pointers, Tree
  <2>3. << >> \in Seq(Blocks)
    OBVIOUS
  <2>. HIDE DEF r
  <2>. QED
    BY <1>5, <2>1, <2>2, <2>3 DEF Typed
<1>7. \/ Short(r.name)
      \/ r.name = n
  BY <1>5 DEF Stored, Short, Range
<1>. HIDE DEF r
<1>8. /\ DOMAIN nodes' = DOMAIN nodes \cup {a} /\ nodes'[a] = r
      /\ \A x \in DOMAIN nodes \ {d} : nodes'[x] = nodes[x]
      /\ nodes'[d] = [nodes[d] EXCEPT !.children = l]
  BY DEF Grown, Add, r
<1>. HIDE DEF l
<1>9. /\ nodes'[d].type = nodes[d].type /\ nodes'[d].name = nodes[d].name
      /\ nodes'[d].parent = nodes[d].parent /\ nodes'[d].children = l
  BY <1>8 DEF IsNode
<1>10. \A x \in DOMAIN nodes :
         /\ nodes'[x].type = nodes[x].type /\ nodes'[x].name = nodes[x].name
         /\ nodes'[x].parent = nodes[x].parent
         /\ x # d => nodes'[x].children = nodes[x].children
  BY <1>8, <1>9
<1>11. Below' = Below \cup {a} /\ Below \subseteq DOMAIN nodes /\ a \notin Below
  BY <1>8 DEF Below
<1>12. \A x \in Below : nodes[x].parent \in DOMAIN nodes /\ nodes[x].parent # a
  BY DEF Tree, Hung, Live
<1>13. Root \in DOMAIN nodes' /\ DOMAIN nodes' \subseteq Blocks \cup {Root}
  BY <1>8 DEF Tree
<1>14. \A x \in DOMAIN nodes' : Typed(nodes'[x])
  <2>1. \A x \in DOMAIN nodes \ {d} : Typed(nodes'[x])
    BY <1>8 DEF Tree
  <2>2. Typed(nodes'[d])
    BY <1>2, <1>3, <1>9 DEF Typed
  <2>. QED
    BY <1>6, <1>8, <2>1, <2>2
<1>15. RootOK'
  BY <1>10 DEF Tree, RootOK
<1>16. Hung'
  <2>1. ASSUME NEW x \in Below
        PROVE  /\ nodes[x].parent \in DOMAIN nodes' /\ nodes'[nodes[x].parent].type = "DIRECTORY"
               /\ Once(x, nodes'[nodes[x].parent].children)
    <3>1. /\ nodes[x].parent \in DOMAIN nodes /\ nodes[nodes[x].parent].type = "DIRECTORY"
          /\ Once(x, nodes[nodes[x].parent].children) /\ x # a
      BY <1>11 DEF Tree, Hung, Live
    <3>2. CASE nodes[x].parent = d
      BY <1>3, <1>8, <1>9, <3>1, <3>2
    <3>3. CASE nodes[x].parent # d
      BY <1>8, <1>10, <3>1, <3>3
    <3>. QED
      BY <3>2, <3>3
  <2>2. d \in DOMAIN nodes' /\ nodes'[d].type = "DIRECTORY" /\ Once(a, nodes'[d].children)
    BY <1>1, <1>3, <1>4, <1>8, <1>9
  <2>3. ASSUME NEW x \in Below'
        PROVE  /\ nodes'[x].parent \in DOMAIN nodes' /\ nodes'[nodes'[x].parent].type = "DIRECTORY"
               /\ Once(x, nodes'[nodes'[x].parent].children)
    <3>1. CASE x = a
      BY <1>5, <1>8, <2>2, <3>1
    <3>2. CASE x \in Below
      BY <1>10, <1>11, <2>1, <3>2
    <3>. QED
      BY <1>11, <3>1, <3>2
  <2>. QED
    BY <2>3 DEF Hung, Live
<1>17. Listed'
  <2>. SUFFICES ASSUME NEW x \in DOMAIN nodes', NEW c, In(c, nodes'[x].children)
                PROVE  c \in Below' /\ nodes'[c].parent = x
    BY DEF Listed
  <2>1. x # a
    BY <1>5, <1>8
  <2>2. x \in DOMAIN nodes
    BY <1>8, <2>1
  <2>3. CASE In(c, nodes[x].children)
    BY <1>10, <1>11, <2>2, <2>3 DEF Tree, Listed
  <2>4. CASE x = d /\ c = a
    BY <1>5, <1>8, <1>11, <2>4
  <2>. QED
    BY <1>3, <1>9, <1>10, <2>2, <2>3, <2>4
<1>18. Acyclic'
  <2>. SUFFICES ASSUME NEW S \in SUBSET Below', S # {}
                PROVE  \E x \in S : nodes'[x].parent \notin S
    BY DEF Acyclic
  <2>1. CASE S \ {a} = {}
    BY <1>5, <1>8, <2>1
  <2>2. CASE S \ {a} # {}
    <3>1. S \ {a} \in SUBSET Below
      BY <1>11
    <3>2. PICK x \in S \ {a} : nodes[x].parent \notin S \ {a}
      BY <2>2, <3>1 DEF Tree, Acyclic
    <3>3. x \in Below
      BY <3>1
    <3>4. nodes'[x].parent = nodes[x].parent /\ nodes[x].parent # a
      BY <1>10, <1>11, <1>12, <3>3
    <3>. QED
      BY <3>2, <3>4
  <2>. QED
    BY <2>1, <2>2
<1>19. NamesApart'
  <2>1. \A x \in Below : nodes'[x].parent = nodes[x].parent /\ nodes'[x].name = nodes[x].name
    BY <1>10, <1>11
  <2>2. \A x \in Below : nodes[x].parent = d => nodes[x].name # n
    <3>. SUFFICES ASSUME NEW x \in Below, nodes[x].parent = d PROVE nodes[x].name # n
      OBVIOUS
    <3>1. In(x, nodes[d].children)
      BY DEF Tree, Hung, Once, In
    <3>. QED
      BY <1>1, <3>1
  <2>3. /\ nodes'[a].name \in Names \ DOMAIN Cut
        /\ Short(nodes'[a].name) \/ nodes'[a].name \notin {".", ".."}
    BY <1>1, <1>6, <1>7, <1>8
  <2>4. \A x \in Below :
          nodes'[x].parent = nodes'[a].parent /\ nodes'[x].name = nodes'[a].name
            => Short(nodes'[a].name)
    BY <1>5, <1>7, <1>8, <2>1, <2>2
  <2>5. ASSUME NEW x \in Below, NEW y \in Below, nodes'[x].parent = nodes'[y].parent,
               nodes'[x].name = nodes'[y].name
        PROVE  x = y \/ Short(nodes'[x].name)
    BY <2>1, <2>5 DEF Tree, NamesApart
  <2>6. ASSUME NEW x \in Below
        PROVE  /\ nodes'[x].name \in Names \ DOMAIN Cut
               /\ Short(nodes'[x].name) \/ nodes'[x].name \notin {".", ".."}
    BY <2>1 DEF Tree, NamesApart
  <2>7. ASSUME NEW x \in Below', NEW y \in Below', nodes'[x].parent = nodes'[y].parent,
               nodes'[x].name = nodes'[y].name
        PROVE  x = y \/ Short(nodes'[x].name)
    BY <1>11, <2>4, <2>5, <2>7
  <2>8. ASSUME NEW x \in Below'
        PROVE  /\ nodes'[x].name \in Names \ DOMAIN Cut
               /\ Short(nodes'[x].name) \/ nodes'[x].name \notin {".", ".."}
    BY <1>11, <2>3, <2>6
  <2>. QED
    BY <2>7, <2>8 DEF NamesApart, Short
<1>. QED
  BY <1>13, <1>14, <1>15, <1>16, <1>17, <1>18, <1>19 DEF Tree

\* vfs_remove: a node without children leaves the list of its parent.
LEMMA TreeShrinks ==
  ASSUME Tree, \A x \in DOMAIN nodes : IsNode(nodes[x]),
         NEW a \in DOMAIN nodes, a # Root, nodes[a].children = << >>,
         NEW frees, Unlink(a, frees)
  PROVE  Tree'
<1>. DEFINE p == nodes[a].parent
            l == RemoveFirst(nodes[p].children, a)
<1>1. p \in DOMAIN nodes /\ Once(a, nodes[p].children) /\ a \in Below
  BY DEF Tree, Hung, Below, Live
<1>2. Typed(nodes[p]) /\ nodes[p].children \in Seq(Blocks)
  BY <1>1 DEF Tree, Typed
<1>3. /\ l \in Seq(Blocks)
      /\ \A b : In(b, l) <=> b # a /\ In(b, nodes[p].children)
      /\ \A b : b # a /\ Once(b, nodes[p].children) => Once(b, l)
  BY <1>1, <1>2, Removed
<1>4. \A x \in Below : nodes[x].parent # a
  BY DEF Tree, Hung, Once
<1>5. /\ DOMAIN nodes' = DOMAIN nodes \ {a} /\ p # a
      /\ \A x \in DOMAIN nodes \ {a, p} : nodes'[x] = nodes[x]
      /\ nodes'[p] = [nodes[p] EXCEPT !.children = l]
  BY <1>1, <1>4 DEF Unlink, Drop
<1>. HIDE DEF l, p
<1>6. /\ nodes'[p].type = nodes[p].type /\ nodes'[p].name = nodes[p].name
      /\ nodes'[p].parent = nodes[p].parent /\ nodes'[p].children = l
  BY <1>1, <1>5 DEF IsNode
<1>7. \A x \in DOMAIN nodes' :
        /\ x \in DOMAIN nodes /\ x # a
        /\ nodes'[x].type = nodes[x].type /\ nodes'[x].name = nodes[x].name
        /\ nodes'[x].parent = nodes[x].parent
        /\ x # p => nodes'[x].children = nodes[x].children
  BY <1>5, <1>6
<1>8. Below' = Below \ {a} /\ Below \subseteq DOMAIN nodes /\ Below' \subseteq DOMAIN nodes'
  BY <1>5 DEF Below
<1>9. Root \in DOMAIN nodes' /\ DOMAIN nodes' \subseteq Blocks \cup {Root}
  BY <1>5 DEF Tree
<1>10. \A x \in DOMAIN nodes' : Typed(nodes'[x])
  <2>1. Typed(nodes'[p])
    BY <1>2, <1>3, <1>6 DEF Typed
  <2>. QED
    BY <1>5, <2>1 DEF Tree
<1>11. RootOK'
  BY <1>7, <1>9 DEF Tree, RootOK
<1>12. Hung'
  <2>. SUFFICES ASSUME NEW x \in Below'
                PROVE  /\ nodes'[x].parent \in DOMAIN nodes'
                       /\ nodes'[nodes'[x].parent].type = "DIRECTORY"
                       /\ Once(x, nodes'[nodes'[x].parent].children)
    BY DEF Hung, Live
  <2>1. /\ x \in Below /\ x # a /\ nodes'[x].parent = nodes[x].parent
        /\ nodes[x].parent \in DOMAIN nodes /\ nodes[nodes[x].parent].type = "DIRECTORY"
        /\ Once(x, nodes[nodes[x].parent].children)
    BY <1>7, <1>8 DEF Tree, Hung, Live
  <2>2. nodes[x].parent \in DOMAIN nodes'
    BY <1>4, <1>5, <2>1
  <2>3. CASE nodes[x].parent = p
    BY <1>3, <1>6, <2>1, <2>2, <2>3
  <2>4. CASE nodes[x].parent # p
    BY <1>7, <2>1, <2>2, <2>4
  <2>. QED
    BY <2>3, <2>4
<1>13. Listed'
  <2>. SUFFICES ASSUME NEW x \in DOMAIN nodes', NEW c, In(c, nodes'[x].children)
                PROVE  c \in Below' /\ nodes'[c].parent = x
    BY DEF Listed
  <2>1. In(c, nodes[x].children) /\ x \in DOMAIN nodes
    BY <1>3, <1>6, <1>7
  <2>2. c \in Below /\ nodes[c].parent = x
    BY <2>1 DEF Tree, Listed
  <2>3. c # a
    BY <1>3, <1>6, <2>2 DEF p
  <2>. QED
    BY <1>7, <1>8, <2>2, <2>3
<1>14. Acyclic'
  <2>. SUFFICES ASSUME NEW S \in SUBSET Below', S # {}
                PROVE  \E x \in S : nodes'[x].parent \notin S
    BY DEF Acyclic
  <2>1. PICK x \in S : nodes[x].parent \notin S
    BY <1>8 DEF Tree, Acyclic
  <2>. QED
    BY <1>7, <1>8, <2>1
<1>15. NamesApart'
  <2>1. \A x \in Below' : x \in Below /\ nodes'[x].parent = nodes[x].parent
                          /\ nodes'[x].name = nodes[x].name
    BY <1>7, <1>8
  <2>. QED
    BY <2>1 DEF Tree, NamesApart, Short
<1>. QED
  BY <1>9, <1>10, <1>11, <1>12, <1>13, <1>14, <1>15 DEF Tree
-----------------------------------------------------------------------------
Pointing ==
  /\ cwd \in Blocks \cup {Root}
  /\ \A i \in Fds : fds[i].node \in Pointers
  /\ ret \in {"ok", "failed", "undefined"} /\ orphaned \in BOOLEAN

\* The invariant with the shape of the tree.
TInv == IInv /\ Tree /\ Pointing /\ OnlyRemovalDangles

\* What vfs_init leaves behind is a tree.
LEMMA InitIsTree ==
  ASSUME Init
  PROVE  Tree
<1>. DEFINE Is(a, t, n, p, l) == /\ nodes[a].type = t /\ nodes[a].name = n
                                 /\ nodes[a].parent = p /\ nodes[a].children = l
<1>0. << >> \in Seq(Blocks) /\ DOMAIN << >> = {} /\ Root \in Pointers
  BY DEF Pointers
<1>1. CASE nodes = [a \in {Root} |-> Node("DIRECTORY", "/", Root)]
  <2>1. DOMAIN nodes = {Root} /\ Is(Root, "DIRECTORY", "/", Root, << >>) /\ Below = {}
    BY <1>1 DEF Node, Below
  <2>2. (\A a \in DOMAIN nodes : Typed(nodes[a])) /\ RootOK
    BY <1>0, <2>1 DEF Typed, RootOK
  <2>3. Hung /\ Acyclic /\ NamesApart
    BY <2>1 DEF Hung, Acyclic, NamesApart
  <2>4. Listed
    BY <1>0, <2>1 DEF Listed, In
  <2>. QED
    BY <2>1, <2>2, <2>3, <2>4 DEF Tree
<1>2. ASSUME NEW b \in Blocks, NEW x \in Blocks \ {b}, NEW d \in Devices, nodes = DeviceTree(b, x, d)
      PROVE  Tree
  <2>1. b # Root /\ x # Root /\ b # x
    BY VfsAssumption
  <2>2. DOMAIN nodes = {Root, b, x} /\ Below = {b, x}
    BY <1>2, <2>1 DEF DeviceTree, Below
  <2>3. Is(x, d.kind, d.name, b, << >>)
    BY <1>2, <2>1 DEF DeviceTree, Node
  <2>4. Is(b, "DIRECTORY", d.dir, Root, <<x>>)
    BY <1>2, <2>1 DEF DeviceTree, Node
  <2>5. Is(Root, "DIRECTORY", "/", Root, <<b>>)
    BY <1>2, <2>1 DEF DeviceTree, Node
  <2>6. /\ d.kind \in Kinds
        /\ {d.dir, d.name} \subseteq Names \ (DOMAIN Cut \cup {".", ".."})
    BY PathAssumption
  <2>7. /\ \A y \in Blocks : <<y>> \in Seq(Blocks)
        /\ \A c, y : In(c, <<y>>) <=> c = y
        /\ \A y : Once(y, <<y>>)
        /\ \A c : ~ In(c, << >>)
    <3>1. \A y : DOMAIN <<y>> = {1} /\ <<y>>[1] = y
      OBVIOUS
    <3>. QED
      BY <1>0, <3>1 DEF In, Once
  <2>8. {b, x, Root} \subseteq Pointers
    BY DEF Pointers
  <2>9. \A a \in DOMAIN nodes : Typed(nodes[a])
    <3>1. Typed(nodes[x])
      BY <1>0, <2>3, <2>6, <2>8 DEF Typed
    <3>2. Typed(nodes[b])
      BY <2>4, <2>6, <2>7, <2>8 DEF Typed
    <3>3. Typed(nodes[Root])
      BY <2>5, <2>7, <2>8 DEF Typed
    <3>. QED
      BY <2>2, <3>1, <3>2, <3>3
  <2>10. RootOK /\ Hung
    <3>1. RootOK
      BY <2>5 DEF RootOK
    <3>2. Live(Root) /\ nodes[Root].type = "DIRECTORY" /\ Once(b, nodes[Root].children)
      BY <2>2, <2>5, <2>7 DEF Live
    <3>3. Live(b) /\ nodes[b].type = "DIRECTORY" /\ Once(x, nodes[b].children)
      BY <2>2, <2>4, <2>7 DEF Live
    <3>4. nodes[b].parent = Root /\ nodes[x].parent = b
      BY <2>3, <2>4
    <3>. HIDE DEF Is
    <3>. QED
      BY <2>2, <3>1, <3>2, <3>3, <3>4 DEF Hung
  <2>11. Listed
    <3>1. \A c : In(c, nodes[Root].children) => c = b
      BY <2>5, <2>7
    <3>2. \A c : In(c, nodes[b].children) => c = x
      BY <2>4, <2>7
    <3>3. \A c : ~ In(c, nodes[x].children)
      BY <2>3, <2>7
    <3>4. nodes[b].parent = Root /\ nodes[x].parent = b
      BY <2>3, <2>4
    <3>. HIDE DEF Is
    <3>. QED
      BY <2>2, <3>1, <3>2, <3>3, <3>4 DEF Listed
  <2>12. Acyclic
    <3>. SUFFICES ASSUME NEW S \in SUBSET {b, x}, S # {} PROVE \E a \in S : nodes[a].parent \notin S
      BY <2>2 DEF Acyclic
    <3>1. CASE b \in S
      BY <2>1, <2>4, <3>1
    <3>2. CASE b \notin S
      BY <2>3, <3>2
    <3>. QED
      BY <3>1, <3>2
  <2>13. NamesApart
    BY <2>1, <2>2, <2>3, <2>4, <2>6 DEF NamesApart
  <2>. QED
    BY <2>2, <2>9, <2>10, <2>11, <2>12, <2>13 DEF Tree
<1>. QED
  BY <1>1, <1>2 DEF Init

\* vfs_init leaves a tree, and nothing points outside it.
THEOREM InitEstablishesTree == Init => TInv
<1>. SUFFICES ASSUME Init PROVE TInv
  OBVIOUS
<1>1. IInv /\ Tree
  BY InitEstablishes, InitIsTree
<1>2. Pointing
  BY DEF Init, Pointing, Pointers
<1>3. OnlyRemovalDangles
  BY <1>1 DEF Init, OnlyRemovalDangles, Defined, Live, Tree, RootOK
<1>. QED
  BY <1>1, <1>2, <1>3 DEF TInv

\* Calls that free nothing.
LEMMA PointersKept ==
  ASSUME Pointing, OnlyRemovalDangles, DOMAIN nodes \subseteq DOMAIN nodes',
         DOMAIN nodes' \subseteq Blocks \cup {Root},
         \A x \in DOMAIN nodes : nodes'[x].type = nodes[x].type,
         UNCHANGED <<cwd, orphaned>>, ret' \in {"ok", "failed"},
         \A i \in Fds :
           \/ fds'[i].node = fds[i].node /\ (fds'[i].in_use => fds[i].in_use)
           \/ fds'[i].node \in DOMAIN nodes'
  PROVE  Pointing' /\ OnlyRemovalDangles'
<1>1. Pointing'
  BY DEF Pointing, Pointers
<1>2. OnlyRemovalDangles'
  BY DEF OnlyRemovalDangles, Defined, Live
<1>. QED
  BY <1>1, <1>2

\* A call that moves a descriptor, closes it, or leaves it as it was.
FdMoved == \A i \in Fds : fds'[i].node = fds[i].node /\ (fds'[i].in_use => fds[i].in_use)

\* A call that leaves the nodes as they are leaves the tree as it is.
LEMMA NothingHung ==
  ASSUME TInv, UNCHANGED <<nodes, cwd, orphaned>>, ret' \in {"ok", "failed"}, FdMoved
  PROVE  Tree' /\ Pointing' /\ OnlyRemovalDangles'
<1>1. Tree'
  BY TreeKept DEF TInv
<1>2. DOMAIN nodes' \subseteq Blocks \cup {Root}
  BY DEF TInv, Tree
<1>. QED
  BY <1>1, <1>2, PointersKept DEF TInv, FdMoved

LEMMA TreeCallHangs ==
  ASSUME TInv, TreeCall
  PROVE  Tree' /\ Pointing' /\ OnlyRemovalDangles'
<1>1. PICK a \in Blocks \cup {Root} :
        \/ \E n \in Names, t \in {"FILE", "DIRECTORY"} : VfsCreate(a, n, t)
        \/ VfsRemove(a)
        \/ VfsSetCwd(a)
  BY DEF TreeCall
<1>2. UNCHANGED fds
  BY <1>1 DEF VfsCreate, VfsRemove, VfsSetCwd
<1>3. \A x \in DOMAIN nodes : IsNode(nodes[x])
  BY DEF TInv, IInv, Shape
<1>4. FdMoved
  BY <1>2 DEF FdMoved
<1>5. ASSUME NEW n \in Names, NEW t \in {"FILE", "DIRECTORY"}, VfsCreate(a, n, t)
      PROVE  Tree' /\ Pointing' /\ OnlyRemovalDangles'
  <2>1. CASE Fail /\ UNCHANGED nodes
    BY <1>4, <1>5, <2>1, NothingHung DEF VfsCreate, Fail
  <2>2. ASSUME NEW x \in Blocks \ held, CanCreate(a, n), nodes' = Grown(x, a, n, t), Succeed
        PROVE  Tree' /\ Pointing' /\ OnlyRemovalDangles'
    <3>1. x \in Blocks \ DOMAIN nodes /\ x # Root /\ a \in DOMAIN nodes
      BY <1>5 DEF TInv, IInv, Shape, MemoryOwned, VfsCreate, Live
    <3>2. Tree'
      BY <1>3, <2>2, <3>1, TreeGrows DEF TInv
    <3>3. /\ DOMAIN nodes \subseteq DOMAIN nodes'
          /\ \A y \in DOMAIN nodes : nodes'[y].type = nodes[y].type
      <4>. DEFINE l == <<x>> \o nodes[a].children
      <4>1. /\ DOMAIN nodes' = DOMAIN nodes \cup {x}
            /\ \A y \in DOMAIN nodes \ {a} : nodes'[y] = nodes[y]
            /\ nodes'[a] = [nodes[a] EXCEPT !.children = l]
        BY <2>2, <3>1 DEF Grown, Add
      <4>. HIDE DEF l
      <4>2. nodes'[a].type = nodes[a].type
        BY <1>3, <3>1, <4>1 DEF IsNode
      <4>. QED
        BY <4>1, <4>2
    <3>4. DOMAIN nodes' \subseteq Blocks \cup {Root}
      BY <3>2 DEF Tree
    <3>5. UNCHANGED <<cwd, orphaned>> /\ ret' \in {"ok", "failed"}
      BY <1>5, <2>2 DEF VfsCreate, Succeed
    <3>. QED
      BY <1>4, <3>2, <3>3, <3>4, <3>5, PointersKept DEF TInv, FdMoved
  <2>. QED
    BY <1>5, <2>1, <2>2 DEF VfsCreate
<1>6. ASSUME VfsRemove(a) PROVE Tree' /\ Pointing' /\ OnlyRemovalDangles'
  <2>1. CASE Refuse
    BY <1>4, <1>6, <2>1, NothingHung DEF VfsRemove, Refuse, Fail
  <2>2. CASE a # Root /\ nodes[a].children = << >> /\ Unlink(a, {a, nodes[a].data})
    <3>1. a \in DOMAIN nodes /\ UNCHANGED <<cwd, fds>>
      BY <1>6 DEF VfsRemove, Live
    <3>2. Tree'
      BY <1>3, <2>2, <3>1, TreeShrinks DEF TInv
    <3>3. DOMAIN nodes' = DOMAIN nodes \ {a}
          /\ \A y \in DOMAIN nodes \ {a} : nodes'[y].type = nodes[y].type
      <4>. DEFINE p == nodes[a].parent
      <4>1. /\ DOMAIN nodes' = DOMAIN nodes \ {a}
            /\ \A y \in DOMAIN nodes \ {a} :
                 nodes'[y] = IF y = p THEN [nodes[y] EXCEPT !.children = RemoveFirst(@, a)] ELSE nodes[y]
        BY <2>2 DEF Unlink, Drop
      <4>2. ASSUME NEW y \in DOMAIN nodes \ {a} PROVE nodes'[y].type = nodes[y].type
        BY <1>3, <4>1 DEF IsNode
      <4>. QED
        BY <4>1, <4>2
    <3>4. /\ ret' = "ok" /\ Pointing
          /\ orphaned' = (orphaned \/ cwd = a \/ \E i \in Fds : fds[i].in_use /\ fds[i].node = a)
      BY <2>2 DEF TInv, Unlink, Succeed
    <3>5. orphaned' \in BOOLEAN
      BY <3>4 DEF Pointing
    <3>6. Pointing'
      BY <3>1, <3>4, <3>5 DEF Pointing
    <3>7. OnlyRemovalDangles'
      <4>. SUFFICES ASSUME ~ orphaned'
                    PROVE  /\ ret' # "undefined"
                           /\ cwd \in DOMAIN nodes' /\ nodes'[cwd].type = "DIRECTORY"
                           /\ \A i \in Fds : fds[i].in_use => fds[i].node \in DOMAIN nodes'
        BY <3>1 DEF OnlyRemovalDangles, Defined, Live
      <4>1. ~ orphaned /\ cwd # a /\ \A i \in Fds : ~ (fds[i].in_use /\ fds[i].node = a)
        BY <3>4
      <4>2. /\ cwd \in DOMAIN nodes /\ nodes[cwd].type = "DIRECTORY"
            /\ \A i \in Fds : fds[i].in_use => fds[i].node \in DOMAIN nodes
        BY <4>1 DEF TInv, OnlyRemovalDangles, Live
      <4>. QED
        BY <3>3, <3>4, <4>1, <4>2
    <3>. QED
      BY <3>2, <3>6, <3>7
  <2>. QED
    BY <1>6, <2>1, <2>2 DEF VfsRemove
<1>7. ASSUME VfsSetCwd(a) PROVE Tree' /\ Pointing' /\ OnlyRemovalDangles'
  <2>1. UNCHANGED <<nodes, fds, orphaned>> /\ ret' = "ok" /\ a \in DOMAIN nodes
        /\ cwd' = IF nodes[a].type = "DIRECTORY" THEN a ELSE cwd
    BY <1>7 DEF VfsSetCwd, Succeed, Live
  <2>2. Tree'
    BY <2>1, TreeKept DEF TInv
  <2>3. Pointing'
    BY <2>1 DEF TInv, Pointing
  <2>4. OnlyRemovalDangles'
    BY <2>1 DEF TInv, OnlyRemovalDangles, Defined, Live
  <2>. QED
    BY <2>2, <2>3, <2>4
<1>. QED
  BY <1>1, <1>5, <1>6, <1>7
-----------------------------------------------------------------------------
\* What a path resolves to is a node of the tree, if cwd is or is not read.
LEMMA Resolved ==
  ASSUME Tree, NEW p \in [abs : BOOLEAN, comps : Seq(Names \cup {".", ".."})], p.abs \/ Live(cwd)
  PROVE  Resolve(p) \in Found
<1>1. Start(p) \in Found
  BY DEF Start, Found, Tree, Live
<1>2. Len(p.comps) \in Nat
  OBVIOUS
<1>. QED
  BY <1>1, <1>2, WalkStays DEF Resolve

LEMMA NewParent ==
  ASSUME TInv, NEW p \in Paths, NEW flags, ~ Dangles(p, flags), Resolve(p) = NULL,
         "CREATE" \in flags
  PROVE  Last(p.comps) \in Names \cup {".", ".."} /\ Parent(p) \in Found
<1>. DEFINE S == Names \cup {".", ".."}
            c == p.comps
<1>1. p \in [abs : BOOLEAN, comps : Seq(S)] /\ c \in Seq(S) /\ p.abs \in BOOLEAN
  BY PathAssumption
<1>2. Tree /\ NULL \notin DOMAIN nodes
  BY VfsAssumption DEF TInv, Tree
<1>3. ~ p.abs => Live(cwd)
  BY DEF Dangles, ReadsCwd
<1>4. c # << >>
  <2>. SUFFICES ASSUME c = << >> PROVE FALSE
    OBVIOUS
  <2>1. Start(p) \in DOMAIN nodes
    BY <1>1, <1>2, <1>3 DEF Start, Tree, Live
  <2>2. Walk(Start(p), << >>) = Start(p)
    BY <1>2, <2>1, WalkNowhere DEF Found
  <2>. QED
    BY <1>2, <2>1, <2>2 DEF Resolve
<1>5. Len(c) \in Nat \ {0} /\ Last(c) \in S
  BY <1>1, <1>4 DEF Last
<1>6. CASE Len(c) = 1
  <2>1. Live(cwd)
    BY <1>3, <1>6 DEF Dangles, ReadsCwd
  <2>. QED
    BY <1>5, <1>6, <2>1 DEF Parent, Found, Live
<1>7. CASE Len(c) # 1
  <2>. DEFINE q == [p EXCEPT !.comps = Front(c)]
  <2>1. Front(c) \in Seq(S)
    BY <1>1, <1>5 DEF Front
  <2>2. q \in [abs : BOOLEAN, comps : Seq(S)] /\ q.abs = p.abs
    BY <1>1, <2>1
  <2>3. Parent(p) = Resolve(q)
    BY <1>7 DEF Parent
  <2>. HIDE DEF q
  <2>4. Resolve(q) \in Found
    BY <1>1, <1>2, <1>3, <2>2, Resolved
  <2>. QED
    BY <1>5, <2>3, <2>4
<1>. QED
  BY <1>6, <1>7

\* vfs_open: what it stores in a descriptor is in the tree.
LEMMA FdTakenHangs ==
  ASSUME Pointing, NEW a, NEW ns, NEW ws, NEW flags, TakeFd(a, ns, ws, flags)
  PROVE  /\ UNCHANGED <<cwd, orphaned>> /\ ret' \in {"ok", "failed"}
         /\ nodes' = ns \/ nodes' = [ns EXCEPT ![a].size = 0]
         /\ IInv => \A i \in Fds : UNCHANGED fds[i] \/ fds'[i].node = a
<1>. DEFINE free == {i \in Fds : ~ fds[i].in_use}
            d == [node |-> a, in_use |-> TRUE,
                  offset |-> IF "APPEND" \in flags THEN ns[a].size ELSE 0]
            m == Min(free)
<1>1. UNCHANGED fds \/ fds' = [fds EXCEPT ![m] = d]
  BY DEF TakeFd
<1>2. d.node = a
  OBVIOUS
<1>3. /\ UNCHANGED <<cwd, orphaned>> /\ ret' \in {"ok", "failed"}
      /\ nodes' = ns \/ nodes' = [ns EXCEPT ![a].size = 0]
  BY DEF TakeFd, Succeed, Fail
<1>. HIDE DEF d, m
<1>4. ASSUME IInv, NEW i \in Fds PROVE UNCHANGED fds[i] \/ fds'[i].node = a
  <2>1. i \in DOMAIN fds
    BY <1>4 DEF IInv, Shape
  <2>. QED
    BY <1>1, <1>2, <2>1
<1>. QED
  BY <1>3, <1>4

LEMMA OpenCallHangs ==
  ASSUME TInv, OpenCall
  PROVE  Tree' /\ Pointing' /\ OnlyRemovalDangles'
<1>1. PICK p \in Paths, flags \in FlagSets : VfsOpen(p, flags)
  BY DEF OpenCall
<1>2. \A x \in DOMAIN nodes : IsNode(nodes[x]) /\ Sized(nodes[x])
  BY DEF TInv, IInv, Shape
<1>3. ASSUME OpenDangling(p, flags) PROVE Tree' /\ Pointing' /\ OnlyRemovalDangles'
  <2>1. UNCHANGED <<nodes, cwd, fds, orphaned>> /\ ret' = "undefined" /\ Dangles(p, flags)
    BY <1>3 DEF OpenDangling, Undefined
  <2>2. ~ Live(cwd)
    <3>. SUFFICES ASSUME Live(cwd) PROVE FALSE
      OBVIOUS
    <3>1. p \in [abs : BOOLEAN, comps : Seq(Names \cup {".", ".."})]
      BY PathAssumption
    <3>2. Resolve(p) \in Found
      BY <3>1, Resolved DEF TInv
    <3>. QED
      BY <2>1, <3>2 DEF Dangles, Found
  <2>3. orphaned
    BY <2>2 DEF TInv, OnlyRemovalDangles
  <2>4. Tree'
    BY <2>1, TreeKept DEF TInv
  <2>5. Pointing' /\ OnlyRemovalDangles'
    BY <2>1, <2>3 DEF TInv, Pointing, OnlyRemovalDangles
  <2>. QED
    BY <2>4, <2>5
<1>4. ASSUME OpenMissing(p, flags) PROVE Tree' /\ Pointing' /\ OnlyRemovalDangles'
  BY <1>4, NothingHung DEF OpenMissing, Fail, FdMoved
<1>5. ASSUME OpenNode(p, flags) PROVE Tree' /\ Pointing' /\ OnlyRemovalDangles'
  <2>. DEFINE a == Resolve(p)
  <2>1. a \in DOMAIN nodes /\ TakeFd(a, nodes, wrote, flags)
    BY <1>5 DEF OpenNode, Dangles
  <2>. HIDE DEF a
  <2>2. /\ UNCHANGED <<cwd, orphaned>> /\ ret' \in {"ok", "failed"}
        /\ nodes' = nodes \/ nodes' = [nodes EXCEPT ![a].size = 0]
        /\ \A i \in Fds : UNCHANGED fds[i] \/ fds'[i].node = a
    BY <2>1, FdTakenHangs DEF TInv
  <2>3. /\ DOMAIN nodes' = DOMAIN nodes
        /\ \A x \in DOMAIN nodes : nodes'[x] = nodes[x] \/ nodes'[x] = [nodes[x] EXCEPT !.size = 0]
    BY <2>2
  <2>4. ASSUME NEW x \in DOMAIN nodes
        PROVE  /\ nodes'[x].type = nodes[x].type /\ nodes'[x].name = nodes[x].name
               /\ nodes'[x].parent = nodes[x].parent /\ nodes'[x].children = nodes[x].children
    BY <1>2, <2>3 DEF IsNode
  <2>5. Tree'
    BY <2>3, <2>4, TreeKept DEF TInv
  <2>6. DOMAIN nodes' \subseteq Blocks \cup {Root}
    BY <2>5 DEF Tree
  <2>. QED
    BY <2>1, <2>2, <2>3, <2>4, <2>5, <2>6, PointersKept DEF TInv
<1>6. ASSUME OpenNew(p, flags) PROVE Tree' /\ Pointing' /\ OnlyRemovalDangles'
  <2>. DEFINE d == Parent(p)
              n == Last(p.comps)
  <2>1. PICK a \in Blocks \ held :
          TakeFd(a, Grown(a, d, n, "FILE"), Add(wrote, a, << >>), flags) /\ held' = held \cup {a}
    BY <1>6 DEF OpenNew
  <2>2. n \in Names \cup {".", ".."} /\ d \in DOMAIN nodes /\ CanCreate(d, n)
    BY <1>6, NewParent DEF OpenNew, Found
  <2>. DEFINE ns == Grown(a, d, n, "FILE")
  <2>. HIDE DEF d, n
  <2>3. a \in Blocks \ DOMAIN nodes /\ a # Root
    BY DEF TInv, IInv, Shape, MemoryOwned
  <2>4. ns[a] = Node("FILE", Stored(n), d) /\ DOMAIN ns = DOMAIN nodes \cup {a}
    BY DEF Grown, Add
  <2>5. [ns[a] EXCEPT !.size = 0] = ns[a]
    BY <2>4, NewNode, SizeCleared
  <2>6. ns = [x \in DOMAIN nodes \cup {a} |-> ns[x]]
    BY DEF Grown, Add
  <2>. HIDE DEF ns
  <2>7. /\ UNCHANGED <<cwd, orphaned>> /\ ret' \in {"ok", "failed"}
        /\ nodes' = ns \/ nodes' = [ns EXCEPT ![a].size = 0]
        /\ \A i \in Fds : UNCHANGED fds[i] \/ fds'[i].node = a
    BY <2>1, FdTakenHangs DEF TInv, ns
  <2>8. nodes' = ns
    BY <2>5, <2>6, <2>7
  <2>9. Tree'
    BY <1>2, <2>2, <2>3, <2>8, TreeGrows DEF TInv, ns
  <2>10. ASSUME NEW x \in DOMAIN nodes PROVE nodes'[x].type = nodes[x].type
    <3>. DEFINE l == <<a>> \o nodes[d].children
    <3>1. nodes'[x] = nodes[x] \/ nodes'[x] = [nodes[x] EXCEPT !.children = l]
      BY <2>3, <2>8 DEF ns, Grown, Add
    <3>. HIDE DEF l
    <3>. QED
      BY <1>2, <3>1 DEF IsNode
  <2>11. DOMAIN nodes \subseteq DOMAIN nodes' /\ DOMAIN nodes' \subseteq Blocks \cup {Root}
         /\ a \in DOMAIN nodes'
    BY <2>4, <2>8, <2>9 DEF Tree
  <2>. QED
    BY <2>7, <2>9, <2>10, <2>11, PointersKept DEF TInv
<1>. QED
  BY <1>1, <1>3, <1>4, <1>5, <1>6 DEF VfsOpen

\* A write changes the contents of a file, and no node's place.
LEMMA WriteHangs ==
  ASSUME TInv, NEW i \in Fds, Works(i), NEW s, NEW v, NEW b, NEW c, Wrote(i, s, v, b, c)
  PROVE  Tree' /\ Pointing' /\ OnlyRemovalDangles'
<1>. DEFINE a == fds[i].node
            e == fds[i].offset + s
<1>1. /\ nodes' = [nodes EXCEPT ![a].data = b, ![a].cap = c, ![a].size = IF e > @ THEN e ELSE @]
      /\ a \in DOMAIN nodes /\ Shape
  BY DEF Wrote, Works, Live, TInv, IInv
<1>2. /\ DOMAIN nodes' = DOMAIN nodes
      /\ \A x \in DOMAIN nodes \ {a} : nodes'[x] = nodes[x]
      /\ \E z : nodes'[a] = FileWith(nodes[a], b, c, z)
  <2>. HIDE DEF a, e
  <2>1. /\ DOMAIN nodes' = DOMAIN nodes /\ nodes' = [x \in DOMAIN nodes' |-> nodes'[x]]
        /\ \A x \in DOMAIN nodes \ {a} : nodes'[x] = nodes[x]
        /\ nodes'[a] = FileWith(nodes[a], b, c, IF e > nodes[a].size THEN e ELSE nodes[a].size)
    BY ONLY ZenonT(60), <1>1, FileWritten
  <2>. QED
    BY <2>1
<1>3. ASSUME NEW x \in DOMAIN nodes
      PROVE  /\ nodes'[x].type = nodes[x].type /\ nodes'[x].name = nodes[x].name
             /\ nodes'[x].parent = nodes[x].parent /\ nodes'[x].children = nodes[x].children
  BY <1>2 DEF FileWith
<1>4. Tree'
  BY <1>2, <1>3, TreeKept DEF TInv
<1>5. UNCHANGED <<cwd, orphaned>> /\ ret' \in {"ok", "failed"} /\ FdMoved
  BY DEF Wrote, Succeed, FdMoved, TInv, IInv, Shape, IsFd
<1>6. DOMAIN nodes' \subseteq Blocks \cup {Root}
  BY <1>4 DEF Tree
<1>. QED
  BY <1>2, <1>3, <1>4, <1>5, <1>6, PointersKept DEF TInv, FdMoved

LEMMA FdCallHangs ==
  ASSUME TInv, FdCall
  PROVE  Tree' /\ Pointing' /\ OnlyRemovalDangles'
<1>1. PICK i \in Fds :
        \/ VfsFdClose(i) \/ FdDangling(i) \/ FdRefused(i)
        \/ \E s \in Sizes : DeviceRead(i, s) \/ DeviceWrite(i, s)
        \/ \E s \in Sizes : VfsFdRead(i, s) \/ \E v \in Vals : VfsFdWrite(i, s, v)
  BY DEF FdCall
<1>2. \A j \in Fds : IsFd(fds[j]) /\ j \in DOMAIN fds
  BY DEF TInv, IInv, Shape
<1>3. ASSUME NEW d, fds' = [fds EXCEPT ![i] = d], d.node = fds[i].node, d.in_use => fds[i].in_use
      PROVE  FdMoved
  BY <1>2, <1>3 DEF FdMoved
<1>4. ASSUME NEW o, fds' = [fds EXCEPT ![i].offset = o]
      PROVE  FdMoved
  <2>. DEFINE d == [fds[i] EXCEPT !.offset = o]
  <2>1. d.node = fds[i].node /\ d.in_use = fds[i].in_use
    BY <1>2 DEF IsFd
  <2>2. fds' = [fds EXCEPT ![i] = d]
    BY <1>4
  <2>. HIDE DEF d
  <2>. QED
    BY <1>3, <2>1, <2>2
<1>5. ASSUME VfsFdClose(i) PROVE Tree' /\ Pointing' /\ OnlyRemovalDangles'
  <2>. DEFINE d == [fds[i] EXCEPT !.in_use = FALSE]
  <2>1. d.node = fds[i].node /\ d.in_use = FALSE
    BY <1>2 DEF IsFd
  <2>2. fds' = [fds EXCEPT ![i] = d]
    BY <1>5 DEF VfsFdClose
  <2>. HIDE DEF d
  <2>3. FdMoved
    BY <1>3, <2>1, <2>2
  <2>. QED
    BY <1>5, <2>3, NothingHung DEF VfsFdClose
<1>6. ASSUME FdRefused(i) PROVE Tree' /\ Pointing' /\ OnlyRemovalDangles'
  BY <1>6, NothingHung DEF FdRefused, Fail, FdMoved
<1>7. ASSUME FdDangling(i) PROVE Tree' /\ Pointing' /\ OnlyRemovalDangles'
  <2>1. UNCHANGED <<nodes, cwd, fds, orphaned>> /\ ret' = "undefined"
        /\ fds[i].in_use /\ ~ Live(fds[i].node)
    BY <1>7 DEF FdDangling, Undefined
  <2>2. orphaned
    BY <2>1 DEF TInv, OnlyRemovalDangles
  <2>3. Tree'
    BY <2>1, TreeKept DEF TInv
  <2>4. Pointing' /\ OnlyRemovalDangles'
    BY <2>1, <2>2 DEF TInv, Pointing, OnlyRemovalDangles
  <2>. QED
    BY <2>3, <2>4
<1>8. ASSUME NEW s \in Sizes, DeviceRead(i, s) \/ DeviceWrite(i, s)
      PROVE  Tree' /\ Pointing' /\ OnlyRemovalDangles'
  <2>1. PICK r : Advance(i, r)
    BY <1>8 DEF DeviceRead, DeviceWrite
  <2>2. FdMoved
    BY <1>4, <2>1 DEF Advance
  <2>. QED
    BY <2>1, <2>2, NothingHung DEF Advance, Succeed
<1>9. ASSUME NEW s \in Sizes, VfsFdRead(i, s)
      PROVE  Tree' /\ Pointing' /\ OnlyRemovalDangles'
  <2>1. FdMoved
    BY <1>4, <1>9 DEF VfsFdRead
  <2>. QED
    BY <1>9, <2>1, NothingHung DEF VfsFdRead, Succeed
<1>10. ASSUME NEW s \in Sizes, NEW v \in Vals, VfsFdWrite(i, s, v)
       PROVE  Tree' /\ Pointing' /\ OnlyRemovalDangles'
  <2>1. CASE WriteFails(i, s)
    BY <2>1, NothingHung DEF WriteFails, Fail, FdMoved
  <2>2. CASE WriteInPlace(i, s, v)
    BY <2>2, WriteHangs DEF WriteInPlace
  <2>3. CASE WriteGrows(i, s, v)
    BY <2>3, WriteHangs DEF WriteGrows
  <2>. QED
    BY <1>10, <2>1, <2>2, <2>3 DEF VfsFdWrite
<1>. QED
  BY <1>1, <1>5, <1>6, <1>7, <1>8, <1>9, <1>10

\* Every call keeps the tree a tree, and no call but vfs_remove makes a pointer
\* dangle.
THEOREM TreeInvariance == TInv /\ [Next]_vars => TInv'
<1>. SUFFICES ASSUME TInv, [Next]_vars PROVE TInv'
  OBVIOUS
<1>1. IInv'
  BY Invariance DEF TInv
<1>2. CASE UNCHANGED vars
  <2>1. UNCHANGED <<nodes, cwd, fds, ret, orphaned>>
    BY <1>2 DEF vars
  <2>2. Tree'
    BY <2>1, TreeKept DEF TInv
  <2>3. Pointing' /\ OnlyRemovalDangles'
    BY <2>1 DEF TInv, Pointing, OnlyRemovalDangles, Defined, Live
  <2>. QED
    BY <1>1, <2>2, <2>3 DEF TInv
<1>. QED
  BY <1>1, <1>2, TreeCallHangs, OpenCallHangs, FdCallHangs DEF Next, TInv

\* The invariant with the shape of the tree holds in every state of vfs.c.
LEMMA TreeInvariant == Spec => []TInv
BY InitEstablishesTree, TreeInvariance, PTL DEF Spec

\* Every variable has its type, for every tree and number of descriptors.
THEOREM TypeCorrect == Spec => []TypeOK
<1>1. TInv => TypeOK
  <2>. SUFFICES ASSUME TInv PROVE TypeOK
    OBVIOUS
  <2>1. DOMAIN nodes \subseteq Blocks \cup {Root} /\ Root \in DOMAIN nodes
    BY DEF TInv, Tree
  <2>2. ASSUME NEW a \in DOMAIN nodes PROVE nodes[a] \in NodeType /\ nodes[a].size <= nodes[a].cap
    <3>1. IsNode(nodes[a]) /\ Sized(nodes[a]) /\ Typed(nodes[a])
      BY DEF TInv, Tree, IInv, Shape
    <3>. QED
      BY <3>1 DEF IsNode, Sized, Typed, NodeType
  <2>3. ASSUME NEW a \in Holding PROVE nodes[a].data \in Blocks
    BY DEF TInv, IInv, Shape, Sized, Holding
  <2>4. held \subseteq Blocks \cup {Root} /\ \A b \in DOMAIN mem : b \in Blocks
    BY <2>1, <2>3 DEF TInv, IInv, MemoryOwned
  <2>5. ASSUME NEW i \in Fds PROVE fds[i] \in [node : Pointers, offset : Nat, in_use : BOOLEAN]
    BY DEF TInv, IInv, Shape, IsFd, Pointing
  <2>6. DOMAIN wrote = DOMAIN nodes
    BY DEF TInv, IInv, Shape
  <2>. QED
    BY <2>1, <2>2, <2>4, <2>5, <2>6 DEF TypeOK, TInv, Pointing
<1>. QED
  BY <1>1, TreeInvariant, PTL

\* Whatever is created and removed, and whichever addresses are used again, the
\* nodes are a tree, and names are doubled only where they are cut.
THEOREM AlwaysATree == Spec => []TreeShape
<1>1. TInv => TreeShape
  <2>. SUFFICES ASSUME TInv PROVE TreeShape
    OBVIOUS
  <2>1. ASSUME NEW a \in Below
        PROVE  Cardinality({k \in DOMAIN nodes[nodes[a].parent].children :
                              nodes[nodes[a].parent].children[k] = a}) = 1
    <3>. DEFINE l == nodes[nodes[a].parent].children
    <3>1. l \in Seq(Blocks) /\ Once(a, l)
      BY DEF TInv, Tree, Hung, Typed, Live
    <3>. HIDE DEF l
    <3>2. Cardinality({k \in DOMAIN l : l[k] = a}) = 1
      BY <3>1, OnceIsCardinality
    <3>. QED
      BY <3>2 DEF l
  <2>2. \A a \in Below : Live(nodes[a].parent) /\ nodes[nodes[a].parent].type = "DIRECTORY"
    BY DEF TInv, Tree, Hung
  <2>3. \A a \in DOMAIN nodes : \A k \in DOMAIN nodes[a].children :
          nodes[a].children[k] \in Below /\ nodes[nodes[a].children[k]].parent = a
    BY DEF TInv, Tree, Listed, In
  <2>4. \A a, b \in Below :
          a # b /\ nodes[a].parent = nodes[b].parent /\ nodes[a].name = nodes[b].name
            => nodes[a].name \in Range(Cut)
    BY DEF TInv, Tree, NamesApart, Short
  <2>. QED
    BY <2>1, <2>2, <2>3, <2>4 DEF TreeShape, TInv, Tree, Acyclic
<1>. QED
  BY <1>1, TreeInvariant, PTL

\* As long as nobody removes a node that is open or the current directory, no
\* call reads freed memory.
THEOREM NothingElseDangles == Spec => []OnlyRemovalDangles
<1>1. TInv => OnlyRemovalDangles
  BY DEF TInv
<1>. QED
  BY <1>1, TreeInvariant, PTL
-----------------------------------------------------------------------------
\* Paths that vfs_get_path writes: the nodes it climbs.
LEMMA ClimbsToParents ==
  ASSUME Tree, NEW a \in DOMAIN nodes
  PROVE  /\ Climb(a)[0] = a
         /\ \A k \in 0 .. MAX_DEPTH : Climb(a)[k] \in DOMAIN nodes
         /\ \A k \in 1 .. MAX_DEPTH : Climb(a)[k] = nodes[Climb(a)[k - 1]].parent
<1>. DEFINE N == 0 .. MAX_DEPTH
            V == DOMAIN nodes
            g == [e \in N \X V |-> nodes[e[2]].parent]
            Sol(f) == f = [k \in 0 .. MAX_DEPTH |-> IF k = 0 THEN a ELSE nodes[f[k - 1]].parent]
<1>1. MAX_DEPTH \in Nat /\ \A x \in V : nodes[x].parent \in V
  BY VfsAssumption DEF Tree, RootOK, Hung, Below, Live
<1>2. Grounded(N, 0, Pred(MAX_DEPTH))
  BY <1>1, PositionsGrounded
<1>3. g \in [N \X V -> V]
  BY <1>1
<1>. HIDE DEF g
<1>4. PICK f \in [N -> V] : Solves(f, N, 0, Pred(MAX_DEPTH), a, g)
  <2>. HIDE DEF N, V
  <2>1. a \in V
    BY DEF V
  <2>. QED
    BY <1>2, <1>3, <2>1, RecursionWorks
<1>5. \A k \in N : f[k] = IF k = 0 THEN a ELSE nodes[f[k - 1]].parent
  <2>. SUFFICES ASSUME NEW k \in N PROVE f[k] = IF k = 0 THEN a ELSE nodes[f[k - 1]].parent
    OBVIOUS
  <2>1. CASE k = 0
    BY <1>4, <2>1 DEF Solves
  <2>2. CASE k # 0
    <3>1. Pred(MAX_DEPTH)[k] = k - 1 /\ k - 1 \in N
      BY <1>1, <2>2 DEF Pred
    <3>2. f[k] = g[<<k, f[k - 1]>>]
      BY <1>4, <2>2, <3>1 DEF Solves
    <3>3. <<k, f[k - 1]>> \in N \X V
      BY <1>4, <3>1
    <3>. QED
      BY <2>2, <3>2, <3>3 DEF g
  <2>. QED
    BY <2>1, <2>2
<1>6. Sol(f)
  BY <1>5
<1>. DEFINE up == CHOOSE h : Sol(h)
<1>7. Sol(up)
  BY <1>6
<1>8. Climb(a) = up
  BY DEF Climb
<1>. HIDE DEF up, V
<1>9. \A k \in N : up[k] = IF k = 0 THEN a ELSE nodes[up[k - 1]].parent
  BY <1>7
<1>10. \A k \in N : up[k] \in V
  <2>. DEFINE B == {k \in N : up[k] \notin V}
  <2>1. 0 \notin B
    BY <1>9 DEF V
  <2>2. SUFFICES ASSUME B # {} PROVE FALSE
    OBVIOUS
  <2>3. B \in SUBSET (N \ {0})
    BY <2>1
  <2>4. PICK k \in B : Pred(MAX_DEPTH)[k] \notin B
    BY <1>2, <2>2, <2>3 DEF Grounded
  <2>5. k \in N /\ k # 0 /\ Pred(MAX_DEPTH)[k] = k - 1 /\ k - 1 \in N
    BY <1>1, <2>1 DEF Pred
  <2>6. up[k - 1] \in V /\ up[k] = nodes[up[k - 1]].parent
    BY <1>9, <2>4, <2>5
  <2>. QED
    BY <1>1, <2>4, <2>6
<1>11. 0 \in N /\ \A k \in 1 .. MAX_DEPTH : k \in N /\ k # 0
  BY <1>1
<1>. QED
  BY <1>8, <1>9, <1>10, <1>11 DEF V

\* It stops at the root, or before it for want of room, and passes it nowhere.
LEMMA StopsInTime ==
  ASSUME NEW a
  PROVE  /\ Depth(a) \in 0 .. MAX_DEPTH
         /\ \A k \in 0 .. (Depth(a) - 1) : Climb(a)[k] # Root
<1>. DEFINE S == {k \in 0 .. MAX_DEPTH : k = MAX_DEPTH \/ Climb(a)[k] = Root}
<1>1. MAX_DEPTH \in S /\ S \in SUBSET Nat
  BY VfsAssumption
<1>2. \E k \in S : \A j \in S : k <= j
  BY <1>1, LeastExists
<1>3. Depth(a) \in S /\ \A j \in S : Depth(a) <= j
  <2>. HIDE DEF S
  <2>1. Min(S) \in S /\ \A j \in S : Min(S) <= j
    BY <1>2 DEF Min
  <2>. QED
    BY <2>1 DEF Depth, S
<1>4. ASSUME NEW k \in 0 .. (Depth(a) - 1) PROVE Climb(a)[k] # Root
  <2>1. k \notin S /\ k \in 0 .. MAX_DEPTH
    BY <1>1, <1>3, VfsAssumption
  <2>. QED
    BY <2>1
<1>. QED
  BY <1>3, <1>4

LEMMA NodeFoundByName ==
  ASSUME Tree, NEW a \in Below, ~ Short(nodes[a].name)
  PROVE  Descend(nodes[a].parent, nodes[a].name) = a
<1>. DEFINE d == nodes[a].parent
            n == nodes[a].name
            c == FindChild(d, n)
<1>1. /\ d \in DOMAIN nodes /\ nodes[d].type = "DIRECTORY" /\ In(a, nodes[d].children)
      /\ n \notin DOMAIN Cut /\ n \notin {".", ".."}
  BY DEF Tree, Hung, Live, Once, In, NamesApart
<1>2. d # NULL
  BY <1>1, VfsAssumption DEF Tree
<1>3. Descend(d, n) = c
  BY <1>1, <1>2 DEF Descend, Find
<1>4. /\ c # NULL => In(c, nodes[d].children) /\ nodes[c].name = n
      /\ c = NULL => \A b : In(b, nodes[d].children) => nodes[b].name # n
  <2>. HIDE DEF d, n
  <2>. QED
    BY <1>1, FoundChild
<1>5. In(c, nodes[d].children) /\ nodes[c].name = n
  BY <1>1, <1>4
<1>6. c \in Below /\ nodes[c].parent = d
  BY <1>1, <1>5 DEF Tree, Listed
<1>7. c = a
  BY <1>5, <1>6 DEF Tree, NamesApart
<1>. QED
  BY <1>3, <1>7

\* The path down from where the climb stopped leads back, name by name.
LEMMA PathLeadsBack ==
  ASSUME Tree, NEW a \in DOMAIN nodes, \A k \in DOMAIN GetPath(a) : ~ Short(GetPath(a)[k])
  PROVE  Walk(Stop(a), GetPath(a)) = a
<1>. DEFINE d == Depth(a)
            u == Climb(a)
            p == GetPath(a)
<1>1. /\ d \in Nat /\ d <= MAX_DEPTH /\ MAX_DEPTH \in Nat
      /\ \A k \in 0 .. (d - 1) : u[k] # Root
  BY StopsInTime, VfsAssumption
<1>2. /\ u[0] = a /\ \A k \in 0 .. MAX_DEPTH : u[k] \in DOMAIN nodes
      /\ \A k \in 1 .. MAX_DEPTH : u[k] = nodes[u[k - 1]].parent
  BY ClimbsToParents
<1>3. p = [j \in 1 .. d |-> nodes[u[d - j]].name] /\ Stop(a) = u[d]
  BY DEF GetPath, Stop
<1>4. \A j \in 1 .. d : p[j] = nodes[u[d - j]].name /\ ~ Short(p[j])
  <2>. HIDE DEF d, u
  <2>. QED
    BY <1>3
<1>. HIDE DEF d, u
<1>5. Len(p) = d
  <2>. DEFINE name(j) == nodes[u[d - j]].name
  <2>1. p = [j \in 1 .. d |-> name(j)]
    BY <1>3
  <2>. HIDE DEF p, name
  <2>. QED
    BY <1>1, <2>1
<1>. HIDE DEF p
<1>6. u[d] \in Found
  BY <1>1, <1>2 DEF Found
<1>7. PICK f : Along(f, u[d], p) /\ Walk(u[d], p) = f[d]
  BY <1>1, <1>5, <1>6, WalkIsAlong
<1>8. \A j \in 0 .. d : f[j] = u[d - j]
  <2>. DEFINE B == {j \in 0 .. d : f[j] # u[d - j]}
  <2>1. 0 \notin B
    BY <1>1, <1>7 DEF Along
  <2>2. SUFFICES ASSUME B # {} PROVE FALSE
    OBVIOUS
  <2>3. B \in SUBSET ((0 .. d) \ {0})
    BY <2>1
  <2>4. PICK j \in B : Pred(d)[j] \notin B
    BY <1>1, <2>2, <2>3, PositionsGrounded DEF Grounded
  <2>5. j \in 1 .. d /\ Pred(d)[j] = j - 1 /\ j - 1 \in 0 .. d
    BY <1>1, <2>1 DEF Pred
  <2>6. f[j - 1] = u[d - (j - 1)]
    BY <2>4, <2>5
  <2>7. f[j] = Descend(f[j - 1], p[j])
    BY <1>5, <1>7, <2>5 DEF Along
  <2>. DEFINE x == u[d - j]
  <2>8. d - j \in 0 .. (d - 1) /\ d - j \in 0 .. MAX_DEPTH /\ d - (j - 1) \in 1 .. MAX_DEPTH
        /\ d - (j - 1) - 1 = d - j
    BY <1>1, <2>5
  <2>9. x \in Below /\ u[d - (j - 1)] = nodes[x].parent
    BY <1>1, <1>2, <2>8 DEF Below
  <2>10. p[j] = nodes[x].name /\ ~ Short(nodes[x].name)
    BY <1>4, <2>5
  <2>11. Descend(nodes[x].parent, nodes[x].name) = x
    <3>. HIDE DEF x
    <3>. QED
      BY <2>9, <2>10, NodeFoundByName
  <2>12. f[j] = x
    BY <2>6, <2>7, <2>9, <2>10, <2>11
  <2>. QED
    BY <2>12
<1>9. f[d] = u[0]
  BY <1>1, <1>8
<1>. QED
  BY <1>2, <1>3, <1>7, <1>9 DEF p

\* The path vfs_get_path writes for a node at most MAX_DEPTH levels deep is one
\* vfs_resolve_path finds it by, unless a name on it may have been cut short;
\* that of a deeper node leads to it from where the climb stopped.
THEOREM PathsLeadBack == Spec => []PathsRoundTrip
<1>1. TInv => PathsRoundTrip
  <2>. SUFFICES ASSUME Tree, NEW a \in DOMAIN nodes,
                       \A k \in DOMAIN GetPath(a) : ~ Short(GetPath(a)[k])
                PROVE  /\ Stop(a) = Root => Resolve([abs |-> TRUE, comps |-> GetPath(a)]) = a
                       /\ Walk(Stop(a), GetPath(a)) = a
    BY DEF TInv, PathsRoundTrip, Short
  <2>1. Walk(Stop(a), GetPath(a)) = a
    BY PathLeadsBack
  <2>2. Resolve([abs |-> TRUE, comps |-> GetPath(a)]) = Walk(Root, GetPath(a))
    BY DEF Resolve, Start
  <2>. QED
    BY <2>1, <2>2
<1>. QED
  BY <1>1, TreeInvariant, PTL
=============================================================================
