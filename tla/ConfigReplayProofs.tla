------------------------- MODULE ConfigReplayProofs -------------------------
(***************************************************************************)
(* What the tool reads out of a config log, for logs of any length.        *)
(***************************************************************************)
EXTENDS ConfigReplay, WellFoundedInduction, FiniteSetTheorems, TLAPS

\* What a block of a file may hold: a gap between fragments is read as zero.
Texts == Seq(Blocks \union {"zero"})

DirentNode ==
    [kind : {"dirent"}, name : Names, inode : Nat, version : Nat, current : BOOLEAN]
InodeNode ==
    [kind : {"inode"}, inode : Nat, version : Nat, size : Nat, offset : Nat, data : Texts,
     codec : {"known", "other"}, current : BOOLEAN]
Node == DirentNode \union InodeNode

\* The nodes of a log, and those not marked obsolete.
Written(l) == {l[k] : k \in DOMAIN l}
Current(l) == {n \in Written(l) : n.current}

\* Entries of a name and fragments of a file among the nodes N.
Entries(N, name) == {n \in N : n.kind = "dirent" /\ n.name = name}
Parts(N, inode) == {n \in N : n.kind = "inode" /\ n.inode = inode}
IsLatest(n, N) == n \in N /\ \A m \in N : m.version <= n.version
Covers(n, b) == n.offset < b /\ b <= n.offset + Len(n.data)

\* Nodes of one name, or of one file, and of one version are copies.
CopiesInv(N) ==
    /\ \A name \in Names : \A m, n \in Entries(N, name) :
          m.version = n.version => m.inode = n.inode
    /\ \A inode \in Nat : \A m, n \in Parts(N, inode) :
          m.version = n.version =>
             /\ m.size = n.size /\ m.offset = n.offset
             /\ m.data = n.data /\ m.codec = n.codec

\* A fragment ends where it says the file ended, and an empty one says it is empty.
ShapeInv(N) ==
    \A n \in N : n.kind = "inode" =>
        n.size = n.offset + Len(n.data) /\ (n.data = <<>> => n.size = 0)

\* Versions and inodes have a bound.
Bounded(N) == \E most \in Nat : \A n \in N : n.version <= most /\ n.inode <= most

LogInv(l) ==
    /\ l \in Seq(Node)
    /\ CopiesInv(Written(l)) /\ ShapeInv(Written(l)) /\ Bounded(Written(l))

\* The latest entry of a name has the inode that the camera's directory has.
EntryInv(N, dir) ==
    \A name \in Names :
        \/ dir[name] = 0 /\ Entries(N, name) = {}
        \/ \E n \in Entries(N, name) : IsLatest(n, Entries(N, name)) /\ n.inode = dir[name]

\* The latest of the fragments P has the length of the text; each block of it is
\* that of a fragment behind which no other covers the block or cuts it off.
FileInv(P, text) ==
    /\ \E n \in P : IsLatest(n, P) /\ n.size = Len(text)
    /\ \A b \in 1 .. Len(text) :
          \E n \in P : /\ Covers(n, b) /\ n.data[b - n.offset] = text[b]
                       /\ \A m \in P : Covers(m, b) \/ m.size < b => m.version <= n.version

DirInv(dir, text) ==
    /\ dir \in [Names -> Nat] /\ \A name \in Names : dir[name] # 1
    /\ text \in [Linked(dir) -> Texts]

\* The current nodes tell what the camera holds.
LiveInv(N, dir, text) ==
    /\ DirInv(dir, text) /\ EntryInv(N, dir)
    /\ \A inode \in Linked(dir) : FileInv(Parts(N, inode), text[inode])

IInv ==
    /\ LogInv(log) /\ lost \in BOOLEAN
    /\ ~lost => LiveInv(Current(log), names, content)

----------------------------------------------------------------------------
(* Maxima. *)

Less == {ss \in Nat \X Nat : ss[1] < ss[2]}

\* A nonempty set of natural numbers has a least element.
LEMMA Least ==
    ASSUME NEW S \in SUBSET Nat, S # {}
    PROVE  \E x \in S : \A y \in S : x <= y
  <1>1. IsWellFoundedOn(Less, Nat)
    BY NatLessThanWellFounded DEF OpToRel, Less
  <1>2. PICK x \in S : \A y \in S : <<y, x>> \notin Less
    BY <1>1, WFMin
  <1>3. ASSUME NEW y \in S
        PROVE  x <= y
    <2>1. <<y, x>> \in Nat \X Nat
      OBVIOUS
    <2>2. ~(y < x)
      BY <1>2, <2>1 DEF Less
    <2> QED
      BY <2>2
  <1> QED
    BY <1>3

\* One that has a bound has a greatest.
LEMMA MaxOf ==
    ASSUME NEW S \in SUBSET Nat, S # {}, NEW most \in Nat, \A x \in S : x <= most
    PROVE  Max(S) \in S /\ \A y \in S : y <= Max(S)
  <1> DEFINE T == {most - x : x \in S}
  <1>1. \A x \in S : most - x \in Nat
    OBVIOUS
  <1>2. T \in SUBSET Nat /\ T # {}
    BY <1>1
  <1>3. PICK t \in T : \A y \in T : t <= y
    BY <1>2, Least
  <1>4. PICK m \in S : t = most - m
    OBVIOUS
  <1>5. ASSUME NEW y \in S
        PROVE  m >= y
    <2>1. most - y \in T
      OBVIOUS
    <2>2. most - m <= most - y
      BY <1>3, <1>4, <2>1
    <2> QED
      BY <2>2
  <1>6. \E x \in S : \A y \in S : x >= y
    BY <1>5
  <1>7. Max(S) \in S /\ \A y \in S : Max(S) >= y
    BY <1>6 DEF Max
  <1> QED
    BY <1>7

----------------------------------------------------------------------------
(* Nodes. *)

\* The two names.
LEMMA TwoNames ==
    /\ Names = {"own", "serial"}
    /\ \A dir : Linked(dir) = {dir["own"], dir["serial"]} \ {0}
  <1>1. DOMAIN NAMES = {1, 2} /\ NAMES[1] = "own" /\ NAMES[2] = "serial"
    BY DEF NAMES
  <1>2. Names = {"own", "serial"}
    BY <1>1 DEF Names, ToSet
  <1>3. ASSUME NEW dir
        PROVE  Linked(dir) = {dir["own"], dir["serial"]} \ {0}
    BY <1>1 DEF Linked, ToSet
  <1> QED
    BY <1>2, <1>3

\* The fields of a node.
LEMMA Fields ==
    ASSUME NEW n \in Node
    PROVE  /\ n.kind \in {"dirent", "inode"} /\ n.current \in BOOLEAN
           /\ n.inode \in Nat /\ n.version \in Nat
           /\ n.kind = "dirent" => n \in DirentNode /\ n.name \in Names
           /\ n.kind = "inode" =>
                 /\ n \in InodeNode /\ n.size \in Nat /\ n.offset \in Nat
                 /\ n.data \in Texts /\ Len(n.data) \in Nat /\ n.codec \in {"known", "other"}
  <1>1. CASE n \in DirentNode
    BY <1>1 DEF DirentNode
  <1>2. CASE n \in InodeNode
    <2>1. n.data \in Texts
      BY <1>2 DEF InodeNode
    <2>2. Len(n.data) \in Nat
      BY <2>1 DEF Texts
    <2> QED
      BY <1>2, <2>1, <2>2 DEF InodeNode
  <1> QED
    BY <1>1, <1>2 DEF Node

\* What the driver writes.
LEMMA Nodes ==
    /\ \A name \in Names, inode \in Nat, version \in Nat :
          /\ Dirent(name, inode, version) \in DirentNode
          /\ Dirent(name, inode, version).kind = "dirent"
          /\ Dirent(name, inode, version).name = name
          /\ Dirent(name, inode, version).inode = inode
          /\ Dirent(name, inode, version).version = version
          /\ Dirent(name, inode, version).current = TRUE
    /\ \A inode \in Nat, version \in Nat, size \in Nat, offset \in Nat, data \in Texts,
          codec \in {"known", "other"} :
          /\ Inode(inode, version, size, offset, data, codec) \in InodeNode
          /\ Inode(inode, version, size, offset, data, codec).kind = "inode"
          /\ Inode(inode, version, size, offset, data, codec).inode = inode
          /\ Inode(inode, version, size, offset, data, codec).version = version
          /\ Inode(inode, version, size, offset, data, codec).size = size
          /\ Inode(inode, version, size, offset, data, codec).offset = offset
          /\ Inode(inode, version, size, offset, data, codec).data = data
          /\ Inode(inode, version, size, offset, data, codec).codec = codec
          /\ Inode(inode, version, size, offset, data, codec).current = TRUE
  BY DEF Dirent, Inode, DirentNode, InodeNode

\* Current copies are equal.
LEMMA EqualCopies ==
    ASSUME NEW N \in SUBSET Node, CopiesInv(N), NEW m \in N, NEW n \in N,
           m.current, n.current, m.version = n.version,
           \/ m.kind = "dirent" /\ n.kind = "dirent" /\ m.name = n.name
           \/ m.kind = "inode" /\ n.kind = "inode" /\ m.inode = n.inode
    PROVE  m = n
  <1>1. CASE m.kind = "dirent" /\ n.kind = "dirent" /\ m.name = n.name
    <2>1. m \in DirentNode /\ n \in DirentNode /\ m.name \in Names
      BY <1>1, Fields
    <2>2. m.inode = n.inode
      BY <1>1, <2>1 DEF CopiesInv, Entries
    <2>3. m.current = TRUE /\ n.current = TRUE
      BY <2>1 DEF DirentNode
    <2> QED
      BY <1>1, <2>1, <2>2, <2>3 DEF DirentNode
  <1>2. CASE m.kind = "inode" /\ n.kind = "inode" /\ m.inode = n.inode
    <2>1. m \in InodeNode /\ n \in InodeNode /\ m.inode \in Nat
      BY <1>2, Fields
    <2>2. m.size = n.size /\ m.offset = n.offset /\ m.data = n.data /\ m.codec = n.codec
      BY <1>2, <2>1 DEF CopiesInv, Parts
    <2>3. m.current = TRUE /\ n.current = TRUE
      BY <2>1 DEF InodeNode
    <2> QED
      BY <1>2, <2>1, <2>2, <2>3 DEF InodeNode
  <1> QED
    BY <1>1, <1>2

----------------------------------------------------------------------------
(* Logs. *)

\* The places of a log and its nodes.
LEMMA LogNodes ==
    ASSUME NEW l, LogInv(l)
    PROVE  /\ Len(l) \in Nat /\ DOMAIN l = 1 .. Len(l) /\ DOMAIN l \in SUBSET Nat
           /\ IsFiniteSet(DOMAIN l)
           /\ Written(l) \in SUBSET Node /\ Current(l) \in SUBSET Written(l)
           /\ CopiesInv(Written(l)) /\ ShapeInv(Written(l))
           /\ \A k \in DOMAIN l : l[k] \in Node /\ l[k] \in Written(l)
           /\ \A n \in Written(l) : \E k \in DOMAIN l : n = l[k]
           /\ \E most \in Nat : \A k \in DOMAIN l : l[k].version <= most /\ l[k].inode <= most
  <1>1. l \in Seq(Node)
    BY DEF LogInv
  <1>2. /\ Len(l) \in Nat /\ DOMAIN l = 1 .. Len(l) /\ DOMAIN l \in SUBSET Nat
        /\ \A k \in DOMAIN l : l[k] \in Node
    BY <1>1
  <1>3. IsFiniteSet(DOMAIN l)
    BY <1>2, FS_Interval
  <1>4. /\ Written(l) \in SUBSET Node /\ Current(l) \in SUBSET Written(l)
        /\ \A k \in DOMAIN l : l[k] \in Written(l)
        /\ \A n \in Written(l) : \E k \in DOMAIN l : n = l[k]
    BY <1>2 DEF Written, Current
  <1>5. \E most \in Nat : \A k \in DOMAIN l : l[k].version <= most /\ l[k].inode <= most
    BY <1>4 DEF LogInv, Bounded
  <1> QED
    BY <1>2, <1>3, <1>4, <1>5 DEF LogInv

\* The highest version among some places is that of one of them; so is the
\* highest of the places.
LEMMA Highest ==
    ASSUME NEW l, LogInv(l), NEW K \in SUBSET DOMAIN l, K # {}
    PROVE  /\ \E k \in K : l[k].version = Max(Versions(l, K))
           /\ \A k \in K : l[k].version <= Max(Versions(l, K))
           /\ Max(K) \in K
  <1>1. PICK most \in Nat : \A k \in DOMAIN l : l[k].version <= most
    BY LogNodes
  <1>2. \A k \in K : l[k].version \in Nat
    BY LogNodes, Fields
  <1>3. Versions(l, K) \in SUBSET Nat /\ Versions(l, K) # {} /\ \A v \in Versions(l, K) : v <= most
    BY <1>1, <1>2 DEF Versions
  <1>4. Max(Versions(l, K)) \in Versions(l, K)
        /\ \A v \in Versions(l, K) : v <= Max(Versions(l, K))
    BY <1>3, MaxOf
  <1>5. /\ \E k \in K : l[k].version = Max(Versions(l, K))
        /\ \A k \in K : l[k].version <= Max(Versions(l, K))
    BY <1>4 DEF Versions
  <1>6. Len(l) \in Nat /\ K \in SUBSET Nat /\ \A k \in K : k <= Len(l)
    BY LogNodes
  <1>7. Max(K) \in K
    BY <1>6, MaxOf
  <1> QED
    BY <1>5, <1>7

\* Places of current entries of a name, and of current fragments of a file.
LEMMA Placed ==
    ASSUME NEW l, LogInv(l)
    PROVE  /\ \A name : /\ CurrentDirents(l, name) \in SUBSET DOMAIN l
                        /\ \A k \in CurrentDirents(l, name) :
                              l[k] \in Entries(Current(l), name) /\ l[k].current
                        /\ \A n \in Entries(Current(l), name) :
                              \E k \in CurrentDirents(l, name) : n = l[k]
           /\ \A inode : /\ Fragments(l, inode) \in SUBSET DOMAIN l
                         /\ \A k \in Fragments(l, inode) :
                               l[k] \in Parts(Current(l), inode) /\ l[k].current
                         /\ \A n \in Parts(Current(l), inode) :
                               \E k \in Fragments(l, inode) : n = l[k]
  <1>1. ASSUME NEW name
        PROVE  /\ CurrentDirents(l, name) \in SUBSET DOMAIN l
               /\ \A k \in CurrentDirents(l, name) :
                     l[k] \in Entries(Current(l), name) /\ l[k].current
               /\ \A n \in Entries(Current(l), name) :
                     \E k \in CurrentDirents(l, name) : n = l[k]
    BY DEF CurrentDirents, Dirents, Entries, Current, Written
  <1>2. ASSUME NEW inode
        PROVE  /\ Fragments(l, inode) \in SUBSET DOMAIN l
               /\ \A k \in Fragments(l, inode) :
                     l[k] \in Parts(Current(l), inode) /\ l[k].current
               /\ \A n \in Parts(Current(l), inode) :
                     \E k \in Fragments(l, inode) : n = l[k]
    BY DEF Fragments, Inodes, Parts, Current, Written
  <1> QED
    BY <1>1, <1>2

\* The tool's directory is the camera's.
LEMMA LiveIs ==
    ASSUME NEW l, LogInv(l), NEW dir, EntryInv(Current(l), dir), NEW name \in Names
    PROVE  Live(l, name) = dir[name]
  <1> DEFINE K == CurrentDirents(l, name)
  <1>1. /\ K \in SUBSET DOMAIN l /\ \A k \in K : l[k] \in Entries(Current(l), name)
        /\ \A n \in Entries(Current(l), name) : \E k \in K : n = l[k]
    BY Placed
  <1>2. \A k \in K : l[k].version \in Nat /\ l[k] \in Entries(Written(l), name)
    BY <1>1, LogNodes, Fields DEF Entries, Current
  <1>3. CASE dir[name] = 0 /\ Entries(Current(l), name) = {}
    <2>1. K = {}
      BY <1>1, <1>3
    <2> QED
      BY <1>3, <2>1 DEF Live
  <1>4. ASSUME NEW n \in Entries(Current(l), name), IsLatest(n, Entries(Current(l), name)),
               n.inode = dir[name]
        PROVE  Live(l, name) = dir[name]
    <2>1. PICK j \in K : n = l[j]
      BY <1>1
    <2>2. /\ \E k \in K : l[k].version = Max(Versions(l, K))
          /\ \A k \in K : l[k].version <= Max(Versions(l, K))
      BY <1>1, <2>1, Highest
    <2> DEFINE k == CHOOSE k \in K : l[k].version = Max(Versions(l, K))
    <2>3. k \in K /\ l[k].version = Max(Versions(l, K))
      BY <2>2
    <2>4. Live(l, name) = l[k].inode
      BY <2>1 DEF Live
    <2> HIDE DEF k, K
    <2>5. l[k].version <= l[j].version /\ l[j].version <= l[k].version
      BY <1>1, <1>4, <2>1, <2>2, <2>3 DEF IsLatest
    <2>6. l[k].version = l[j].version
      BY <1>2, <2>1, <2>3, <2>5
    <2>7. l[k].inode = l[j].inode
      BY <1>2, <2>1, <2>3, <2>6, LogNodes DEF CopiesInv
    <2> QED
      BY <1>4, <2>1, <2>4, <2>7
  <1> QED
    BY <1>3, <1>4 DEF EntryInv

\* The tool's copy of a file is the camera's.
LEMMA FileIs ==
    ASSUME NEW l, LogInv(l), NEW inode \in Nat, NEW text \in Texts,
           FileInv(Parts(Current(l), inode), text)
    PROVE  FileData(l, inode) = text
  <1> DEFINE F == Fragments(l, inode)
             Over(b) == {k \in F : l[k].offset < b /\ b <= l[k].offset + Len(l[k].data)}
             Latest(s) == Max({k \in s : l[k].version = Max(Versions(l, s))})
             first == Max(Newest(l, inode))
  <1>1. /\ F \in SUBSET DOMAIN l /\ \A k \in F : l[k] \in Parts(Current(l), inode)
        /\ \A n \in Parts(Current(l), inode) : \E k \in F : n = l[k]
    BY Placed
  <1>2. \A k \in F : l[k].version \in Nat /\ l[k] \in Parts(Written(l), inode)
    BY <1>1, LogNodes, Fields DEF Parts, Current
  <1>3. \A j, k \in F : l[j].version = l[k].version =>
           l[j].size = l[k].size /\ l[j].offset = l[k].offset /\ l[j].data = l[k].data
    BY <1>2, LogNodes DEF CopiesInv
  <1>4. FileData(l, inode) =
           [b \in 1 .. l[first].size |->
               IF Over(b) = {} THEN "zero"
               ELSE l[Latest(Over(b))].data[b - l[Latest(Over(b))].offset]]
    BY DEF FileData
  <1>5. l[first].size = Len(text)
    <2>1. PICK n \in Parts(Current(l), inode) :
             IsLatest(n, Parts(Current(l), inode)) /\ n.size = Len(text)
      BY DEF FileInv
    <2>2. PICK j \in F : n = l[j]
      BY <1>1
    <2>3. /\ \E k \in F : l[k].version = Max(Versions(l, F))
          /\ \A k \in F : l[k].version <= Max(Versions(l, F))
      BY <1>1, <2>2, Highest
    <2>4. Newest(l, inode) \in SUBSET DOMAIN l /\ Newest(l, inode) # {}
      BY <1>1, <2>3 DEF Newest
    <2>5. first \in Newest(l, inode)
      BY <2>4, Highest
    <2>6. first \in F /\ l[first].version = Max(Versions(l, F))
      BY <2>5 DEF Newest
    <2> HIDE DEF first, F
    <2>7. l[first].version <= l[j].version /\ l[j].version <= l[first].version
      BY <1>1, <2>1, <2>2, <2>3, <2>6 DEF IsLatest
    <2>8. l[first].version = l[j].version
      BY <1>2, <2>2, <2>6, <2>7
    <2> QED
      BY <1>3, <2>1, <2>2, <2>6, <2>8
  <1>6. ASSUME NEW b \in 1 .. Len(text)
        PROVE  Over(b) # {} /\ l[Latest(Over(b))].data[b - l[Latest(Over(b))].offset] = text[b]
    <2>1. PICK n \in Parts(Current(l), inode) :
             /\ Covers(n, b) /\ n.data[b - n.offset] = text[b]
             /\ \A m \in Parts(Current(l), inode) :
                   Covers(m, b) \/ m.size < b => m.version <= n.version
      BY DEF FileInv
    <2>2. PICK j \in F : n = l[j]
      BY <1>1
    <2>3. j \in Over(b) /\ Over(b) \in SUBSET F /\ Over(b) \in SUBSET DOMAIN l
      BY <1>1, <2>1, <2>2 DEF Covers
    <2> DEFINE O == Over(b)
               M == {k \in O : l[k].version = Max(Versions(l, O))}
               last == Max(M)
    <2>4. /\ \E k \in O : l[k].version = Max(Versions(l, O))
          /\ \A k \in O : l[k].version <= Max(Versions(l, O))
      BY <2>3, Highest
    <2>5. M \in SUBSET DOMAIN l /\ M # {}
      BY <2>3, <2>4
    <2>6. last \in M
      BY <2>5, Highest
    <2>7. /\ last \in F /\ last \in O /\ Covers(l[last], b)
          /\ l[last].version = Max(Versions(l, O))
      BY <2>6 DEF Covers
    <2>8. Latest(Over(b)) = last
      OBVIOUS
    <2>9. l[j].version <= l[last].version
      BY <2>3, <2>4, <2>7
    <2> HIDE DEF last, M, O, F
    <2>10. l[last].version <= l[j].version
      BY <1>1, <2>1, <2>2, <2>7
    <2>11. l[last].version = l[j].version
      BY <1>2, <2>2, <2>7, <2>9, <2>10
    <2>12. l[last].data[b - l[last].offset] = text[b]
      BY <1>3, <2>1, <2>2, <2>7, <2>11
    <2> QED
      BY <2>3, <2>8, <2>12
  <1>7. text = [b \in 1 .. Len(text) |-> text[b]]
    BY DEF Texts
  <1> HIDE DEF F, Over, Latest, first
  <1> QED
    BY <1>4, <1>5, <1>6, <1>7

----------------------------------------------------------------------------
(* The serial. *)

\* No current node has a current copy.
Distinct(l) ==
    \A j, k \in DOMAIN l : l[j].current /\ l[k].current /\ l[j] = l[k] => j = k

LEMMA SettledDistinct ==
    ASSUME LogInv(log), Settled
    PROVE  Distinct(log)
  <1> DEFINE K == {k \in DOMAIN log : log[k].current}
             R == {log[k] : k \in K}
             f == [k \in K |-> log[k]]
  <1>1. IsFiniteSet(K)
    BY LogNodes, FS_Subset
  <1>2. Cardinality(K) = Cardinality(R)
    BY DEF Settled
  <1>3. f \in Surjection(K, R)
    BY DEF Surjection
  <1>4. f \in Injection(K, R)
    BY <1>1, <1>2, <1>3, FS_SurjSameCardinalityImpliesInj
  <1>5. \A j, k \in K : log[j] = log[k] => j = k
    BY <1>4 DEF Injection, IsInjective
  <1> QED
    BY <1>5 DEF Distinct

\* Entries of one name and version are copies.
LEMMA Unambiguous ==
    ASSUME NEW l, LogInv(l), Distinct(l)
    PROVE  ~AmbiguousDirents(l)
  <1> SUFFICES ASSUME NEW name \in Names, NEW k \in CurrentDirents(l, name),
                      {j \in CurrentDirents(l, name) : j < k} # {},
                      l[k].version = Max(Versions(l, {j \in CurrentDirents(l, name) : j < k}))
               PROVE  FALSE
    BY DEF AmbiguousDirents
  <1> DEFINE before == {j \in CurrentDirents(l, name) : j < k}
  <1>1. CurrentDirents(l, name) \in SUBSET DOMAIN l /\ DOMAIN l \in SUBSET Nat
    BY Placed, LogNodes
  <1>2. before \in SUBSET DOMAIN l
    BY <1>1
  <1>3. PICK j \in before : l[j].version = l[k].version
    BY <1>2, Highest
  <1>4. /\ l[j].kind = "dirent" /\ l[k].kind = "dirent" /\ l[j].name = l[k].name
        /\ l[j].current /\ l[k].current
    BY DEF CurrentDirents, Dirents
  <1>5. /\ Written(l) \in SUBSET Node /\ CopiesInv(Written(l)) /\ l[j] \in Written(l)
        /\ l[k] \in Written(l)
    BY <1>1, LogNodes
  <1>6. l[j] = l[k]
    BY <1>3, <1>4, <1>5, EqualCopies
  <1>7. j = k
    BY <1>1, <1>4, <1>6 DEF Distinct
  <1> QED
    BY <1>1, <1>7

\* The newest candidate of the live file is the serial, if it is one node.
LEMMA Recovered ==
    ASSUME NEW l, LogInv(l), Candidates(l) # {},
           Distinct(l) \/ Cardinality(RecoveredSerials(l)) = 1
    PROVE  \E k \in Candidates(l) :
              /\ RecoveredSerials(l) = {l[k].data[1]}
              /\ \A j \in Candidates(l) : l[j].version <= l[k].version
              /\ Serial(l) = l[k].data[1] /\ Cardinality(RecoveredSerials(l)) = 1
  <1> DEFINE C == Candidates(l)
             N == {k \in C : l[k].version = Max(Versions(l, C))}
  <1>1. C \in SUBSET DOMAIN l
    BY DEF Candidates, Inodes
  <1>2. /\ \E k \in C : l[k].version = Max(Versions(l, C))
        /\ \A k \in C : l[k].version <= Max(Versions(l, C))
    BY <1>1, Highest
  <1>3. RecoveredSerials(l) = IF Cardinality(N) = 1 THEN {l[k].data[1] : k \in N} ELSE {}
    BY DEF RecoveredSerials
  <1>4. IsFiniteSet(N)
    BY <1>1, LogNodes, FS_Subset
  <1>5. Cardinality(N) = 1
    <2>1. CASE Cardinality(RecoveredSerials(l)) = 1
      BY <1>3, <2>1, FS_EmptySet
    <2>2. CASE Distinct(l)
      <3>1. PICK k \in N : TRUE
        BY <1>2
      <3>2. ASSUME NEW j \in N
            PROVE  j = k
        <4>1. /\ l[j].kind = "inode" /\ l[k].kind = "inode" /\ l[j].inode = l[k].inode
              /\ l[j].current /\ l[k].current /\ l[j].version = l[k].version
          BY DEF Candidates, Inodes
        <4>2. /\ Written(l) \in SUBSET Node /\ CopiesInv(Written(l))
              /\ l[j] \in Written(l) /\ l[k] \in Written(l)
          BY <1>1, LogNodes
        <4>3. l[j] = l[k]
          BY <4>1, <4>2, EqualCopies
        <4> QED
          BY <1>1, <2>2, <4>1, <4>3 DEF Distinct
      <3>3. N = {k}
        BY <3>1, <3>2
      <3> QED
        BY <3>3, FS_Singleton
    <2> QED
      BY <2>1, <2>2
  <1>6. PICK k : N = {k}
    BY <1>4, <1>5, FS_Singleton
  <1>7. k \in C /\ \A j \in C : l[j].version <= l[k].version
    BY <1>2, <1>6
  <1> HIDE DEF N, C
  <1>8. RecoveredSerials(l) = {l[k].data[1]}
    BY <1>3, <1>5, <1>6
  <1>9. Serial(l) = l[k].data[1] /\ Cardinality(RecoveredSerials(l)) = 1
    BY <1>8, FS_Singleton DEF Serial
  <1> QED
    BY <1>7, <1>8, <1>9 DEF C

LEMMA OneBlock ==
    ASSUME NEW a \in Nat, NEW b \in Nat, 1 = a + b, b # 0
    PROVE  a = 0 /\ b = 1
  OBVIOUS

\* A serial.cfg that holds a serial is a candidate, and no newer one is.
LEMMA HeldSerial ==
    ASSUME NEW l, LogInv(l), NEW dir, NEW text, LiveInv(Current(l), dir, text),
           dir["serial"] # 0, NEW s \in Serials, text[dir["serial"]] = <<s>>
    PROVE  /\ Candidates(l) # {}
           /\ Distinct(l) \/ Cardinality(RecoveredSerials(l)) = 1 =>
                 Serial(l) = s /\ Cardinality(RecoveredSerials(l)) = 1
  <1> DEFINE i == dir["serial"]
             P == Parts(Current(l), i)
  <1>1. "serial" \in Names /\ i \in Linked(dir) /\ i \in Nat
    BY TwoNames DEF LiveInv, DirInv
  <1>2. FileInv(P, <<s>>) /\ Live(l, "serial") = i
    BY <1>1, LiveIs DEF LiveInv
  <1>3. Len(<<s>>) = 1 /\ 1 \in 1 .. 1 /\ <<s>>[1] = s
    OBVIOUS
  <1>4. PICK n \in P : /\ Covers(n, 1) /\ n.data[1 - n.offset] = s
                       /\ \A m \in P : Covers(m, 1) \/ m.size < 1 => m.version <= n.version
    BY <1>2, <1>3 DEF FileInv
  <1>5. PICK m \in P : IsLatest(m, P) /\ m.size = 1
    BY <1>2, <1>3 DEF FileInv
  <1>6. P \in SUBSET Node /\ P \in SUBSET Parts(Written(l), i) /\ \A x \in P : x.kind = "inode"
    BY LogNodes DEF Parts
  <1>7. \A x \in P : /\ x.version \in Nat /\ x.offset \in Nat /\ Len(x.data) \in Nat /\ x.size \in Nat
                     /\ x.size = x.offset + Len(x.data) /\ (x.data = <<>> => x.size = 0)
                     /\ x.data \in Texts
    <2>1. \A x \in P : x.version \in Nat /\ x.offset \in Nat /\ Len(x.data) \in Nat
                       /\ x.size \in Nat /\ x.data \in Texts
      BY <1>6, Fields
    <2>2. \A x \in P : x \in Written(l) /\ x.kind = "inode"
      BY <1>6 DEF Parts
    <2> QED
      BY <2>1, <2>2, LogNodes DEF ShapeInv
  <1>8. ASSUME NEW x \in P, Covers(x, 1)
        PROVE  x.offset = 0
    BY <1>7, <1>8 DEF Covers
  <1>9. m.offset = 0 /\ Len(m.data) = 1 /\ Covers(m, 1)
    <2>1. m.data # <<>> /\ m.data \in Texts
      BY <1>5, <1>7
    <2>2. Len(m.data) # 0
      BY <2>1 DEF Texts
    <2>3. 1 = m.offset + Len(m.data) /\ m.offset \in Nat /\ Len(m.data) \in Nat
      BY <1>5, <1>7
    <2>4. m.offset = 0 /\ Len(m.data) = 1
      BY <2>2, <2>3, OneBlock
    <2> QED
      BY <2>4 DEF Covers
  <1>10. m.version = n.version
    <2>1. m.version <= n.version /\ n.version <= m.version
      BY <1>4, <1>5, <1>9 DEF IsLatest
    <2> QED
      BY <1>7, <2>1
  <1>11. n.size = 1 /\ n.offset = 0 /\ n.data = m.data
    BY <1>1, <1>5, <1>6, <1>9, <1>10, LogNodes DEF CopiesInv
  <1>12. n.data[1] = s
    BY <1>4, <1>11
  <1>13. IsSerial(n)
    BY <1>9, <1>11, <1>12 DEF IsSerial
  <1>14. PICK k \in Fragments(l, i) : n = l[k]
    BY Placed
  <1>15. k \in Candidates(l)
    BY <1>2, <1>13, <1>14 DEF Candidates, Fragments
  <1>16. ASSUME Distinct(l) \/ Cardinality(RecoveredSerials(l)) = 1
         PROVE  Serial(l) = s /\ Cardinality(RecoveredSerials(l)) = 1
    <2>1. PICK j \in Candidates(l) :
             /\ \A c \in Candidates(l) : l[c].version <= l[j].version
             /\ Serial(l) = l[j].data[1] /\ Cardinality(RecoveredSerials(l)) = 1
      BY <1>15, <1>16, Recovered
    <2>2. j \in Fragments(l, i) /\ IsSerial(l[j])
      BY <1>2 DEF Candidates, Fragments
    <2>3. l[j] \in P
      BY <2>2, Placed
    <2>4. Covers(l[j], 1)
      BY <2>2 DEF IsSerial, Covers
    <2>5. l[j].version <= n.version /\ n.version <= l[j].version
      BY <1>4, <1>14, <1>15, <2>1, <2>3, <2>4
    <2>6. l[j].version = n.version
      BY <1>7, <2>3, <2>5
    <2>7. l[j].data = n.data
      BY <1>1, <1>6, <2>3, <2>6, LogNodes DEF CopiesInv
    <2> QED
      BY <1>12, <2>1, <2>7
  <1> QED
    BY <1>15, <1>16

----------------------------------------------------------------------------
(* Files. *)

\* The fragments of a file of a camera have one newest version.
LEMMA OneNewest ==
    ASSUME NEW l, LogInv(l), Distinct(l), NEW inode \in Nat, Fragments(l, inode) # {}
    PROVE  Cardinality(Newest(l, inode)) = 1
  <1> DEFINE F == Fragments(l, inode)
             N == Newest(l, inode)
  <1>1. F \in SUBSET DOMAIN l
    BY Placed
  <1>2. \E k \in F : l[k].version = Max(Versions(l, F))
    BY <1>1, Highest
  <1>3. PICK k \in N : TRUE
    BY <1>2 DEF Newest
  <1>4. ASSUME NEW j \in N
        PROVE  j = k
    <2>1. /\ l[j].kind = "inode" /\ l[k].kind = "inode" /\ l[j].inode = l[k].inode
          /\ l[j].current /\ l[k].current /\ l[j].version = l[k].version
          /\ j \in DOMAIN l /\ k \in DOMAIN l
      BY DEF Newest, Fragments, Inodes
    <2>2. /\ Written(l) \in SUBSET Node /\ CopiesInv(Written(l))
          /\ l[j] \in Written(l) /\ l[k] \in Written(l)
      BY <2>1, LogNodes
    <2>3. l[j] = l[k]
      BY <2>1, <2>2, EqualCopies
    <2> QED
      BY <2>1, <2>3 DEF Distinct
  <1>5. N = {k}
    BY <1>3, <1>4
  <1> QED
    BY <1>5, FS_Singleton

\* The files of a directory.
FilesOf(dir, text) ==
    [name \in {x \in Names : dir[x] # 0} |-> [inode |-> dir[name], data |-> text[dir[name]]]]

\* The live files that the tool finds.
LEMMA LiveFilesAre ==
    ASSUME NEW l, LogInv(l), NEW dir, NEW text, LiveInv(Current(l), dir, text)
    PROVE  /\ LiveNames(l) = {name \in Names : dir[name] # 0}
           /\ LiveFiles(l) = FilesOf(dir, text)
  <1>1. \A name \in Names : Live(l, name) = dir[name]
    BY LiveIs DEF LiveInv
  <1>2. LiveNames(l) = {name \in Names : dir[name] # 0}
    BY <1>1 DEF LiveNames
  <1>3. ASSUME NEW name \in Names, dir[name] # 0
        PROVE  FileData(l, dir[name]) = text[dir[name]]
    <2>1. dir[name] \in Linked(dir) /\ dir[name] \in Nat
      BY <1>3, TwoNames DEF LiveInv, DirInv
    <2>2. text[dir[name]] \in Texts /\ FileInv(Parts(Current(l), dir[name]), text[dir[name]])
      BY <2>1 DEF LiveInv, DirInv
    <2> QED
      BY <2>1, <2>2, FileIs
  <1>4. \A name \in LiveNames(l) :
           /\ Live(l, name) = dir[name]
           /\ FileData(l, Live(l, name)) = text[dir[name]]
    BY <1>1, <1>2, <1>3
  <1> QED
    BY <1>2, <1>4 DEF LiveFiles, FilesOf

\* A log of a camera with its serial.cfg, one name for each file, known codecs and
\* no copy in the middle is read.
LEMMA IsRead ==
    ASSUME NEW l, LogInv(l), NEW dir, NEW text, LiveInv(Current(l), dir, text), Distinct(l),
           dir["serial"] # 0, NEW s \in Serials, text[dir["serial"]] = <<s>>,
           dir["own"] # dir["serial"],
           \A k \in Inodes(l) : l[k].current => l[k].codec = "known"
    PROVE  ReadsFiles(l) /\ Serial(l) = s
  <1>1. Serial(l) = s /\ Cardinality(RecoveredSerials(l)) = 1
    BY HeldSerial
  <1>2. ReadsSerial(l, TRUE)
    BY <1>1, Unambiguous DEF ReadsSerial
  <1>3. /\ LiveNames(l) = {name \in Names : dir[name] # 0}
        /\ LiveFiles(l) = FilesOf(dir, text)
    BY LiveFilesAre
  <1>4. \A name \in Names : Live(l, name) = dir[name]
    BY LiveIs DEF LiveInv
  <1>5. ASSUME NEW name \in LiveNames(l)
        PROVE  /\ dir[name] > 1
               /\ \A other \in LiveNames(l) \ {name} : dir[other] # dir[name]
               /\ Cardinality(Newest(l, dir[name])) = 1
               /\ \A k \in Fragments(l, dir[name]) : Decodes(l[k])
    <2>1. name \in Names /\ dir[name] # 0 /\ dir[name] \in Nat /\ dir[name] # 1
      BY <1>3 DEF LiveInv, DirInv
    <2>2. dir[name] > 1 /\ dir[name] \in Linked(dir)
      BY <2>1, TwoNames
    <2>3. \A other \in LiveNames(l) \ {name} : dir[other] # dir[name]
      BY <1>3, TwoNames
    <2>4. Fragments(l, dir[name]) # {}
      <3>1. FileInv(Parts(Current(l), dir[name]), text[dir[name]])
        BY <2>2 DEF LiveInv
      <3>2. Parts(Current(l), dir[name]) # {}
        BY <3>1 DEF FileInv
      <3> QED
        BY <3>2, Placed
    <2>5. Cardinality(Newest(l, dir[name])) = 1
      BY <2>1, <2>4, OneNewest
    <2>6. \A k \in Fragments(l, dir[name]) : Decodes(l[k])
      BY DEF Fragments, Decodes
    <2> QED
      BY <2>2, <2>3, <2>5, <2>6
  <1>6. Reconstructs(l)
    BY <1>3, <1>4, <1>5 DEF Reconstructs
  <1>7. LiveFiles(l)["serial"].data = <<Serial(l)>>
    BY <1>1, <1>3, TwoNames DEF FilesOf
  <1> QED
    BY <1>1, <1>2, <1>6, <1>7 DEF ReadsFiles

----------------------------------------------------------------------------
(* What is built. *)

\* Files that make a partition.
AreFiles(files) ==
    /\ "serial" \in DOMAIN files /\ DOMAIN files \in SUBSET Names
    /\ files = [name \in DOMAIN files |->
                   [inode |-> files[name].inode, data |-> files[name].data]]
    /\ \A name \in DOMAIN files :
          files[name].inode \in Nat /\ files[name].inode > 1 /\ files[name].data \in Texts
    /\ \A m, n \in DOMAIN files : files[m].inode = files[n].inode => m = n
    /\ \E s \in Serials : files["serial"].data = <<s>>

DirOf(files) == [name \in Names |-> IF name \in DOMAIN files THEN files[name].inode ELSE 0]
TextOf(files) ==
    [i \in Linked(DirOf(files)) |->
        files[CHOOSE name \in DOMAIN files : files[name].inode = i].data]

EntryOf(files, v, name) == Dirent(name, files[name].inode, v)
PartOf(files, w, name) ==
    Inode(files[name].inode, w, Len(files[name].data), 0, files[name].data, "known")

\* A log of one entry and one fragment for each of them, of versions v and w.
IsBuilt(l, files, v, w) ==
    /\ l \in Seq(Node) /\ Distinct(l)
    /\ Written(l) = {EntryOf(files, v, name) : name \in DOMAIN files}
                       \union {PartOf(files, w, name) : name \in DOMAIN files}

\* The fields of its nodes.
LEMMA BuiltNodes ==
    ASSUME NEW files, AreFiles(files), NEW v \in Nat, NEW w \in Nat, NEW name \in DOMAIN files
    PROVE  /\ name \in Names /\ Len(files[name].data) \in Nat
           /\ EntryOf(files, v, name) \in Node
           /\ EntryOf(files, v, name).kind = "dirent"
           /\ EntryOf(files, v, name).name = name
           /\ EntryOf(files, v, name).inode = files[name].inode
           /\ EntryOf(files, v, name).version = v
           /\ EntryOf(files, v, name).current
           /\ PartOf(files, w, name) \in Node
           /\ PartOf(files, w, name).kind = "inode"
           /\ PartOf(files, w, name).inode = files[name].inode
           /\ PartOf(files, w, name).version = w
           /\ PartOf(files, w, name).size = Len(files[name].data)
           /\ PartOf(files, w, name).offset = 0
           /\ PartOf(files, w, name).data = files[name].data
           /\ PartOf(files, w, name).codec = "known"
           /\ PartOf(files, w, name).current
  <1>1. name \in Names /\ files[name].inode \in Nat /\ files[name].data \in Texts
    BY DEF AreFiles
  <1>2. Len(files[name].data) \in Nat
    BY <1>1 DEF Texts
  <1> DEFINE inode == files[name].inode
             data == files[name].data
  <1>3. /\ EntryOf(files, v, name) = Dirent(name, inode, v)
        /\ PartOf(files, w, name) = Inode(inode, w, Len(data), 0, data, "known")
    BY DEF EntryOf, PartOf
  <1>4. /\ inode \in Nat /\ data \in Texts /\ Len(data) \in Nat /\ 0 \in Nat
        /\ "known" \in {"known", "other"}
    BY <1>1, <1>2
  <1> HIDE DEF inode, data
  <1>5. /\ EntryOf(files, v, name) \in DirentNode
        /\ EntryOf(files, v, name).kind = "dirent"
        /\ EntryOf(files, v, name).name = name
        /\ EntryOf(files, v, name).inode = inode
        /\ EntryOf(files, v, name).version = v
        /\ EntryOf(files, v, name).current
    BY <1>1, <1>3, <1>4, Nodes
  <1>6. /\ PartOf(files, w, name) \in InodeNode
        /\ PartOf(files, w, name).kind = "inode"
        /\ PartOf(files, w, name).inode = inode
        /\ PartOf(files, w, name).version = w
        /\ PartOf(files, w, name).size = Len(data)
        /\ PartOf(files, w, name).offset = 0
        /\ PartOf(files, w, name).data = data
        /\ PartOf(files, w, name).codec = "known"
        /\ PartOf(files, w, name).current
    BY <1>3, <1>4 DEF Inode, InodeNode
  <1> QED
    BY <1>1, <1>4, <1>5, <1>6 DEF Node, inode, data

\* The directory and the texts of the files.
LEMMA DirOfFiles ==
    ASSUME NEW files, AreFiles(files)
    PROVE  /\ DirInv(DirOf(files), TextOf(files))
           /\ \A name \in Names : /\ name \in DOMAIN files => DirOf(files)[name] = files[name].inode
                                  /\ name \notin DOMAIN files => DirOf(files)[name] = 0
           /\ \A i \in Linked(DirOf(files)) : \E name \in DOMAIN files : i = files[name].inode
           /\ \A name \in DOMAIN files : TextOf(files)[files[name].inode] = files[name].data
           /\ FilesOf(DirOf(files), TextOf(files)) = files
           /\ DirOf(files)["own"] # DirOf(files)["serial"] /\ DirOf(files)["serial"] # 0
  <1> DEFINE dir == DirOf(files)
             text == TextOf(files)
  <1>1. \A name \in Names : /\ name \in DOMAIN files => dir[name] = files[name].inode
                            /\ name \notin DOMAIN files => dir[name] = 0
    BY DEF DirOf
  <1>2. \A name \in DOMAIN files : /\ name \in Names /\ files[name].inode \in Nat
                                   /\ files[name].inode > 1 /\ files[name].data \in Texts
    BY DEF AreFiles
  <1>3. dir \in [Names -> Nat] /\ \A name \in Names : dir[name] # 1
    <2>1. \A name \in Names : dir[name] \in Nat /\ dir[name] # 1
      BY <1>1, <1>2
    <2> QED
      BY <2>1 DEF DirOf
  <1>4. \A i \in Linked(dir) : \E name \in DOMAIN files : i = files[name].inode
    BY <1>1, TwoNames
  <1>5. \A name \in DOMAIN files : files[name].inode \in Linked(dir)
    BY <1>1, <1>2, TwoNames
  <1>6. ASSUME NEW name \in DOMAIN files
        PROVE  text[files[name].inode] = files[name].data
    <2> DEFINE c == CHOOSE x \in DOMAIN files : files[x].inode = files[name].inode
    <2>1. c \in DOMAIN files /\ files[c].inode = files[name].inode
      OBVIOUS
    <2>2. c = name
      BY <2>1 DEF AreFiles
    <2>3. text[files[name].inode] = files[c].data
      BY <1>5 DEF TextOf
    <2> QED
      BY <2>2, <2>3
  <1>7. DirInv(dir, text)
    <2>1. \A i \in Linked(dir) : text[i] \in Texts
      BY <1>2, <1>4, <1>6
    <2>2. text \in [Linked(dir) -> Texts]
      BY <2>1 DEF TextOf
    <2> QED
      BY <1>3, <2>2 DEF DirInv
  <1>8. FilesOf(dir, text) = files
    <2>1. {x \in Names : dir[x] # 0} = DOMAIN files
      BY <1>1, <1>2
    <2>2. \A name \in DOMAIN files : dir[name] = files[name].inode /\ text[dir[name]] = files[name].data
      BY <1>1, <1>2, <1>6
    <2>3. files =
             [name \in DOMAIN files |-> [inode |-> files[name].inode, data |-> files[name].data]]
      BY DEF AreFiles
    <2>4. FilesOf(dir, text) =
             [name \in DOMAIN files |-> [inode |-> dir[name], data |-> text[dir[name]]]]
      BY <2>1 DEF FilesOf
    <2> HIDE DEF dir, text
    <2>5. FilesOf(dir, text) =
             [name \in DOMAIN files |-> [inode |-> files[name].inode, data |-> files[name].data]]
      BY <2>2, <2>4
    <2> QED
      BY <2>3, <2>5
  <1>9. dir["own"] # dir["serial"] /\ dir["serial"] # 0
    <2>1. "serial" \in DOMAIN files
      BY DEF AreFiles
    <2>2. dir["serial"] = files["serial"].inode /\ dir["serial"] # 0
      BY <1>1, <1>2, <2>1
    <2>3. CASE "own" \in DOMAIN files
      <3>1. dir["own"] = files["own"].inode
        BY <1>1, <2>3, TwoNames
      <3> QED
        BY <2>1, <2>2, <2>3, <3>1 DEF AreFiles
    <2>4. CASE "own" \notin DOMAIN files
      BY <1>1, <2>2, <2>4, TwoNames
    <2> QED
      BY <2>2, <2>3, <2>4
  <1> QED
    BY <1>1, <1>4, <1>6, <1>7, <1>8, <1>9

\* A log of this shape is one of a camera that holds the files.
LEMMA BuiltInv ==
    ASSUME NEW l, NEW files, AreFiles(files), NEW v \in Nat, NEW w \in Nat,
           IsBuilt(l, files, v, w)
    PROVE  /\ LogInv(l) /\ LiveInv(Current(l), DirOf(files), TextOf(files))
           /\ \A n \in Written(l) : n.kind = "inode" => n.codec = "known"
           /\ \A n \in Written(l) : n.kind = "dirent" => n.name \in DOMAIN files
  <1> DEFINE W == Written(l)
             dir == DirOf(files)
             text == TextOf(files)
  <1>1. W = {EntryOf(files, v, name) : name \in DOMAIN files}
               \union {PartOf(files, w, name) : name \in DOMAIN files}
    BY DEF IsBuilt
  <1>2. \A name \in DOMAIN files : /\ name \in Names /\ files[name].inode \in Nat
                                   /\ files[name].data \in Texts /\ Len(files[name].data) \in Nat
    BY BuiltNodes DEF AreFiles
  <1> HIDE DEF W
  <1>3. ASSUME NEW n \in W, n.kind = "dirent"
        PROVE  /\ n.name \in DOMAIN files /\ n = EntryOf(files, v, n.name)
               /\ n.inode = files[n.name].inode /\ n.version = v /\ n.current
    <2>1. ASSUME NEW name \in DOMAIN files, n = EntryOf(files, v, name)
          PROVE  /\ n.name \in DOMAIN files /\ n = EntryOf(files, v, n.name)
                 /\ n.inode = files[n.name].inode /\ n.version = v /\ n.current
      <3>1. /\ EntryOf(files, v, name).name = name
            /\ EntryOf(files, v, name).inode = files[name].inode
            /\ EntryOf(files, v, name).version = v /\ EntryOf(files, v, name).current
        BY BuiltNodes
      <3> QED
        BY <2>1, <3>1, Zenon
    <2>2. CASE \E name \in DOMAIN files : n = PartOf(files, w, name)
      BY <1>3, <2>2, BuiltNodes
    <2> QED
      BY <1>1, <2>1, <2>2
  <1>4. ASSUME NEW n \in W, n.kind = "inode"
        PROVE  \E name \in DOMAIN files :
                  /\ n = PartOf(files, w, name) /\ n.inode = files[name].inode /\ n.version = w
                  /\ n.size = Len(files[name].data) /\ n.offset = 0
                  /\ n.data = files[name].data /\ n.codec = "known" /\ n.current
    <2>1. CASE \E name \in DOMAIN files : n = EntryOf(files, v, name)
      BY <1>4, <2>1, BuiltNodes
    <2>2. CASE \E name \in DOMAIN files : n = PartOf(files, w, name)
      BY <2>2, BuiltNodes
    <2> QED
      BY <1>1, <2>1, <2>2
  <1>5. ASSUME NEW name \in DOMAIN files
        PROVE  EntryOf(files, v, name) \in W /\ PartOf(files, w, name) \in W
    BY <1>1
  <1>6. \A n \in W : n.kind \in {"dirent", "inode"} /\ n \in Node
    BY <1>1, BuiltNodes
  <1>7. Current(l) = W
    <2>1. \A n \in W : n.current
      BY <1>3, <1>4, <1>6
    <2> QED
      BY <2>1 DEF Current, W
  <1>8. CopiesInv(W)
    <2>1. \A name \in Names : \A m, n \in Entries(W, name) : m.inode = n.inode
      BY <1>3 DEF Entries
    <2>2. ASSUME NEW inode \in Nat, NEW m \in Parts(W, inode), NEW n \in Parts(W, inode)
          PROVE  m = n
      <3>1. PICK x \in DOMAIN files : m = PartOf(files, w, x) /\ m.inode = files[x].inode
        BY <1>4 DEF Parts
      <3>2. PICK y \in DOMAIN files : n = PartOf(files, w, y) /\ n.inode = files[y].inode
        BY <1>4 DEF Parts
      <3>3. x = y
        BY <3>1, <3>2 DEF Parts, AreFiles
      <3> QED
        BY <3>1, <3>2, <3>3
    <2> QED
      BY <2>1, <2>2 DEF CopiesInv
  <1>9. ShapeInv(W)
    <2>1. ASSUME NEW n \in W, n.kind = "inode"
          PROVE  n.size = n.offset + Len(n.data) /\ (n.data = <<>> => n.size = 0)
      <3>1. PICK name \in DOMAIN files :
               n.size = Len(files[name].data) /\ n.offset = 0 /\ n.data = files[name].data
        BY <1>4, <2>1
      <3>2. Len(files[name].data) \in Nat
        BY <1>2
      <3>3. n.data = <<>> => n.size = 0
        BY <3>1
      <3>4. n.size = Len(n.data) /\ Len(n.data) \in Nat
        BY <3>1, <3>2
      <3> QED
        BY <3>1, <3>3, <3>4
    <2> QED
      BY <2>1 DEF ShapeInv
  <1>10. Bounded(W)
    <2> DEFINE bound(name) == IF name \in DOMAIN files THEN files[name].inode ELSE 0
               most == v + w + bound("own") + bound("serial")
    <2>1. bound("own") \in Nat /\ bound("serial") \in Nat
      BY <1>2
    <2>2. ASSUME NEW name \in DOMAIN files
          PROVE  files[name].inode = bound("own") \/ files[name].inode = bound("serial")
      BY <1>2, TwoNames
    <2>3. ASSUME NEW n \in W
          PROVE  /\ n.version = v \/ n.version = w
                 /\ n.inode = bound("own") \/ n.inode = bound("serial")
      BY <1>3, <1>4, <1>6, <2>2
    <2> HIDE DEF bound
    <2>4. /\ most \in Nat /\ v <= most /\ w <= most /\ bound("own") <= most
          /\ bound("serial") <= most
      BY <2>1
    <2> HIDE DEF most
    <2>5. \A n \in W : n.version <= most /\ n.inode <= most
      BY <2>3, <2>4
    <2> QED
      BY <2>4, <2>5 DEF Bounded
  <1>11. LogInv(l)
    BY <1>8, <1>9, <1>10 DEF LogInv, IsBuilt, W
  <1>12. EntryInv(W, dir)
    <2>1. ASSUME NEW name \in Names, name \notin DOMAIN files
          PROVE  dir[name] = 0 /\ Entries(W, name) = {}
      BY <1>3, <2>1, DirOfFiles DEF Entries
    <2>2. ASSUME NEW name \in DOMAIN files
          PROVE  \E n \in Entries(W, name) : IsLatest(n, Entries(W, name)) /\ n.inode = dir[name]
      <3> DEFINE n == EntryOf(files, v, name)
      <3>1. n \in Entries(W, name) /\ n.version = v /\ n.inode = dir[name]
        BY <1>2, <1>5, BuiltNodes, DirOfFiles DEF Entries
      <3>2. \A m \in Entries(W, name) : m.version = v
        BY <1>3 DEF Entries
      <3> HIDE DEF n
      <3>3. IsLatest(n, Entries(W, name))
        BY <3>1, <3>2 DEF IsLatest
      <3> QED
        BY <3>1, <3>3
    <2> QED
      BY <2>1, <2>2 DEF EntryInv
  <1>13. ASSUME NEW i \in Linked(dir)
         PROVE  FileInv(Parts(W, i), text[i])
    <2>1. PICK name \in DOMAIN files : i = files[name].inode
      BY DirOfFiles
    <2> DEFINE n == PartOf(files, w, name)
               t == files[name].data
    <2>2. text[i] = t
      BY <2>1, DirOfFiles
    <2>3. /\ n \in Parts(W, i) /\ n.version = w /\ n.size = Len(t) /\ n.offset = 0 /\ n.data = t
          /\ Len(t) \in Nat
      BY <1>5, <2>1, BuiltNodes DEF Parts
    <2>4. \A m \in Parts(W, i) : m.version = w
      BY <1>4 DEF Parts
    <2> HIDE DEF n, t
    <2>5. IsLatest(n, Parts(W, i))
      BY <2>3, <2>4 DEF IsLatest
    <2>6. ASSUME NEW b \in 1 .. Len(t)
          PROVE  Covers(n, b) /\ n.data[b - n.offset] = t[b]
      <3>1. b \in Nat /\ 0 < b /\ b <= 0 + Len(t) /\ b - 0 = b
        BY <2>3
      <3> QED
        BY <2>3, <3>1 DEF Covers
    <2>7. \A m \in Parts(W, i) : m.version <= n.version
      BY <2>5 DEF IsLatest
    <2>8. FileInv(Parts(W, i), t)
      BY <2>3, <2>5, <2>6, <2>7 DEF FileInv
    <2> QED
      BY <2>2, <2>8
  <1>14. LiveInv(Current(l), dir, text)
    BY <1>7, <1>12, <1>13, DirOfFiles DEF LiveInv
  <1> QED
    BY <1>3, <1>4, <1>11, <1>14 DEF W

\* It is read, and the files are found in it.
LEMMA BuiltRead ==
    ASSUME NEW l, NEW files, AreFiles(files), NEW v \in Nat, NEW w \in Nat,
           IsBuilt(l, files, v, w)
    PROVE  /\ ReadsFiles(l) /\ LiveFiles(l) = files
           /\ files["serial"].data = <<Serial(l)>>
           /\ UnknownNames(l) \in SUBSET (DOMAIN files \ {"serial"})
  <1> DEFINE dir == DirOf(files)
             text == TextOf(files)
  <1>1. /\ LogInv(l) /\ LiveInv(Current(l), dir, text) /\ Distinct(l)
        /\ \A n \in Written(l) : n.kind = "inode" => n.codec = "known"
        /\ \A n \in Written(l) : n.kind = "dirent" => n.name \in DOMAIN files
    <2>1. Distinct(l)
      BY DEF IsBuilt
    <2> QED
      BY <2>1, BuiltInv
  <1>2. /\ dir["own"] # dir["serial"] /\ dir["serial"] # 0 /\ FilesOf(dir, text) = files
    BY DirOfFiles
  <1>3. "serial" \in DOMAIN files
    BY DEF AreFiles
  <1>4. text[dir["serial"]] = files["serial"].data
    BY <1>3, TwoNames, DirOfFiles
  <1>5. PICK s \in Serials : files["serial"].data = <<s>>
    BY DEF AreFiles
  <1>6. \A k \in Inodes(l) : l[k].current => l[k].codec = "known"
    BY <1>1 DEF Inodes, Written
  <1> HIDE DEF dir, text
  <1>7. ReadsFiles(l) /\ Serial(l) = s
    BY <1>1, <1>2, <1>4, <1>5, <1>6, IsRead
  <1>8. LiveFiles(l) = files
    BY <1>1, <1>2, LiveFilesAre
  <1>9. UnknownNames(l) \in SUBSET (DOMAIN files \ {"serial"})
    BY <1>1 DEF UnknownNames, KNOWN_CONFIG_NAMES, Dirents, Written
  <1> QED
    BY <1>5, <1>7, <1>8, <1>9

\* A log of two nodes, and one of four.
LEMMA TwoNodes ==
    ASSUME NEW a \in Node, NEW b \in Node, a # b
    PROVE  /\ <<a, b>> \in Seq(Node) /\ Written(<<a, b>>) = {a, b} /\ Distinct(<<a, b>>)
  <1> DEFINE l == <<a, b>>
  <1>1. l \in Seq(Node) /\ DOMAIN l = {1, 2} /\ l[1] = a /\ l[2] = b
    OBVIOUS
  <1> HIDE DEF l
  <1>2. Written(l) = {a, b} /\ Distinct(l)
    BY <1>1 DEF Written, Distinct
  <1> QED
    BY <1>1, <1>2 DEF l

LEMMA FourNodes ==
    ASSUME NEW a \in Node, NEW b \in Node, NEW c \in Node, NEW d \in Node,
           a # b, a # c, a # d, b # c, b # d, c # d
    PROVE  LET l == <<a, b>> \o <<c, d>>
           IN  l \in Seq(Node) /\ Written(l) = {a, b, c, d} /\ Distinct(l)
  <1> DEFINE l == <<a, b>> \o <<c, d>>
  <1>1. /\ l \in Seq(Node) /\ DOMAIN l = {1, 2, 3, 4} /\ l[1] = a /\ l[2] = b
        /\ l[3] = c /\ l[4] = d
    OBVIOUS
  <1> HIDE DEF l
  <1>2. Written(l) = {a, b, c, d}
    BY <1>1 DEF Written
  <1>3. Distinct(l)
    BY <1>1 DEF Distinct
  <1> QED
    BY <1>1, <1>2, <1>3 DEF l

\* Two sequences flattened.
LEMMA FlattenTwo ==
    ASSUME NEW S, NEW a \in Seq(S), NEW b \in Seq(S), NEW s, Len(s) = 2, s[1] = a, s[2] = b
    PROVE  FlattenSeq(s) = a \o b
  <1> DEFINE Step(f) == [i \in 1 .. 2 |-> IF i = 1 THEN s[i] ELSE f[i - 1] \o s[i]]
             flatten == CHOOSE f : f = Step(f)
             g == [i \in 1 .. 2 |-> IF i = 1 THEN a ELSE a \o b]
  <1>1. g = Step(g)
    OBVIOUS
  <1>2. flatten = Step(flatten)
    BY <1>1
  <1>3. FlattenSeq(s) = flatten[2]
    BY DEF FlattenSeq
  <1> HIDE DEF flatten
  <1>4. flatten[1] = a
    BY <1>2
  <1>5. flatten[2] = flatten[1] \o s[2]
    <2>1. Step(flatten)[2] = IF 2 = 1 THEN s[2] ELSE flatten[2 - 1] \o s[2]
      OBVIOUS
    <2>2. 2 - 1 = 1 /\ 2 # 1
      OBVIOUS
    <2>3. Step(flatten)[2] = flatten[1] \o s[2]
      BY <2>1, <2>2, Zenon
    <2> QED
      BY <1>2, <2>3, Zenon
  <1> QED
    BY <1>3, <1>4, <1>5

\* build_preserved_config.
LEMMA CompactBuilt ==
    ASSUME NEW files, AreFiles(files)
    PROVE  IsBuilt(Compact(files), files, 1, 1)
  <1> DEFINE E(name) == EntryOf(files, 1, name)
             P(name) == PartOf(files, 1, name)
             own == IF "own" \in DOMAIN files THEN <<E("own"), P("own")>> ELSE <<>>
             serial == <<E("serial"), P("serial")>>
             s == [k \in DOMAIN NAMES |->
                      IF NAMES[k] \notin DOMAIN files THEN <<>>
                      ELSE LET f == files[NAMES[k]]
                           IN  <<Dirent(NAMES[k], f.inode, 1),
                                 Inode(f.inode, 1, Len(f.data), 0, f.data, "known")>>]
  <1>1. Compact(files) = FlattenSeq(s)
    BY DEF Compact
  <1>2. DOMAIN NAMES = 1 .. 2 /\ NAMES[1] = "own" /\ NAMES[2] = "serial"
    BY DEF NAMES
  <1>3. "serial" \in DOMAIN files
    BY DEF AreFiles
  <1>4. Len(s) = 2 /\ s[1] = own /\ s[2] = serial
    BY <1>2, <1>3 DEF EntryOf, PartOf
  <1>5. ASSUME NEW name \in DOMAIN files
        PROVE  /\ E(name) \in Node /\ P(name) \in Node
               /\ E(name).kind = "dirent" /\ P(name).kind = "inode"
               /\ E(name).name = name /\ P(name).inode = files[name].inode
    <2>1. 1 \in Nat
      OBVIOUS
    <2> QED
      BY <2>1, BuiltNodes
  <1> HIDE DEF E, P, s
  <1>6. CASE "own" \notin DOMAIN files
    <2>1. own = <<>> /\ own \in Seq(Node) /\ serial \in Seq(Node)
      BY <1>3, <1>5, <1>6
    <2>2. Compact(files) = serial
      <3>1. Compact(files) = own \o serial
        BY <1>1, <1>4, <2>1, FlattenTwo
      <3> HIDE DEF own, serial
      <3>2. own \o serial = serial
        BY <2>1
      <3> QED
        BY <3>1, <3>2
    <2>3. E("serial") # P("serial")
      BY <1>3, <1>5
    <2>4. /\ serial \in Seq(Node) /\ Written(serial) = {E("serial"), P("serial")} /\ Distinct(serial)
      BY <1>3, <1>5, <2>3, TwoNodes
    <2>5. DOMAIN files = {"serial"}
      BY <1>3, <1>6, TwoNames DEF AreFiles
    <2>6. {E("serial"), P("serial")} =
             {E(name) : name \in DOMAIN files}
                \union {P(name) : name \in DOMAIN files}
      BY <2>5
    <2> QED
      BY <2>2, <2>4, <2>6 DEF IsBuilt, E, P
  <1>7. CASE "own" \in DOMAIN files
    <2>1. own = <<E("own"), P("own")>>
      BY <1>7
    <2>2. own \in Seq(Node) /\ serial \in Seq(Node)
      BY <1>3, <1>5, <1>7, <2>1
    <2>3. Compact(files) = <<E("own"), P("own")>> \o serial
      BY <1>1, <1>4, <2>1, <2>2, FlattenTwo
    <2>4. files["own"].inode # files["serial"].inode
      BY <1>3, <1>7 DEF AreFiles
    <2>5. /\ E("own") # P("own") /\ E("own") # E("serial") /\ E("own") # P("serial")
          /\ P("own") # E("serial") /\ P("own") # P("serial") /\ E("serial") # P("serial")
      BY <1>3, <1>5, <1>7, <2>4
    <2>6. /\ Compact(files) \in Seq(Node) /\ Distinct(Compact(files))
          /\ Written(Compact(files)) = {E("own"), P("own"), E("serial"), P("serial")}
      BY <1>3, <1>5, <1>7, <2>3, <2>5, FourNodes
    <2>7. DOMAIN files = {"own", "serial"}
      BY <1>3, <1>7, TwoNames DEF AreFiles
    <2>8. {E("own"), P("own"), E("serial"), P("serial")} =
             {E(name) : name \in DOMAIN files}
                \union {P(name) : name \in DOMAIN files}
      BY <2>7
    <2> QED
      BY <2>6, <2>8 DEF IsBuilt, E, P
  <1> QED
    BY <1>6, <1>7

\* build_minimal_config.
SerialFile(s) == [name \in {"serial"} |-> [inode |-> 7, data |-> <<s>>]]

LEMMA MinimalBuilt ==
    ASSUME NEW s \in Serials
    PROVE  /\ AreFiles(SerialFile(s))
           /\ IsBuilt(build_minimal_config(s), SerialFile(s), 123, 2)
  <1> DEFINE files == SerialFile(s)
             a == EntryOf(files, 123, "serial")
             b == PartOf(files, 2, "serial")
  <1>1. /\ DOMAIN files = {"serial"} /\ files["serial"] = [inode |-> 7, data |-> <<s>>]
        /\ files["serial"].inode = 7 /\ files["serial"].data = <<s>> /\ Len(<<s>>) = 1
    BY DEF SerialFile
  <1>2. <<s>> \in Texts
    BY DEF Texts, Blocks
  <1>3. AreFiles(files)
    <2>1. files =
             [name \in DOMAIN files |-> [inode |-> files[name].inode, data |-> files[name].data]]
      BY <1>1 DEF SerialFile
    <2> HIDE DEF files
    <2>2. 7 \in Nat /\ 7 > 1 /\ DOMAIN files \in SUBSET Names /\ "serial" \in DOMAIN files
      BY <1>1, TwoNames
    <2> QED
      BY <1>1, <1>2, <2>1, <2>2 DEF AreFiles
  <1>4. build_minimal_config(s) = <<a, b>>
    BY <1>1 DEF build_minimal_config, EntryOf, PartOf
  <1> HIDE DEF files
  <1>5. a \in Node /\ b \in Node /\ a.kind = "dirent" /\ b.kind = "inode"
    <2>1. "serial" \in DOMAIN files /\ 123 \in Nat /\ 2 \in Nat
      BY <1>1
    <2> QED
      BY <1>3, <2>1, BuiltNodes
  <1>6. {a, b} =
           {EntryOf(files, 123, name) : name \in DOMAIN files}
              \union {PartOf(files, 2, name) : name \in DOMAIN files}
    BY <1>1
  <1> HIDE DEF a, b
  <1>7. a # b
    BY <1>5
  <1>8. <<a, b>> \in Seq(Node) /\ Written(<<a, b>>) = {a, b} /\ Distinct(<<a, b>>)
    BY <1>5, <1>7, TwoNodes
  <1>9. IsBuilt(<<a, b>>, files, 123, 2)
    BY <1>6, <1>8 DEF IsBuilt
  <1> QED
    BY <1>3, <1>4, <1>9 DEF files

----------------------------------------------------------------------------
(* What is read. *)

\* A serial that is read is a serial text of the log.
LEMMA SerialRead ==
    ASSUME NEW l, LogInv(l), Cardinality(RecoveredSerials(l)) = 1
    PROVE  /\ Serial(l) \in Serials /\ Serial(l) \in RecoveredSerials(l)
           /\ RecoveredSerials(l) \in SUBSET Serials
  <1>1. Historical(l) \in SUBSET Serials
    BY DEF Historical, IsSerial
  <1>2. RecoveredSerials(l) \in SUBSET Serials
    BY <1>1 DEF RecoveredSerials, Candidates, IsSerial
  <1>3. RecoveredSerials(l) # {}
    BY FS_EmptySet
  <1>4. Serial(l) \in RecoveredSerials(l)
    BY <1>3 DEF Serial
  <1> QED
    BY <1>2, <1>4

\* A file that is read is a sequence of blocks, gaps being zero.
LEMMA FileDataType ==
    ASSUME NEW l, LogInv(l), NEW inode, Newest(l, inode) # {}
    PROVE  FileData(l, inode) \in Texts
  <1> DEFINE F == Fragments(l, inode)
             Over(b) == {k \in F : l[k].offset < b /\ b <= l[k].offset + Len(l[k].data)}
             Latest(s) == Max({k \in s : l[k].version = Max(Versions(l, s))})
             first == Max(Newest(l, inode))
             Block(b) == IF Over(b) = {} THEN "zero"
                         ELSE l[Latest(Over(b))].data[b - l[Latest(Over(b))].offset]
             B == Blocks \union {"zero"}
  <1>1. F \in SUBSET DOMAIN l /\ Newest(l, inode) \in SUBSET F
    BY Placed DEF Newest
  <1>2. FileData(l, inode) = [b \in 1 .. l[first].size |-> Block(b)]
    BY DEF FileData
  <1>3. ASSUME NEW k \in F
        PROVE  /\ l[k].offset \in Nat /\ l[k].size \in Nat /\ l[k].data \in Seq(B)
               /\ Len(l[k].data) \in Nat
    <2>1. l[k] \in Node /\ l[k].kind = "inode"
      BY <1>1, LogNodes DEF Fragments, Inodes
    <2> QED
      BY <2>1, Fields DEF Texts
  <1>4. l[first].size \in Nat
    <2>1. first \in Newest(l, inode)
      BY <1>1, Highest
    <2> QED
      BY <1>1, <1>3, <2>1
  <1>5. ASSUME NEW b \in 1 .. l[first].size
        PROVE  Block(b) \in B
    <2>1. CASE Over(b) = {}
      BY <2>1
    <2>2. CASE Over(b) # {}
      <3> DEFINE O == Over(b)
                 M == {k \in O : l[k].version = Max(Versions(l, O))}
                 last == Max(M)
      <3>1. O \in SUBSET DOMAIN l
        BY <1>1
      <3>2. \E k \in O : l[k].version = Max(Versions(l, O))
        BY <2>2, <3>1, Highest
      <3>3. M \in SUBSET DOMAIN l /\ M # {}
        BY <3>1, <3>2
      <3>4. last \in M
        BY <3>3, Highest
      <3>5. last \in F /\ l[last].offset < b /\ b <= l[last].offset + Len(l[last].data)
        BY <3>4
      <3>6. Block(b) = l[last].data[b - l[last].offset]
        BY <2>2
      <3> HIDE DEF last, M, O, Over, Latest, Block, F
      <3>7. b \in Nat
        BY <1>4
      <3>8. b - l[last].offset \in 1 .. Len(l[last].data)
        BY <1>3, <3>5, <3>7
      <3>9. l[last].data[b - l[last].offset] \in B
        BY <1>3, <3>5, <3>8
      <3> QED
        BY <3>6, <3>9
    <2> QED
      BY <2>1, <2>2
  <1> HIDE DEF Block, first, B
  <1>6. [b \in 1 .. l[first].size |-> Block(b)] \in Seq(B)
    BY <1>4, <1>5
  <1> QED
    BY <1>2, <1>6 DEF Texts, B

\* The files that are preserved make a partition.
LEMMA ReadFiles ==
    ASSUME NEW l, LogInv(l), ReadsFiles(l)
    PROVE  /\ AreFiles(WithSerial(l)) /\ DOMAIN WithSerial(l) = LiveNames(l) \union {"serial"}
           /\ \A name \in LiveNames(l) : WithSerial(l)[name] = LiveFiles(l)[name]
           /\ WithSerial(l)["serial"].data = <<Serial(l)>>
  <1> DEFINE live == LiveFiles(l)
             D == LiveNames(l)
             used == {live[name].inode : name \in DOMAIN live}
             free == CHOOSE i \in 2 .. 5 : i \notin used /\ 2 .. i - 1 \subseteq used
             new == [inode |-> free, data |-> <<Serial(l)>>]
             files == WithSerial(l)
  <1>1. D \in SUBSET Names /\ DOMAIN live = D
    BY DEF LiveNames, LiveFiles
  <1>2. files = [name \in D \union {"serial"} |-> IF name \in D THEN live[name] ELSE new]
    BY <1>1 DEF WithSerial
  <1>3. Serial(l) \in Serials /\ <<Serial(l)>> \in Texts
    <2>1. Serial(l) \in Serials
      BY SerialRead DEF ReadsFiles, ReadsSerial
    <2> QED
      BY <2>1 DEF Texts, Blocks
  <1>4. ASSUME NEW name \in D
        PROVE  /\ live[name] = [inode |-> live[name].inode, data |-> live[name].data]
               /\ live[name].inode \in Nat /\ live[name].inode > 1 /\ live[name].data \in Texts
               /\ live[name].inode = Live(l, name)
    <2> DEFINE i == Live(l, name)
    <2>1. live[name] = [inode |-> i, data |-> FileData(l, i)]
      BY DEF LiveFiles
    <2>2. i > 1 /\ Cardinality(Newest(l, i)) = 1
      BY DEF ReadsFiles, Reconstructs
    <2>3. Newest(l, i) # {}
      BY <2>2, FS_EmptySet
    <2>4. FileData(l, i) \in Texts
      BY <2>3, FileDataType
    <2>5. i \in Nat
      <3>1. PICK k \in Newest(l, i) : TRUE
        BY <2>3
      <3>2. k \in Fragments(l, i) /\ k \in DOMAIN l /\ l[k].inode = i
        BY DEF Newest, Fragments, Inodes
      <3>3. l[k].inode \in Nat
        BY <3>2, LogNodes, Fields
      <3> QED
        BY <3>2, <3>3
    <2> HIDE DEF i
    <2> QED
      BY <2>1, <2>2, <2>4, <2>5 DEF i
  <1>5. ASSUME NEW m \in D, NEW n \in D, live[m].inode = live[n].inode
        PROVE  m = n
    <2>1. Live(l, m) = Live(l, n)
      BY <1>4, <1>5
    <2>2. \A other \in LiveNames(l) \ {m} : Live(l, other) # Live(l, m)
      BY DEF ReadsFiles, Reconstructs
    <2> QED
      BY <2>1, <2>2
  <1>6. ASSUME "serial" \notin D
        PROVE  free \in 2 .. 5 /\ free \notin used
    <2>1. D \in SUBSET {"own"}
      BY <1>1, <1>6, TwoNames
    <2>2. used \in SUBSET {live["own"].inode}
      BY <1>1, <2>1
    <2>3. \E i \in 2 .. 5 : i \notin used /\ 2 .. i - 1 \subseteq used
      <3>1. CASE 2 \notin used
        <4>1. 2 .. 2 - 1 = {}
          OBVIOUS
        <4> QED
          BY <3>1, <4>1
      <3>2. CASE 2 \in used
        <4>1. 2 .. 3 - 1 = {2} /\ 3 \in 2 .. 5
          OBVIOUS
        <4>2. 3 \notin used
          BY <2>2, <3>2
        <4> QED
          BY <3>2, <4>1, <4>2
      <3> QED
        BY <3>1, <3>2
    <2> HIDE DEF used
    <2> QED
      BY <2>3
  <1> HIDE DEF live, free
  <1>7. /\ new = [inode |-> new.inode, data |-> new.data]
        /\ new.inode = free /\ new.data = <<Serial(l)>>
    OBVIOUS
  <1> HIDE DEF new, D, files
  <1>8. DOMAIN files = D \union {"serial"}
    BY <1>2
  <1>9. ASSUME NEW name \in DOMAIN files
        PROVE  \/ name \in D /\ files[name] = live[name]
               \/ name = "serial" /\ name \notin D /\ files[name] = new
    BY <1>2, <1>8
  <1>10. ASSUME NEW name \in DOMAIN files
         PROVE  /\ files[name].inode \in Nat /\ files[name].inode > 1 /\ files[name].data \in Texts
                /\ files[name] = [inode |-> files[name].inode, data |-> files[name].data]
    <2>1. CASE name \in D /\ files[name] = live[name]
      BY <1>4, <2>1
    <2>2. CASE name = "serial" /\ name \notin D /\ files[name] = new
      BY <1>3, <1>6, <1>7, <2>2
    <2> QED
      BY <1>9, <2>1, <2>2
  <1>11. ASSUME NEW m \in DOMAIN files, NEW n \in DOMAIN files, files[m].inode = files[n].inode
         PROVE  m = n
    <2>1. ASSUME NEW x \in D, "serial" \notin D
          PROVE  live[x].inode # free
      BY <1>1, <1>6, <2>1
    <2> QED
      BY <1>5, <1>7, <1>9, <1>11, <2>1
  <1>12. files["serial"].data = <<Serial(l)>>
    <2>1. CASE "serial" \in D
      BY <1>2, <2>1 DEF ReadsFiles, live, D
    <2>2. CASE "serial" \notin D
      BY <1>2, <1>7, <2>2
    <2> QED
      BY <2>1, <2>2
  <1>13. files =
            [name \in DOMAIN files |-> [inode |-> files[name].inode, data |-> files[name].data]]
    <2>1. files = [name \in DOMAIN files |-> files[name]]
      BY <1>2
    <2> QED
      BY <1>10, <2>1
  <1>14. DOMAIN files \in SUBSET Names /\ "serial" \in DOMAIN files
    BY <1>1, <1>8, TwoNames
  <1>15. AreFiles(files)
    BY <1>3, <1>10, <1>11, <1>12, <1>13, <1>14 DEF AreFiles
  <1> QED
    BY <1>2, <1>8, <1>12, <1>15 DEF files, D, live

----------------------------------------------------------------------------
(* The properties follow from the invariant. *)

\* A current node that a search for serials meets is a serial text of the log.
LEMMA RecoverableFollows ==
    ASSUME LogInv(log)
    PROVE  SerialRecoverable
  <1> SUFFICES ASSUME Settled, NEW k \in Inodes(log), IsSerial(log[k]),
                      \A j \in Inodes(log) : IsSerial(log[j]) => log[j].data = log[k].data
               PROVE  ReadsSerial(log, TRUE) /\ Serial(log) = log[k].data[1]
    BY DEF SerialRecoverable
  <1> DEFINE d == log[k].data[1]
  <1>1. Distinct(log) /\ ~AmbiguousDirents(log)
    BY SettledDistinct, Unambiguous
  <1>2. CASE Candidates(log) # {}
    <2>1. PICK j \in Candidates(log) :
             /\ RecoveredSerials(log) = {log[j].data[1]}
             /\ Serial(log) = log[j].data[1] /\ Cardinality(RecoveredSerials(log)) = 1
      BY <1>1, <1>2, Recovered
    <2>2. log[j].data = log[k].data
      BY DEF Candidates
    <2> QED
      BY <1>1, <2>1, <2>2 DEF ReadsSerial
  <1>3. CASE Candidates(log) = {}
    <2>1. RecoveredSerials(log) = Historical(log)
      BY <1>3 DEF RecoveredSerials
    <2>2. Historical(log) = {d}
      BY DEF Historical
    <2> HIDE DEF d
    <2>3. Cardinality({d}) = 1 /\ (CHOOSE s \in {d} : TRUE) = d
      BY FS_Singleton
    <2>4. Cardinality(RecoveredSerials(log)) = 1 /\ Serial(log) = d
      BY <2>1, <2>2, <2>3, Zenon DEF Serial
    <2> QED
      BY <1>1, <2>4 DEF ReadsSerial, d
  <1> QED
    BY <1>2, <1>3

LEMMA HeldFollows ==
    ASSUME IInv
    PROVE  SerialIsHeld
  <1> SUFFICES ASSUME ~lost, ReadsSerial(log, TRUE), names["serial"] # 0, NEW s \in Serials,
                      content[names["serial"]] = <<s>>
               PROVE  Serial(log) = s
    BY DEF SerialIsHeld
  <1>1. LogInv(log) /\ LiveInv(Current(log), names, content)
    BY DEF IInv
  <1>2. Cardinality(RecoveredSerials(log)) = 1
    BY DEF ReadsSerial
  <1> QED
    BY <1>1, <1>2, HeldSerial

LEMMA PreservesFollows ==
    ASSUME IInv
    PROVE  PreservesExactly
  <1> SUFFICES ASSUME ~lost, ReadsFiles(log)
               PROVE  /\ \A name \in Names : names[name] # 0 =>
                            /\ name \in DOMAIN WithSerial(log)
                            /\ WithSerial(log)[name].data = content[names[name]]
                      /\ \A name \in DOMAIN WithSerial(log) : names[name] # 0 \/ name = "serial"
    BY DEF PreservesExactly
  <1>1. LogInv(log) /\ LiveInv(Current(log), names, content)
    BY DEF IInv
  <1>2. /\ LiveNames(log) = {name \in Names : names[name] # 0}
        /\ LiveFiles(log) = FilesOf(names, content)
    BY <1>1, LiveFilesAre
  <1>3. /\ DOMAIN WithSerial(log) = LiveNames(log) \union {"serial"}
        /\ \A name \in LiveNames(log) : WithSerial(log)[name] = LiveFiles(log)[name]
    BY <1>1, ReadFiles
  <1>4. \A name \in LiveNames(log) : LiveFiles(log)[name].data = content[names[name]]
    BY <1>2 DEF FilesOf
  <1> QED
    BY <1>2, <1>3, <1>4

LEMMA NamesAreTwo == Cardinality({"own", "serial"}) = 2
  <1>1. IsFiniteSet({"serial"}) /\ Cardinality({"serial"}) = 1
    BY FS_Singleton
  <1>2. "own" \notin {"serial"} /\ {"own", "serial"} = {"serial"} \union {"own"}
    OBVIOUS
  <1>3. Cardinality({"serial"} \union {"own"}) = Cardinality({"serial"}) + 1
    BY <1>1, <1>2, FS_AddElement, Zenon
  <1>4. 1 + 1 = 2
    OBVIOUS
  <1> QED
    BY <1>1, <1>2, <1>3, <1>4

LEMMA NotRefusedFollows ==
    ASSUME IInv
    PROVE  NotRefused
  <1> SUFFICES ASSUME ~lost, names["serial"] # 0,
                      content[names["serial"]] \in {<<s>> : s \in Serials},
                      Cardinality(DOMAIN content) = Cardinality({name \in Names : names[name] # 0}),
                      \A k \in Inodes(log) : log[k].current => log[k].codec = "known",
                      Settled
               PROVE  ReadsFiles(log)
    BY DEF NotRefused
  <1>1. LogInv(log) /\ LiveInv(Current(log), names, content)
    BY DEF IInv
  <1>2. PICK s \in Serials : content[names["serial"]] = <<s>>
    OBVIOUS
  <1>3. names["own"] # names["serial"]
    <2>1. SUFFICES ASSUME names["own"] = names["serial"]
                   PROVE  FALSE
      OBVIOUS
    <2>2. DOMAIN content = {names["serial"]}
      BY <1>1, <2>1, TwoNames DEF LiveInv, DirInv
    <2>3. {name \in Names : names[name] # 0} = {"own", "serial"}
      BY <2>1, TwoNames
    <2>4. Cardinality(DOMAIN content) = 1
      BY <2>2, FS_Singleton
    <2>5. Cardinality({name \in Names : names[name] # 0}) = 2
      BY <2>3, NamesAreTwo, Zenon
    <2>6. 1 = 2
      BY <2>4, <2>5, Zenon
    <2> QED
      BY <2>6
  <1>4. Distinct(log)
    BY <1>1, SettledDistinct
  <1> QED
    BY <1>1, <1>2, <1>3, <1>4, IsRead

LEMMA ChecksFollow ==
    ASSUME LogInv(log)
    PROVE  InternalChecksHold
  <1>1. ASSUME ReadsFiles(log)
        PROVE  RoundTrip(WithSerial(log))
    <2> DEFINE files == WithSerial(log)
    <2>1. AreFiles(files)
      BY <1>1, ReadFiles
    <2> HIDE DEF files
    <2>2. IsBuilt(Compact(files), files, 1, 1) /\ 1 \in Nat
      BY <2>1, CompactBuilt
    <2>3. ReadsFiles(Compact(files)) /\ LiveFiles(Compact(files)) = files
      BY <2>1, <2>2, BuiltRead
    <2> QED
      BY <2>3 DEF RoundTrip, files
  <1>2. ASSUME ReadsSerial(log, TRUE)
        PROVE  LET built == build_minimal_config(Serial(log))
               IN  ReadsSerial(built, FALSE) /\ Serial(built) = Serial(log)
    <2> DEFINE s == Serial(log)
               built == build_minimal_config(s)
               files == SerialFile(s)
    <2>1. s \in Serials
      BY <1>2, SerialRead DEF ReadsSerial
    <2> HIDE DEF s
    <2>2. AreFiles(files) /\ IsBuilt(built, files, 123, 2) /\ 123 \in Nat /\ 2 \in Nat
      BY <2>1, MinimalBuilt
    <2>3. DOMAIN files = {"serial"} /\ files["serial"].data = <<s>>
      BY DEF SerialFile
    <2> HIDE DEF built, files
    <2>4. /\ ReadsFiles(built) /\ files["serial"].data = <<Serial(built)>>
          /\ UnknownNames(built) \in SUBSET (DOMAIN files \ {"serial"})
      BY <2>2, BuiltRead
    <2>5. UnknownNames(built) = {} /\ Serial(built) = s
      BY <2>3, <2>4
    <2>6. ReadsSerial(built, FALSE)
      BY <2>4, <2>5 DEF ReadsFiles, ReadsSerial
    <2> QED
      BY <2>5, <2>6 DEF built, s
  <1> QED
    BY <1>1, <1>2 DEF InternalChecksHold

----------------------------------------------------------------------------
(* The invariant. *)

LEMMA Primed ==
    ASSUME LogInv(log'), lost' \in BOOLEAN,
           lost' = FALSE => LiveInv(Current(log'), names', content')
    PROVE  IInv'
  BY DEF IInv

LEMMA IInvInit ==
    ASSUME Init
    PROVE  IInv
  <1> DEFINE files == SerialFile("s1")
  <1>1. "s1" \in Serials /\ 123 \in Nat /\ 2 \in Nat
    BY DEF Serials
  <1>2. AreFiles(files) /\ IsBuilt(build_minimal_config("s1"), files, 123, 2)
    BY <1>1, MinimalBuilt
  <1>3. /\ DOMAIN files = {"serial"} /\ files["serial"].inode = 7
        /\ files["serial"].data = <<"s1">>
    BY DEF SerialFile
  <1> HIDE DEF files
  <1>4. LogInv(log) /\ LiveInv(Current(log), DirOf(files), TextOf(files))
    BY <1>1, <1>2, BuiltInv DEF Init
  <1>5. names = DirOf(files)
    <2>1. \A name \in Names :
             (IF name = "serial" THEN 7 ELSE 0)
                = (IF name \in DOMAIN files THEN files[name].inode ELSE 0)
      BY <1>3
    <2> QED
      BY <2>1 DEF Init, DirOf
  <1>6. content = TextOf(files)
    <2>1. Linked(DirOf(files)) = {7}
      <3>1. DirOf(files)["own"] = 0 /\ DirOf(files)["serial"] = 7
        BY <1>3, TwoNames DEF DirOf
      <3> QED
        BY <3>1, TwoNames
    <2>2. TextOf(files)[7] = <<"s1">>
      BY <1>2, <1>3, DirOfFiles
    <2>3. TextOf(files) = [i \in {7} |-> TextOf(files)[i]]
      BY <2>1 DEF TextOf
    <2> QED
      BY <2>2, <2>3 DEF Init
  <1>7. lost = FALSE
    BY DEF Init
  <1> QED
    BY <1>4, <1>5, <1>6, <1>7 DEF IInv

\* A log whose nodes are, but for their marks, those of another.
LEMMA FewerNodes ==
    ASSUME NEW l, LogInv(l), NEW r \in Seq(Node),
           \A n \in Written(r) : \E m \in Written(l) :
              /\ n.kind = m.kind /\ n.inode = m.inode /\ n.version = m.version
              /\ n.kind = "dirent" => n.name = m.name
              /\ n.kind = "inode" => /\ n.size = m.size /\ n.offset = m.offset
                                     /\ n.data = m.data /\ n.codec = m.codec
    PROVE  LogInv(r)
  <1>1. CopiesInv(Written(l)) /\ ShapeInv(Written(l)) /\ Bounded(Written(l))
    BY DEF LogInv
  <1> DEFINE W == Written(l)
             R == Written(r)
  <1> HIDE DEF W, R
  <1>2. \A n \in R : \E m \in W :
              /\ n.kind = m.kind /\ n.inode = m.inode /\ n.version = m.version
              /\ n.kind = "dirent" => n.name = m.name
              /\ n.kind = "inode" => /\ n.size = m.size /\ n.offset = m.offset
                                     /\ n.data = m.data /\ n.codec = m.codec
    BY DEF W, R
  <1>3. CopiesInv(R)
    <2>1. ASSUME NEW name \in Names, NEW m \in Entries(R, name), NEW n \in Entries(R, name),
                 m.version = n.version
          PROVE  m.inode = n.inode
      <3>1. PICK m0 \in Entries(W, name) : m.inode = m0.inode /\ m.version = m0.version
        BY <1>2 DEF Entries
      <3>2. PICK n0 \in Entries(W, name) : n.inode = n0.inode /\ n.version = n0.version
        BY <1>2 DEF Entries
      <3> QED
        BY <1>1, <2>1, <3>1, <3>2 DEF CopiesInv, W
    <2>2. ASSUME NEW inode \in Nat, NEW m \in Parts(R, inode), NEW n \in Parts(R, inode),
                 m.version = n.version
          PROVE  m.size = n.size /\ m.offset = n.offset /\ m.data = n.data /\ m.codec = n.codec
      <3>1. PICK m0 \in Parts(W, inode) : /\ m.version = m0.version /\ m.size = m0.size
                                          /\ m.offset = m0.offset /\ m.data = m0.data
                                          /\ m.codec = m0.codec
        BY <1>2 DEF Parts
      <3>2. PICK n0 \in Parts(W, inode) : /\ n.version = n0.version /\ n.size = n0.size
                                          /\ n.offset = n0.offset /\ n.data = n0.data
                                          /\ n.codec = n0.codec
        BY <1>2 DEF Parts
      <3>3. /\ m0.size = n0.size /\ m0.offset = n0.offset /\ m0.data = n0.data
            /\ m0.codec = n0.codec
        BY <1>1, <2>2, <3>1, <3>2 DEF CopiesInv, W
      <3> QED
        BY <3>1, <3>2, <3>3
    <2> QED
      BY <2>1, <2>2 DEF CopiesInv
  <1>4. ShapeInv(R)
    <2>1. ASSUME NEW n \in R, n.kind = "inode"
          PROVE  n.size = n.offset + Len(n.data) /\ (n.data = <<>> => n.size = 0)
      <3>1. PICK m \in W : /\ m.kind = "inode" /\ n.size = m.size
                           /\ n.offset = m.offset /\ n.data = m.data
        BY <1>2, <2>1
      <3>2. m.size = m.offset + Len(m.data) /\ (m.data = <<>> => m.size = 0)
        BY <1>1, <3>1 DEF ShapeInv, W
      <3> QED
        BY <3>1, <3>2
    <2> QED
      BY <2>1 DEF ShapeInv
  <1>5. Bounded(R)
    <2>1. PICK most \in Nat : \A n \in W : n.version <= most /\ n.inode <= most
      BY <1>1 DEF Bounded, W
    <2>2. \A n \in R : n.version <= most /\ n.inode <= most
      BY <1>2, <2>1
    <2> QED
      BY <2>2 DEF Bounded
  <1> QED
    BY <1>3, <1>4, <1>5 DEF LogInv, R

\* A node of a version above those of its name, or of its file.
Fresh(n, W) ==
    \A m \in W :
        /\ m.kind = n.kind
        /\ n.kind = "dirent" => m.name = n.name
        /\ n.kind = "inode" => m.inode = n.inode
        => m.version < n.version

LEMMA OneMore ==
    ASSUME NEW l, LogInv(l), NEW n \in Node, n.current, Fresh(n, Written(l)),
           n.kind = "inode" => n.size = n.offset + Len(n.data) /\ (n.data = <<>> => n.size = 0)
    PROVE  /\ LogInv(Append(l, n)) /\ Written(Append(l, n)) = Written(l) \union {n}
           /\ Current(Append(l, n)) = Current(l) \union {n}
  <1> DEFINE r == Append(l, n)
             W == Written(l)
             R == Written(r)
  <1>1. l \in Seq(Node) /\ CopiesInv(W) /\ ShapeInv(W) /\ Bounded(W) /\ W \in SUBSET Node
    BY LogNodes DEF LogInv
  <1>2. /\ r \in Seq(Node) /\ DOMAIN r = DOMAIN l \union {Len(l) + 1}
        /\ \A k \in DOMAIN l : r[k] = l[k]
        /\ r[Len(l) + 1] = n
    BY <1>1
  <1> HIDE DEF r
  <1>3. R = W \union {n}
    BY <1>2 DEF Written
  <1>4. Current(r) = Current(l) \union {n}
    BY <1>3 DEF Current
  <1> HIDE DEF W, R
  <1>5. \A m \in W : m.version \in Nat /\ m.inode \in Nat
    BY <1>1, Fields
  <1>6. n.version \in Nat /\ n.inode \in Nat
    BY Fields
  <1>7. CopiesInv(R)
    <2>1. ASSUME NEW name \in Names, NEW a \in Entries(R, name), NEW b \in Entries(R, name),
                 a.version = b.version
          PROVE  a.inode = b.inode
      <3>1. CASE a \in W /\ b \in W
        BY <1>1, <2>1, <3>1 DEF CopiesInv, Entries
      <3>2. CASE a = n /\ b \in W
        BY <1>5, <1>6, <2>1, <3>2 DEF Fresh, Entries, W
      <3>3. CASE b = n /\ a \in W
        BY <1>5, <1>6, <2>1, <3>3 DEF Fresh, Entries, W
      <3> QED
        BY <1>3, <3>1, <3>2, <3>3 DEF Entries
    <2>2. ASSUME NEW inode \in Nat, NEW a \in Parts(R, inode), NEW b \in Parts(R, inode),
                 a.version = b.version
          PROVE  a.size = b.size /\ a.offset = b.offset /\ a.data = b.data /\ a.codec = b.codec
      <3>1. CASE a \in W /\ b \in W
        BY <1>1, <2>2, <3>1 DEF CopiesInv, Parts
      <3>2. CASE a = n /\ b \in W
        BY <1>5, <1>6, <2>2, <3>2 DEF Fresh, Parts, W
      <3>3. CASE b = n /\ a \in W
        BY <1>5, <1>6, <2>2, <3>3 DEF Fresh, Parts, W
      <3> QED
        BY <1>3, <3>1, <3>2, <3>3 DEF Parts
    <2> QED
      BY <2>1, <2>2 DEF CopiesInv
  <1>8. ShapeInv(R)
    BY <1>1, <1>3 DEF ShapeInv
  <1>9. Bounded(R)
    <2>1. PICK most \in Nat : \A m \in W : m.version <= most /\ m.inode <= most
      BY <1>1 DEF Bounded
    <2> DEFINE top == most + n.version + n.inode
    <2>2. top \in Nat /\ most <= top /\ n.version <= top /\ n.inode <= top
      BY <1>6
    <2> HIDE DEF top
    <2>3. \A m \in R : m.version <= top /\ m.inode <= top
      BY <1>3, <1>5, <2>1, <2>2
    <2> QED
      BY <2>2, <2>3 DEF Bounded
  <1> QED
    BY <1>2, <1>3, <1>4, <1>7, <1>8, <1>9 DEF LogInv, r, W, R

\* Above the versions of some places, and above every inode.
LEMMA Above ==
    ASSUME LogInv(log), NEW K \in SUBSET DOMAIN log
    PROVE  NextVersion(K) \in Nat /\ \A k \in K : log[k].version < NextVersion(K)
  <1> DEFINE S == Versions(log, K) \union {0}
  <1>1. PICK most \in Nat : \A k \in DOMAIN log : log[k].version <= most
    BY LogNodes
  <1>2. \A k \in K : log[k].version \in Nat
    BY LogNodes, Fields
  <1>3. S \in SUBSET Nat /\ S # {} /\ \A x \in S : x <= most
    BY <1>1, <1>2 DEF Versions
  <1>4. \A k \in K : log[k].version \in S
    BY DEF Versions
  <1> HIDE DEF S
  <1>5. Max(S) \in S /\ \A y \in S : y <= Max(S)
    BY <1>3, MaxOf
  <1>6. Max(S) \in Nat
    BY <1>3, <1>5
  <1>7. NextVersion(K) = Max(S) + 1
    BY DEF NextVersion, S
  <1>8. \A k \in K : log[k].version <= Max(S)
    BY <1>4, <1>5
  <1> QED
    BY <1>2, <1>6, <1>7, <1>8

LEMMA AboveInodes ==
    ASSUME LogInv(log)
    PROVE  LET inode == Max({log[k].inode : k \in DOMAIN log} \union {1}) + 1
           IN  inode \in Nat /\ inode > 1 /\ \A n \in Written(log) : n.inode < inode
  <1> DEFINE S == {log[k].inode : k \in DOMAIN log} \union {1}
  <1>1. PICK most \in Nat : \A k \in DOMAIN log : log[k].inode <= most
    BY LogNodes
  <1>2. \A k \in DOMAIN log : log[k].inode \in Nat
    BY LogNodes, Fields
  <1>3. S \in SUBSET Nat /\ S # {} /\ \A x \in S : x <= most + 1
    BY <1>1, <1>2
  <1>4. \A n \in Written(log) : n.inode \in S
    BY LogNodes
  <1>5. 1 \in S
    OBVIOUS
  <1> HIDE DEF S
  <1>6. Max(S) \in S /\ \A y \in S : y <= Max(S)
    <2>1. most + 1 \in Nat
      OBVIOUS
    <2> QED
      BY <1>3, <2>1, MaxOf
  <1>7. Max(S) \in Nat /\ 1 <= Max(S) /\ \A n \in Written(log) : n.inode <= Max(S) /\ n.inode \in Nat
    BY <1>3, <1>4, <1>5, <1>6
  <1>8. Max(S) + 1 \in Nat /\ Max(S) + 1 > 1 /\ \A n \in Written(log) : n.inode < Max(S) + 1
    BY <1>7
  <1> QED
    BY <1>8 DEF S

\* An entry of the highest version says what the name is now.
LEMMA EntryAdded ==
    ASSUME NEW N \in SUBSET Node, NEW dir \in [Names -> Nat], EntryInv(N, dir),
           NEW n \in Node, n.kind = "dirent", Fresh(n, N)
    PROVE  EntryInv(N \union {n}, [dir EXCEPT ![n.name] = n.inode])
  <1> DEFINE M == N \union {n}
             now == [dir EXCEPT ![n.name] = n.inode]
  <1>1. n.name \in Names /\ n.version \in Nat /\ \A m \in N : m.version \in Nat
    BY Fields
  <1>2. ASSUME NEW name \in Names, name # n.name
        PROVE  Entries(M, name) = Entries(N, name) /\ now[name] = dir[name]
    BY <1>2 DEF Entries
  <1>3. n \in Entries(M, n.name) /\ now[n.name] = n.inode
    BY <1>1 DEF Entries
  <1>4. ASSUME NEW m \in Entries(M, n.name)
        PROVE  m.version <= n.version
    BY <1>1 DEF Entries, Fresh
  <1>5. IsLatest(n, Entries(M, n.name))
    BY <1>3, <1>4 DEF IsLatest
  <1> HIDE DEF M, now
  <1>6. ASSUME NEW name \in Names
        PROVE  \/ now[name] = 0 /\ Entries(M, name) = {}
               \/ \E x \in Entries(M, name) : IsLatest(x, Entries(M, name)) /\ x.inode = now[name]
    <2>1. CASE name = n.name
      BY <1>3, <1>5, <2>1
    <2>2. CASE name # n.name
      BY <1>2, <2>2 DEF EntryInv
    <2> QED
      BY <2>1, <2>2
  <1> QED
    BY <1>6 DEF EntryInv, M, now

\* A node leaves alone what is of another name or file.
LEMMA OthersKept ==
    ASSUME NEW N \in SUBSET Node, NEW n \in Node
    PROVE  /\ n.kind = "inode" => \A dir : EntryInv(N, dir) => EntryInv(N \union {n}, dir)
           /\ \A i \in Nat : n.kind = "dirent" \/ n.inode # i => Parts(N \union {n}, i) = Parts(N, i)
  <1>1. ASSUME NEW dir, n.kind = "inode", EntryInv(N, dir)
        PROVE  EntryInv(N \union {n}, dir)
    <2>1. \A name \in Names : Entries(N \union {n}, name) = Entries(N, name)
      BY <1>1 DEF Entries
    <2> QED
      BY <1>1, <2>1 DEF EntryInv
  <1>2. ASSUME NEW i \in Nat, n.kind = "dirent" \/ n.inode # i
        PROVE  Parts(N \union {n}, i) = Parts(N, i)
    BY <1>2 DEF Parts
  <1> QED
    BY <1>1, <1>2

\* An empty fragment of the highest version empties the file.
LEMMA FileEmptied ==
    ASSUME NEW P \in SUBSET Node, NEW n \in Node, n.size = 0,
           \A m \in P : m.version < n.version
    PROVE  FileInv(P \union {n}, <<>>)
  <1>1. n.version \in Nat /\ \A m \in P : m.version \in Nat
    BY Fields
  <1>2. \A m \in P \union {n} : m.version <= n.version
    BY <1>1
  <1>3. IsLatest(n, P \union {n}) /\ n \in P \union {n}
    BY <1>2 DEF IsLatest
  <1>4. Len(<<>>) = 0 /\ 1 .. 0 = {}
    OBVIOUS
  <1> QED
    BY <1>3, <1>4 DEF FileInv

\* A block at the end of the file extends it.
LEMMA FileExtended ==
    ASSUME NEW P \in SUBSET Node, NEW t \in Texts, FileInv(P, t), NEW block \in Blocks,
           NEW n \in Node, n.kind = "inode", n.size = Len(t) + 1, n.offset = Len(t), n.data = <<block>>,
           \A m \in P : m.version < n.version
    PROVE  FileInv(P \union {n}, Append(t, block))
  <1> DEFINE u == Append(t, block)
             Q == P \union {n}
  <1>1. Len(t) \in Nat
    BY DEF Texts
  <1>2. /\ Len(u) = Len(t) + 1 /\ \A b \in 1 .. Len(t) : u[b] = t[b]
        /\ u[Len(t) + 1] = block
    BY DEF Texts
  <1>3. n.version \in Nat /\ \A m \in P : m.version \in Nat
    BY Fields
  <1>4. \A m \in Q : m.version <= n.version
    BY <1>3
  <1>5. IsLatest(n, Q) /\ n.size = Len(u) /\ n \in Q
    BY <1>2, <1>4 DEF IsLatest
  <1>6. Len(n.data) = 1 /\ n.data[1] = block
    OBVIOUS
  <1> HIDE DEF u
  <1>7. ASSUME NEW b \in 1 .. Len(u)
        PROVE  \E x \in Q : /\ Covers(x, b) /\ x.data[b - x.offset] = u[b]
                            /\ \A m \in Q : Covers(m, b) \/ m.size < b => m.version <= x.version
    <2>1. CASE b = Len(t) + 1
      <3>1. Covers(n, b) /\ b - n.offset = 1
        BY <1>1, <1>6, <2>1 DEF Covers
      <3>2. n.data[b - n.offset] = u[b]
        BY <1>2, <1>6, <2>1, <3>1
      <3> QED
        BY <1>4, <1>5, <3>1, <3>2
    <2>2. CASE b # Len(t) + 1
      <3>1. b \in 1 .. Len(t) /\ b \in Nat /\ b <= Len(t)
        BY <1>1, <1>2, <2>2
      <3>2. PICK x \in P : /\ Covers(x, b) /\ x.data[b - x.offset] = t[b]
                           /\ \A m \in P : Covers(m, b) \/ m.size < b => m.version <= x.version
        BY <3>1 DEF FileInv
      <3>3. ~Covers(n, b) /\ ~(n.size < b)
        BY <1>1, <3>1 DEF Covers
      <3>4. \A m \in Q : Covers(m, b) \/ m.size < b => m.version <= x.version
        BY <3>2, <3>3
      <3> QED
        BY <1>2, <3>1, <3>2, <3>4
    <2> QED
      BY <2>1, <2>2
  <1> QED
    BY <1>5, <1>7 DEF FileInv, u

\* The directory and the files with an entry that has been written.
Relinked(dir, n) == [dir EXCEPT ![n.name] = n.inode]
Retold(dir, text, n, data) ==
    [i \in Linked(Relinked(dir, n)) |-> IF i = n.inode THEN data ELSE text[i]]

\* An entry written to a camera's log.
LEMMA EntryWritten ==
    ASSUME NEW l, LogInv(l), NEW dir, NEW text, LiveInv(Current(l), dir, text),
           NEW n \in Node, n.kind = "dirent", n.current, Fresh(n, Written(l)), n.inode # 1,
           NEW data \in Texts, n.inode # 0 => FileInv(Parts(Current(l), n.inode), data)
    PROVE  /\ LogInv(Append(l, n))
           /\ LiveInv(Current(Append(l, n)), Relinked(dir, n), Retold(dir, text, n, data))
  <1> DEFINE N == Current(l)
             M == N \union {n}
             dir2 == Relinked(dir, n)
             text2 == Retold(dir, text, n, data)
  <1>1. LogInv(Append(l, n)) /\ Current(Append(l, n)) = M
    BY OneMore
  <1>2. N \in SUBSET Node /\ N \in SUBSET Written(l)
    BY LogNodes
  <1>3. n.name \in Names /\ n.inode \in Nat
    BY Fields
  <1>4. dir \in [Names -> Nat] /\ (\A name \in Names : dir[name] # 1) /\ text \in [Linked(dir) -> Texts]
    BY DEF LiveInv, DirInv
  <1>5. EntryInv(M, dir2)
    <2>1. Fresh(n, N)
      BY <1>2 DEF Fresh
    <2> QED
      BY <1>2, <1>4, <2>1, EntryAdded DEF LiveInv, Relinked
  <1>6. dir2 \in [Names -> Nat] /\ \A name \in Names : dir2[name] # 1
    BY <1>3, <1>4 DEF Relinked
  <1>7. ASSUME NEW i \in Linked(dir2)
        PROVE  /\ i \in Nat /\ i # 0 /\ (i # n.inode => i \in Linked(dir))
               /\ text2[i] = IF i = n.inode THEN data ELSE text[i]
    BY <1>3, <1>4, <1>6, TwoNames DEF Relinked, Retold
  <1>8. ASSUME NEW i \in Linked(dir2)
        PROVE  text2[i] \in Texts /\ FileInv(Parts(M, i), text2[i])
    <2>1. Parts(M, i) = Parts(N, i)
      BY <1>2, <1>7, OthersKept
    <2>2. CASE i = n.inode
      BY <1>7, <2>1, <2>2
    <2>3. CASE i # n.inode
      BY <1>4, <1>7, <2>1, <2>3 DEF LiveInv
    <2> QED
      BY <2>2, <2>3
  <1>9. text2 \in [Linked(dir2) -> Texts]
    BY <1>8 DEF Retold
  <1> HIDE DEF M, dir2, text2
  <1> QED
    BY <1>1, <1>5, <1>6, <1>8, <1>9 DEF LiveInv, DirInv, dir2, text2

\* The files with a fragment that has been written.
Retells(N, dir, text, n, text2) ==
    /\ text2 \in [Linked(dir) -> Texts]
    /\ \A i \in Linked(dir) : i # n.inode => text2[i] = text[i]
    /\ n.inode \in Linked(dir) => FileInv(Parts(N, n.inode) \union {n}, text2[n.inode])

\* A fragment written to a camera's log.
LEMMA FragmentWritten ==
    ASSUME NEW l, LogInv(l), NEW dir, NEW text, LiveInv(Current(l), dir, text),
           NEW n \in Node, n.kind = "inode", n.current, Fresh(n, Written(l)),
           n.size = n.offset + Len(n.data) /\ (n.data = <<>> => n.size = 0),
           NEW text2, Retells(Current(l), dir, text, n, text2)
    PROVE  /\ LogInv(Append(l, n)) /\ LiveInv(Current(Append(l, n)), dir, text2)
           /\ Parts(Current(Append(l, n)), n.inode) = Parts(Current(l), n.inode) \union {n}
  <1> DEFINE N == Current(l)
             M == N \union {n}
  <1>1. LogInv(Append(l, n)) /\ Current(Append(l, n)) = M
    BY OneMore
  <1>2. N \in SUBSET Node
    BY LogNodes
  <1>3. dir \in [Names -> Nat] /\ (\A name \in Names : dir[name] # 1)
    BY DEF LiveInv, DirInv
  <1>4. EntryInv(M, dir)
    BY <1>2, OthersKept DEF LiveInv
  <1>5. Parts(M, n.inode) = Parts(N, n.inode) \union {n}
    BY DEF Parts
  <1>6. ASSUME NEW i \in Linked(dir)
        PROVE  FileInv(Parts(M, i), text2[i])
    <2>1. CASE i = n.inode
      BY <1>5, <2>1 DEF Retells
    <2>2. CASE i # n.inode
      <3>1. i \in Nat
        BY <1>3, TwoNames
      <3>2. Parts(M, i) = Parts(N, i)
        BY <1>2, <2>2, <3>1, OthersKept
      <3> QED
        BY <2>2, <3>2 DEF LiveInv, Retells
    <2> QED
      BY <2>1, <2>2
  <1> HIDE DEF M
  <1> QED
    BY <1>1, <1>3, <1>4, <1>5, <1>6 DEF LiveInv, DirInv, Retells

\* The driver's versions are fresh.
LEMMA DirentFresh ==
    ASSUME LogInv(log), NEW name \in Names, NEW inode \in Nat
    PROVE  LET n == Dirent(name, inode, NextDirent)
           IN  /\ n \in Node /\ n.kind = "dirent" /\ n.name = name /\ n.inode = inode
               /\ n.current /\ Fresh(n, Written(log))
  <1> DEFINE n == Dirent(name, inode, NextDirent)
  <1>1. Dirents(log) \in SUBSET DOMAIN log
    BY DEF Dirents
  <1>2. NextDirent \in Nat /\ \A k \in Dirents(log) : log[k].version < NextDirent
    BY <1>1, Above DEF NextDirent
  <1>3. /\ n \in Node /\ n.kind = "dirent" /\ n.name = name /\ n.inode = inode
        /\ n.version = NextDirent /\ n.current
    BY <1>2, Nodes DEF Node
  <1> HIDE DEF n
  <1>4. ASSUME NEW m \in Written(log), m.kind = "dirent"
        PROVE  m.version < NextDirent
    <2>1. PICK k \in DOMAIN log : m = log[k]
      BY DEF Written
    <2> QED
      BY <1>2, <1>4, <2>1 DEF Dirents
  <1>5. Fresh(n, Written(log))
    BY <1>3, <1>4 DEF Fresh
  <1> QED
    BY <1>3, <1>5 DEF n

LEMMA FragmentFresh ==
    ASSUME LogInv(log), NEW inode \in Nat
    PROVE  /\ NextFragment(inode) \in Nat
           /\ \A m \in Parts(Written(log), inode) : m.version < NextFragment(inode)
  <1> DEFINE K == {k \in Inodes(log) : log[k].inode = inode}
  <1>1. K \in SUBSET DOMAIN log
    BY DEF Inodes
  <1>2. NextFragment(inode) \in Nat /\ \A k \in K : log[k].version < NextFragment(inode)
    BY <1>1, Above DEF NextFragment
  <1>3. ASSUME NEW m \in Parts(Written(log), inode)
        PROVE  m.version < NextFragment(inode)
    <2>1. PICK k \in DOMAIN log : m = log[k]
      BY DEF Written, Parts
    <2>2. k \in K
      BY <2>1 DEF Parts, Inodes
    <2> QED
      BY <1>2, <2>1, <2>2
  <1> QED
    BY <1>2, <1>3

----------------------------------------------------------------------------
(* What the driver writes. *)

LEMMA LinkStep ==
    ASSUME IInv, NEW name \in Names, NEW inode \in Linked(names), Link(name, inode)
    PROVE  IInv'
  <1> DEFINE n == Dirent(name, inode, NextDirent)
  <1>1. /\ ~lost /\ lost' = lost /\ lost \in BOOLEAN /\ LogInv(log)
        /\ LiveInv(Current(log), names, content)
    BY DEF IInv, Link, Writes
  <1>2. /\ names \in [Names -> Nat] /\ (\A x \in Names : names[x] # 1)
        /\ content \in [Linked(names) -> Texts] /\ FileInv(Parts(Current(log), inode), content[inode])
    BY <1>1 DEF LiveInv, DirInv
  <1>3. inode \in Nat /\ inode # 1 /\ content[inode] \in Texts
    BY <1>2, TwoNames
  <1>4. /\ n \in Node /\ n.kind = "dirent" /\ n.name = name /\ n.inode = inode
        /\ n.current /\ Fresh(n, Written(log))
    BY <1>1, <1>3, DirentFresh
  <1>5. /\ log' = Append(log, n) /\ names' = [names EXCEPT ![name] = inode]
        /\ content' = [i \in Linked(names') |-> IF i = inode THEN content[inode] ELSE content[i]]
    BY DEF Link, Links
  <1> HIDE DEF n
  <1>6. LogInv(log') /\ LiveInv(Current(log'), names', content')
    <2>1. names' = Relinked(names, n) /\ content' = Retold(names, content, n, content[inode])
      BY <1>4, <1>5 DEF Relinked, Retold
    <2>2. n.inode # 1 /\ (n.inode # 0 => FileInv(Parts(Current(log), n.inode), content[inode]))
      BY <1>2, <1>3, <1>4
    <2>3. LogInv(Append(log, n)) /\ LiveInv(Current(Append(log, n)), names', content')
      BY <1>1, <1>3, <1>4, <2>1, <2>2, EntryWritten
    <2> QED
      BY <1>5, <2>3
  <1> QED
    BY <1>1, <1>6, Primed

LEMMA UnlinkStep ==
    ASSUME IInv, NEW name \in Names, Unlink(name)
    PROVE  IInv'
  <1> DEFINE n == Dirent(name, 0, NextDirent)
  <1>1. /\ ~lost /\ lost' = lost /\ lost \in BOOLEAN /\ LogInv(log)
        /\ LiveInv(Current(log), names, content)
    BY DEF IInv, Unlink, Writes
  <1>2. <<>> \in Texts /\ 0 \in Nat /\ 0 # 1
    BY DEF Texts
  <1>3. /\ n \in Node /\ n.kind = "dirent" /\ n.name = name /\ n.inode = 0
        /\ n.current /\ Fresh(n, Written(log))
    BY <1>1, <1>2, DirentFresh
  <1>4. /\ log' = Append(log, n) /\ names' = [names EXCEPT ![name] = 0]
        /\ content' = [i \in Linked(names') |-> IF i = 0 THEN <<>> ELSE content[i]]
    BY DEF Unlink, Links
  <1> HIDE DEF n
  <1>5. LogInv(log') /\ LiveInv(Current(log'), names', content')
    <2>1. names' = Relinked(names, n) /\ content' = Retold(names, content, n, <<>>)
      BY <1>3, <1>4 DEF Relinked, Retold
    <2>2. n.inode # 1 /\ (n.inode # 0 => FileInv(Parts(Current(log), n.inode), <<>>))
      BY <1>3
    <2>3. LogInv(Append(log, n)) /\ LiveInv(Current(Append(log, n)), names', content')
      BY <1>1, <1>2, <1>3, <2>1, <2>2, EntryWritten
    <2> QED
      BY <1>4, <2>3
  <1> QED
    BY <1>1, <1>5, Primed

LEMMA CreateStep ==
    ASSUME IInv, NEW name \in Names, Create(name)
    PROVE  IInv'
  <1> DEFINE inode == Max({log[k].inode : k \in DOMAIN log} \union {1}) + 1
             a == Inode(inode, 1, 0, 0, <<>>, "known")
             n == Dirent(name, inode, NextDirent)
             l == Append(log, a)
  <1>1. /\ ~lost /\ lost' = lost /\ lost \in BOOLEAN /\ LogInv(log)
        /\ LiveInv(Current(log), names, content)
    BY DEF IInv, Create, Writes
  <1>2. inode \in Nat /\ inode > 1 /\ \A m \in Written(log) : m.inode < inode
    BY <1>1, AboveInodes
  <1>3. /\ log' = log \o <<a, n>> /\ names' = [names EXCEPT ![name] = inode]
        /\ content' = [i \in Linked(names') |-> IF i = inode THEN <<>> ELSE content[i]]
    BY DEF Create, Links
  <1> HIDE DEF inode
  <1>4. /\ a \in Node /\ a.kind = "inode" /\ a.inode = inode /\ a.version = 1 /\ a.size = 0
        /\ a.offset = 0 /\ a.data = <<>> /\ a.current
    <2>1. <<>> \in Texts
      BY DEF Texts
    <2>2. a \in InodeNode
      BY <1>2, <2>1 DEF Inode, InodeNode
    <2>3. /\ a.kind = "inode" /\ a.inode = inode /\ a.version = 1 /\ a.size = 0
          /\ a.offset = 0 /\ a.data = <<>>
      BY DEF Inode
    <2>4. a.current
      BY DEF Inode
    <2> QED
      BY <2>2, <2>3, <2>4 DEF Node
  <1>5. /\ n \in Node /\ n.kind = "dirent" /\ n.name = name /\ n.inode = inode
        /\ n.current /\ Fresh(n, Written(log))
    BY <1>1, <1>2, DirentFresh
  <1> HIDE DEF a, n
  <1>6. log' = Append(l, n)
    <2>1. log \in Seq(Node)
      BY <1>1 DEF LogInv
    <2> QED
      BY <1>3, <1>4, <1>5, <2>1
  <1>7. \A m \in Written(log) : m.inode # inode
    <2>1. \A m \in Written(log) : m.inode \in Nat
      BY <1>1, LogNodes, Fields
    <2> QED
      BY <1>2, <2>1
  <1>8. /\ LogInv(l) /\ LiveInv(Current(l), names, content) /\ Written(l) = Written(log) \union {a}
        /\ FileInv(Parts(Current(l), inode), <<>>)
    <2>1. Fresh(a, Written(log))
      BY <1>4, <1>7 DEF Fresh
    <2>2. a.size = a.offset + Len(a.data) /\ (a.data = <<>> => a.size = 0)
      BY <1>4
    <2>3. Parts(Current(log), inode) = {}
      BY <1>7 DEF Parts, Current
    <2>4. FileInv(Parts(Current(log), inode) \union {a}, <<>>)
      <3>1. {} \in SUBSET Node /\ \A m \in {} : m.version < a.version
        OBVIOUS
      <3>2. FileInv({} \union {a}, <<>>)
        BY <1>4, <3>1, FileEmptied
      <3> QED
        BY <2>3, <3>2
    <2>5. content \in [Linked(names) -> Texts]
      BY <1>1 DEF LiveInv, DirInv
    <2>6. inode \notin Linked(names)
      <3>1. SUFFICES ASSUME inode \in Linked(names)
                     PROVE  FALSE
        OBVIOUS
      <3>2. FileInv(Parts(Current(log), inode), content[inode])
        BY <1>1, <3>1 DEF LiveInv
      <3> QED
        BY <2>3, <3>2 DEF FileInv
    <2>7. /\ LogInv(l) /\ LiveInv(Current(l), names, content)
          /\ Parts(Current(l), a.inode) = Parts(Current(log), a.inode) \union {a}
      <3>1. Retells(Current(log), names, content, a, content)
        BY <1>4, <2>5, <2>6 DEF Retells
      <3>2. a \in Node /\ a.kind = "inode" /\ a.current
        BY <1>4
      <3> QED
        BY <1>1, <2>1, <2>2, <3>1, <3>2, FragmentWritten
    <2>8. Written(l) = Written(log) \union {a}
      BY <1>1, <1>4, <2>1, <2>2, OneMore
    <2> QED
      BY <1>4, <2>4, <2>7, <2>8
  <1>9. Fresh(n, Written(l))
    BY <1>4, <1>5, <1>8 DEF Fresh
  <1> HIDE DEF l
  <1>10. LogInv(log') /\ LiveInv(Current(log'), names', content')
    <2>1. names' = Relinked(names, n) /\ content' = Retold(names, content, n, <<>>)
      BY <1>3, <1>5 DEF Relinked, Retold
    <2>2. n.inode # 1 /\ (n.inode # 0 => FileInv(Parts(Current(l), n.inode), <<>>)) /\ <<>> \in Texts
      BY <1>2, <1>5, <1>8 DEF Texts
    <2>3. LogInv(Append(l, n)) /\ LiveInv(Current(Append(l, n)), names', content')
      BY <1>5, <1>8, <1>9, <2>1, <2>2, EntryWritten
    <2> QED
      BY <1>6, <2>3
  <1> QED
    BY <1>1, <1>10, Primed

\* A fragment of a file of the camera.
LEMMA FragmentStep ==
    ASSUME IInv, ~lost, lost' = lost, names' = names,
           NEW inode \in Linked(names), NEW n \in Node, NEW t \in Texts,
           n.kind = "inode", n.inode = inode, n.version = NextFragment(inode), n.current,
           n.size = n.offset + Len(n.data) /\ (n.data = <<>> => n.size = 0),
           log' = Append(log, n), content' = [content EXCEPT ![inode] = t],
           \A P \in SUBSET Node : (\A m \in P : m.version < n.version) /\ FileInv(P, content[inode]) =>
              FileInv(P \union {n}, t)
    PROVE  IInv'
  <1> DEFINE P == Parts(Current(log), inode)
  <1>1. lost \in BOOLEAN /\ LogInv(log) /\ LiveInv(Current(log), names, content)
    BY DEF IInv
  <1>2. /\ names \in [Names -> Nat] /\ content \in [Linked(names) -> Texts]
        /\ FileInv(P, content[inode])
    BY <1>1 DEF LiveInv, DirInv
  <1>3. inode \in Nat
    BY <1>2, TwoNames
  <1>4. \A m \in Parts(Written(log), inode) : m.version < n.version
    BY <1>1, <1>3, FragmentFresh
  <1>5. P \in SUBSET Node /\ P \in SUBSET Parts(Written(log), inode)
    BY <1>1, LogNodes DEF Parts
  <1>6. FileInv(P \union {n}, t)
    BY <1>2, <1>4, <1>5
  <1>7. Fresh(n, Written(log))
    BY <1>4 DEF Fresh, Parts
  <1>8. /\ content' \in [Linked(names) -> Texts] /\ content'[inode] = t
        /\ \A i \in Linked(names) : i # n.inode => content'[i] = content[i]
    BY <1>2
  <1>9. n.inode \in Linked(names) => FileInv(Parts(Current(log), n.inode) \union {n}, content'[n.inode])
    BY <1>6, <1>8
  <1>10. LogInv(Append(log, n)) /\ LiveInv(Current(Append(log, n)), names, content')
    <2>1. Retells(Current(log), names, content, n, content')
      BY <1>8, <1>9 DEF Retells
    <2> QED
      BY <1>1, <1>7, <2>1, FragmentWritten
  <1>11. LogInv(log') /\ LiveInv(Current(log'), names', content')
    BY <1>10
  <1> QED
    BY <1>1, <1>11, Primed

LEMMA TruncateStep ==
    ASSUME IInv, NEW inode \in Linked(names), Truncate(inode)
    PROVE  IInv'
  <1> DEFINE n == Inode(inode, NextFragment(inode), 0, 0, <<>>, "known")
  <1>1. /\ ~lost /\ lost' = lost /\ names' = names /\ log' = Append(log, n)
        /\ content' = [content EXCEPT ![inode] = <<>>]
    BY DEF Truncate, Writes
  <1>2. LogInv(log) /\ names \in [Names -> Nat]
    BY <1>1 DEF IInv, LiveInv, DirInv
  <1>3. inode \in Nat /\ <<>> \in Texts
    BY <1>2, TwoNames DEF Texts
  <1>4. NextFragment(inode) \in Nat
    BY <1>2, <1>3, FragmentFresh
  <1>5. /\ n \in Node /\ n.kind = "inode" /\ n.inode = inode /\ n.version = NextFragment(inode)
        /\ n.size = 0 /\ n.offset = 0 /\ n.data = <<>> /\ n.current
    <2>1. n \in InodeNode
      BY <1>3, <1>4 DEF Inode, InodeNode
    <2>2. /\ n.kind = "inode" /\ n.inode = inode /\ n.version = NextFragment(inode)
          /\ n.size = 0 /\ n.offset = 0 /\ n.data = <<>>
      BY DEF Inode
    <2>3. n.current
      BY DEF Inode
    <2> QED
      BY <2>1, <2>2, <2>3 DEF Node
  <1> HIDE DEF n
  <1>6. n.size = n.offset + Len(n.data) /\ (n.data = <<>> => n.size = 0)
    BY <1>5
  <1>7. \A P \in SUBSET Node : (\A m \in P : m.version < n.version) /\ FileInv(P, content[inode]) =>
           FileInv(P \union {n}, <<>>)
    BY <1>5, FileEmptied
  <1> QED
    BY <1>1, <1>3, <1>5, <1>6, <1>7, FragmentStep

LEMMA WriteBlockStep ==
    ASSUME IInv, NEW inode \in Linked(names), NEW block \in Blocks, NEW codec \in {"known", "other"},
           WriteBlock(inode, block, codec)
    PROVE  IInv'
  <1> DEFINE t == content[inode]
             n == Inode(inode, NextFragment(inode), Len(t) + 1, Len(t), <<block>>, codec)
  <1>1. /\ ~lost /\ lost' = lost /\ names' = names /\ log' = Append(log, n)
        /\ content' = [content EXCEPT ![inode] = Append(t, block)]
    BY DEF WriteBlock, Writes
  <1>2. LogInv(log) /\ names \in [Names -> Nat] /\ content \in [Linked(names) -> Texts]
    BY <1>1 DEF IInv, LiveInv, DirInv
  <1>3. inode \in Nat /\ t \in Texts
    BY <1>2, TwoNames
  <1> HIDE DEF t
  <1>4. Len(t) \in Nat /\ <<block>> \in Texts /\ Append(t, block) \in Texts
    BY <1>3 DEF Texts
  <1>5. NextFragment(inode) \in Nat
    BY <1>2, <1>3, FragmentFresh
  <1>6. /\ n \in Node /\ n.kind = "inode" /\ n.inode = inode /\ n.version = NextFragment(inode)
        /\ n.size = Len(t) + 1 /\ n.offset = Len(t) /\ n.data = <<block>> /\ n.current
    <2>1. n \in InodeNode
      BY <1>3, <1>4, <1>5 DEF Inode, InodeNode
    <2>2. /\ n.kind = "inode" /\ n.inode = inode /\ n.version = NextFragment(inode)
          /\ n.size = Len(t) + 1 /\ n.offset = Len(t) /\ n.data = <<block>>
      BY DEF Inode
    <2>3. n.current
      BY DEF Inode
    <2> QED
      BY <2>1, <2>2, <2>3 DEF Node
  <1> HIDE DEF n
  <1>7. n.size = n.offset + Len(n.data) /\ (n.data = <<>> => n.size = 0)
    <2>1. Len(n.data) = 1 /\ n.data # <<>>
      BY <1>6
    <2> QED
      BY <1>4, <1>6, <2>1
  <1>8. \A P \in SUBSET Node : (\A m \in P : m.version < n.version) /\ FileInv(P, t) =>
           FileInv(P \union {n}, Append(t, block))
    BY <1>3, <1>6, FileExtended
  <1>9. \A P \in SUBSET Node : (\A m \in P : m.version < n.version) /\ FileInv(P, content[inode]) =>
           FileInv(P \union {n}, Append(t, block))
    BY <1>8 DEF t
  <1> QED
    BY <1>1, <1>4, <1>6, <1>7, <1>9, FragmentStep

----------------------------------------------------------------------------
(* What the driver collects. *)

\* A node of no use to the camera's log: of a name that has a newer entry or is
\* deleted, of a file that is not linked, or, when it is not the latest of its file,
\* with newer fragments over or before each of its blocks.
Useless(n, N, dir) ==
    \/ /\ n.kind = "dirent"
       /\ \/ \E m \in Entries(N, n.name) : m.version > n.version
          \/ n.inode = 0 /\ Entries(N, n.name) = {n}
    \/ n.kind = "inode" /\ n.inode \notin Linked(dir)
    \/ /\ n.kind = "inode"
       /\ \E m \in Parts(N, n.inode) : m.version > n.version
       /\ \A b \in n.offset + 1 .. n.offset + Len(n.data) :
             \E m \in Parts(N, n.inode) : m.version > n.version /\ (m.size < b \/ Covers(m, b))

\* Without it the rest tells the same.
LEMMA UselessDropped ==
    ASSUME NEW N \in SUBSET Node, NEW dir, NEW text, LiveInv(N, dir, text),
           NEW n \in N, Useless(n, N, dir)
    PROVE  LiveInv(N \ {n}, dir, text)
  <1> DEFINE M == N \ {n}
  <1>1. DirInv(dir, text) /\ EntryInv(N, dir)
    BY DEF LiveInv
  <1>2. n.version \in Nat /\ n.inode \in Nat /\ \A m \in N : m.version \in Nat
    BY Fields
  <1>3. ASSUME NEW name \in Names
        PROVE  \/ dir[name] = 0 /\ Entries(M, name) = {}
               \/ \E x \in Entries(M, name) : IsLatest(x, Entries(M, name)) /\ x.inode = dir[name]
    <2>1. CASE n \notin Entries(N, name)
      <3>1. Entries(M, name) = Entries(N, name)
        BY <2>1 DEF Entries
      <3> QED
        BY <1>1, <3>1 DEF EntryInv
    <2>2. CASE n \in Entries(N, name)
      <3>1. n.kind = "dirent" /\ n.name = name
        BY <2>2 DEF Entries
      <3>2. PICK x \in Entries(N, name) : IsLatest(x, Entries(N, name)) /\ x.inode = dir[name]
        BY <1>1, <2>2 DEF EntryInv
      <3>3. ASSUME NEW m \in Entries(N, name), m.version > n.version
            PROVE  x \in Entries(M, name) /\ IsLatest(x, Entries(M, name))
        <4>1. m.version <= x.version
          BY <3>2 DEF IsLatest
        <4>2. m.version \in Nat /\ x.version \in Nat
          BY <1>2 DEF Entries
        <4>3. x # n
          BY <1>2, <3>3, <4>1, <4>2
        <4>4. x \in Entries(M, name)
          BY <4>3 DEF Entries
        <4>5. \A y \in Entries(M, name) : y.version <= x.version
          BY <3>2 DEF IsLatest, Entries
        <4> QED
          BY <4>4, <4>5 DEF IsLatest
      <3>4. ASSUME n.inode = 0, Entries(N, name) = {n}
            PROVE  dir[name] = 0 /\ Entries(M, name) = {}
        BY <3>2, <3>4 DEF Entries
      <3>5. \/ \E m \in Entries(N, name) : m.version > n.version
            \/ n.inode = 0 /\ Entries(N, name) = {n}
        BY <3>1 DEF Useless
      <3> QED
        BY <3>2, <3>3, <3>4, <3>5
    <2> QED
      BY <2>1, <2>2
  <1>4. ASSUME NEW i \in Linked(dir)
        PROVE  FileInv(Parts(M, i), text[i])
    <2> DEFINE P == Parts(N, i)
               Q == Parts(M, i)
    <2>1. FileInv(P, text[i])
      BY DEF LiveInv
    <2>2. CASE n \notin P
      <3>1. Q = P
        BY <2>2 DEF Parts
      <3> QED
        BY <2>1, <3>1
    <2>3. CASE n \in P
      <3>1. n.kind = "inode" /\ n.inode = i /\ Q = P \ {n} /\ \A m \in P : m.version \in Nat
        BY <1>2, <2>3 DEF Parts
      <3>2. /\ \E m \in P : m.version > n.version
            /\ \A b \in n.offset + 1 .. n.offset + Len(n.data) :
                  \E m \in P : m.version > n.version /\ (m.size < b \/ Covers(m, b))
        BY <3>1 DEF Useless
      <3> HIDE DEF P, Q
      <3>3. \E x \in Q : IsLatest(x, Q) /\ x.size = Len(text[i])
        <4>1. PICK x \in P : IsLatest(x, P) /\ x.size = Len(text[i])
          BY <2>1 DEF FileInv
        <4>2. PICK m \in P : m.version > n.version
          BY <3>2
        <4>3. m.version <= x.version
          BY <4>1 DEF IsLatest
        <4>4. x # n
          BY <1>2, <3>1, <4>2, <4>3
        <4>5. x \in Q /\ IsLatest(x, Q)
          BY <3>1, <4>1, <4>4 DEF IsLatest
        <4> QED
          BY <4>1, <4>5
      <3>4. ASSUME NEW b \in 1 .. Len(text[i])
            PROVE  \E x \in Q : /\ Covers(x, b) /\ x.data[b - x.offset] = text[i][b]
                                /\ \A m \in Q : Covers(m, b) \/ m.size < b => m.version <= x.version
        <4>1. PICK x \in P : /\ Covers(x, b) /\ x.data[b - x.offset] = text[i][b]
                             /\ \A m \in P : Covers(m, b) \/ m.size < b => m.version <= x.version
          BY <2>1 DEF FileInv
        <4>2. x # n
          <5>1. SUFFICES ASSUME x = n
                         PROVE  FALSE
            OBVIOUS
          <5>2. n.offset \in Nat /\ Len(n.data) \in Nat /\ b \in Int
            <6>1. n \in Node
              OBVIOUS
            <6> QED
              BY <3>1, <6>1, Fields
          <5>3. b \in n.offset + 1 .. n.offset + Len(n.data)
            BY <4>1, <5>1, <5>2 DEF Covers
          <5>4. PICK m \in P : m.version > n.version /\ (m.size < b \/ Covers(m, b))
            BY <3>2, <5>3
          <5>5. m.version <= n.version
            BY <4>1, <5>1, <5>4
          <5> QED
            BY <1>2, <3>1, <5>4, <5>5
        <4> QED
          BY <3>1, <4>1, <4>2
      <3>5. FileInv(Q, text[i])
        BY <3>3, <3>4 DEF FileInv
      <3> QED
        BY <3>5 DEF Q
    <2> QED
      BY <2>2, <2>3
  <1> QED
    BY <1>1, <1>3, <1>4 DEF LiveInv, EntryInv

\* What the driver marks obsolete has a current copy or is of no use.
LEMMA SupersededUseless ==
    ASSUME LogInv(log), NEW k \in DOMAIN log, log[k].current, Superseded(k)
    PROVE  \/ \E j \in DOMAIN log : j # k /\ log[j] = log[k]
           \/ Useless(log[k], Current(log), names)
  <1> DEFINE n == log[k]
             N == Current(log)
  <1>1. n \in Node /\ n \in Written(log) /\ n.version \in Nat /\ k \in Nat
    BY LogNodes, Fields
  <1>2. n.kind \in {"dirent", "inode"} /\ (n.kind = "dirent" => n.name \in Names)
    BY <1>1, Fields
  <1>3. ASSUME NEW j \in DOMAIN log, log[j].current, log[j].version = n.version, j > k,
               \/ n.kind = "dirent" /\ log[j].kind = "dirent" /\ log[j].name = n.name
               \/ n.kind = "inode" /\ log[j].kind = "inode" /\ log[j].inode = n.inode
        PROVE  j # k /\ log[j] = log[k]
    <2>1. j # k
      BY <1>1, <1>3, LogNodes
    <2>2. Written(log) \in SUBSET Node /\ CopiesInv(Written(log)) /\ log[j] \in Written(log)
      BY LogNodes
    <2>3. log[j] = log[k]
      BY <1>1, <1>3, <2>2, EqualCopies
    <2> QED
      BY <2>1, <2>3
  <1>4. CASE n.kind = "dirent"
    <2>1. ASSUME NEW j \in CurrentDirents(log, n.name),
                 log[j].version > n.version \/ (log[j].version = n.version /\ j > k)
          PROVE  \/ \E i \in DOMAIN log : i # k /\ log[i] = log[k]
                 \/ Useless(n, N, names)
      <3>1. j \in DOMAIN log /\ log[j].current /\ log[j].kind = "dirent" /\ log[j].name = n.name
        BY DEF CurrentDirents, Dirents
      <3>2. log[j] \in Entries(N, n.name)
        BY Placed
      <3>3. CASE log[j].version > n.version
        BY <1>4, <3>2, <3>3 DEF Useless
      <3>4. CASE log[j].version = n.version /\ j > k
        BY <1>3, <1>4, <3>1, <3>4
      <3> QED
        BY <2>1, <3>3, <3>4
    <2>2. ASSUME n.inode = 0, CurrentDirents(log, n.name) = {k}
          PROVE  Useless(n, N, names)
      <3>1. Entries(N, n.name) = {n}
        <4>1. /\ \A j \in CurrentDirents(log, n.name) : log[j] \in Entries(N, n.name)
              /\ \A m \in Entries(N, n.name) : \E j \in CurrentDirents(log, n.name) : m = log[j]
          BY Placed
        <4> QED
          BY <2>2, <4>1
      <3> QED
        BY <1>4, <2>2, <3>1 DEF Useless
    <2> QED
      BY <1>4, <2>1, <2>2 DEF Superseded
  <1>5. CASE n.kind = "inode"
    <2>1. CASE n.inode \notin Linked(names)
      BY <1>5, <2>1 DEF Useless
    <2>2. ASSUME NEW j \in Fragments(log, n.inode), log[j].version = n.version, j > k
          PROVE  \E i \in DOMAIN log : i # k /\ log[i] = log[k]
      <3>1. /\ j \in DOMAIN log /\ log[j].current /\ log[j].kind = "inode"
            /\ log[j].inode = n.inode
        BY DEF Fragments, Inodes
      <3> QED
        BY <1>3, <1>5, <2>2, <3>1
    <2>3. ASSUME k \notin Newest(log, n.inode),
                 \A b \in n.offset + 1 .. n.offset + Len(n.data) :
                    \E j \in Fragments(log, n.inode) :
                       /\ log[j].version > n.version
                       /\ \/ log[j].size < b
                          \/ log[j].offset < b /\ b <= log[j].offset + Len(log[j].data)
          PROVE  Useless(n, N, names)
      <3> DEFINE F == Fragments(log, n.inode)
      <3>1. F \in SUBSET DOMAIN log /\ \A j \in F : log[j] \in Parts(N, n.inode)
        BY Placed
      <3>2. k \in F
        BY <1>5 DEF Fragments, Inodes
      <3>3. PICK j \in F : log[j].version = Max(Versions(log, F))
        BY <3>1, <3>2, Highest
      <3>4. n.version <= log[j].version /\ n.version # log[j].version
        <4>1. n.version <= Max(Versions(log, F))
          BY <3>1, <3>2, Highest
        <4> QED
          BY <2>3, <3>2, <3>3, <4>1 DEF Newest
      <3>5. log[j].version \in Nat
        BY <3>1, LogNodes, Fields
      <3>6. log[j] \in Parts(N, n.inode) /\ log[j].version > n.version
        BY <1>1, <3>1, <3>4, <3>5
      <3>7. \A b \in n.offset + 1 .. n.offset + Len(n.data) :
               \E m \in Parts(N, n.inode) : m.version > n.version /\ (m.size < b \/ Covers(m, b))
        BY <2>3, <3>1 DEF Covers
      <3> QED
        BY <1>5, <3>6, <3>7 DEF Useless
    <2> QED
      BY <1>5, <2>1, <2>2, <2>3 DEF Superseded
  <1> QED
    BY <1>2, <1>4, <1>5

LEMMA MarkStep ==
    ASSUME IInv, NEW k \in DOMAIN log, MarkObsolete(k)
    PROVE  IInv'
  <1> DEFINE n == log[k]
             o == [n EXCEPT !.current = FALSE]
             r == [log EXCEPT ![k] = o]
  <1>1. /\ ~lost /\ n.current /\ Superseded(k) /\ lost' = lost /\ names' = names /\ content' = content
        /\ log' = r
    BY DEF MarkObsolete
  <1>2. LogInv(log) /\ LiveInv(Current(log), names, content) /\ lost \in BOOLEAN
    BY <1>1 DEF IInv
  <1>3. log \in Seq(Node) /\ n \in Node /\ n \in Written(log)
    BY <1>2, LogNodes DEF LogInv
  <1>4. /\ o \in Node /\ o.current = FALSE
        /\ o.kind = n.kind /\ o.inode = n.inode /\ o.version = n.version
        /\ n.kind = "dirent" => o.name = n.name
        /\ n.kind = "inode" => /\ o.size = n.size /\ o.offset = n.offset
                               /\ o.data = n.data /\ o.codec = n.codec
    <2>1. CASE n \in DirentNode
      BY <2>1 DEF DirentNode, Node
    <2>2. CASE n \in InodeNode
      BY <2>2 DEF InodeNode, Node
    <2> QED
      BY <1>3, <2>1, <2>2 DEF Node
  <1> HIDE DEF o
  <1>5. /\ r \in Seq(Node) /\ DOMAIN r = DOMAIN log /\ r[k] = o
        /\ \A j \in DOMAIN log : j # k => r[j] = log[j]
    BY <1>3, <1>4
  <1> HIDE DEF r
  <1>6. /\ Written(r) \in SUBSET (Written(log) \union {o})
        /\ Current(r) \in SUBSET Current(log) /\ Current(log) \ {n} \in SUBSET Current(r)
        /\ \A j \in DOMAIN log : j # k /\ log[j] = n => n \in Current(r)
        /\ n \in Current(log)
    <2>1. Written(r) \in SUBSET (Written(log) \union {o})
      BY <1>5 DEF Written
    <2>2. Current(r) \in SUBSET Current(log)
      BY <1>4, <2>1 DEF Current
    <2>3. \A m \in Written(log) : m # n => m \in Written(r)
      BY <1>5 DEF Written
    <2>4. Current(log) \ {n} \in SUBSET Current(r)
      BY <2>3 DEF Current
    <2>5. ASSUME NEW j \in DOMAIN log, j # k, log[j] = n
          PROVE  n \in Current(r)
      <3>1. r[j] = n /\ j \in DOMAIN r
        BY <1>5, <2>5
      <3>2. n \in Written(r)
        BY <3>1 DEF Written
      <3> QED
        BY <1>1, <3>2 DEF Current
    <2>6. n \in Current(log)
      BY <1>1, <1>3 DEF Current
    <2> QED
      BY <2>1, <2>2, <2>4, <2>5, <2>6
  <1>7. LogInv(r)
    <2>1. ASSUME NEW x \in Written(r)
          PROVE  \E m \in Written(log) :
              /\ x.kind = m.kind /\ x.inode = m.inode /\ x.version = m.version
              /\ x.kind = "dirent" => x.name = m.name
              /\ x.kind = "inode" => /\ x.size = m.size /\ x.offset = m.offset
                                     /\ x.data = m.data /\ x.codec = m.codec
      <3>1. CASE x \in Written(log)
        BY <3>1
      <3>2. CASE x = o
        BY <1>3, <1>4, <3>2
      <3> QED
        BY <1>6, <3>1, <3>2
    <2> QED
      BY <1>2, <1>5, <2>1, FewerNodes
  <1>8. LiveInv(Current(r), names, content)
    <2>1. CASE n \in Current(r)
      <3>1. Current(r) = Current(log)
        BY <1>6, <2>1
      <3> QED
        BY <1>2, <3>1
    <2>2. CASE n \notin Current(r)
      <3>1. Current(r) = Current(log) \ {n}
        BY <1>6, <2>2
      <3>2. Useless(n, Current(log), names)
        BY <1>1, <1>2, <1>6, <2>2, SupersededUseless
      <3>3. Current(log) \in SUBSET Node
        BY <1>2, LogNodes
      <3>4. LiveInv(Current(log) \ {n}, names, content)
        BY <1>2, <1>6, <3>2, <3>3, UselessDropped
      <3> QED
        BY <3>1, <3>4
    <2> QED
      BY <2>1, <2>2
  <1>9. LogInv(log') /\ LiveInv(Current(log'), names', content')
    BY <1>1, <1>7, <1>8
  <1> QED
    BY <1>1, <1>2, <1>9, Primed

LEMMA CopyStep ==
    ASSUME IInv, NEW k \in DOMAIN log, CopyNode(k)
    PROVE  IInv'
  <1> DEFINE n == log[k]
             r == Append(log, n)
  <1>1. ~lost /\ lost' = lost /\ names' = names /\ content' = content /\ log' = r
    BY DEF CopyNode
  <1>2. LogInv(log) /\ LiveInv(Current(log), names, content) /\ lost \in BOOLEAN
    BY <1>1 DEF IInv
  <1>3. log \in Seq(Node) /\ n \in Node /\ n \in Written(log)
    BY <1>2, LogNodes DEF LogInv
  <1> HIDE DEF n
  <1>4. /\ r \in Seq(Node) /\ DOMAIN r = DOMAIN log \union {Len(log) + 1} /\ r[Len(log) + 1] = n
        /\ \A j \in DOMAIN log : r[j] = log[j]
    BY <1>3
  <1> HIDE DEF r
  <1>5. Written(r) = Written(log)
    BY <1>3, <1>4 DEF Written
  <1>6. LogInv(r) /\ Current(r) = Current(log)
    BY <1>2, <1>4, <1>5 DEF LogInv, Current
  <1>7. LogInv(log') /\ LiveInv(Current(log'), names', content')
    BY <1>1, <1>2, <1>6
  <1> QED
    BY <1>1, <1>2, <1>7, Primed

\* A log with a node taken out.
LEMMA Removed ==
    ASSUME NEW l, LogInv(l), NEW k \in DOMAIN l
    PROVE  /\ LogInv(RemoveAt(l, k)) /\ Written(RemoveAt(l, k)) \in SUBSET Written(l)
           /\ Written(l) \ {l[k]} \in SUBSET Written(RemoveAt(l, k))
  <1> DEFINE a == SubSeq(l, 1, k - 1)
             b == SubSeq(l, k + 1, Len(l))
             r == RemoveAt(l, k)
  <1>1. l \in Seq(Node) /\ Len(l) \in Nat /\ DOMAIN l = 1 .. Len(l) /\ k \in 1 .. Len(l)
    BY LogNodes DEF LogInv
  <1>2. /\ a \in Seq(Node) /\ Len(a) = k - 1 /\ \A j \in 1 .. k - 1 : a[j] = l[j]
    BY <1>1
  <1>3. /\ b \in Seq(Node) /\ Len(b) = Len(l) - k /\ \A j \in 1 .. Len(l) - k : b[j] = l[j + k]
    BY <1>1
  <1>4. r = a \o b
    BY DEF RemoveAt
  <1> HIDE DEF a, b, r
  <1>5. /\ r \in Seq(Node) /\ Len(r) = Len(l) - 1 /\ DOMAIN r = 1 .. Len(l) - 1
        /\ \A j \in 1 .. k - 1 : r[j] = l[j]
        /\ \A j \in k .. Len(l) - 1 : r[j] = l[j + 1]
    <2>1. /\ r \in Seq(Node) /\ Len(r) = Len(a) + Len(b) /\ DOMAIN r = 1 .. Len(r)
          /\ \A j \in 1 .. Len(a) : r[j] = a[j]
          /\ \A j \in Len(a) + 1 .. Len(a) + Len(b) : r[j] = b[j - Len(a)]
      BY <1>2, <1>3, <1>4
    <2>2. Len(r) = Len(l) - 1
      BY <1>1, <1>2, <1>3, <2>1
    <2>3. \A j \in 1 .. k - 1 : r[j] = l[j]
      BY <1>2, <2>1
    <2>4. ASSUME NEW j \in k .. Len(l) - 1
          PROVE  r[j] = l[j + 1]
      <3>1. /\ j \in Len(a) + 1 .. Len(a) + Len(b) /\ j - Len(a) \in 1 .. Len(l) - k
            /\ (j - Len(a)) + k = j + 1
        BY <1>1, <1>2, <1>3
      <3>2. r[j] = b[j - Len(a)]
        BY <2>1, <3>1
      <3>3. b[j - Len(a)] = l[(j - Len(a)) + k]
        BY <1>3, <3>1
      <3> QED
        BY <3>1, <3>2, <3>3
    <2> QED
      BY <2>1, <2>2, <2>3, <2>4
  <1>6. ASSUME NEW n \in Written(r)
        PROVE  n \in Written(l)
    <2>1. PICK j \in 1 .. Len(l) - 1 : n = r[j]
      BY <1>5 DEF Written
    <2>2. j \in 1 .. Len(l) /\ j + 1 \in 1 .. Len(l) /\ (j \in 1 .. k - 1 \/ j \in k .. Len(l) - 1)
      BY <1>1
    <2> QED
      BY <1>1, <1>5, <2>1, <2>2 DEF Written
  <1>7. ASSUME NEW n \in Written(l), n # l[k]
        PROVE  n \in Written(r)
    <2>1. PICK j \in 1 .. Len(l) : n = l[j]
      BY <1>1 DEF Written
    <2>2. j # k
      BY <1>7, <2>1
    <2>3. CASE j < k
      <3>1. j \in 1 .. k - 1 /\ j \in DOMAIN r
        BY <1>1, <1>5, <2>3
      <3> QED
        BY <1>5, <2>1, <3>1 DEF Written
    <2>4. CASE j > k
      <3>1. j - 1 \in k .. Len(l) - 1 /\ j - 1 \in DOMAIN r /\ (j - 1) + 1 = j
        BY <1>1, <1>5, <2>4
      <3>2. r[j - 1] = l[j]
        BY <1>5, <3>1
      <3> QED
        BY <2>1, <3>1, <3>2 DEF Written
    <2> QED
      BY <1>1, <2>2, <2>3, <2>4
  <1>8. LogInv(r)
    BY <1>5, <1>6, FewerNodes
  <1> QED
    BY <1>6, <1>7, <1>8 DEF r

LEMMA EraseStep ==
    ASSUME IInv, NEW k \in DOMAIN log, EraseNode(k)
    PROVE  IInv'
  <1> DEFINE r == RemoveAt(log, k)
  <1>1. /\ ~lost /\ ~log[k].current /\ lost' = lost /\ names' = names
        /\ content' = content /\ log' = r
    BY DEF EraseNode
  <1>2. LogInv(log) /\ LiveInv(Current(log), names, content) /\ lost \in BOOLEAN
    BY <1>1 DEF IInv
  <1>3. /\ LogInv(r) /\ Written(r) \in SUBSET Written(log)
        /\ Written(log) \ {log[k]} \in SUBSET Written(r)
    BY <1>2, Removed
  <1> HIDE DEF r
  <1>4. Current(r) = Current(log)
    BY <1>1, <1>3 DEF Current
  <1>5. LogInv(log') /\ LiveInv(Current(log'), names', content')
    BY <1>1, <1>2, <1>3, <1>4
  <1> QED
    BY <1>1, <1>2, <1>5, Primed

LEMMA DamageStep ==
    ASSUME IInv, NEW k \in DOMAIN log, Damage(k)
    PROVE  IInv'
  <1>1. lost' = TRUE /\ log' = RemoveAt(log, k) /\ LogInv(log)
    BY DEF Damage, IInv
  <1>2. LogInv(log')
    BY <1>1, Removed
  <1> QED
    BY <1>1, <1>2, Primed

----------------------------------------------------------------------------
(* A partition that has been rebuilt, and the theorems. *)

LEMMA RebuiltStep ==
    ASSUME NEW built, NEW files, AreFiles(files), NEW v \in Nat, NEW w \in Nat,
           IsBuilt(built, files, v, w), Rebuilt(built, files)
    PROVE  IInv'
  <1>1. lost' = FALSE /\ log' = built /\ names' = DirOf(files) /\ content' = TextOf(files)
    <2>1. names' = DirOf(files)
      BY DEF Rebuilt, DirOf
    <2>2. content' = TextOf(files)
      BY <2>1 DEF Rebuilt, TextOf
    <2> QED
      BY <2>1, <2>2 DEF Rebuilt
  <1>2. LogInv(built) /\ LiveInv(Current(built), DirOf(files), TextOf(files))
    BY BuiltInv
  <1>3. LogInv(log') /\ LiveInv(Current(log'), names', content') /\ lost' \in BOOLEAN
    BY <1>1, <1>2
  <1> QED
    BY <1>3, Primed

LEMMA SerialOnlyStep ==
    ASSUME IInv, RebuildSerialOnly
    PROVE  IInv'
  <1> DEFINE s == Serial(log)
             built == build_minimal_config(s)
             files == SerialFile(s)
  <1>1. Cardinality(RecoveredSerials(log)) = 1 /\ Rebuilt(built, LiveFiles(built))
    BY DEF RebuildSerialOnly, ReadsSerial
  <1>2. s \in Serials
    BY <1>1, SerialRead DEF IInv
  <1> HIDE DEF s
  <1>3. AreFiles(files) /\ IsBuilt(built, files, 123, 2) /\ 123 \in Nat /\ 2 \in Nat
    BY <1>2, MinimalBuilt
  <1> HIDE DEF built, files
  <1>4. LiveFiles(built) = files
    BY <1>3, BuiltRead
  <1> QED
    BY <1>1, <1>3, <1>4, RebuiltStep

LEMMA PreserveStep ==
    ASSUME IInv, RebuildPreserveFiles
    PROVE  IInv'
  <1> DEFINE files == WithSerial(log)
  <1>1. ReadsFiles(log) /\ Rebuilt(Compact(files), files)
    BY DEF RebuildPreserveFiles
  <1>2. AreFiles(files)
    BY <1>1, ReadFiles DEF IInv
  <1> HIDE DEF files
  <1>3. IsBuilt(Compact(files), files, 1, 1) /\ 1 \in Nat
    BY <1>2, CompactBuilt
  <1> QED
    BY <1>1, <1>2, <1>3, RebuiltStep

LEMMA IInvStep ==
    ASSUME IInv, [Next]_vars
    PROVE  IInv'
  <1>1. CASE Write
    <2>1. ASSUME NEW name \in Names, Create(name) \/ Unlink(name)
          PROVE  IInv'
      BY <2>1, CreateStep, UnlinkStep
    <2>2. ASSUME NEW inode \in Linked(names), NEW name \in Names, Link(name, inode)
          PROVE  IInv'
      BY <2>2, LinkStep
    <2>3. ASSUME NEW inode \in Linked(names), Truncate(inode)
          PROVE  IInv'
      BY <2>3, TruncateStep
    <2>4. ASSUME NEW inode \in Linked(names), NEW block \in Blocks \ {"s1"},
                 NEW codec \in {"known", "other"}, WriteBlock(inode, block, codec)
          PROVE  IInv'
      BY <2>4, WriteBlockStep
    <2> QED
      BY <1>1, <2>1, <2>2, <2>3, <2>4 DEF Write
  <1>2. CASE Collect
    BY <1>2, MarkStep, CopyStep, EraseStep DEF Collect
  <1>3. ASSUME NEW k \in DOMAIN log, Damage(k)
        PROVE  IInv'
    BY <1>3, DamageStep
  <1>4. CASE RebuildSerialOnly
    BY <1>4, SerialOnlyStep
  <1>5. CASE RebuildPreserveFiles
    BY <1>5, PreserveStep
  <1>6. CASE UNCHANGED vars
    <2>1. log' = log /\ names' = names /\ content' = content /\ lost' = lost
      BY <1>6 DEF vars
    <2>2. /\ LogInv(log') /\ lost' \in BOOLEAN
          /\ lost' = FALSE => LiveInv(Current(log'), names', content')
      BY <2>1 DEF IInv
    <2> QED
      BY <2>2, Primed
  <1> QED
    BY <1>1, <1>2, <1>3, <1>4, <1>5, <1>6 DEF Next

\* Whatever the camera writes, marks, copies, erases and loses, and however often its
\* partition is rebuilt, nodes of one version are copies, and as long as nothing is
\* lost the current ones tell what the camera holds.
THEOREM LogTellsFiles == Spec => []IInv
  <1>1. Init => IInv
    BY IInvInit
  <1>2. IInv /\ [Next]_vars => IInv'
    BY IInvStep
  <1> QED
    BY <1>1, <1>2, PTL DEF Spec

\* "recreates every live regular file once": the files preserved from a log that has
\* lost nothing are the camera's, whole, and a serial.cfg.
THEOREM FilesPreserved == Spec => []PreservesExactly
  <1>1. IInv => PreservesExactly
    BY PreservesFollows
  <1> QED
    BY <1>1, LogTellsFiles, PTL

\* "extracts the camera's own serial.cfg": the serial that a serial.cfg holds is the
\* one recovered, whatever others were written before.
THEOREM SerialExtracted == Spec => []SerialIsHeld
  <1>1. IInv => SerialIsHeld
    BY HeldFollows
  <1> QED
    BY <1>1, LogTellsFiles, PTL

\* The fallback to historical nodes: nodes lost do not lose the serial while one copy
\* of it, current or obsolete, and no other serial is left.
THEOREM SerialNotLost == Spec => []SerialRecoverable
  <1>1. IInv => SerialRecoverable
    BY RecoverableFollows DEF IInv
  <1> QED
    BY <1>1, LogTellsFiles, PTL

\* A camera with its serial.cfg, one name for each file and known codecs, and no copy
\* in the middle, is never refused.
THEOREM CameraServed == Spec => []NotRefused
  <1>1. IInv => NotRefused
    BY NotRefusedFollows
  <1> QED
    BY <1>1, LogTellsFiles, PTL

\* The checks that the builders make of their own output never fail.
THEOREM ChecksPass == Spec => []InternalChecksHold
  <1>1. IInv => InternalChecksHold
    BY ChecksFollow DEF IInv
  <1> QED
    BY <1>1, LogTellsFiles, PTL
=============================================================================
