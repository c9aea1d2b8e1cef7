---------------------------- MODULE ConfigReplay ----------------------------
(***************************************************************************)
(* cc2camera/image.py: reading the config partition out of a dump and      *)
(* building it anew.  config is a log: the camera's driver appends a       *)
(* directory entry or a fragment of a file with a higher version than the  *)
(* one it replaces and marks that one obsolete afterwards; its garbage     *)
(* collector copies a node before it marks the original, and erases        *)
(* obsolete nodes.  A dump shows the log at any point of this, with some   *)
(* of its nodes damaged.  The tool finds the live files and the unit's     *)
(* serial in it, or refuses.                                               *)
(*                                                                         *)
(* A node whose CRCs fail is not read, so damage removes a node and a torn *)
(* write adds none.  A file is a sequence of at most two blocks; a serial  *)
(* text is one block and is never compressed.  Every entry is a regular    *)
(* file of the root directory: the tool refuses others on sight.           *)
(***************************************************************************)
EXTENDS Naturals, Sequences, FiniteSets, SequencesExt, FiniteSetsExt, Functions

CONSTANTS
    WRITES,     \* bound: nodes the camera writes
    EVENTS,     \* bound: nodes copied, erased or lost, and rebuilds
    CAPACITY    \* what fits the first erase block, in blocks, a header being one

ASSUME ReplayAssumption ==
    /\ WRITES \in Nat /\ EVENTS \in Nat
    /\ CAPACITY \in Nat /\ CAPACITY >= 3

Serials == {"s1", "s2"}                \* blocks that are a valid serial.cfg
Blocks == Serials \union {"x"}
NAMES == <<"own", "serial">>           \* of any file and of serial.cfg, in byte order
Names == ToSet(NAMES)
KNOWN_CONFIG_NAMES == {"serial"}
MAX_SIZE == 2

VARIABLES
    log,        \* the CRC-valid nodes in the order of their offsets
    names,      \* what the camera's directory holds: the inode of a name, or 0
    content,    \* what the camera's files hold, by inode
    lost,       \* has this log lost a node
    writes, events

countVars == <<writes, events>>
vars == <<log, names, content, lost, countVars>>

Linked(dir) == ToSet([k \in DOMAIN NAMES |-> dir[NAMES[k]]]) \ {0}

\* What parse_jffs2 yields.
Dirent(name, inode, version) ==
    [kind |-> "dirent", name |-> name, inode |-> inode, version |-> version, current |-> TRUE]
Inode(inode, version, size, offset, data, codec) ==
    [kind |-> "inode", inode |-> inode, version |-> version, size |-> size,
     offset |-> offset, data |-> data, codec |-> codec, current |-> TRUE]

Dirents(l) == {k \in DOMAIN l : l[k].kind = "dirent"}
Inodes(l) == {k \in DOMAIN l : l[k].kind = "inode"}

----------------------------------------------------------------------------
(* extract_serial_and_config_info. *)

Versions(l, nodes) == {l[k].version : k \in nodes}
CurrentDirents(l, name) == {k \in Dirents(l) : l[k].current /\ l[k].name = name}

\* Mutant of AmbiguousDirents: entries are told apart by directory alone.
AmbiguousDirentsOfAll(l) ==
    \E j, k \in Dirents(l) : j < k /\ l[j].current /\ l[k].current /\ l[j].version = l[k].version

\* The scan meets an entry of the version that is the highest it has for the name.
AmbiguousDirents(l) ==
    \E name \in Names : \E k \in CurrentDirents(l, name) :
        LET before == {j \in CurrentDirents(l, name) : j < k}
        IN  before # {} /\ l[k].version = Max(Versions(l, before))

\* Mutant of Live: entries that delete a name are dropped first.
LiveUndeleted(l, name) ==
    LET entries == {k \in CurrentDirents(l, name) : l[k].inode # 0}
    IN  IF entries = {} THEN 0
        ELSE l[CHOOSE k \in entries : l[k].version = Max(Versions(l, entries))].inode

\* current_dirents, live_entries: the inode of the newest entry, 0 for none.
Live(l, name) ==
    LET entries == CurrentDirents(l, name)
    IN  IF entries = {} THEN 0
        ELSE l[CHOOSE k \in entries : l[k].version = Max(Versions(l, entries))].inode

UnknownNames(l) == {l[k].name : k \in Dirents(l)} \ KNOWN_CONFIG_NAMES

\* A fragment that is a whole file and a valid serial text.
IsSerial(node) ==
    /\ node.offset = 0 /\ node.size = Len(node.data)
    /\ Len(node.data) = 1 /\ node.data[1] \in Serials

Candidates(l) ==
    LET inode == Live(l, "serial")
    IN  {k \in Inodes(l) : l[k].current /\ l[k].inode = inode /\ IsSerial(l[k])}

\* Mutant of Historical: obsolete nodes are not looked at.
HistoricalCurrent(l) == {l[k].data[1] : k \in {i \in Inodes(l) : l[i].current /\ IsSerial(l[i])}}

Historical(l) == {l[k].data[1] : k \in {i \in Inodes(l) : IsSerial(l[i])}}

\* Mutant of RecoveredSerials: the candidates are sorted the other way round.
RecoveredSerialsOldest(l) ==
    LET candidates == Candidates(l)
        first == {k \in candidates : l[k].version = Min(Versions(l, candidates))}
    IN  IF candidates = {} THEN Historical(l)
        ELSE IF Cardinality(first) = 1 THEN {l[k].data[1] : k \in first} ELSE {}

\* The newest candidate of the live file, which must be one node, or else every
\* serial text of the log.  One is a recovered serial, any other number an error.
RecoveredSerials(l) ==
    LET candidates == Candidates(l)
        newest == {k \in candidates : l[k].version = Max(Versions(l, candidates))}
    IN  IF candidates = {} THEN Historical(l)
        ELSE IF Cardinality(newest) = 1 THEN {l[k].data[1] : k \in newest} ELSE {}

ReadsSerial(l, allow_unknown_names) ==
    /\ UnknownNames(l) = {} \/ allow_unknown_names
    /\ ~AmbiguousDirents(l)
    /\ Cardinality(RecoveredSerials(l)) = 1
Serial(l) == CHOOSE s \in RecoveredSerials(l) : TRUE

----------------------------------------------------------------------------
(* reconstruct_live_config_files. *)

LiveNames(l) == {name \in Names : Live(l, name) # 0}

\* Mutant of Fragments: obsolete nodes are replayed too.
FragmentsObsoleteToo(l, inode) == {k \in Inodes(l) : l[k].inode = inode}

Fragments(l, inode) == {k \in Inodes(l) : l[k].current /\ l[k].inode = inode}

Newest(l, inode) ==
    LET fragments == Fragments(l, inode)
    IN  {k \in fragments : l[k].version = Max(Versions(l, fragments))}

\* decode_jffs2_fragment knows three of the driver's codecs.
Decodes(node) == node.codec = "known"

Reconstructs(l) ==
    \A name \in LiveNames(l) :
        LET inode == Live(l, name) IN
        /\ inode > 1
        /\ \A other \in LiveNames(l) \ {name} : Live(l, other) # inode
        /\ Cardinality(Newest(l, inode)) = 1
        /\ \A k \in Fragments(l, inode) : Decodes(l[k])

\* As long as the newest fragment says; of the fragments over a block the last in
\* the order of versions, then of offsets, is what it holds.
FileData(l, inode) ==
    LET fragments == Fragments(l, inode)
        Over(b) == {k \in fragments : l[k].offset < b /\ b <= l[k].offset + Len(l[k].data)}
        Latest(s) == Max({k \in s : l[k].version = Max(Versions(l, s))})
    IN  [b \in 1 .. l[Max(Newest(l, inode))].size |->
            IF Over(b) = {} THEN "zero" ELSE l[Latest(Over(b))].data[b - l[Latest(Over(b))].offset]]

LiveFiles(l) ==
    [name \in LiveNames(l) |-> [inode |-> Live(l, name), data |-> FileData(l, Live(l, name))]]

\* A live serial.cfg must be the recovered serial.
ReadsFiles(l) ==
    /\ ReadsSerial(l, TRUE) /\ Reconstructs(l)
    /\ "serial" \in LiveNames(l) => LiveFiles(l)["serial"].data = <<Serial(l)>>

\* One that is not live is added, in the first inode from 2 that no file uses.
WithSerial(l) ==
    LET live == LiveFiles(l)
        used == {live[name].inode : name \in DOMAIN live}
        free == CHOOSE i \in 2 .. 5 : i \notin used /\ 2 .. i - 1 \subseteq used
    IN  [name \in DOMAIN live \union {"serial"} |->
            IF name \in DOMAIN live THEN live[name] ELSE [inode |-> free, data |-> <<Serial(l)>>]]

----------------------------------------------------------------------------
(* The new partition. *)

build_minimal_config(s) == <<Dirent("serial", 7, 123), Inode(7, 2, 1, 0, <<s>>, "known")>>

\* One entry and one fragment for each file, in the order of the names.
Compact(files) ==
    FlattenSeq([k \in DOMAIN NAMES |->
        IF NAMES[k] \notin DOMAIN files THEN <<>>
        ELSE LET f == files[NAMES[k]]
             IN  <<Dirent(NAMES[k], f.inode, 1), Inode(f.inode, 1, Len(f.data), 0, f.data, "known")>>])

Size(files) == MapThenSumSet(LAMBDA name : 2 + Len(files[name].data), DOMAIN files)

\* build_preserved_config refuses what does not fit, and reads its own output.
RoundTrip(files) ==
    LET built == Compact(files)
    IN  ReadsFiles(built) /\ LiveFiles(built) = files

----------------------------------------------------------------------------
(* The camera's driver. *)

Init ==
    /\ log = build_minimal_config("s1")
    /\ names = [name \in Names |-> IF name = "serial" THEN 7 ELSE 0]
    /\ content = [i \in {7} |-> <<"s1">>]
    /\ lost = FALSE /\ writes = 0 /\ events = 0

NextVersion(nodes) == Max(Versions(log, nodes) \union {0}) + 1
NextDirent == NextVersion(Dirents(log))
NextFragment(inode) == NextVersion({k \in Inodes(log) : log[k].inode = inode})

\* A camera whose log has lost nodes writes no more.
Writes == ~lost /\ writes < WRITES /\ writes' = writes + 1 /\ UNCHANGED <<lost, events>>

Event == events < EVENTS /\ events' = events + 1 /\ UNCHANGED writes

Links(name, inode, data) ==
    /\ names' = [names EXCEPT ![name] = inode]
    /\ content' = [i \in Linked(names') |-> IF i = inode THEN data ELSE content[i]]

Create(name) ==
    LET inode == Max({log[k].inode : k \in DOMAIN log} \union {1}) + 1 IN
    /\ Writes /\ names[name] = 0
    /\ log' = log \o <<Inode(inode, 1, 0, 0, <<>>, "known"), Dirent(name, inode, NextDirent)>>
    /\ Links(name, inode, <<>>)

\* The first half of a rename.
Link(name, inode) ==
    /\ Writes /\ names[name] # inode
    /\ log' = Append(log, Dirent(name, inode, NextDirent))
    /\ Links(name, inode, content[inode])

Unlink(name) ==
    /\ Writes /\ names[name] # 0
    /\ log' = Append(log, Dirent(name, 0, NextDirent))
    /\ Links(name, 0, <<>>)

Truncate(inode) ==
    /\ Writes /\ content[inode] # <<>>
    /\ log' = Append(log, Inode(inode, NextFragment(inode), 0, 0, <<>>, "known"))
    /\ content' = [content EXCEPT ![inode] = <<>>]
    /\ UNCHANGED names

\* A write never brings back the serial the camera came with.
WriteBlock(inode, block, codec) ==
    LET offset == Len(content[inode]) IN
    /\ Writes /\ offset < MAX_SIZE
    /\ block \in Serials => codec = "known"
    /\ log' = Append(log, Inode(inode, NextFragment(inode), offset + 1, offset, <<block>>, codec))
    /\ content' = [content EXCEPT ![inode] = Append(@, block)]
    /\ UNCHANGED names

\* A node that the driver knows it can do without.
Superseded(k) ==
    LET n == log[k]
        Later(j) == log[j].version > n.version \/ (log[j].version = n.version /\ j > k)
    IN  IF n.kind = "dirent"
        THEN \/ \E j \in CurrentDirents(log, n.name) : Later(j)
             \/ n.inode = 0 /\ CurrentDirents(log, n.name) = {k}
        ELSE \/ n.inode \notin Linked(names)
             \/ \E j \in Fragments(log, n.inode) : log[j].version = n.version /\ j > k
             \/ /\ k \notin Newest(log, n.inode)
                /\ \A b \in n.offset + 1 .. n.offset + Len(n.data) :
                      \E j \in Fragments(log, n.inode) :
                         /\ log[j].version > n.version
                         /\ \/ log[j].size < b
                            \/ log[j].offset < b /\ b <= log[j].offset + Len(log[j].data)

MarkObsolete(k) ==
    /\ ~lost /\ log[k].current /\ Superseded(k)
    /\ log' = [log EXCEPT ![k].current = FALSE]
    /\ UNCHANGED <<names, content, lost, countVars>>

CopyNode(k) ==
    /\ Event /\ ~lost /\ log[k].current /\ ~Superseded(k)
    /\ log' = Append(log, log[k])
    /\ UNCHANGED <<names, content, lost>>

EraseNode(k) ==
    /\ Event /\ ~lost /\ ~log[k].current
    /\ log' = RemoveAt(log, k)
    /\ UNCHANGED <<names, content, lost>>

Damage(k) ==
    /\ Event /\ lost' = TRUE
    /\ log' = RemoveAt(log, k)
    /\ UNCHANGED <<names, content>>

----------------------------------------------------------------------------
(* build_recovery, and its image written to the camera. *)

Rebuilt(built, files) ==
    /\ Event /\ lost' = FALSE
    /\ log' = built
    /\ names' = [name \in Names |-> IF name \in DOMAIN files THEN files[name].inode ELSE 0]
    /\ content' = [i \in Linked(names') |->
                      files[CHOOSE name \in DOMAIN files : files[name].inode = i].data]

RebuildSerialOnly ==
    \E wipe_unknown_config \in BOOLEAN :
        /\ ReadsSerial(log, wipe_unknown_config)
        /\ LET built == build_minimal_config(Serial(log))
           IN  Rebuilt(built, LiveFiles(built))

RebuildPreserveFiles ==
    /\ ReadsFiles(log)
    /\ LET files == WithSerial(log)
       IN  /\ Size(files) <= CAPACITY /\ RoundTrip(files)
           /\ Rebuilt(Compact(files), files)

Write ==
    \/ \E name \in Names : Create(name) \/ Unlink(name)
    \/ \E inode \in Linked(names) :
          \/ \E name \in Names : Link(name, inode)
          \/ Truncate(inode)
          \/ \E block \in Blocks \ {"s1"}, codec \in {"known", "other"} : WriteBlock(inode, block, codec)
Collect == \E k \in DOMAIN log : MarkObsolete(k) \/ CopyNode(k) \/ EraseNode(k)

Next ==
    \/ Write \/ Collect
    \/ \E k \in DOMAIN log : Damage(k)
    \/ RebuildSerialOnly \/ RebuildPreserveFiles

Spec == Init /\ [][Next]_vars

----------------------------------------------------------------------------
(* Properties. *)

\* "recreates every live regular file once": of a log that has lost nothing,
\* wherever the driver was between writing, marking, copying and erasing, the
\* files preserved are the camera's, whole, and no other but a serial.cfg that
\* is not live.
PreservesExactly ==
    ~lost /\ ReadsFiles(log) =>
        LET files == WithSerial(log) IN
        /\ \A name \in Names :
              names[name] # 0 => name \in DOMAIN files /\ files[name].data = content[names[name]]
        /\ \A name \in DOMAIN files : names[name] # 0 \/ name = "serial"

\* "extracts the camera's own serial.cfg": if it holds a serial, that one is
\* recovered, whatever others it or another file held before.
SerialIsHeld ==
    ~lost /\ ReadsSerial(log, TRUE) /\ names["serial"] # 0 =>
        \A s \in Serials : content[names["serial"]] = <<s>> => Serial(log) = s

\* No driver in the middle of a copy.
Settled ==
    LET current == {k \in DOMAIN log : log[k].current}
    IN  Cardinality({log[k] : k \in current}) = Cardinality(current)

\* The reason for the historical fallback: lost nodes do not lose the serial as
\* long as one copy is left, current or obsolete, and no other serial is.
SerialRecoverable ==
    Settled => \A k \in Inodes(log) :
        /\ IsSerial(log[k])
        /\ \A j \in Inodes(log) : IsSerial(log[j]) => log[j].data = log[k].data
        => ReadsSerial(log, TRUE) /\ Serial(log) = log[k].data[1]

\* Preserving is refused for a reason only: a camera with its serial.cfg, one
\* name for each file and known codecs, and no copy in the middle, is served.
NotRefused ==
    /\ ~lost /\ names["serial"] # 0
    /\ content[names["serial"]] \in {<<s>> : s \in Serials}
    /\ Cardinality(DOMAIN content) = Cardinality({name \in Names : names[name] # 0})
    /\ \A k \in Inodes(log) : log[k].current => log[k].codec = "known"
    /\ Settled
    => ReadsFiles(log)

\* The checks that build_preserved_config and build_minimal_config make of their
\* own output never fail, whatever the log they started from.
InternalChecksHold ==
    /\ ReadsFiles(log) => RoundTrip(WithSerial(log))
    /\ ReadsSerial(log, TRUE) =>
          LET built == build_minimal_config(Serial(log))
          IN  ReadsSerial(built, FALSE) /\ Serial(built) = Serial(log)
=============================================================================
