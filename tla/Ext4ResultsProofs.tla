-------------------------- MODULE Ext4ResultsProofs --------------------------
(***************************************************************************)
(* What the path operations of Ext4Files return is true, for every set of  *)
(* threads, names and inodes.  An answer holds of the image it was given   *)
(* for; what keeps it true is that a thread is put in "stale" as soon as   *)
(* another changes the image, so a thread that is not saw no change        *)
(* between its C calls.                                                    *)
(***************************************************************************)
EXTENDS Ext4FilesProofs

-----------------------------------------------------------------------------
(* What is true of a thread that no other thread's change interfered with. *)

\* Between two C calls: mkdir's directory is there as it was made, and metadata
\* has the fields asked for so far, the others still 0.
Halfway(t) ==
  LET n == At(arg[t].path)
      typed == /\ Exists(arg[t].path) /\ meta[t].size = 0
               /\ meta[t].file_type = n.type /\ meta[t].mode = n.mode
  IN /\ pc[t] = "chmod" => Exists(arg[t].path) /\ n = Node("Directory", DefaultMode, 0, 0)
     /\ pc[t] = "mode" => meta[t].uid = 0 /\ meta[t].size = 0
     /\ pc[t] = "owner" => typed /\ meta[t].uid = 0
     /\ pc[t] = "size" => typed /\ (meta[t].uid = n.owner \/ ("owner" \in meta[t].lost /\ meta[t].uid = 0))

\* Afterwards: the conditions of AnswersTrue, MkdirMade and MetadataTrue.
Answered(t) ==
  LET p == arg[t].path
      n == At(p)
  IN /\ answer[t] = "yes" => Exists(p) /\ n.type = arg[t].type
     /\ answer[t] = "no" => ~Exists(p) \/ n.type # arg[t].type
     /\ answer[t] = "link" => Exists(p) /\ n.type = "Symlink"
     /\ answer[t] = "failed" => ~Exists(p)
     /\ answer[t] = "made" =>
          /\ Exists(p)
          /\ n = Node("Directory", IF arg[t].mode = 0 THEN DefaultMode ELSE arg[t].mode, 0, 0)
     /\ answer[t] = "metadata" =>
          /\ Exists(p)
          /\ meta[t].file_type = n.type /\ meta[t].mode = n.mode
          /\ meta[t].uid = n.owner \/ ("owner" \in meta[t].lost /\ meta[t].uid = 0)
          /\ n.type = "RegularFile" => meta[t].size = n.size \/ ("size" \in meta[t].lost /\ meta[t].size = 0)

ResultsInv == FilesInv /\ \A t \in Threads \ stale : Halfway(t) /\ Answered(t)

-----------------------------------------------------------------------------
\* One step of thread t.
StepOf(t) ==
  \/ Step(t) \/ WriteOpen(t) \/ Close(t) \/ MkdirChmod(t)
  \/ GetMode(t) \/ GetOwner(t) \/ GetSize(t) \/ LosesField(t)

\* What others have under way, and have been answered, is not a step's business.
OthersKept(t) ==
  \A v \in Threads \ {t} : UNCHANGED <<pc[v], arg[v], meta[v], answer[v]>>

\* The effect on "stale", of a step that answers or goes on and of one that
\* leaves the image alone.
Marks(t) == Outdates(t) \/ UNCHANGED <<stale, image>>

\* An operation of one C call that returns a Result<()> or a File.
Plain(t) == \E a \in {"Ok", "Err", "ReadOnly"} : Answers(t, a) /\ UNCHANGED <<arg, meta>>

\* All the operations of one C call but the queries are plain.
LEMMA PlainSteps ==
  ASSUME NEW t \in Threads, NEW p \in Names,
         \/ Remove(t, p) \/ Rmdir(t, p) \/ Symlink(t, p)
         \/ \E q \in Names \ {p} : Rename(t, p, q) \/ Link(t, p, q)
         \/ \E m \in Modes : SetPermissions(t, p, m)
         \/ \E u \in Owners : SetOwner(t, p, u)
         \/ \E create, truncate \in BOOLEAN : Open(t, p, create, truncate)
         \/ WriteOpen(t)
  PROVE  Plain(t)
<1>1. CASE \E create, truncate \in BOOLEAN : Open(t, p, create, truncate)
  BY <1>1 DEF Open, OneCall, Plain
<1>2. CASE WriteOpen(t)
  BY <1>2 DEF WriteOpen, OneCall, Plain
<1>3. CASE Remove(t, p) \/ Rmdir(t, p) \/ Symlink(t, p)
  BY <1>3 DEF Remove, Rmdir, Symlink, Mutates, OneCall, Plain
<1>4. CASE \E q \in Names \ {p} : Rename(t, p, q) \/ Link(t, p, q)
  BY <1>4 DEF Rename, Link, Mutates, OneCall, Plain
<1>5. CASE \/ \E m \in Modes : SetPermissions(t, p, m)
           \/ \E u \in Owners : SetOwner(t, p, u)
  BY <1>5 DEF SetPermissions, SetOwner, Mutates, OneCall, Plain
<1> QED
  BY <1>1, <1>2, <1>3, <1>4, <1>5

\* A thread that is idle with a plain result, or with what it had, is right.
LEMMA PlainRight ==
  ASSUME FilesInv, NEW t \in Threads, Plain(t)
  PROVE  OthersKept(t) /\ Marks(t) /\ (Halfway(t) /\ Answered(t))'
<1>1. PICK a \in {"Ok", "Err", "ReadOnly"} : Answers(t, a) /\ UNCHANGED <<arg, meta>>
  BY DEF Plain
<1>2. pc'[t] = "idle" /\ answer'[t] = a
  BY <1>1 DEF Answers, FilesInv, TypeOK
<1>3. OthersKept(t) /\ Marks(t)
  BY <1>1 DEF Answers, OthersKept, Marks, FilesInv, TypeOK
<1>4. Halfway(t)'
  BY <1>2 DEF Halfway
<1>5. Answered(t)'
  BY <1>2 DEF Answered
<1> QED
  BY <1>3, <1>4, <1>5

-----------------------------------------------------------------------------
(* The operations whose answer or progress says something of the image. *)

\* is_file, is_dir and readlink.
LEMMA QueryRight ==
  ASSUME FilesInv, NEW t \in Threads, NEW p \in Names,
         ReadLink(t, p) \/ \E type \in {"RegularFile", "Directory"} : IsType(t, p, type)
  PROVE  OthersKept(t) /\ Marks(t) /\ (Halfway(t) /\ Answered(t))'
<1> DEFINE Query(type, a) ==
      /\ arg' = [arg EXCEPT ![t] = Arg(p, 0, type)]
      /\ UNCHANGED <<root, node, meta>> /\ Answers(t, a)
      /\ a = "yes" => Exists(p) /\ At(p).type = type
      /\ a = "no" => ~Exists(p) \/ At(p).type # type
      /\ a = "link" => Exists(p) /\ At(p).type = "Symlink"
<1>1. PICK type \in Types \cup {NoInode}, a \in {"Err", "yes", "no", "link", "unknown"} :
        Query(type, a)
  <2>1. CASE ReadLink(t, p)
    <3>1. PICK a \in {"Err", "link"} : Query(NoInode, a)
      BY <2>1 DEF ReadLink
    <3> QED
      BY <3>1
  <2>2. ASSUME NEW type \in {"RegularFile", "Directory"}, IsType(t, p, type)
        PROVE  \E a \in {"yes", "no", "unknown"} : Query(type, a)
    BY <2>2 DEF IsType
  <2> QED
    BY <2>1, <2>2 DEF Types
<1>2. /\ pc'[t] = "idle" /\ answer'[t] = a
      /\ arg'[t].path = p /\ arg'[t].type = type
  BY <1>1 DEF Answers, Arg, FilesInv, TypeOK
<1>3. OthersKept(t) /\ Marks(t)
  BY <1>1 DEF Answers, OthersKept, Marks, FilesInv, TypeOK
<1>4. Exists(p)' = Exists(p) /\ At(p)' = At(p)
  BY <1>1 DEF Exists, At
<1>5. Halfway(t)'
  BY <1>2 DEF Halfway
<1>6. Answered(t)'
  BY <1>1, <1>2, <1>4 DEF Answered, Exists, At
<1> QED
  BY <1>3, <1>5, <1>6

\* mkdir makes the directory and answers, or goes on to its chmod.
LEMMA MkdirRight ==
  ASSUME FilesInv, NEW t \in Threads, NEW p \in Names, NEW m \in Modes \cup {0}, Mkdir(t, p, m)
  PROVE  OthersKept(t) /\ Marks(t) /\ (Halfway(t) /\ Answered(t))'
<1>1. CASE UNCHANGED <<root, node, arg>> /\ (Answers(t, "ReadOnly") \/ Answers(t, "Err"))
  BY <1>1, PlainRight DEF Plain, Mkdir
<1>2. CASE /\ Create(p, Node("Directory", DefaultMode, 0, 0))
           /\ arg' = [arg EXCEPT ![t] = Arg(p, m, NoInode)]
           /\ IF m = 0 THEN Answers(t, "made") ELSE Goes(t, "chmod")
  <2>1. arg'[t].path = p /\ arg'[t].mode = m
    BY <1>2 DEF Arg, FilesInv, TypeOK
  <2>2. Exists(p)' /\ At(p)' = Node("Directory", DefaultMode, 0, 0)
    <3>1. PICK i \in Unlinked : /\ root' = [root EXCEPT ![p] = i]
                                /\ node' = [node EXCEPT ![i] = Node("Directory", DefaultMode, 0, 0)]
      BY <1>2 DEF Create
    <3>2. i \in Inodes
      BY DEF Unlinked
    <3>3. root'[p] = i /\ root'[p] \in Inodes
      BY <3>1, <3>2 DEF FilesInv, TypeOK
    <3>4. node'[i] = Node("Directory", DefaultMode, 0, 0)
      BY <3>1, <3>2 DEF FilesInv, TypeOK
    <3>5. NoInode \notin Inodes
      BY FilesConstants
    <3> QED
      BY <3>3, <3>4, <3>5 DEF Exists, At
  <2>3. OthersKept(t) /\ Marks(t)
    BY <1>2 DEF Answers, Goes, OthersKept, Marks, Mkdir, FilesInv, TypeOK
  <2>4. \/ m = 0 /\ pc'[t] = "idle" /\ answer'[t] = "made"
        \/ m # 0 /\ pc'[t] = "chmod" /\ answer'[t] = "none"
    BY <1>2 DEF Answers, Goes, FilesInv, TypeOK
  <2>5. Halfway(t)'
    BY <2>1, <2>2, <2>4 DEF Halfway, Exists, At
  <2>6. Answered(t)'
    BY <2>1, <2>2, <2>4 DEF Answered, Exists, At
  <2> QED
    BY <2>3, <2>5, <2>6
<1> QED
  BY <1>1, <1>2 DEF Mkdir

\* mkdir's chmod finds the directory that its first call made.
LEMMA MkdirChmodRight ==
  ASSUME ResultsInv, NEW t \in Threads, MkdirChmod(t)
  PROVE  OthersKept(t) /\ Marks(t) /\ (t \notin stale' => (Halfway(t) /\ Answered(t))')
<1> DEFINE p == arg[t].path
<1>1. p \in Names /\ arg[t].mode \in Modes /\ FilesInv
  BY DEF MkdirChmod, ResultsInv, FilesInv, Midway
<1>2. CASE UNCHANGED <<arg, meta>> /\ Answers(t, "Err")
  BY <1>1, <1>2, PlainRight DEF Plain
<1>3. CASE Exists(p) /\ Change(p, [At(p) EXCEPT !.mode = arg[t].mode]) /\ Answers(t, "made")
  <2>1. OthersKept(t) /\ Marks(t)
    BY <1>1, <1>3 DEF MkdirChmod, Answers, OthersKept, Marks, FilesInv, TypeOK
  <2>2. pc'[t] = "idle" /\ answer'[t] = "made" /\ arg' = arg
    BY <1>1, <1>3 DEF MkdirChmod, Answers, FilesInv, TypeOK
  <2>3. ASSUME t \notin stale' PROVE At(p) = Node("Directory", DefaultMode, 0, 0)
    BY <1>3, <2>3 DEF MkdirChmod, Answers, Outdates, ResultsInv, Halfway
  <2>4. /\ root' = root /\ root[p] \in Inodes
        /\ node'[root[p]] = [At(p) EXCEPT !.mode = arg[t].mode]
    BY <1>1, <1>3 DEF Change, Exists, FilesInv, TypeOK
  <2>5. ASSUME t \notin stale' PROVE node'[root[p]] = Node("Directory", arg[t].mode, 0, 0)
    BY <2>3, <2>4, <2>5 DEF Node
  <2>6. Halfway(t)'
    BY <2>2 DEF Halfway
  <2>7. ASSUME t \notin stale' PROVE Answered(t)'
    <3>1. arg'[t].path = p /\ arg'[t].mode = arg[t].mode /\ arg[t].mode # 0
      BY <1>1, <2>2, FilesConstants DEF FilesConstants
    <3>2. root'[p] # NoInode
      BY <1>3, <2>4 DEF Exists
    <3>3. Exists(arg[t].path)' /\ At(arg[t].path)' = Node("Directory", arg'[t].mode, 0, 0)
      BY <2>4, <2>5, <2>7, <3>1, <3>2 DEF Exists, At
    <3> QED
      BY <2>2, <3>1, <3>3 DEF Answered
  <2> QED
    BY <2>1, <2>6, <2>7
<1> QED
  BY <1>2, <1>3 DEF MkdirChmod

\* The calls of metadata read the one inode that the path leads to throughout.
LEMMA MetadataRight ==
  ASSUME ResultsInv, NEW t \in Threads,
         GetMode(t) \/ GetOwner(t) \/ GetSize(t) \/ \E p \in Names : BeginMetadata(t, p)
  PROVE  OthersKept(t) /\ Marks(t) /\ (t \notin stale' => (Halfway(t) /\ Answered(t))')
<1> DEFINE p == arg[t].path
<1>0. FilesInv /\ (pc[t] # "idle" => p \in Names)
  BY DEF ResultsInv, FilesInv, Midway
<1>1. OthersKept(t) /\ Marks(t)
  BY <1>0 DEF GetMode, GetOwner, GetSize, BeginMetadata, Answers, Goes, OthersKept, Marks,
              FilesInv, TypeOK
<1>2. ASSUME t \notin stale', pc[t] # "idle" PROVE Halfway(t)
  BY <1>2 DEF GetMode, GetOwner, GetSize, BeginMetadata, Starts, Answers, Goes, Outdates, ResultsInv
<1>3. ASSUME NEW q \in Names, BeginMetadata(t, q) PROVE (Halfway(t) /\ Answered(t))'
  <2>1. pc'[t] = "mode" /\ answer'[t] = "none" /\ meta'[t] = NoMeta
    BY <1>0, <1>3 DEF BeginMetadata, Goes, FilesInv, TypeOK
  <2> QED
    BY <2>1 DEF Halfway, Answered, NoMeta
<1>4. ASSUME GetMode(t), t \notin stale' PROVE (Halfway(t) /\ Answered(t))'
  <2>1. meta[t].uid = 0 /\ meta[t].size = 0
    BY <1>2, <1>4 DEF GetMode, Halfway
  <2>2. CASE Exists(p) /\ Goes(t, "owner")
             /\ meta' = [meta EXCEPT ![t].file_type = At(p).type, ![t].mode = At(p).mode]
    <3>1. /\ pc'[t] = "owner" /\ answer'[t] = "none" /\ UNCHANGED <<root, node, arg>>
      BY <1>0, <1>4, <2>2 DEF GetMode, Goes, FilesInv, TypeOK
    <3>2. /\ meta'[t].file_type = At(p).type /\ meta'[t].mode = At(p).mode
          /\ meta'[t].uid = 0 /\ meta'[t].size = 0
      BY <1>0, <2>1, <2>2 DEF FilesInv, TypeOK
    <3> QED
      BY <2>2, <3>1, <3>2 DEF Halfway, Answered, Exists, At
  <2>3. CASE ~Exists(p) /\ Answers(t, "failed") /\ UNCHANGED meta
    <3>1. pc'[t] = "idle" /\ answer'[t] = "failed" /\ UNCHANGED <<root, node, arg>>
      BY <1>0, <1>4, <2>3 DEF GetMode, Answers, FilesInv, TypeOK
    <3> QED
      BY <2>3, <3>1 DEF Halfway, Answered, Exists, At
  <2>4. CASE Answers(t, "unknown") /\ UNCHANGED meta
    <3>1. pc'[t] = "idle" /\ answer'[t] = "unknown"
      BY <1>0, <2>4 DEF Answers, FilesInv, TypeOK
    <3> QED
      BY <3>1 DEF Halfway, Answered
  <2> QED
    BY <1>4, <2>2, <2>3, <2>4 DEF GetMode
<1>5. ASSUME GetOwner(t), t \notin stale' PROVE (Halfway(t) /\ Answered(t))'
  <2>1. /\ Exists(p) /\ meta[t].size = 0 /\ meta[t].uid = 0
        /\ meta[t].file_type = At(p).type /\ meta[t].mode = At(p).mode
    BY <1>2, <1>5 DEF GetOwner, Halfway
  <2>2. pc'[t] = "size" /\ answer'[t] = "none" /\ UNCHANGED <<root, node, arg>>
    BY <1>0, <1>5 DEF GetOwner, Goes, FilesInv, TypeOK
  <2>3. meta' = [meta EXCEPT ![t].uid = At(p).owner]
    BY <1>5, <2>1 DEF GetOwner
  <2>4. /\ meta'[t].size = 0 /\ meta'[t].uid = At(p).owner
        /\ meta'[t].file_type = At(p).type /\ meta'[t].mode = At(p).mode
    BY <1>0, <2>1, <2>3 DEF FilesInv, TypeOK
  <2> QED
    BY <2>1, <2>2, <2>4 DEF Halfway, Answered, Exists, At
<1>6. ASSUME GetSize(t), t \notin stale' PROVE (Halfway(t) /\ Answered(t))'
  <2>1. /\ Exists(p) /\ meta[t].size = 0
        /\ meta[t].uid = At(p).owner \/ ("owner" \in meta[t].lost /\ meta[t].uid = 0)
        /\ meta[t].file_type = At(p).type /\ meta[t].mode = At(p).mode
    BY <1>2, <1>6 DEF GetSize, Halfway
  <2>2. pc'[t] = "idle" /\ answer'[t] = "metadata" /\ UNCHANGED <<root, node, arg>>
    BY <1>0, <1>6 DEF GetSize, Answers, FilesInv, TypeOK
  <2>3. IF At(p).type = "RegularFile" THEN meta' = [meta EXCEPT ![t].size = At(p).size]
                                      ELSE UNCHANGED meta
    BY <1>6, <2>1 DEF GetSize
  <2>4. /\ meta'[t].uid = At(p).owner \/ ("owner" \in meta'[t].lost /\ meta'[t].uid = 0)
        /\ meta'[t].file_type = At(p).type /\ meta'[t].mode = At(p).mode
        /\ At(p).type = "RegularFile" => meta'[t].size = At(p).size
    BY <1>0, <2>1, <2>3 DEF FilesInv, TypeOK
  <2> QED
    BY <2>1, <2>2, <2>4 DEF Halfway, Answered, Exists, At
<1> QED
  BY <1>1, <1>3, <1>4, <1>5, <1>6

\* An error that metadata ignores leaves the field of its call at 0 and
\* puts the call in "lost".
LEMMA LosesFieldRight ==
  ASSUME ResultsInv, NEW t \in Threads, LosesField(t)
  PROVE  OthersKept(t) /\ Marks(t) /\ (t \notin stale' => (Halfway(t) /\ Answered(t))')
<1> DEFINE p == arg[t].path
<1>1. OthersKept(t) /\ Marks(t)
  BY DEF LosesField, OthersKept, Marks, image, ResultsInv, FilesInv, TypeOK
<1>2. ASSUME t \notin stale' PROVE (Halfway(t) /\ Answered(t))'
  <2>1. /\ Exists(p) /\ meta[t].size = 0
        /\ \/ pc[t] = "owner" /\ meta[t].uid = 0
           \/ /\ pc[t] = "size"
              /\ meta[t].uid = At(p).owner \/ ("owner" \in meta[t].lost /\ meta[t].uid = 0)
        /\ meta[t].file_type = At(p).type /\ meta[t].mode = At(p).mode
    BY <1>2 DEF LosesField, ResultsInv, Halfway
  <2>2. /\ meta'[t].size = 0 /\ meta'[t].uid = meta[t].uid
        /\ meta'[t].lost = meta[t].lost \cup {pc[t]}
        /\ meta'[t].file_type = At(p).type /\ meta'[t].mode = At(p).mode
    BY <2>1 DEF LosesField, ResultsInv, FilesInv, TypeOK
  <2>3. UNCHANGED <<root, node, arg>>
    BY DEF LosesField
  <2>4. CASE pc[t] = "owner"
    <3>1. pc'[t] = "size" /\ answer'[t] = "none" /\ "owner" \in meta'[t].lost /\ meta'[t].uid = 0
      BY <2>1, <2>2, <2>4 DEF LosesField, ResultsInv, FilesInv, TypeOK
    <3> QED
      BY <2>1, <2>2, <2>3, <3>1 DEF Halfway, Answered, Exists, At
  <2>5. CASE pc[t] = "size"
    <3>1. pc'[t] = "idle" /\ answer'[t] = "metadata" /\ "size" \in meta'[t].lost
      BY <2>2, <2>5 DEF LosesField, ResultsInv, FilesInv, TypeOK
    <3>2. meta'[t].uid = At(p).owner \/ ("owner" \in meta'[t].lost /\ meta'[t].uid = 0)
      BY <2>1, <2>2, <2>5
    <3> QED
      BY <2>1, <2>2, <2>3, <3>1, <3>2 DEF Halfway, Answered, Exists, At
  <2> QED
    BY <2>4, <2>5 DEF LosesField
<1> QED
  BY <1>1, <1>2

-----------------------------------------------------------------------------
\* A thread whose operation or answer no step outdates stays right while
\* another thread moves.
LEMMA OthersRight ==
  ASSUME ResultsInv, NEW t \in Threads, OthersKept(t), Marks(t),
         NEW v \in Threads \ {t}, v \notin stale'
  PROVE  (Halfway(v) /\ Answered(v))'
<1>1. v \notin stale /\ UNCHANGED image
  BY DEF Marks, Outdates
<1>2. Halfway(v) /\ Answered(v)
  BY <1>1 DEF ResultsInv
<1>3. UNCHANGED <<pc[v], arg[v], meta[v], answer[v], root, node>>
  BY <1>1 DEF OthersKept, image
<1>4. Halfway(v)'
  BY <1>2, <1>3 DEF Halfway, Exists, At
<1>5. Answered(v)'
  BY <1>2, <1>3 DEF Answered, Exists, At
<1> QED
  BY <1>4, <1>5

\* One step of t leaves t right too, unless it is outdated.
LEMMA OwnRight ==
  ASSUME ResultsInv, NEW t \in Threads, StepOf(t)
  PROVE  OthersKept(t) /\ Marks(t) /\ (t \notin stale' => (Halfway(t) /\ Answered(t))')
<1>0. FilesInv
  BY DEF ResultsInv
<1>1. CASE Step(t)
  <2>1. PICK p \in Names :
          \/ Remove(t, p) \/ Rmdir(t, p) \/ Symlink(t, p) \/ ReadLink(t, p)
          \/ \E q \in Names \ {p} : Rename(t, p, q) \/ Link(t, p, q)
          \/ \E m \in Modes : SetPermissions(t, p, m)
          \/ \E u \in Owners : SetOwner(t, p, u)
          \/ \E create, truncate \in BOOLEAN : Open(t, p, create, truncate)
          \/ \E type \in {"RegularFile", "Directory"} : IsType(t, p, type)
          \/ \E m \in Modes \cup {0} : Mkdir(t, p, m)
          \/ BeginMetadata(t, p)
    BY <1>1 DEF Step
  <2>2. CASE \/ Remove(t, p) \/ Rmdir(t, p) \/ Symlink(t, p)
             \/ \E q \in Names \ {p} : Rename(t, p, q) \/ Link(t, p, q)
             \/ \E m \in Modes : SetPermissions(t, p, m)
             \/ \E u \in Owners : SetOwner(t, p, u)
             \/ \E create, truncate \in BOOLEAN : Open(t, p, create, truncate)
    BY <1>0, <2>2, PlainSteps, PlainRight
  <2>3. CASE ReadLink(t, p) \/ \E type \in {"RegularFile", "Directory"} : IsType(t, p, type)
    BY <1>0, <2>3, QueryRight
  <2>4. CASE \E m \in Modes \cup {0} : Mkdir(t, p, m)
    BY <1>0, <2>4, MkdirRight
  <2>5. CASE BeginMetadata(t, p)
    BY <2>5, MetadataRight
  <2> QED
    BY <2>1, <2>2, <2>3, <2>4, <2>5
<1>2. CASE WriteOpen(t)
  <2>1. PICK p \in Names : TRUE
    BY FilesConstants DEF FilesConstants
  <2> QED
    BY <1>0, <1>2, PlainSteps, PlainRight
<1>3. CASE Close(t)
  <2>1. UNCHANGED <<root, node, pc, arg, meta, answer, stale>>
    BY <1>3 DEF Close
  <2>2. OthersKept(t) /\ Marks(t)
    BY <2>1 DEF OthersKept, Marks, image
  <2>3. ASSUME t \notin stale' PROVE (Halfway(t) /\ Answered(t))'
    <3>1. Halfway(t) /\ Answered(t)
      BY <2>1, <2>3 DEF ResultsInv
    <3> QED
      BY <2>1, <3>1 DEF Halfway, Answered, Exists, At
  <2> QED
    BY <2>2, <2>3
<1>4. CASE MkdirChmod(t)
  BY <1>4, MkdirChmodRight
<1>5. CASE GetMode(t) \/ GetOwner(t) \/ GetSize(t)
  BY <1>5, MetadataRight
<1>6. CASE LosesField(t)
  BY <1>6, LosesFieldRight
<1> QED
  BY <1>1, <1>2, <1>3, <1>4, <1>5, <1>6 DEF StepOf

\* Nothing is answered and nothing under way at first.
LEMMA ResultsInit == Init => ResultsInv
<1> SUFFICES ASSUME Init PROVE ResultsInv
  OBVIOUS
<1>1. ASSUME NEW t \in Threads PROVE Halfway(t) /\ Answered(t)
  BY <1>1 DEF Init, Halfway, Answered
<1> QED
  BY <1>1, FilesInit DEF ResultsInv

\* One step keeps the invariant: for the thread that moves, and for the others.
LEMMA ResultsStep == ResultsInv /\ [Next]_vars => ResultsInv'
<1> SUFFICES ASSUME ResultsInv, [Next]_vars PROVE ResultsInv'
  OBVIOUS
<1>1. FilesInv'
  BY FilesStep DEF ResultsInv
<1>2. ASSUME NEW t \in Threads, StepOf(t), NEW v \in Threads \ stale'
      PROVE  (Halfway(v) /\ Answered(v))'
  BY <1>2, OwnRight, OthersRight
<1>3. CASE UNCHANGED vars
  <2>1. UNCHANGED <<root, node, pc, arg, meta, answer, stale>>
    BY <1>3 DEF vars
  <2>2. ASSUME NEW v \in Threads \ stale' PROVE (Halfway(v) /\ Answered(v))'
    <3>1. Halfway(v) /\ Answered(v)
      BY <2>1, <2>2 DEF ResultsInv
    <3> QED
      BY <2>1, <3>1 DEF Halfway, Answered, Exists, At
  <2> QED
    BY <1>1, <2>2 DEF ResultsInv
<1>4. CASE Next
  BY <1>1, <1>2, <1>4 DEF Next, StepOf, ResultsInv
<1> QED
  BY <1>3, <1>4

\* The two lemmas together.
LEMMA ResultsInvariance == Spec => []ResultsInv
BY ResultsInit, ResultsStep, PTL DEF Spec

\* Every yes of is_file, is_dir and exists, and every no that no I/O error made,
\* is true of the path, unless another thread changed the image since.
THEOREM AnswersSafe == Spec => []AnswersTrue
<1>1. ResultsInv => AnswersTrue
  BY DEF ResultsInv, Answered, AnswersTrue
<1> QED
  BY <1>1, ResultsInvariance, PTL

\* A mkdir that returned Ok, and met no interference between creating the
\* directory and its chmod by path, left it with the requested permissions.
THEOREM MkdirSafe == Spec => []MkdirMade
<1>1. ResultsInv => MkdirMade
  BY DEF ResultsInv, Answered, MkdirMade
<1> QED
  BY <1>1, ResultsInvariance, PTL

\* The calls of metadata describe the one inode its path leads to, and an error
\* that it ignores costs the field of the failed call, which is then 0, and no
\* other, unless another thread interfered.
THEOREM MetadataSafe == Spec => []MetadataTrue
<1>1. ResultsInv => MetadataTrue
  BY DEF ResultsInv, Answered, MetadataTrue
<1> QED
  BY <1>1, ResultsInvariance, PTL
=============================================================================
