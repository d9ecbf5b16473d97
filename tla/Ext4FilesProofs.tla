--------------------------- MODULE Ext4FilesProofs ---------------------------
(***************************************************************************)
(* The inductive invariant of Ext4Files, and from it that a read-only      *)
(* mount is never changed, for every set of threads, names and inodes.     *)
(***************************************************************************)
EXTENDS Ext4Files, TLAPS

USE FilesConstants DEF FilesConstants

\* The types of an operation's arguments and of its Metadata.
ArgTypes == [path : Names \cup {NoInode}, mode : Modes \cup {0}, type : Types \cup {NoInode}]
MetaTypes == [file_type : Types \cup {NoInode}, mode : Modes \cup {0}, uid : Owners,
              size : 0..1, lost : SUBSET {"owner", "size"}]

USE DEF ArgTypes, MetaTypes

-----------------------------------------------------------------------------
(* The effects on the image. *)

ImageOK ==
  /\ root \in [Names -> Inodes \cup {NoInode}]
  /\ node \in [Inodes -> [type : Types, mode : Modes, owner : Owners, size : 0..1]]

\* A name that exists leads to an inode with a type, a mode, an owner and a size.
LEMMA AtOK ==
  ASSUME ImageOK, NEW p \in Names, Exists(p)
  PROVE  /\ root[p] \in Inodes
         /\ At(p) \in [type : Types, mode : Modes, owner : Owners, size : 0..1]
BY DEF ImageOK, Exists, At

\* Creating a name keeps the image well typed and makes the name exist.
LEMMA CreateOK ==
  ASSUME ImageOK, NEW p \in Names, NEW type \in Types, Create(p, Node(type, DefaultMode, 0, 0))
  PROVE  ImageOK' /\ root'[p] \in Inodes
<1>1. PICK i \in Unlinked : /\ root' = [root EXCEPT ![p] = i]
                            /\ node' = [node EXCEPT ![i] = Node(type, DefaultMode, 0, 0)]
  BY DEF Create
<1>2. i \in Inodes
  BY DEF Unlinked
<1>3. Node(type, DefaultMode, 0, 0) \in [type : Types, mode : Modes, owner : Owners, size : 0..1]
  BY DEF Node
<1> QED
  BY <1>1, <1>2, <1>3 DEF ImageOK

\* So does giving an existing name's inode new attributes.
LEMMA ChangeOK ==
  ASSUME ImageOK, NEW p \in Names, Exists(p),
         NEW n \in [type : Types, mode : Modes, owner : Owners, size : 0..1], Change(p, n)
  PROVE  ImageOK' /\ root' = root
BY DEF ImageOK, Change, Exists

-----------------------------------------------------------------------------
\* What the operations of one C call do to the control: the thread stays or
\* becomes idle, and nothing is left half done.
LEMMA OneCallControl ==
  ASSUME FilesInv, NEW t \in Threads, Starts(t), ImageOK', UNCHANGED <<readOnly, arg, meta>>,
         NEW a \in {"Ok", "Err", "ReadOnly"}, Answers(t, a),
         open' \in [Threads -> {NoFile} \cup [path : Names, inode : Inodes]]
  PROVE  FilesInv'
<1>1. TypeOK'
  <2>1. readOnly' \in BOOLEAN /\ ImageOK'
    BY DEF FilesInv, TypeOK
  <2>2. pc' \in [Threads -> {"idle", "chmod", "mode", "owner", "size"}]
    BY DEF FilesInv, TypeOK, Answers
  <2>3. answer' \in [Threads -> {"none", "Ok", "Err", "ReadOnly", "yes", "no",
                                "made", "link", "metadata", "failed", "unknown"}]
    BY DEF FilesInv, TypeOK, Answers
  <2>4. stale' \subseteq Threads
    BY DEF FilesInv, TypeOK, Answers, Outdates
  <2>5. calls' \in 0..MaxCalls
    BY DEF FilesInv, TypeOK, Starts
  <2>6. UNCHANGED <<arg, meta>>
    OBVIOUS
  <2> QED
    BY <2>1, <2>2, <2>3, <2>4, <2>5, <2>6 DEF FilesInv, TypeOK, ImageOK
<1>2. Midway'
  BY DEF FilesInv, TypeOK, Midway, Starts, Answers
<1> QED
  BY <1>1, <1>2 DEF FilesInv

\* An operation behind the read-only test keeps the invariant if its effect
\* keeps the image well typed.
LEMMA MutatesInv ==
  ASSUME FilesInv, NEW t \in Threads, Starts(t), UNCHANGED <<readOnly, open, arg, meta>>,
         \/ UNCHANGED image /\ Answers(t, "ReadOnly")
         \/ ImageOK' /\ Answers(t, "Ok")
         \/ UNCHANGED image /\ Answers(t, "Err")
  PROVE  FilesInv'
<1>1. ImageOK
  BY DEF FilesInv, TypeOK, ImageOK
<1>2. ImageOK'
  BY <1>1 DEF ImageOK, image
<1>3. open' \in [Threads -> {NoFile} \cup [path : Names, inode : Inodes]]
  BY DEF FilesInv, TypeOK
<1> QED
  BY <1>2, <1>3, OneCallControl

-----------------------------------------------------------------------------
\* Each operation of one C call keeps the invariant: those on one path,
LEMMA MutationOne ==
  ASSUME FilesInv, NEW t \in Threads, NEW p \in Names,
         Remove(t, p) \/ Rmdir(t, p) \/ Symlink(t, p)
  PROVE  FilesInv'
<1>0. ImageOK
  BY DEF FilesInv, TypeOK, ImageOK
<1>1. CASE Remove(t, p)
  <2>1. Starts(t) /\ UNCHANGED <<readOnly, open, arg, meta>>
    BY <1>1 DEF Remove, Mutates
  <2>2. \/ UNCHANGED image /\ Answers(t, "ReadOnly")
        \/ ImageOK' /\ Answers(t, "Ok")
        \/ UNCHANGED image /\ Answers(t, "Err")
    BY <1>0, <1>1 DEF Remove, Mutates, OneCall, Relink, ImageOK
  <2> QED
    BY <2>1, <2>2, MutatesInv
<1>2. CASE Rmdir(t, p)
  <2>1. Starts(t) /\ UNCHANGED <<readOnly, open, arg, meta>>
    BY <1>2 DEF Rmdir, Mutates
  <2>2. \/ UNCHANGED image /\ Answers(t, "ReadOnly")
        \/ ImageOK' /\ Answers(t, "Ok")
        \/ UNCHANGED image /\ Answers(t, "Err")
    BY <1>0, <1>2 DEF Rmdir, Mutates, OneCall, Relink, ImageOK
  <2> QED
    BY <2>1, <2>2, MutatesInv
<1>3. CASE Symlink(t, p)
  <2>1. Starts(t) /\ UNCHANGED <<readOnly, open, arg, meta>>
    BY <1>3 DEF Symlink, Mutates
  <2>a. "Symlink" \in Types
    BY DEF Types
  <2>2. \/ UNCHANGED image /\ Answers(t, "ReadOnly")
        \/ ImageOK' /\ Answers(t, "Ok")
        \/ UNCHANGED image /\ Answers(t, "Err")
    BY <1>0, <1>3, <2>a, CreateOK DEF Symlink, Mutates, OneCall
  <2> QED
    BY <2>1, <2>2, MutatesInv
<1> QED
  BY <1>1, <1>2, <1>3

\* on two paths,
LEMMA MutationTwo ==
  ASSUME FilesInv, NEW t \in Threads, NEW p \in Names, NEW q \in Names \ {p},
         Rename(t, p, q) \/ Link(t, p, q)
  PROVE  FilesInv'
<1>0. ImageOK
  BY DEF FilesInv, TypeOK, ImageOK
<1>1. CASE Rename(t, p, q)
  <2>1. Starts(t) /\ UNCHANGED <<readOnly, open, arg, meta>>
    BY <1>1 DEF Rename, Mutates
  <2>2. \/ UNCHANGED image /\ Answers(t, "ReadOnly")
        \/ ImageOK' /\ Answers(t, "Ok")
        \/ UNCHANGED image /\ Answers(t, "Err")
    BY <1>0, <1>1, AtOK DEF Rename, Mutates, OneCall, Relink, ImageOK
  <2> QED
    BY <2>1, <2>2, MutatesInv
<1>2. CASE Link(t, p, q)
  <2>1. Starts(t) /\ UNCHANGED <<readOnly, open, arg, meta>>
    BY <1>2 DEF Link, Mutates
  <2>2. \/ UNCHANGED image /\ Answers(t, "ReadOnly")
        \/ ImageOK' /\ Answers(t, "Ok")
        \/ UNCHANGED image /\ Answers(t, "Err")
    BY <1>0, <1>2, AtOK DEF Link, Mutates, OneCall, Relink, ImageOK
  <2> QED
    BY <2>1, <2>2, MutatesInv
<1> QED
  BY <1>1, <1>2

\* and on a path's inode.
LEMMA MutationMode ==
  ASSUME FilesInv, NEW t \in Threads, NEW p \in Names, NEW m \in Modes,
         SetPermissions(t, p, m)
  PROVE  FilesInv'
<1>0. ImageOK
  BY DEF FilesInv, TypeOK, ImageOK
<1>1. CASE SetPermissions(t, p, m)
  <2>1. Starts(t) /\ UNCHANGED <<readOnly, open, arg, meta>>
    BY <1>1 DEF SetPermissions, Mutates
  <2>a. Exists(p) => [At(p) EXCEPT !.mode = m] \in
              [type : Types, mode : Modes, owner : Owners, size : 0..1]
    BY <1>0, AtOK
  <2>2. \/ UNCHANGED image /\ Answers(t, "ReadOnly")
        \/ ImageOK' /\ Answers(t, "Ok")
        \/ UNCHANGED image /\ Answers(t, "Err")
    BY <1>0, <1>1, <2>a, ChangeOK DEF SetPermissions, Mutates, OneCall
  <2> QED
    BY <2>1, <2>2, MutatesInv
<1> QED
  BY <1>1

LEMMA MutationOwner ==
  ASSUME FilesInv, NEW t \in Threads, NEW p \in Names, NEW u \in Owners,
         SetOwner(t, p, u)
  PROVE  FilesInv'
<1>0. ImageOK
  BY DEF FilesInv, TypeOK, ImageOK
<1>1. CASE SetOwner(t, p, u)
  <2>1. Starts(t) /\ UNCHANGED <<readOnly, open, arg, meta>>
    BY <1>1 DEF SetOwner, Mutates
  <2>a. Exists(p) => [At(p) EXCEPT !.owner = u] \in
              [type : Types, mode : Modes, owner : Owners, size : 0..1]
    BY <1>0, AtOK
  <2>2. \/ UNCHANGED image /\ Answers(t, "ReadOnly")
        \/ ImageOK' /\ Answers(t, "Ok")
        \/ UNCHANGED image /\ Answers(t, "Err")
    BY <1>0, <1>1, <2>a, ChangeOK DEF SetOwner, Mutates, OneCall
  <2> QED
    BY <2>1, <2>2, MutatesInv
<1> QED
  BY <1>1

\* So do those that open, write through, close or ask about a file.
LEMMA OpenStep ==
  ASSUME FilesInv, NEW t \in Threads, NEW p \in Names, NEW create \in BOOLEAN,
         NEW truncate \in BOOLEAN, Open(t, p, create, truncate)
  PROVE  FilesInv'
<1>0. ImageOK /\ TypeOK
  BY DEF FilesInv, TypeOK, ImageOK
<1>1. CASE /\ Opens(p, create, truncate) /\ Opening(p, truncate)
           /\ Answers(t, "Ok")
  <2>1. "RegularFile" \in Types
    BY DEF Types
  <2>2. ImageOK' /\ root'[p] \in Inodes
    <3>1. CASE ~Exists(p)
      BY <1>0, <1>1, <2>1, <3>1, CreateOK DEF Opening
    <3>2. CASE Exists(p) /\ truncate
      <4>1. [At(p) EXCEPT !.size = 0] \in [type : Types, mode : Modes, owner : Owners, size : 0..1]
        BY <1>0, <3>2, AtOK
      <4> QED
        BY <1>0, <1>1, <3>2, <4>1, AtOK, ChangeOK DEF Opening
    <3>3. CASE Exists(p) /\ ~truncate
      BY <1>0, <1>1, <3>3, AtOK DEF Opening, image, ImageOK
    <3> QED
      BY <3>1, <3>2, <3>3
  <2>3. open' \in [Threads -> {NoFile} \cup [path : Names, inode : Inodes]]
    BY <1>0, <2>2 DEF Open, TypeOK
  <2> QED
    BY <1>1, <2>2, <2>3, OneCallControl DEF Open
<1>2. CASE UNCHANGED image /\ Answers(t, "Err")
  <2>1. ImageOK'
    BY <1>0, <1>2 DEF image, ImageOK
  <2>2. answer'[t] = "Err"
    BY <1>0, <1>2 DEF Answers, TypeOK
  <2>3. open' \in [Threads -> {NoFile} \cup [path : Names, inode : Inodes]]
    BY <1>0, <2>2 DEF Open, TypeOK
  <2> QED
    BY <1>2, <2>1, <2>3, OneCallControl DEF Open
<1> QED
  BY <1>1, <1>2 DEF Open, OneCall

LEMMA FileStep ==
  ASSUME FilesInv, NEW t \in Threads,
         WriteOpen(t) \/ Close(t)
  PROVE  FilesInv'
<1>0. ImageOK /\ TypeOK
  BY DEF FilesInv, TypeOK, ImageOK
<1>1. CASE WriteOpen(t)
  <2>1. Starts(t) /\ UNCHANGED <<readOnly, open, arg, meta>>
    BY <1>1 DEF WriteOpen
  <2>2. open[t].inode \in Inodes
    BY <1>0, <1>1 DEF WriteOpen, TypeOK
  <2>3. \/ UNCHANGED image /\ Answers(t, "ReadOnly")
        \/ ImageOK' /\ Answers(t, "Ok")
        \/ UNCHANGED image /\ Answers(t, "Err")
    BY <1>0, <1>1, <2>2 DEF WriteOpen, OneCall, ImageOK
  <2> QED
    BY <2>1, <2>3, MutatesInv
<1>2. CASE Close(t)
  BY <1>0, <1>2 DEF Close, FilesInv, TypeOK, Midway
<1> QED
  BY <1>1, <1>2

-----------------------------------------------------------------------------
\* What a call of mkdir or metadata leaves behind: a typed operation, and for
\* a chmod to come the mode on a writable mount.
LEMMA CallControl ==
  ASSUME FilesInv, NEW t \in Threads, ImageOK', UNCHANGED <<readOnly, open>>,
         calls' \in 0..MaxCalls,
         NEW to \in {"idle", "chmod", "mode", "owner", "size"}, pc' = [pc EXCEPT ![t] = to],
         NEW a \in {"none", "ReadOnly", "Err", "yes", "no", "made", "link", "metadata", "failed", "unknown"},
         answer' = [answer EXCEPT ![t] = a], Outdates(t),
         NEW g \in ArgTypes,
         arg' = [arg EXCEPT ![t] = g],
         NEW d \in MetaTypes,
         meta' = [meta EXCEPT ![t] = d],
         to # "idle" => g.path \in Names,
         to = "chmod" => g.mode \in Modes /\ ~readOnly
  PROVE  FilesInv'
<1>1. TypeOK'
  <2>1. readOnly' \in BOOLEAN /\ open' \in [Threads -> {NoFile} \cup [path : Names, inode : Inodes]]
    BY DEF FilesInv, TypeOK
  <2>2. /\ pc' \in [Threads -> {"idle", "chmod", "mode", "owner", "size"}]
        /\ arg' \in [Threads -> ArgTypes]
    BY DEF FilesInv, TypeOK
  <2>3. meta' \in [Threads -> MetaTypes]
    BY DEF FilesInv, TypeOK
  <2>4. answer' \in [Threads -> {"none", "Ok", "Err", "ReadOnly", "yes", "no",
                                "made", "link", "metadata", "failed", "unknown"}]
    BY DEF FilesInv, TypeOK
  <2>5. stale' \subseteq Threads
    BY DEF FilesInv, TypeOK, Outdates
  <2> QED
    BY <2>1, <2>2, <2>3, <2>4, <2>5 DEF TypeOK, ImageOK
<1>2. Midway'
  <2>1. ASSUME NEW v \in Threads, v # t
        PROVE  pc'[v] = pc[v] /\ arg'[v] = arg[v]
    BY <2>1 DEF FilesInv, TypeOK
  <2>2. pc'[t] = to /\ arg'[t] = g
    BY DEF FilesInv, TypeOK
  <2> QED
    BY <2>1, <2>2 DEF FilesInv, Midway
<1> QED
  BY <1>1, <1>2 DEF FilesInv

\* A thread's operation so far, as CallControl wants it.
LEMMA OldOperation ==
  ASSUME FilesInv, NEW t \in Threads
  PROVE  /\ arg = [arg EXCEPT ![t] = arg[t]] /\ meta = [meta EXCEPT ![t] = meta[t]]
         /\ arg[t] \in ArgTypes
         /\ meta[t] \in MetaTypes
         /\ pc[t] # "idle" => arg[t].path \in Names
         /\ ImageOK /\ calls \in 0..MaxCalls
BY DEF FilesInv, TypeOK, Midway, ImageOK

\* The last call of an operation: the thread is idle again.
LEMMA AnswersInv ==
  ASSUME FilesInv, NEW t \in Threads, ImageOK', UNCHANGED <<readOnly, open, arg>>,
         calls' \in 0..MaxCalls,
         NEW a \in {"none", "ReadOnly", "Err", "yes", "no", "made", "link", "metadata", "failed", "unknown"}, Answers(t, a),
         NEW d \in MetaTypes,
         meta' = [meta EXCEPT ![t] = d]
  PROVE  FilesInv'
<1>1. arg' = [arg EXCEPT ![t] = arg[t]]
  BY OldOperation
<1>2. /\ pc' = [pc EXCEPT ![t] = "idle"]
      /\ answer' = [answer EXCEPT ![t] = a]
      /\ Outdates(t)
  BY DEF Answers
<1> QED
  BY <1>1, <1>2, OldOperation, CallControl

\* is_file, is_dir and readlink leave their path behind.
LEMMA QueryStep ==
  ASSUME FilesInv, NEW t \in Threads, NEW p \in Names,
         ReadLink(t, p) \/ \E type \in {"RegularFile", "Directory"} : IsType(t, p, type)
  PROVE  FilesInv'
<1>1. PICK type \in Types \cup {NoInode} : arg' = [arg EXCEPT ![t] = Arg(p, 0, type)]
  BY DEF ReadLink, IsType, Types
<1>2. Arg(p, 0, type) \in ArgTypes
  BY DEF Arg
<1>3. PICK a \in {"Err", "yes", "no", "link", "unknown"} : Answers(t, a)
  BY DEF ReadLink, IsType
<1>4. /\ UNCHANGED <<readOnly, open, meta>> /\ ImageOK'
      /\ calls' \in 0..MaxCalls
  BY OldOperation DEF ReadLink, IsType, Starts, ImageOK
<1>5. /\ pc' = [pc EXCEPT ![t] = "idle"]
      /\ answer' = [answer EXCEPT ![t] = a]
      /\ Outdates(t)
  BY <1>3 DEF Answers
<1> HIDE DEF ArgTypes, MetaTypes
<1> QED
  BY <1>1, <1>2, <1>4, <1>5, OldOperation, CallControl

LEMMA MkdirStep ==
  ASSUME FilesInv, NEW t \in Threads, NEW p \in Names, NEW m \in Modes \cup {0}, Mkdir(t, p, m)
  PROVE  FilesInv'
<1>0. calls' \in 0..MaxCalls
  BY DEF Mkdir, Starts, FilesInv, TypeOK
<1>1. CASE UNCHANGED <<root, node, arg>> /\ (Answers(t, "ReadOnly") \/ Answers(t, "Err"))
  <2>1. ImageOK'
    BY <1>1, OldOperation DEF ImageOK
  <2> QED
    BY <1>0, <1>1, <2>1, OldOperation, AnswersInv DEF Mkdir
<1>2. CASE /\ ~readOnly /\ Create(p, Node("Directory", DefaultMode, 0, 0))
           /\ arg' = [arg EXCEPT ![t] = Arg(p, m, NoInode)]
           /\ IF m = 0 THEN Answers(t, "made") ELSE Goes(t, "chmod")
  <2>1. ImageOK'
    <3>1. "Directory" \in Types
      BY DEF Types
    <3> QED
      BY <1>2, <3>1, OldOperation, CreateOK
  <2>2. Arg(p, m, NoInode) \in ArgTypes
    BY DEF Arg
  <2>3. PICK to \in {"idle", "chmod"}, a \in {"none", "made"} :
          /\ pc' = [pc EXCEPT ![t] = to]
          /\ answer' = [answer EXCEPT ![t] = a]
          /\ Outdates(t)
          /\ to = "chmod" => m \in Modes
    BY <1>2 DEF Answers, Goes
  <2>4. PICK g \in ArgTypes :
          arg' = [arg EXCEPT ![t] = g] /\ g.path = p /\ g.mode = m
    BY <1>2, <2>2 DEF Arg
  <2>5. UNCHANGED <<readOnly, open>> /\ meta' = [meta EXCEPT ![t] = meta[t]]
    BY OldOperation DEF Mkdir
  <2> QED
    BY <1>0, <1>2, <2>1, <2>3, <2>4, <2>5, OldOperation, CallControl
<1> QED
  BY <1>1, <1>2 DEF Mkdir

LEMMA MkdirChmodStep ==
  ASSUME FilesInv, NEW t \in Threads, MkdirChmod(t)
  PROVE  FilesInv'
<1>1. arg[t].path \in Names /\ arg[t].mode \in Modes
  BY DEF MkdirChmod, FilesInv, Midway
<1>2. ImageOK'
  <2>1. CASE Exists(arg[t].path) /\ Change(arg[t].path, [At(arg[t].path) EXCEPT !.mode = arg[t].mode])
    <3>1. [At(arg[t].path) EXCEPT !.mode = arg[t].mode]
             \in [type : Types, mode : Modes, owner : Owners, size : 0..1]
      BY <1>1, <2>1, OldOperation, AtOK
    <3> QED
      BY <1>1, <2>1, <3>1, OldOperation, ChangeOK
  <2>2. CASE UNCHANGED image
    BY <2>2, OldOperation DEF image, ImageOK
  <2> QED
    BY <2>1, <2>2 DEF MkdirChmod
<1> QED
  BY <1>2, OldOperation, AnswersInv DEF MkdirChmod

LEMMA MetadataStep ==
  ASSUME FilesInv, NEW t \in Threads,
         GetMode(t) \/ GetOwner(t) \/ GetSize(t) \/ \E p \in Names : BeginMetadata(t, p)
  PROVE  FilesInv'
<1> DEFINE p == arg[t].path
<1>0. ImageOK' /\ UNCHANGED <<readOnly, open>>
  BY OldOperation DEF GetMode, GetOwner, GetSize, BeginMetadata, ImageOK
<1>1. CASE GetMode(t)
  <2>1. p \in Names
    BY <1>1, OldOperation DEF GetMode
  <2>2. CASE Exists(p) /\ Goes(t, "owner")
             /\ meta' = [meta EXCEPT ![t].file_type = At(p).type, ![t].mode = At(p).mode]
    <3>1. PICK d \in MetaTypes : meta' = [meta EXCEPT ![t] = d]
      <4>1. At(p).type \in Types /\ At(p).mode \in Modes
        BY <2>1, <2>2, OldOperation, AtOK
      <4>2. [[meta[t] EXCEPT !.file_type = At(p).type] EXCEPT !.mode = At(p).mode] \in MetaTypes
        <5>1. meta[t] \in MetaTypes
          BY OldOperation
        <5>2. [meta[t] EXCEPT !.file_type = At(p).type] \in MetaTypes
          BY <4>1, <5>1
        <5> QED
          BY <4>1, <5>2
      <4>3. meta' = [meta EXCEPT ![t] = [[@ EXCEPT !.file_type = At(p).type] EXCEPT !.mode = At(p).mode]]
        BY <2>2 DEF FilesInv, TypeOK
      <4> QED
        BY <4>2, <4>3
    <3> QED
      BY <1>0, <1>1, <2>1, <2>2, <3>1, OldOperation, CallControl DEF GetMode, Goes
  <2>3. CASE (Answers(t, "failed") \/ Answers(t, "unknown")) /\ UNCHANGED meta
    BY <1>0, <1>1, <2>3, OldOperation, AnswersInv DEF GetMode
  <2> QED
    BY <1>1, <2>2, <2>3 DEF GetMode
<1>2. CASE GetOwner(t)
  <2>1. p \in Names
    BY <1>2, OldOperation DEF GetOwner
  <2>2. PICK d \in MetaTypes : meta' = [meta EXCEPT ![t] = d]
    <3>1. CASE Exists(p) /\ meta' = [meta EXCEPT ![t].uid = At(p).owner]
      <4>1. At(p).owner \in Owners
        BY <2>1, <3>1, OldOperation, AtOK
      <4>2. [meta[t] EXCEPT !.uid = At(p).owner] \in MetaTypes
        BY <4>1, OldOperation
      <4> QED
        BY <3>1, <4>2
    <3>2. CASE UNCHANGED meta
      BY <3>2, OldOperation
    <3> QED
      BY <1>2, <3>1, <3>2 DEF GetOwner
  <2> QED
    BY <1>0, <1>2, <2>1, <2>2, OldOperation, CallControl DEF GetOwner, Goes
<1>3. CASE GetSize(t)
  <2>1. p \in Names
    BY <1>3, OldOperation DEF GetSize
  <2>2. PICK d \in MetaTypes : meta' = [meta EXCEPT ![t] = d]
    <3>1. CASE Exists(p) /\ meta' = [meta EXCEPT ![t].size = At(p).size]
      <4>1. At(p).size \in 0..1
        BY <2>1, <3>1, OldOperation, AtOK
      <4>2. [meta[t] EXCEPT !.size = At(p).size] \in MetaTypes
        BY <4>1, OldOperation
      <4> QED
        BY <3>1, <4>2
    <3>2. CASE UNCHANGED meta
      BY <3>2, OldOperation
    <3> QED
      BY <1>3, <3>1, <3>2 DEF GetSize
  <2> QED
    BY <1>0, <1>3, <2>1, <2>2, OldOperation, AnswersInv DEF GetSize
<1>4. ASSUME NEW q \in Names, BeginMetadata(t, q)
      PROVE  FilesInv'
  <2>1. /\ Arg(q, 0, NoInode) \in ArgTypes /\ Arg(q, 0, NoInode).path = q
        /\ NoMeta \in MetaTypes
    BY DEF NoMeta, Arg
  <2>2. calls' \in 0..MaxCalls
    BY <1>4 DEF BeginMetadata, Starts, FilesInv, TypeOK
  <2>3. /\ arg' = [arg EXCEPT ![t] = Arg(q, 0, NoInode)]
        /\ meta' = [meta EXCEPT ![t] = NoMeta]
        /\ pc' = [pc EXCEPT ![t] = "mode"]
        /\ answer' = [answer EXCEPT ![t] = "none"]
        /\ Outdates(t)
    BY <1>4 DEF BeginMetadata, Goes
  <2> HIDE DEF ArgTypes, MetaTypes
  <2> QED
    BY <1>0, <2>1, <2>2, <2>3, CallControl
<1> QED
  BY <1>1, <1>2, <1>3, <1>4

\* An error that metadata ignores moves on to the next call, or answers.
LEMMA LosesFieldStep ==
  ASSUME FilesInv, NEW t \in Threads, LosesField(t)
  PROVE  FilesInv'
<1>1. TypeOK'
  <2>1. meta' \in [Threads -> MetaTypes]
    <3>1. [meta[t] EXCEPT !.lost = @ \cup {pc[t]}] \in MetaTypes
      BY OldOperation DEF LosesField
    <3> QED
      BY <3>1 DEF LosesField, FilesInv, TypeOK
  <2> QED
    BY <2>1 DEF LosesField, FilesInv, TypeOK
<1>2. Midway'
  BY DEF LosesField, FilesInv, TypeOK, Midway
<1> QED
  BY <1>1, <1>2 DEF FilesInv

-----------------------------------------------------------------------------
LEMMA FilesInit == Init => FilesInv
<1> SUFFICES ASSUME Init PROVE FilesInv
  OBVIOUS
<1>1. node \in [Inodes -> [type : Types, mode : Modes, owner : Owners, size : 0..1]]
  BY DEF Init, Node, Types
<1>2. root \in [Names -> Inodes \cup {NoInode}]
  BY DEF Init
<1>3. meta \in [Threads -> MetaTypes]
  BY DEF Init, NoMeta
<1>4. /\ arg \in [Threads -> ArgTypes]
      /\ open \in [Threads -> {NoFile} \cup [path : Names, inode : Inodes]]
  BY DEF Init, Arg
<1>5. TypeOK
  BY <1>1, <1>2, <1>3, <1>4 DEF Init, TypeOK
<1> QED
  BY <1>5 DEF Init, FilesInv, Midway

LEMMA FilesStep == FilesInv /\ [Next]_vars => FilesInv'
<1> SUFFICES ASSUME FilesInv, [Next]_vars PROVE FilesInv'
  OBVIOUS
<1>1. CASE UNCHANGED vars
  BY <1>1 DEF vars, FilesInv, TypeOK, Midway
<1>2. ASSUME NEW t \in Threads, Step(t)
      PROVE  FilesInv'
  <2>1. PICK p \in Names :
          \/ Remove(t, p) \/ Rmdir(t, p) \/ Symlink(t, p) \/ ReadLink(t, p)
          \/ \E q \in Names \ {p} : Rename(t, p, q) \/ Link(t, p, q)
          \/ \E m \in Modes : SetPermissions(t, p, m)
          \/ \E u \in Owners : SetOwner(t, p, u)
          \/ \E create, truncate \in BOOLEAN : Open(t, p, create, truncate)
          \/ \E type \in {"RegularFile", "Directory"} : IsType(t, p, type)
          \/ \E m \in Modes \cup {0} : Mkdir(t, p, m)
          \/ BeginMetadata(t, p)
    BY <1>2 DEF Step
  <2>2. CASE Remove(t, p) \/ Rmdir(t, p) \/ Symlink(t, p)
    BY <2>2, MutationOne
  <2>3. ASSUME NEW q \in Names \ {p}, Rename(t, p, q) \/ Link(t, p, q)
        PROVE  FilesInv'
    BY <2>3, MutationTwo
  <2>4. ASSUME NEW m \in Modes, SetPermissions(t, p, m)
        PROVE  FilesInv'
    BY <2>4, MutationMode
  <2>5. ASSUME NEW u \in Owners, SetOwner(t, p, u)
        PROVE  FilesInv'
    BY <2>5, MutationOwner
  <2>6. ASSUME NEW create \in BOOLEAN, NEW truncate \in BOOLEAN, Open(t, p, create, truncate)
        PROVE  FilesInv'
    BY <2>6, OpenStep
  <2>7. ASSUME NEW type \in {"RegularFile", "Directory"}, IsType(t, p, type)
        PROVE  FilesInv'
    BY <2>7, QueryStep
  <2>8. ASSUME NEW m \in Modes \cup {0}, Mkdir(t, p, m)
        PROVE  FilesInv'
    BY <2>8, MkdirStep
  <2>9. CASE BeginMetadata(t, p)
    BY <2>9, MetadataStep
  <2>10. CASE ReadLink(t, p)
    BY <2>10, QueryStep
  <2> QED
    BY <2>1, <2>2, <2>3, <2>4, <2>5, <2>6, <2>7, <2>8, <2>9, <2>10
<1>3. ASSUME NEW t \in Threads, WriteOpen(t) \/ Close(t)
      PROVE  FilesInv'
  BY <1>3, FileStep
<1>4. ASSUME NEW t \in Threads, MkdirChmod(t)
      PROVE  FilesInv'
  BY <1>4, MkdirChmodStep
<1>5. ASSUME NEW t \in Threads, GetMode(t) \/ GetOwner(t) \/ GetSize(t) \/ LosesField(t)
      PROVE  FilesInv'
  BY <1>5, MetadataStep, LosesFieldStep
<1> QED
  BY <1>1, <1>2, <1>3, <1>4, <1>5 DEF Next

\* The variables keep their types, and a mkdir that waits for its chmod runs on
\* a writable mount with a path and a mode (Ext4Fs::mkdir's read-only test).
THEOREM FilesInvariance == Spec => []FilesInv
BY FilesInit, FilesStep, PTL DEF Spec

\* The steps that may change the image test read_only, and mkdir's second call,
\* which has set_permissions' test, is never reached on a read-only mount.
LEMMA ReadOnlyStep == FilesInv /\ [Next]_vars => [readOnly => UNCHANGED image]_vars
<1> SUFFICES ASSUME FilesInv, Next, readOnly PROVE UNCHANGED image
  BY DEF vars
<1>1. PICK t \in Threads :
        \/ Step(t) \/ WriteOpen(t) \/ Close(t) \/ MkdirChmod(t)
        \/ GetMode(t) \/ GetOwner(t) \/ GetSize(t) \/ LosesField(t)
  BY DEF Next
<1>2. CASE Step(t)
  <2>1. PICK p \in Names :
          \/ Remove(t, p) \/ Rmdir(t, p) \/ Symlink(t, p) \/ ReadLink(t, p)
          \/ \E q \in Names \ {p} : Rename(t, p, q) \/ Link(t, p, q)
          \/ \E m \in Modes : SetPermissions(t, p, m)
          \/ \E u \in Owners : SetOwner(t, p, u)
          \/ \E create, truncate \in BOOLEAN : Open(t, p, create, truncate)
          \/ \E type \in {"RegularFile", "Directory"} : IsType(t, p, type)
          \/ \E m \in Modes \cup {0} : Mkdir(t, p, m)
          \/ BeginMetadata(t, p)
    BY <1>2 DEF Step
  <2>2. CASE \/ Remove(t, p) \/ Rmdir(t, p) \/ Symlink(t, p)
             \/ \E q \in Names \ {p} : Rename(t, p, q) \/ Link(t, p, q)
             \/ \E m \in Modes : SetPermissions(t, p, m)
             \/ \E u \in Owners : SetOwner(t, p, u)
    BY <2>2 DEF Remove, Rmdir, Symlink, Rename, Link, SetPermissions, SetOwner, Mutates
  <2>3. ASSUME NEW create \in BOOLEAN, NEW truncate \in BOOLEAN, Open(t, p, create, truncate)
        PROVE  UNCHANGED image
    BY <2>3 DEF Open, OneCall, Opens, Opening
  <2>4. CASE \/ \E type \in {"RegularFile", "Directory"} : IsType(t, p, type)
             \/ \E m \in Modes \cup {0} : Mkdir(t, p, m)
             \/ BeginMetadata(t, p) \/ ReadLink(t, p)
    BY <2>4 DEF IsType, ReadLink, Mkdir, BeginMetadata, image
  <2> QED
    BY <2>1, <2>2, <2>3, <2>4
<1>3. CASE MkdirChmod(t)
  BY <1>3 DEF MkdirChmod, FilesInv, Midway
<1>4. CASE WriteOpen(t)
  BY <1>4 DEF WriteOpen, OneCall
<1>5. CASE Close(t) \/ GetMode(t) \/ GetOwner(t) \/ GetSize(t) \/ LosesField(t)
  BY <1>5 DEF Close, GetMode, GetOwner, GetSize, LosesField, image
<1> QED
  BY <1>1, <1>2, <1>3, <1>4, <1>5

\* A read-only mount is never changed: no operation of Ext4Fs that can change
\* the filesystem gets past its read-only test, or past lwext4's when opening.
THEOREM ReadOnlySafe == Spec => ReadOnlyUntouched
<1>1. FilesInv /\ [Next]_vars => [readOnly => UNCHANGED image]_vars
  BY ReadOnlyStep
<1> QED
  BY <1>1, FilesInvariance, PTL DEF Spec, ReadOnlyUntouched
=============================================================================
