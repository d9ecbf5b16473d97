------------------------------ MODULE Ext4Files ------------------------------
(***************************************************************************)
(* The path operations of one mounted Ext4Fs (ext4-lwext4/src/fs.rs): each *)
(* is one C call, except mkdir (create, then chmod by path) and metadata   *)
(* (mode, owner and times, then the size by opening the file), between     *)
(* whose calls other threads run.                                          *)
(*                                                                         *)
(* The namespace is one flat directory.  lwext4 is external: a C call is   *)
(* one step, resolves its path anew, refuses to create over a name or to   *)
(* use one that is missing, follows no symbolic link, and refuses to       *)
(* create, truncate or write on a read-only mount.                         *)
(***************************************************************************)
EXTENDS Naturals

CONSTANTS
  Threads,     \* callers sharing the Ext4Fs
  Names,       \* paths
  Inodes,      \* inodes of the filesystem
  Modes,       \* permissions, DefaultMode among them, never 0
  DefaultMode, \* what ext4_dir_mk and a creating ext4_fopen2 give
  Owners,      \* 0 (root) and other owners
  MaxCalls,    \* bound: operations in one behaviour
  MayFail      \* whether a C call may fail for no reason of its own (I/O error)

NoInode == "none"

ASSUME FilesConstants ==
  /\ NoInode \notin Inodes
  /\ Names # {} /\ 0 \in Owners /\ DefaultMode \in Modes /\ 0 \notin Modes
  /\ MaxCalls \in Nat /\ MayFail \in BOOLEAN

Types == {"RegularFile", "Directory", "Symlink"}

VARIABLES
  readOnly,   \* Ext4Fs.read_only, also how lwext4 mounted
  root,       \* the inode each name leads to
  node,       \* type, mode, owner and size of each inode
  open,       \* the File each thread holds: path and inode, or none
  pc,         \* the next C call of a thread's operation, or "idle"
  arg,        \* path and mode of that operation, and the type it asks for
  meta,       \* Metadata under construction, then returned; "lost" is a ghost:
              \* the calls whose fields an I/O error took
  answer,     \* what the thread's last operation returned; a false of is_file,
              \* is_dir and exists is "no" or "failed", "unknown" on an I/O error
  stale,      \* ghost: threads whose operation or answer another's change outdated
  calls       \* operations so far

vars == <<readOnly, root, node, open, pc, arg, meta, answer, stale, calls>>
image == <<root, node>>

NoFile == [path |-> NoInode, inode |-> NoInode]
NoMeta == [file_type |-> NoInode, mode |-> 0, uid |-> 0, size |-> 0, lost |-> {}]
Arg(p, m, type) == [path |-> p, mode |-> m, type |-> type]
Node(type, mode, owner, size) == [type |-> type, mode |-> mode, owner |-> owner, size |-> size]

TypeOK ==
  /\ readOnly \in BOOLEAN
  /\ root \in [Names -> Inodes \cup {NoInode}]
  /\ node \in [Inodes -> [type : Types, mode : Modes, owner : Owners, size : 0..1]]
  /\ open \in [Threads -> {NoFile} \cup [path : Names, inode : Inodes]]
  /\ pc \in [Threads -> {"idle", "chmod", "mode", "owner", "size"}]
  /\ arg \in [Threads -> [path : Names \cup {NoInode}, mode : Modes \cup {0},
                         type : Types \cup {NoInode}]]
  /\ meta \in [Threads -> [file_type : Types \cup {NoInode}, mode : Modes \cup {0},
                          uid : Owners, size : 0..1, lost : SUBSET {"owner", "size"}]]
  /\ answer \in [Threads -> {"none", "Ok", "Err", "ReadOnly", "yes", "no",
                             "made", "link", "metadata", "failed", "unknown"}]
  /\ stale \subseteq Threads /\ calls \in 0..MaxCalls

\* An empty filesystem, or one with a regular file.
Init ==
  /\ readOnly \in BOOLEAN
  /\ node = [i \in Inodes |-> Node("RegularFile", DefaultMode, 0, 0)]
  /\ \/ root = [p \in Names |-> NoInode]
     \/ \E p \in Names, i \in Inodes : root = [q \in Names |-> IF q = p THEN i ELSE NoInode]
  /\ open = [t \in Threads |-> NoFile]
  /\ pc = [t \in Threads |-> "idle"]
  /\ arg = [t \in Threads |-> Arg(NoInode, 0, NoInode)]
  /\ meta = [t \in Threads |-> NoMeta]
  /\ answer = [t \in Threads |-> "none"]
  /\ stale = {} /\ calls = 0

-----------------------------------------------------------------------------
Exists(p) == root[p] # NoInode
At(p) == node[root[p]]
Links(i) == {p \in Names : root[p] = i}
Unlinked == {i \in Inodes : Links(i) = {}}

\* A thread starts an operation: its last answer is history.
Starts(t) ==
  /\ pc[t] = "idle" /\ calls < MaxCalls
  /\ calls' = calls + 1

\* The step's effect on the image outdates what others did or are doing.
Outdates(t) ==
  stale' = (IF pc[t] = "idle" THEN stale \ {t} ELSE stale)
           \cup (IF image' = image THEN {} ELSE Threads \ {t})

Answers(t, a) ==
  /\ pc' = [pc EXCEPT ![t] = "idle"]
  /\ answer' = [answer EXCEPT ![t] = a]
  /\ Outdates(t)

Goes(t, to) ==
  /\ pc' = [pc EXCEPT ![t] = to]
  /\ answer' = [answer EXCEPT ![t] = "none"]
  /\ Outdates(t)

\* An operation of one C call: if it "can" be done it has its effect, else or
\* for an I/O error it fails and leaves the image alone.
OneCall(t, can, Effect) ==
  \/ can /\ Effect /\ Answers(t, "Ok")
  \/ (~can \/ MayFail) /\ UNCHANGED image /\ Answers(t, "Err")

\* Every operation that changes the filesystem by path first tests read_only.
Mutates(t, can, Effect) ==
  /\ Starts(t)
  /\ IF readOnly
     THEN UNCHANGED image /\ Answers(t, "ReadOnly")
     ELSE OneCall(t, can, Effect)
  /\ UNCHANGED <<readOnly, open, arg, meta>>

Create(p, n) ==
  \E i \in Unlinked : root' = [root EXCEPT ![p] = i] /\ node' = [node EXCEPT ![i] = n]
Creatable(p) == ~Exists(p) /\ Unlinked # {}
Relink(change) == root' = change /\ UNCHANGED node
Change(p, n) == node' = [node EXCEPT ![root[p]] = n] /\ UNCHANGED root

-----------------------------------------------------------------------------
(* Operations of one C call *)

Remove(t, p) ==
  Mutates(t, Exists(p) /\ At(p).type # "Directory", Relink([root EXCEPT ![p] = NoInode]))

Rmdir(t, p) ==
  Mutates(t, Exists(p) /\ At(p).type = "Directory", Relink([root EXCEPT ![p] = NoInode]))

Rename(t, p, q) ==
  Mutates(t, Exists(p) /\ ~Exists(q), Relink([root EXCEPT ![p] = NoInode, ![q] = root[p]]))

Link(t, p, q) ==
  Mutates(t, Exists(p) /\ ~Exists(q) /\ At(p).type # "Directory", Relink([root EXCEPT ![q] = root[p]]))

Symlink(t, p) ==
  Mutates(t, Creatable(p), Create(p, Node("Symlink", DefaultMode, 0, 0)))

\* Mutant: set_permissions without its read-only test.
SetPermissionsUnchecked(t, p, m) ==
  /\ Starts(t)
  /\ OneCall(t, Exists(p), Change(p, [At(p) EXCEPT !.mode = m]))
  /\ UNCHANGED <<readOnly, open, arg, meta>>

SetPermissions(t, p, m) ==
  Mutates(t, Exists(p), Change(p, [At(p) EXCEPT !.mode = m]))

SetOwner(t, p, u) ==
  Mutates(t, Exists(p), Change(p, [At(p) EXCEPT !.owner = u]))

Opens(p, create, truncate) ==
  /\ IF Exists(p) THEN At(p).type = "RegularFile" ELSE create /\ Creatable(p)
  /\ readOnly => ~create /\ ~truncate
Opening(p, truncate) ==
  IF ~Exists(p) THEN Create(p, Node("RegularFile", DefaultMode, 0, 0))
  ELSE IF truncate THEN Change(p, [At(p) EXCEPT !.size = 0])
  ELSE UNCHANGED image

\* Mutant: File::open does not look at the result of ext4_fopen2.
OpenUnchecked(t, p, create, truncate) ==
  /\ Starts(t) /\ open[t] = NoFile
  /\ OneCall(t, Opens(p, create, truncate), Opening(p, truncate))
  /\ open' = [open EXCEPT ![t] = [path |-> p, inode |-> root'[p]]]
  /\ UNCHANGED <<readOnly, arg, meta>>

\* Ext4Fs::open has no read-only test of its own; lwext4 refuses.
Open(t, p, create, truncate) ==
  /\ Starts(t) /\ open[t] = NoFile
  /\ OneCall(t, Opens(p, create, truncate), Opening(p, truncate))
  /\ open' = [open EXCEPT ![t] =
       IF answer'[t] = "Ok" THEN [path |-> p, inode |-> root'[p]] ELSE @]
  /\ UNCHANGED <<readOnly, arg, meta>>

\* A write through an open File; it grows the file it was opened on.
WriteOpen(t) ==
  LET i == open[t].inode IN
  /\ Starts(t) /\ open[t] # NoFile
  /\ OneCall(t, ~readOnly, node' = [node EXCEPT ![i].size = 1] /\ UNCHANGED root)
  /\ UNCHANGED <<readOnly, open, arg, meta>>

\* Drop of the File
Close(t) ==
  /\ pc[t] = "idle" /\ open[t] # NoFile
  /\ open' = [open EXCEPT ![t] = NoFile]
  /\ UNCHANGED <<readOnly, root, node, pc, arg, meta, answer, stale, calls>>

\* readlink; the target is left out.
ReadLink(t, p) ==
  /\ Starts(t)
  /\ arg' = [arg EXCEPT ![t] = Arg(p, 0, NoInode)]
  /\ UNCHANGED <<readOnly, root, node, open, meta>>
  /\ \/ Answers(t, IF Exists(p) /\ At(p).type = "Symlink" THEN "link" ELSE "Err")
     \/ MayFail /\ Answers(t, "Err")

\* Mutant: is_dir asks for a regular file.
IsTypeFile(t, p, type) ==
  /\ Starts(t)
  /\ arg' = [arg EXCEPT ![t] = Arg(p, 0, type)]
  /\ UNCHANGED <<readOnly, root, node, open, meta>>
  /\ \/ Answers(t, IF Exists(p) /\ At(p).type = "RegularFile" THEN "yes" ELSE "no")
     \/ MayFail /\ Answers(t, "unknown")

\* is_file, is_dir: ext4_inode_exist, any error counting as false.
IsType(t, p, type) ==
  /\ Starts(t)
  /\ arg' = [arg EXCEPT ![t] = Arg(p, 0, type)]
  /\ UNCHANGED <<readOnly, root, node, open, meta>>
  /\ \/ Answers(t, IF Exists(p) /\ At(p).type = type THEN "yes" ELSE "no")
     \/ MayFail /\ Answers(t, "unknown")

-----------------------------------------------------------------------------
(* mkdir: ext4_dir_mk, then set_permissions on the path unless mode is 0 *)

Mkdir(t, p, m) ==
  /\ Starts(t)
  /\ \/ /\ readOnly
        /\ UNCHANGED <<root, node, arg>>
        /\ Answers(t, "ReadOnly")
     \/ /\ ~readOnly /\ Creatable(p)
        /\ Create(p, Node("Directory", DefaultMode, 0, 0))
        /\ arg' = [arg EXCEPT ![t] = Arg(p, m, NoInode)]
        /\ IF m = 0 THEN Answers(t, "made") ELSE Goes(t, "chmod")
     \/ /\ ~readOnly /\ (~Creatable(p) \/ MayFail)
        /\ UNCHANGED <<root, node, arg>>
        /\ Answers(t, "Err")
  /\ UNCHANGED <<readOnly, open, meta>>

\* Mutant: the "?" after set_permissions is missing.
MkdirChmodUnchecked(t) ==
  LET p == arg[t].path IN
  /\ pc[t] = "chmod"
  /\ \/ Exists(p) /\ Change(p, [At(p) EXCEPT !.mode = arg[t].mode])
     \/ (~Exists(p) \/ MayFail) /\ UNCHANGED image
  /\ Answers(t, "made")
  /\ UNCHANGED <<readOnly, open, arg, meta, calls>>

\* set_permissions(path, mode)?; when it fails the directory stays.
MkdirChmod(t) ==
  LET p == arg[t].path IN
  /\ pc[t] = "chmod"
  /\ \/ /\ Exists(p)
        /\ Change(p, [At(p) EXCEPT !.mode = arg[t].mode])
        /\ Answers(t, "made")
     \/ /\ ~Exists(p) \/ MayFail
        /\ UNCHANGED image
        /\ Answers(t, "Err")
  /\ UNCHANGED <<readOnly, open, arg, meta, calls>>

-----------------------------------------------------------------------------
(* metadata, and exists, which is metadata(path).is_ok() *)

\* Ext4Fs::metadata(path), or File::metadata, which passes the path the File
\* was opened by.
BeginMetadata(t, p) ==
  /\ Starts(t)
  /\ UNCHANGED <<readOnly, root, node, open>>
  /\ arg' = [arg EXCEPT ![t] = Arg(p, 0, NoInode)]
  /\ meta' = [meta EXCEPT ![t] = NoMeta]
  /\ Goes(t, "mode")

\* ext4_mode_get, the only call whose failure metadata reports.
GetMode(t) ==
  LET p == arg[t].path IN
  /\ pc[t] = "mode"
  /\ UNCHANGED <<readOnly, root, node, open, arg, calls>>
  /\ \/ /\ Exists(p)
        /\ meta' = [meta EXCEPT ![t].file_type = At(p).type, ![t].mode = At(p).mode]
        /\ Goes(t, "owner")
     \/ ~Exists(p) /\ Answers(t, "failed") /\ UNCHANGED meta
     \/ MayFail /\ Answers(t, "unknown") /\ UNCHANGED meta

\* ext4_owner_get, and the three time calls that work the same way: an error is
\* ignored and the field stays 0.
GetOwner(t) ==
  LET p == arg[t].path IN
  /\ pc[t] = "owner"
  /\ UNCHANGED <<readOnly, root, node, open, arg, calls>>
  /\ \/ Exists(p) /\ meta' = [meta EXCEPT ![t].uid = At(p).owner]
     \/ ~Exists(p) /\ UNCHANGED meta
  /\ Goes(t, "size")

\* A regular file is opened by its path for its size; a failure leaves 0.
GetSize(t) ==
  LET p == arg[t].path
      opens == meta[t].file_type = "RegularFile" /\ Exists(p) /\ At(p).type = "RegularFile"
  IN /\ pc[t] = "size"
     /\ UNCHANGED <<readOnly, root, node, open, arg, calls>>
     /\ \/ opens /\ meta' = [meta EXCEPT ![t].size = At(p).size]
        \/ ~opens /\ UNCHANGED meta
     /\ Answers(t, "metadata")

\* Mutant: metadata returns at the first error, with what it has by then.
LosesRest(t) ==
  /\ MayFail /\ pc[t] \in {"owner", "size"}
  /\ pc' = [pc EXCEPT ![t] = "idle"]
  /\ answer' = [answer EXCEPT ![t] = "metadata"]
  /\ meta' = [meta EXCEPT ![t].lost = @ \cup {pc[t]}]
  /\ UNCHANGED <<readOnly, root, node, open, arg, stale, calls>>

\* An I/O error in GetOwner or GetSize: it is ignored too, the call's own field
\* stays 0 and the next call is made.
LosesField(t) ==
  /\ MayFail /\ pc[t] \in {"owner", "size"}
  /\ pc' = [pc EXCEPT ![t] = IF pc[t] = "owner" THEN "size" ELSE "idle"]
  /\ answer' = [answer EXCEPT ![t] = IF pc[t] = "owner" THEN "none" ELSE "metadata"]
  /\ meta' = [meta EXCEPT ![t].lost = @ \cup {pc[t]}]
  /\ UNCHANGED <<readOnly, root, node, open, arg, stale, calls>>

-----------------------------------------------------------------------------
Step(t) ==
  \E p \in Names :
    \/ Remove(t, p) \/ Rmdir(t, p) \/ Symlink(t, p) \/ ReadLink(t, p)
    \/ \E q \in Names \ {p} : Rename(t, p, q) \/ Link(t, p, q)
    \/ \E m \in Modes : SetPermissions(t, p, m)
    \/ \E u \in Owners : SetOwner(t, p, u)
    \/ \E create, truncate \in BOOLEAN : Open(t, p, create, truncate)
    \/ \E type \in {"RegularFile", "Directory"} : IsType(t, p, type)
    \/ \E m \in Modes \cup {0} : Mkdir(t, p, m)
    \/ BeginMetadata(t, p)

Next ==
  \E t \in Threads :
    \/ Step(t)
    \/ WriteOpen(t) \/ Close(t) \/ MkdirChmod(t)
    \/ GetMode(t) \/ GetOwner(t) \/ GetSize(t) \/ LosesField(t)

Spec == Init /\ [][Next]_vars

-----------------------------------------------------------------------------
(* The inductive invariant behind TypeOK and ReadOnlyUntouched. *)

\* A second C call has the path of its operation, a chmod the requested mode;
\* on a read-only mount mkdir never gets to it.
Midway ==
  \A t \in Threads :
    /\ pc[t] # "idle" => arg[t].path \in Names
    /\ pc[t] = "chmod" => arg[t].mode \in Modes /\ ~readOnly

FilesInv == TypeOK /\ Midway

-----------------------------------------------------------------------------
(* Properties *)

\* A read-only mount stays as it was mounted, whatever is called on it: every
\* mutating operation has its test, and open relies on lwext4's.
ReadOnlyUntouched == [][readOnly => UNCHANGED image]_vars

\* metadata that no other thread's change interfered with describes the inode
\* its path leads to; an I/O error of a call after the first costs it the field
\* of that call, which is then 0, and no other.
MetadataTrue ==
  \A t \in Threads \ stale : answer[t] = "metadata" =>
    LET n == At(arg[t].path)
        is(value, true, call) == value = true \/ (call \in meta[t].lost /\ value = 0)
    IN /\ Exists(arg[t].path)
       /\ meta[t].file_type = n.type /\ meta[t].mode = n.mode
       /\ is(meta[t].uid, n.owner, "owner")
       /\ n.type = "RegularFile" => is(meta[t].size, n.size, "size")

\* is_file, is_dir, exists and readlink are right about the path, a false
\* included, unless a change interfered or a false stands for an I/O error.
AnswersTrue ==
  \A t \in Threads \ stale :
    LET p == arg[t].path IN
    /\ answer[t] = "yes" => Exists(p) /\ At(p).type = arg[t].type
    /\ answer[t] = "no" => ~Exists(p) \/ At(p).type # arg[t].type
    /\ answer[t] = "link" => Exists(p) /\ At(p).type = "Symlink"
    /\ answer[t] = "failed" => ~Exists(p)

\* A mkdir that returned Ok, with no interference, left a directory with the
\* requested permissions (with the default ones for mode 0).
MkdirMade ==
  \A t \in Threads \ stale : answer[t] = "made" =>
    /\ Exists(arg[t].path)
    /\ At(arg[t].path) =
         Node("Directory", IF arg[t].mode = 0 THEN DefaultMode ELSE arg[t].mode, 0, 0)

\* file.rs:103: metadata of a File is to "Get file metadata": of the file it is
\* open on, as long as that has a name.
FileMetadataOfFile ==
  \A t \in Threads \ stale :
    /\ open[t] # NoFile /\ arg[t].path = open[t].path
    /\ Links(open[t].inode) # {} /\ answer[t] \in {"metadata", "failed"}
    => answer[t] = "metadata" /\ root[arg[t].path] = open[t].inode
=============================================================================
