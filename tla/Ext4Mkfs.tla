------------------------------- MODULE Ext4Mkfs -------------------------------
(***************************************************************************)
(* Making a filesystem (ext4-lwext4/src/mkfs.rs) and asking a mount of it  *)
(* for its statistics (fs.rs, stat).  A program builds MkfsOptions call by *)
(* call, formats the device, perhaps again after an error, and reads the   *)
(* superblock back through FsStats.  To the conversions of Ext4Convert     *)
(* this adds the ones whose input is made in several steps.                *)
(*                                                                         *)
(* lwext4 is external: ext4_mkfs may fail at any point, and otherwise      *)
(* writes a superblock with the values of ext4_mkfs_info and as much of    *)
(* the label as its field holds.                                           *)
(***************************************************************************)
EXTENDS Ext4Convert, SequencesExt

CONSTANTS
  NameLen,        \* bytes in the superblock's volume name (16)
  Labels,         \* labels, as sequences of characters
  Uuids,          \* UUIDs, NoUuid not among them
  FsBlockSizes,   \* block sizes a filesystem can have, in bytes
  DefaultSize,    \* the default among them (4096)
  Length,         \* bytes of the device that lwext4 may use
  MaxOptions,     \* bound: with_ calls
  MaxFormats,     \* bound: calls of mkfs
  None,           \* a value that is not there
  Torn            \* a half-made filesystem

ASSUME MkfsConstants ==
  /\ NameLen \in Nat \ {0} /\ Length \in U64
  /\ DefaultSize \in FsBlockSizes /\ FsBlockSizes \subseteq 1..Length
  /\ MaxOptions \in Nat /\ MaxFormats \in Nat
  /\ None \notin {"Ok", "Err", "panic"}

\* A label is a String; none of its characters is a byte of a longer one.
ASSUME LabelConstants ==
  /\ Labels \subseteq Seq(UNION {Range(l) : l \in Labels})
  /\ \A l \in Labels : {"lead", "tail"} \cap Range(l) = {}

NoUuid == "zeros"

VARIABLES
  options,    \* the MkfsOptions
  asked,      \* history: the constructor, then the with_ calls
  image,      \* the superblock on the device, Torn, or None
  result,     \* what mkfs returned, or "panic"
  stats,      \* the last FsStats, or None
  formats     \* calls of mkfs so far

mkfsVars == <<options, asked, image, result, stats, formats>>

-----------------------------------------------------------------------------
(* MkfsOptions *)

Default(type) ==
  [fs_type |-> type, block_size |-> DefaultSize, journal |-> type # "Ext2",
   label |-> None, uuid |-> None]

Settings ==
  {<<"label", l>> : l \in Labels} \cup {<<"uuid", u>> : u \in Uuids}
  \cup {<<"block_size", b>> : b \in FsBlockSizes} \cup {<<"journal", j>> : j \in BOOLEAN}

With(s) ==
  /\ Len(asked) <= MaxOptions /\ result = None
  /\ options' = [options EXCEPT ![s[1]] = s[2]]
  /\ asked' = Append(asked, s)
  /\ UNCHANGED <<image, result, stats, formats>>

-----------------------------------------------------------------------------
(* mkfs *)

\* A String's bytes: "e'" is a character of two, every other has one.
Bytes(label) ==
  FlattenSeq([k \in DOMAIN label |->
    IF label[k] = "e'" THEN <<"lead", "tail">> ELSE <<label[k]>>])

FsTypeToRaw == [Ext2 |-> 2, Ext3 |-> 3, Ext4 |-> 4]

\* Mutant: a journal is asked for whatever the type.
InfoJournalAlways(o) == o.journal

InfoJournal(o) == o.journal /\ o.fs_type # "Ext2"

\* The ext4_mkfs_info; without a label lwext4 gets a null pointer.
Info(o) ==
  [len |-> Length, block_size |-> o.block_size, journal |-> InfoJournal(o),
   uuid |-> IF o.uuid = None THEN NoUuid ELSE o.uuid,
   label |-> IF o.label = None THEN <<>> ELSE Bytes(o.label)]

\* The superblock ext4_mkfs makes of it.
Superblock(info, raw) ==
  [fs_type |-> CHOOSE t \in DOMAIN FsTypeToRaw : FsTypeToRaw[t] = raw,
   block_size |-> info.block_size, blocks |-> info.len \div info.block_size,
   journal |-> info.journal, uuid |-> info.uuid,
   label |-> [k \in 1..NameLen |->
                IF k \in DOMAIN info.label THEN info.label[k] ELSE "NUL"]]

\* CString::new fails for a label with a NUL, and the unwrap panics before
\* anything was written; a call that fails may leave half a filesystem.
Mkfs ==
  /\ formats < MaxFormats /\ result \in {None, "Err"}
  /\ formats' = formats + 1
  /\ \/ /\ options.label # None /\ "NUL" \in Range(options.label)
        /\ result' = "panic" /\ UNCHANGED image
     \/ /\ options.label # None => "NUL" \notin Range(options.label)
        /\ \/ /\ image' = Superblock(Info(options), FsTypeToRaw[options.fs_type])
              /\ result' = "Ok"
           \/ image' \in {image, Torn} /\ result' = "Err"
  /\ UNCHANGED <<options, asked, stats>>

-----------------------------------------------------------------------------
(* Ext4Fs::stat and FsStats *)

\* String::from_utf8_lossy: a character cut in two becomes U+FFFD.
Lossy(b) ==
  FlattenSeq([k \in DOMAIN b |->
    CASE b[k] = "lead" -> IF k < Len(b) /\ b[k + 1] = "tail" THEN <<"e'">> ELSE <<"U+FFFD">>
      [] b[k] = "tail" -> <<>>
      [] OTHER -> <<b[k]>>])

\* Mutant: the last byte is always taken for a terminator.
VolumeNameTerminated(b) == Lossy(SelectSeq(SubSeq(b, 1, NameLen - 1), LAMBDA c : c # "NUL"))

\* The bytes up to the first NUL, all of them when there is none.
VolumeName(b) ==
  LET nul == {k \in DOMAIN b : b[k] = "NUL"} IN
  Lossy(SubSeq(b, 1, IF nul = {} THEN NameLen ELSE Min(nul) - 1))

\* FsStats::total_size, free_size and used_size, in u64.
TotalSize(s) == (s.total_blocks * s.block_size) % 2^Width
FreeSize(s) == (s.free_blocks * s.block_size) % 2^Width

\* Mutant: the parentheses are missing.
UsedSizeUngrouped(s) == (s.total_blocks - s.free_blocks * s.block_size) % 2^Width

UsedSize(s) == ((s.total_blocks - s.free_blocks) * s.block_size) % 2^Width

Stat ==
  /\ result = "Ok" /\ stats = None
  /\ \E free \in 0..image.blocks :
       stats' = [block_size |-> image.block_size, total_blocks |-> image.blocks,
                 free_blocks |-> free, volume_name |-> VolumeName(image.label)]
  /\ UNCHANGED <<options, asked, image, result, formats>>

-----------------------------------------------------------------------------
\* One conversion of Ext4Convert at a time, or the making of a filesystem.
MInit ==
  /\ in \in Inputs \cup [kind : {"mkfs"}]
  /\ \E type \in IF in.kind = "mkfs" THEN {"Ext2", "Ext3", "Ext4"} ELSE {"Ext4"} :
       options = Default(type) /\ asked = <<Default(type)>>
  /\ image = None /\ result = None /\ stats = None /\ formats = 0

MNext ==
  \/ Next /\ UNCHANGED mkfsVars
  \/ /\ in.kind = "mkfs" /\ UNCHANGED in
     /\ (\E s \in Settings : With(s)) \/ Mkfs \/ Stat

MSpec == MInit /\ [][MNext]_<<in, mkfsVars>>

-----------------------------------------------------------------------------
(* Properties *)

\* The values the program asked for last, of those it set.
Wanted(field) ==
  LET calls == {k \in 2..Len(asked) : asked[k][1] = field} IN
  IF calls = {} THEN asked[1][field] ELSE asked[Max(calls)][2]

\* An Ok mkfs, perhaps a second attempt, left a filesystem as it was asked for,
\* in whatever order the options were set; only ext2 never gets a journal.
FormatAsAsked ==
  result = "Ok" =>
    /\ image.fs_type = Wanted("fs_type") /\ image.block_size = Wanted("block_size")
    /\ image.journal <=> Wanted("journal") /\ Wanted("fs_type") # "Ext2"
    /\ image.uuid = IF Wanted("uuid") = None THEN NoUuid ELSE Wanted("uuid")

\* A label that fits comes back from stat as it was set, the one that fills the
\* field without a terminator included; of a longer one the beginning does.
LabelComesBack ==
  stats # None =>
    LET name == stats.volume_name
        label == IF Wanted("label") = None THEN <<>> ELSE Wanted("label")
    IN IF Len(Bytes(label)) <= NameLen THEN name = label
       ELSE \E k \in DOMAIN label :
              /\ name \in {SubSeq(label, 1, k), Append(SubSeq(label, 1, k - 1), "U+FFFD")}
              /\ Len(Bytes(SubSeq(label, 1, k))) \in NameLen..NameLen + 1

\* FsStats's sizes lie inside the device and add up: no product wraps.
SizesAddUp ==
  stats # None =>
    /\ TotalSize(stats) = stats.total_blocks * stats.block_size
    /\ TotalSize(stats) <= Length
    /\ FreeSize(stats) + UsedSize(stats) = TotalSize(stats)
=============================================================================
