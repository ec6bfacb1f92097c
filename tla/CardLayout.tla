----------------------------- MODULE CardLayout -----------------------------
(***************************************************************************)
(* How tools/flash_chdk.py judges a card from `diskutil list -plist`: does *)
(* it hold a filesystem, is it positively blank, and is the first          *)
(* partition the only place where an OWN.TXT could be.                     *)
(*                                                                         *)
(* A layout is [list, entries]: whether AllDisksAndPartitions is a list,   *)
(* and its entries.  An entry is [dict, ours, shape, content, lists,       *)
(* volumes]: whether it is a dictionary, describes the disk asked about,   *)
(* has the keys every whole disk has, what its Content names, whether      *)
(* Partitions and APFSVolumes are lists, and the two joined.  A volume is  *)
(* [dict, first, fs]: a dictionary, named diskNs1, with a Content, a name  *)
(* or a mount point.                                                       *)
(***************************************************************************)
EXTENDS Integers, Sequences

Volume == [dict : BOOLEAN, first : BOOLEAN, fs : BOOLEAN]
Content == {"none", "scheme", "filesystem"}
Entry == [dict : BOOLEAN, ours : BOOLEAN, shape : BOOLEAN, content : Content,
          lists : BOOLEAN, volumes : Seq(Volume)]
Layout == [list : BOOLEAN, entries : Seq(Entry)]

OnlyAScheme(entry) == entry.content \in {"none", "scheme"}

(* What one volume, and what one entry, settles by itself; "nothing" when  *)
(* the next has to be looked at.  The first that settles it decides.       *)
VolumeVerdict(volume) ==
    IF ~volume.dict THEN "unknown" ELSE IF volume.fs THEN "filesystem" ELSE "nothing"

First(verdicts) ==
    LET settled == {i \in DOMAIN verdicts : verdicts[i] # "nothing"}
    IN  IF settled = {} THEN "nothing"
        ELSE verdicts[CHOOSE i \in settled : \A j \in settled : i <= j]

EntryVerdict(entry) ==
    IF ~OnlyAScheme(entry) THEN "filesystem"
    ELSE IF ~entry.lists THEN "unknown"
    ELSE First([i \in DOMAIN entry.volumes |-> VolumeVerdict(entry.volumes[i])])

Describes(entry) == entry.dict /\ entry.ours

(* The entries for the disk asked about; a layout needs exactly one.       *)
Described(layout) == {i \in DOMAIN layout.entries : Describes(layout.entries[i])}

SlipNothingFoundIsBlank(entry) == TRUE
RecognizablyBlank(entry) ==
    /\ entry.shape
    /\ OnlyAScheme(entry)
    /\ entry.lists => entry.volumes = <<>>

Classify(layout) ==
    LET entries == layout.entries
        verdict == First([i \in DOMAIN entries |-> EntryVerdict(entries[i])])
    IN  IF ~layout.list \/ entries = <<>> \/ \E i \in DOMAIN entries : ~entries[i].dict
        THEN "unknown"
        ELSE IF verdict # "nothing" THEN verdict
        ELSE IF \E i \in DOMAIN entries :
                   Described(layout) = {i} /\ RecognizablyBlank(entries[i])
             THEN "blank"
        ELSE "unknown"

OnlyTheFirst(volumes) == Len(volumes) = 1 /\ volumes[1].dict /\ volumes[1].first

Inspectable(layout) ==
    /\ layout.list
    /\ \E i \in DOMAIN layout.entries :
          /\ Described(layout) = {i}
          /\ layout.entries[i].lists /\ OnlyTheFirst(layout.entries[i].volumes)
=============================================================================
