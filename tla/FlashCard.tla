------------------------------ MODULE FlashCard ------------------------------
(***************************************************************************)
(* tools/flash_chdk.py run over and over on one card: download, confirm,   *)
(* salvage OWN.TXT, erase, extract, patch, write OWN.TXT back.  Any step   *)
(* may fail and end the run, and what a run leaves on the card and in the  *)
(* download cache is what the next one finds.                              *)
(*                                                                         *)
(* What diskutil reports of a card is external: any layout of Layouts that *)
(* does not leave out a filesystem the card has (Tells).                   *)
(***************************************************************************)
EXTENDS CardLayout

CONSTANTS Layouts, NoSide, NoId, MaxRuns

Side == {"ODD", "EVEN"}
Minted == 1..MaxRuns                 \* secrets.token_hex: a new id each time
Id == {0} \cup Minted                \* 0 is the id the card came with
Place == {"first", "second", "device"}

ASSUME FlashAssumption ==
    /\ Layouts \subseteq Layout
    /\ MaxRuns \in Nat \ {0}
    /\ NoSide \notin Side /\ NoId \notin Id

VARIABLES
    pc,            \* the step of main() that is next; "off" between two runs
    cache,         \* the archive under ~/.cache: "absent", "partial" or "whole"
    holds,         \* the places on the card with a filesystem
    kept,          \* the place that holds OWN.TXT
    side, id,      \* what OWN.TXT parses to (parse_own_txt)
    salvaged,      \* existing_side, existing_id
    before,        \* history: side and id when the run began
    choice,        \* history: the operator's answer, in the run that is done
    runs

card == <<holds, kept, side, id>>
vars == <<pc, cache, card, salvaged, before, choice, runs>>

Nothing == [side |-> NoSide, id |-> NoId]
OwnTxt == [side : Side \cup {NoSide}, id : Id \cup {NoId}]

TypeOK ==
    /\ pc \in {"off", "download", "pick", "salvage", "format", "extract",
               "patch", "mount", "own", "eject", "done"}
    /\ cache \in {"absent", "partial", "whole"}
    /\ holds \subseteq Place /\ kept \in Place
    /\ [side |-> side, id |-> id] \in OwnTxt
    /\ salvaged \in OwnTxt /\ before \in OwnTxt
    /\ choice \in Side \cup {NoSide}
    /\ runs \in 0..MaxRuns

Init ==
    /\ pc = "off" /\ cache = "absent"
    /\ holds \in {{}, {"first"}, {"first", "second"}, {"second"}, {"device"}}
    /\ kept \in IF holds = {} THEN {"first"} ELSE holds
    /\ side \in IF holds = {} THEN {NoSide} ELSE Side \cup {NoSide}
    /\ id \in IF holds = {} THEN {NoId} ELSE {0, NoId}
    /\ salvaged = Nothing /\ before = Nothing /\ choice = NoSide
    /\ runs = 0

-----------------------------------------------------------------------------
(* diskutil leaves nothing out of an entry it fills in: a disk with the    *)
(* keys of a whole disk, or with any volume at all, lists every volume,    *)
(* and a volume with a filesystem shows it.                                *)
Tells(layout) ==
    \A i \in DOMAIN layout.entries :
        LET entry == layout.entries[i]
            Lists(first) == \E j \in DOMAIN entry.volumes :
                               /\ entry.volumes[j].dict
                               /\ entry.volumes[j].first = first
                               /\ entry.volumes[j].fs
        IN  (entry.dict /\ entry.ours /\ entry.lists
                /\ (entry.shape \/ entry.volumes # <<>>))
            => /\ "first" \in holds => Lists(TRUE)
               /\ "second" \in holds => Lists(FALSE)
               /\ "device" \in holds => entry.content = "filesystem"

Exit == pc' = "off" /\ UNCHANGED <<holds, kept, side, id, salvaged, before, choice, runs>>

Start ==
    /\ pc \in {"off", "done"} /\ runs < MaxRuns
    /\ pc' = "download" /\ runs' = runs + 1
    /\ before' = [side |-> side, id |-> id]
    /\ salvaged' = Nothing /\ choice' = NoSide
    /\ UNCHANGED <<cache, card>>

Download ==                          \* a file that exists is taken as it is
    /\ pc = "download"
    /\ pc' = "pick"
    /\ cache' = IF cache = "absent" THEN "whole" ELSE cache
    /\ UNCHANGED <<card, salvaged, before, choice, runs>>

DownloadFails ==                     \* urlretrieve writes to the cached file
    /\ pc = "download" /\ cache = "absent"
    /\ cache' \in {"absent", "partial"}
    /\ Exit

Confirm ==
    /\ pc = "pick"
    /\ pc' = "salvage"
    /\ UNCHANGED <<cache, card, salvaged, before, choice, runs>>

Decline == pc = "pick" /\ Exit /\ UNCHANGED cache

-----------------------------------------------------------------------------
(* read_existing_own_txt: each way to go on to the erase, and all others   *)
(* stop the run.                                                           *)
Blank == {layout \in Layouts : Classify(layout) = "blank"}
Readable == {layout \in Layouts : Classify(layout) = "filesystem" /\ Inspectable(layout)}

Salvage ==
    /\ pc = "salvage"
    /\ \/ /\ \E layout \in Blank : Tells(layout)
          /\ salvaged' = Nothing
       \/ /\ \E layout \in Readable : Tells(layout)
          /\ "first" \in holds                              \* s1 mounts
          /\ salvaged' = IF kept = "first" THEN [side |-> side, id |-> id]
                         ELSE Nothing                       \* no OWN.TXT there
    /\ pc' = "format"
    /\ UNCHANGED <<cache, card, before, choice, runs>>

(* The layout is unreadable, unknown or not inspectable; or the partition  *)
(* will not mount, or its OWN.TXT cannot be read.                          *)
Stop == pc = "salvage" /\ Exit /\ UNCHANGED cache

Erased == kept' = "first" /\ side' = NoSide /\ id' = NoId

Format ==
    /\ pc = "format"
    /\ Erased /\ holds' = {"first"}
    /\ pc' \in {"extract", "off"}    \* "off": it did not come back mounted
    /\ UNCHANGED <<cache, salvaged, before, choice, runs>>

FormatFails ==                       \* before anything is erased, or after it
    /\ pc = "format"
    /\ \/ UNCHANGED card
       \/ Erased /\ holds' \in {{}, {"first"}}
    /\ pc' = "off"
    /\ UNCHANGED <<cache, salvaged, before, choice, runs>>

Extract ==
    /\ pc = "extract" /\ cache = "whole"
    /\ pc' = "patch"
    /\ UNCHANGED <<cache, card, salvaged, before, choice, runs>>

Patch ==
    /\ pc = "patch"
    /\ pc' = "mount"
    /\ UNCHANGED <<cache, card, salvaged, before, choice, runs>>

Mount ==
    /\ pc = "mount"
    /\ pc' = "own"
    /\ UNCHANGED <<cache, card, salvaged, before, choice, runs>>

(* A short archive, a dd that failed, a card that will not mount again.    *)
Fails ==
    /\ pc \in {"extract", "patch", "mount", "eject"}
    /\ Exit /\ UNCHANGED cache

-----------------------------------------------------------------------------
(* write_camera_side *)

SideFor(answer) ==
    LET asked == IF answer # NoSide THEN answer ELSE salvaged.side
    IN  IF asked # NoSide THEN asked ELSE side

SlipMintForASide(answer) ==
    IF answer # NoSide THEN runs ELSE IF salvaged.id # NoId THEN salvaged.id ELSE id
SlipLateMint(answer) ==
    IF salvaged.id # NoId THEN salvaged.id ELSE IF id # NoId THEN id
    ELSE IF SideFor(answer) # NoSide THEN runs + 1 ELSE NoId
IdFor(answer) ==
    IF salvaged.id # NoId THEN salvaged.id ELSE IF id # NoId THEN id
    ELSE IF SideFor(answer) # NoSide THEN runs ELSE NoId

WriteCameraSide ==                   \* neither parity nor id: no file
    /\ pc = "own"
    /\ \E answer \in Side \cup {NoSide} :
          /\ choice' = answer
          /\ side' = SideFor(answer) /\ id' = IdFor(answer)
    /\ pc' = "eject"
    /\ UNCHANGED <<cache, holds, kept, salvaged, before, runs>>

WriteFails ==                        \* the file is truncated first
    /\ pc = "own"
    /\ side' = NoSide /\ id' = NoId
    /\ pc' = "off"
    /\ UNCHANGED <<cache, holds, kept, salvaged, before, choice, runs>>

Eject ==
    /\ pc = "eject"
    /\ pc' = "done"
    /\ UNCHANGED <<cache, card, salvaged, before, choice, runs>>

Next ==
    \/ Start \/ Download \/ DownloadFails \/ Confirm \/ Decline
    \/ Salvage \/ Stop \/ Format \/ FormatFails
    \/ Extract \/ Patch \/ Mount \/ Fails
    \/ WriteCameraSide \/ WriteFails \/ Eject

Spec == Init /\ [][Next]_vars

-----------------------------------------------------------------------------
(* Whatever diskutil reports and wherever OWN.TXT lies, the card is erased *)
(* only with its side and id in hand (read_existing_own_txt).              *)
ErasesOnlyWhatItRead ==
    [][pc = "format" /\ card' # card => salvaged = [side |-> side, id |-> id]]_vars

(* A run that gets to its end leaves the body the id it had, and the       *)
(* parity it had where the operator set none (write_camera_side).          *)
DoneKeepsIdentity ==
    pc = "done" =>
        /\ before.id # NoId => id = before.id
        /\ choice = NoSide => side = before.side
        /\ choice # NoSide => side = choice /\ id # NoId
=============================================================================
