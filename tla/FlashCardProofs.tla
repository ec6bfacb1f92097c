--------------------------- MODULE FlashCardProofs ---------------------------
(***************************************************************************)
(* FlashCard for every set of layouts and any number of runs: the          *)
(* variables keep their ranges, a card is erased only with its identity in *)
(* hand, and a run that gets to its end leaves that identity on the card.  *)
(***************************************************************************)
EXTENDS FlashCard, FiniteSetTheorems, WellFoundedInduction, TLAPS

(* What the card shows now, as Salvage reads it.                           *)
Identity == [side |-> side, id |-> id]

(* A filesystem over the whole disk leaves no room for partitions; OWN.TXT *)
(* lies on a filesystem, and without one there is no identity.             *)
CardInv ==
    /\ "device" \in holds => holds = {"device"}
    /\ holds # {} => kept \in holds
    /\ holds = {} => Identity = Nothing

(* The side and the id that the card had when the run began are on the     *)
(* card until the erase, in salvaged from the salvage on, and on the card  *)
(* again after OWN.TXT is written.                                         *)
RunInv ==
    /\ pc # "off" => runs > 0
    /\ pc \in {"download", "pick", "salvage", "format"} => Identity = before
    /\ pc \in {"format", "extract", "patch", "mount", "own"} => salvaged = before
    /\ pc \in {"extract", "patch", "mount", "own"} =>
          holds = {"first"} /\ kept = "first" /\ Identity = Nothing
    /\ pc \in {"eject", "done"} =>
          /\ before.id # NoId => id = before.id
          /\ choice = NoSide => side = before.side
          /\ choice # NoSide => side = choice /\ id # NoId

FlashInv == TypeOK /\ CardInv /\ RunInv

-----------------------------------------------------------------------------
(* Every set of numbers from 1 on has a least one.                         *)
LEMMA LeastElement ==
    ASSUME NEW S, S \subseteq Nat \ {0}, S # {}
    PROVE  \E i \in S : \A j \in S : i <= j
<1> DEFINE Family == {1..k : k \in S}
           Smaller == StrictSubsetOrdering(Nat)
<1>1. Family \subseteq FiniteSubsetsOf(Nat)
    <2> SUFFICES ASSUME NEW k \in S
                 PROVE  1..k \in SUBSET Nat /\ IsFiniteSet(1..k)
        BY DEF FiniteSubsetsOf
    <2>1. k \in Int /\ 1 \in Int
        OBVIOUS
    <2>2. IsFiniteSet(1..k)
        BY <2>1, FS_Interval
    <2> QED BY <2>1, <2>2
<1>2. Family # {}
    OBVIOUS
<1>3. IsWellFoundedOn(Smaller, FiniteSubsetsOf(Nat))
    BY FS_StrictSubsetOrderingWellFounded
<1>4. \A i, j \in S : j < i => <<1..j, 1..i>> \in Smaller
    <2> SUFFICES ASSUME NEW i \in S, NEW j \in S, j < i
                 PROVE  /\ 1..j \in SUBSET Nat /\ 1..i \in SUBSET Nat
                        /\ 1..j \subseteq 1..i /\ 1..j # 1..i
        BY DEF StrictSubsetOrdering
    <2>1. i \in 1..i /\ i \notin 1..j
        OBVIOUS
    <2> QED BY <2>1
<1>5. PICK low \in Family : \A T \in Family : ~(<<T, low>> \in Smaller)
    <2> HIDE DEF Family, Smaller
    <2> QED BY <1>1, <1>2, <1>3, WFMin
<1>6. PICK i \in S : low = 1..i
    BY <1>5
<1>7. ASSUME NEW j \in S PROVE i <= j
    <2> HIDE DEF Smaller
    <2>1. ~(<<1..j, 1..i>> \in Smaller)
        BY <1>5, <1>6
    <2>2. ~(j < i)
        BY <2>1, <1>4
    <2> QED BY <2>2
<1> QED BY <1>7

(* The first verdict that settles it is one of them, and there is none     *)
(* only when they are all "nothing".                                       *)
LEMMA FirstSettles ==
    ASSUME NEW n \in Nat, NEW verdicts, DOMAIN verdicts = 1..n
    PROVE  \/ /\ First(verdicts) = "nothing"
              /\ \A i \in DOMAIN verdicts : verdicts[i] = "nothing"
           \/ /\ First(verdicts) # "nothing"
              /\ \E i \in DOMAIN verdicts : First(verdicts) = verdicts[i]
<1> DEFINE settled == {i \in DOMAIN verdicts : verdicts[i] # "nothing"}
           first == CHOOSE i \in settled : \A j \in settled : i <= j
<1>1. CASE settled = {}
    BY <1>1 DEF First
<1>2. CASE settled # {}
    <2>1. settled \subseteq Nat \ {0}
        OBVIOUS
    <2>2. first \in settled
        <3> HIDE DEF settled
        <3>1. \E i \in settled : \A j \in settled : i <= j
            BY <1>2, <2>1, LeastElement
        <3> QED BY <3>1
    <2>3. First(verdicts) = verdicts[first]
        BY <1>2 DEF First
    <2> QED BY <2>2, <2>3
<1> QED BY <1>1, <1>2

(* No volume and no entry is ever judged blank by itself.                  *)
LEMMA VerdictIsNeverBlank ==
    ASSUME NEW entry \in Entry
    PROVE  EntryVerdict(entry) # "blank"
<1> DEFINE verdicts == [i \in DOMAIN entry.volumes |-> VolumeVerdict(entry.volumes[i])]
<1>1. \A i \in DOMAIN verdicts : verdicts[i] # "blank"
    BY DEF VolumeVerdict
<1>2. First(verdicts) # "blank"
    <2>1. entry.volumes \in Seq(Volume)
        BY DEF Entry
    <2>2. Len(entry.volumes) \in Nat /\ DOMAIN verdicts = 1..Len(entry.volumes)
        BY <2>1
    <2> HIDE DEF verdicts
    <2> QED BY <1>1, <2>2, FirstSettles
<1> QED BY <1>2 DEF EntryVerdict

(* A layout that is called blank, of a card whose layout tells, shows a    *)
(* card without any filesystem.                                            *)
LEMMA BlankHoldsNothing ==
    ASSUME NEW layout \in Layout, Classify(layout) = "blank", Tells(layout),
           holds \subseteq Place
    PROVE  holds = {}
<1> DEFINE entries == layout.entries
           verdicts == [i \in DOMAIN entries |-> EntryVerdict(entries[i])]
<1>1. entries \in Seq(Entry) /\ Len(entries) \in Nat /\ DOMAIN entries = 1..Len(entries)
    BY DEF Layout
<1>2. /\ First(verdicts) = "nothing"
      /\ \E i \in DOMAIN entries : Described(layout) = {i} /\ RecognizablyBlank(entries[i])
    <2>1. First(verdicts) # "blank"
        <3>1. \A i \in DOMAIN verdicts : verdicts[i] # "blank"
            BY <1>1, VerdictIsNeverBlank
        <3>2. DOMAIN verdicts = 1..Len(entries)
            BY <1>1
        <3> HIDE DEF verdicts
        <3> QED BY <1>1, <3>1, <3>2, FirstSettles
    <2>2. First(verdicts) = "nothing"
        BY <2>1 DEF Classify
    <2>3. \E i \in DOMAIN entries : Described(layout) = {i} /\ RecognizablyBlank(entries[i])
        BY <2>2 DEF Classify
    <2> QED BY <2>2, <2>3
<1>3. PICK i \in DOMAIN entries : Described(layout) = {i} /\ RecognizablyBlank(entries[i])
    BY <1>2
<1>4. verdicts[i] = "nothing"
    <2>1. DOMAIN verdicts = 1..Len(entries)
        BY <1>1
    <2> HIDE DEF verdicts
    <2> QED BY <1>1, <1>2, <2>1, FirstSettles
<1>5. EntryVerdict(entries[i]) = "nothing"
    BY <1>4
<1>6. entries[i].lists
    BY <1>5 DEF EntryVerdict
<1>7. Describes(entries[i])
    BY <1>3 DEF Described
<1>8. /\ entries[i].shape /\ entries[i].volumes = <<>>
      /\ entries[i].content # "filesystem"
    BY <1>3, <1>6 DEF RecognizablyBlank, OnlyAScheme
<1>9. DOMAIN entries[i].volumes = {}
    BY <1>8
<1>10. "first" \notin holds /\ "second" \notin holds /\ "device" \notin holds
    BY <1>6, <1>7, <1>8, <1>9 DEF Tells, Describes
<1> QED BY <1>10 DEF Place

(* A layout that can be inspected, of a card whose layout tells, shows a   *)
(* card with nothing behind its first partition.                           *)
LEMMA InspectableHoldsOnlyTheFirst ==
    ASSUME NEW layout \in Layout, Inspectable(layout), Tells(layout)
    PROVE  "second" \notin holds
<1> DEFINE entries == layout.entries
<1>1. PICK i \in DOMAIN entries :
         /\ Described(layout) = {i}
         /\ entries[i].lists /\ OnlyTheFirst(entries[i].volumes)
    BY DEF Inspectable
<1>2. Describes(entries[i])
    BY <1>1 DEF Described
<1>3. entries[i].volumes \in Seq(Volume)
    <2>1. entries \in Seq(Entry)
        BY DEF Layout
    <2>2. entries[i] \in Entry
        BY <1>1, <2>1
    <2> QED BY <2>2 DEF Entry
<1>4. DOMAIN entries[i].volumes = {1} /\ entries[i].volumes # <<>>
    BY <1>1, <1>3 DEF OnlyTheFirst
<1>5. entries[i].volumes[1].first
    BY <1>1 DEF OnlyTheFirst
<1>6. entries[i].volumes[1] \in Volume
    BY <1>3, <1>4
<1>7. ~(entries[i].volumes[1].first = FALSE)
    BY <1>5, <1>6 DEF Volume
<1> QED BY <1>1, <1>2, <1>4, <1>7 DEF Tells, Describes

-----------------------------------------------------------------------------
LEMMA FlashInit == Init => FlashInv
<1> SUFFICES ASSUME Init PROVE FlashInv
    OBVIOUS
<1>1. TypeOK
    BY FlashAssumption DEF Init, TypeOK, Place, OwnTxt, Id, Nothing
<1>2. CardInv
    BY DEF Init, CardInv, Identity, Nothing
<1>3. RunInv
    BY DEF Init, RunInv
<1> QED BY <1>1, <1>2, <1>3 DEF FlashInv

(* The erase is next only with the card's identity in hand.                *)
LEMMA SalvageReads ==
    ASSUME FlashInv, Salvage
    PROVE  salvaged' = Identity
<1>1. TypeOK /\ CardInv
    BY DEF FlashInv
<1>2. holds \subseteq Place
    BY <1>1 DEF TypeOK
<1>3. CASE /\ \E layout \in Blank : Tells(layout)
           /\ salvaged' = Nothing
    <2>1. PICK layout \in Layouts : Classify(layout) = "blank" /\ Tells(layout)
        BY <1>3 DEF Blank
    <2>2. holds = {}
        BY <1>2, <2>1, FlashAssumption, BlankHoldsNothing
    <2> QED BY <1>1, <1>3, <2>2 DEF CardInv
<1>4. CASE /\ \E layout \in Readable : Tells(layout)
           /\ "first" \in holds
           /\ salvaged' = IF kept = "first" THEN [side |-> side, id |-> id] ELSE Nothing
    <2>1. PICK layout \in Layouts : Inspectable(layout) /\ Tells(layout)
        BY <1>4 DEF Readable
    <2>2. "second" \notin holds
        BY <2>1, FlashAssumption, InspectableHoldsOnlyTheFirst
    <2>3. "device" \notin holds
        BY <1>1, <1>4 DEF CardInv
    <2>4. kept = "first"
        BY <1>1, <1>2, <1>4, <2>2, <2>3 DEF CardInv, Place
    <2> QED BY <1>4, <2>4 DEF Identity
<1> QED BY <1>3, <1>4 DEF Salvage

LEMMA FlashStep ==
    ASSUME FlashInv, [Next]_vars
    PROVE  FlashInv'
<1> USE FlashAssumption
<1>1. TypeOK /\ CardInv /\ RunInv
    BY DEF FlashInv
<1>2. CASE Start
    <2>1. TypeOK'
        BY <1>1, <1>2 DEF Start, TypeOK, OwnTxt, Nothing, card
    <2>2. CardInv'
        BY <1>1, <1>2 DEF Start, CardInv, Identity, card
    <2>3. RunInv'
        BY <1>1, <1>2 DEF Start, RunInv, TypeOK, Identity, card
    <2> QED BY <2>1, <2>2, <2>3 DEF FlashInv
<1>3. CASE Download
    <2>1. TypeOK'
        BY <1>1, <1>3 DEF Download, TypeOK, card
    <2>2. CardInv'
        BY <1>1, <1>3 DEF Download, CardInv, Identity, card
    <2>3. RunInv'
        BY <1>1, <1>3 DEF Download, RunInv, Identity, card
    <2> QED BY <2>1, <2>2, <2>3 DEF FlashInv
<1>4. CASE DownloadFails
    <2>1. TypeOK'
        BY <1>1, <1>4 DEF DownloadFails, Exit, TypeOK, card
    <2>2. CardInv'
        BY <1>1, <1>4 DEF DownloadFails, Exit, CardInv, Identity, card
    <2>3. RunInv'
        BY <1>1, <1>4 DEF DownloadFails, Exit, RunInv, Identity, card
    <2> QED BY <2>1, <2>2, <2>3 DEF FlashInv
<1>5. CASE Confirm
    <2>1. TypeOK'
        BY <1>1, <1>5 DEF Confirm, TypeOK, card
    <2>2. CardInv'
        BY <1>1, <1>5 DEF Confirm, CardInv, Identity, card
    <2>3. RunInv'
        BY <1>1, <1>5 DEF Confirm, RunInv, Identity, card
    <2> QED BY <2>1, <2>2, <2>3 DEF FlashInv
<1>6. CASE Decline
    <2>1. TypeOK'
        BY <1>1, <1>6 DEF Decline, Exit, TypeOK, card
    <2>2. CardInv'
        BY <1>1, <1>6 DEF Decline, Exit, CardInv, Identity, card
    <2>3. RunInv'
        BY <1>1, <1>6 DEF Decline, Exit, RunInv, Identity, card
    <2> QED BY <2>1, <2>2, <2>3 DEF FlashInv
<1>7. CASE Salvage
    <2>1. salvaged' = Identity
        BY <1>7, SalvageReads
    <2>2. TypeOK'
        BY <1>1, <1>7, <2>1 DEF Salvage, TypeOK, card, Identity
    <2>3. CardInv'
        BY <1>1, <1>7 DEF Salvage, CardInv, Identity, card
    <2>4. RunInv'
        BY <1>1, <1>7, <2>1 DEF Salvage, RunInv, Identity, card
    <2> QED BY <2>2, <2>3, <2>4 DEF FlashInv
<1>8. CASE Stop
    <2>1. TypeOK'
        BY <1>1, <1>8 DEF Stop, Exit, TypeOK, card
    <2>2. CardInv'
        BY <1>1, <1>8 DEF Stop, Exit, CardInv, Identity, card
    <2>3. RunInv'
        BY <1>1, <1>8 DEF Stop, Exit, RunInv, Identity, card
    <2> QED BY <2>1, <2>2, <2>3 DEF FlashInv
<1>9. CASE Format
    <2>1. TypeOK'
        BY <1>1, <1>9 DEF Format, Erased, TypeOK, OwnTxt, Place, card
    <2>2. CardInv'
        BY <1>1, <1>9 DEF Format, Erased, CardInv, Nothing, Identity, card
    <2>3. RunInv'
        BY <1>1, <1>9 DEF Format, Erased, RunInv, Nothing, Identity, card
    <2> QED BY <2>1, <2>2, <2>3 DEF FlashInv
<1>10. CASE FormatFails
    <2>1. TypeOK'
        BY <1>1, <1>10 DEF FormatFails, Erased, TypeOK, OwnTxt, Place, card
    <2>2. CardInv'
        BY <1>1, <1>10 DEF FormatFails, Erased, CardInv, Nothing, Identity, card
    <2>3. RunInv'
        BY <1>1, <1>10 DEF FormatFails, RunInv
    <2> QED BY <2>1, <2>2, <2>3 DEF FlashInv
<1>11. CASE Extract
    <2>1. TypeOK'
        BY <1>1, <1>11 DEF Extract, TypeOK, card
    <2>2. CardInv'
        BY <1>1, <1>11 DEF Extract, CardInv, Identity, card
    <2>3. RunInv'
        BY <1>1, <1>11 DEF Extract, RunInv, Identity, card
    <2> QED BY <2>1, <2>2, <2>3 DEF FlashInv
<1>12. CASE Patch
    <2>1. TypeOK'
        BY <1>1, <1>12 DEF Patch, TypeOK, card
    <2>2. CardInv'
        BY <1>1, <1>12 DEF Patch, CardInv, Identity, card
    <2>3. RunInv'
        BY <1>1, <1>12 DEF Patch, RunInv, Identity, card
    <2> QED BY <2>1, <2>2, <2>3 DEF FlashInv
<1>13. CASE Mount
    <2>1. TypeOK'
        BY <1>1, <1>13 DEF Mount, TypeOK, card
    <2>2. CardInv'
        BY <1>1, <1>13 DEF Mount, CardInv, Identity, card
    <2>3. RunInv'
        BY <1>1, <1>13 DEF Mount, RunInv, Identity, card
    <2> QED BY <2>1, <2>2, <2>3 DEF FlashInv
<1>14. CASE Fails
    <2>1. TypeOK'
        BY <1>1, <1>14 DEF Fails, Exit, TypeOK, card
    <2>2. CardInv'
        BY <1>1, <1>14 DEF Fails, Exit, CardInv, Identity, card
    <2>3. RunInv'
        BY <1>1, <1>14 DEF Fails, Exit, RunInv, Identity, card
    <2> QED BY <2>1, <2>2, <2>3 DEF FlashInv
<1>15. CASE WriteCameraSide
    <2>1. TypeOK'
        BY <1>1, <1>15
        DEF WriteCameraSide, TypeOK, RunInv, Identity, OwnTxt, SideFor, IdFor,
            Id, Minted, Nothing, card
    <2>2. CardInv'
        BY <1>1, <1>15 DEF WriteCameraSide, CardInv, RunInv, Nothing, Identity, card
    <2>3. RunInv'
        BY <1>1, <1>15
        DEF WriteCameraSide, RunInv, TypeOK, Identity, OwnTxt, SideFor, IdFor,
            Id, Minted, Nothing, card
    <2> QED BY <2>1, <2>2, <2>3 DEF FlashInv
<1>16. CASE WriteFails
    <2>1. TypeOK'
        BY <1>1, <1>16 DEF WriteFails, TypeOK, OwnTxt, card
    <2>2. CardInv'
        BY <1>1, <1>16 DEF WriteFails, CardInv, RunInv, Nothing, Identity, card
    <2>3. RunInv'
        BY <1>1, <1>16 DEF WriteFails, RunInv, Identity, card
    <2> QED BY <2>1, <2>2, <2>3 DEF FlashInv
<1>17. CASE Eject
    <2>1. TypeOK'
        BY <1>1, <1>17 DEF Eject, TypeOK, card
    <2>2. CardInv'
        BY <1>1, <1>17 DEF Eject, CardInv, Identity, card
    <2>3. RunInv'
        BY <1>1, <1>17 DEF Eject, RunInv, Identity, card
    <2> QED BY <2>1, <2>2, <2>3 DEF FlashInv
<1>18. CASE UNCHANGED vars
    BY <1>1, <1>18 DEF vars, card, FlashInv, TypeOK, CardInv, RunInv, Identity
<1> QED BY <1>2, <1>3, <1>4, <1>5, <1>6, <1>7, <1>8, <1>9,
          <1>10, <1>11, <1>12, <1>13, <1>14, <1>15, <1>16, <1>17,
          <1>18 DEF Next

LEMMA FlashAlways == Spec => []FlashInv
<1> QED BY FlashInit, FlashStep, PTL DEF Spec

-----------------------------------------------------------------------------
(* Every variable of the flasher and of the card keeps its range, for any  *)
(* number of runs of main().                                               *)
THEOREM TypeCorrect == Spec => []TypeOK
<1>1. FlashInv => TypeOK
    BY DEF FlashInv
<1> QED BY <1>1, FlashAlways, PTL

(* Whatever layouts diskutil may report of cards, read_existing_own_txt    *)
(* lets a run go on to the erase only with the card's side and id in hand. *)
THEOREM NothingErasedUnread == Spec => ErasesOnlyWhatItRead
<1>1. FlashInv /\ [Next]_vars
        => [pc = "format" /\ card' # card => salvaged = [side |-> side, id |-> id]]_vars
    BY DEF FlashInv, RunInv, Identity
<1> QED BY <1>1, FlashAlways, PTL DEF Spec, ErasesOnlyWhatItRead

(* A run of main() that gets to its end leaves the id the card had, and    *)
(* the parity it had where the operator set none.                          *)
THEOREM IdentitySurvivesARun == Spec => []DoneKeepsIdentity
<1>1. FlashInv => DoneKeepsIdentity
    BY DEF FlashInv, RunInv, DoneKeepsIdentity
<1> QED BY <1>1, FlashAlways, PTL
=============================================================================
