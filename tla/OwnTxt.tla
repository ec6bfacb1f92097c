------------------------------- MODULE OwnTxt -------------------------------
(***************************************************************************)
(* parse_own_txt and format_own_txt (util.py): the file that gives a       *)
(* camera body its page parity and its id, read a line at a time.          *)
(*                                                                         *)
(* A line is what is left of it without byte order mark and white space: a *)
(* parity in any case, a well-formed id, an id= line that is not, nothing, *)
(* or anything else.                                                       *)
(***************************************************************************)
EXTENDS Integers, Sequences

CONSTANTS Side, Id, BadId, Noise, Blank, None, MaxLines

ASSUME OwnTxtAssumption ==
    /\ None \notin Side \cup Id
    /\ Side \cap Id = {}
    /\ {BadId, Noise, Blank, None} \cap (Side \cup Id) = {}
    /\ MaxLines \in Nat

Line == Side \cup Id \cup {BadId, Noise, Blank}

VARIABLES lines,      \* the file
          written,    \* history: what format_own_txt wrote it from, if it did
          next,       \* the line to look at
          side, id    \* what has been found

vars == <<lines, written, next, side, id>>

SlipParityNeeded(s, i) ==
    IF s # None THEN <<s>> \o (IF i # None THEN <<i>> ELSE <<>>) ELSE <<>>
Format(s, i) ==
    (IF s # None THEN <<s>> ELSE <<>>) \o (IF i # None THEN <<i>> ELSE <<>>)

TypeOK ==
    /\ lines \in Seq(Line)
    /\ written \in {<<>>} \cup ((Side \cup {None}) \X (Id \cup {None}))
    /\ next \in 1..(Len(lines) + 1)
    /\ side \in Side \cup {None} /\ id \in Id \cup {None}

Init ==
    /\ \/ /\ written = <<>>
          /\ \E n \in 0..MaxLines : lines \in [1..n -> Line]
       \/ /\ written \in (Side \cup {None}) \X (Id \cup {None})
          /\ lines = Format(written[1], written[2])
    /\ next = 1 /\ side = None /\ id = None

SlipLastSide(line) == line \in Side
TakesSide(line) == side = None /\ line \in Side

SlipAnyIdLine(line) == IF id = None /\ line \in Id \cup {BadId} THEN line ELSE id
IdAfter(line) == IF id = None /\ line \in Id THEN line ELSE id

ReadLine ==
    /\ next <= Len(lines)
    /\ LET line == lines[next]
       IN  \/ /\ TakesSide(line)
              /\ side' = line /\ id' = id
           \/ /\ ~TakesSide(line)
              /\ side' = side /\ id' = IdAfter(line)
    /\ next' = next + 1
    /\ UNCHANGED <<lines, written>>

Next == ReadLine

Spec == Init /\ [][Next]_vars

-----------------------------------------------------------------------------
IsFirst(found, set) ==
    LET at == {k \in 1..(next - 1) : lines[k] \in set}
    IN  \/ at = {} /\ found = None
        \/ \E k \in at : found = lines[k] /\ \A j \in at : k <= j

(* At every line the parity and the id are the first of their kind, and    *)
(* what is malformed shields nothing behind it (parse_own_txt).            *)
FirstOfEach == IsFirst(side, Side) /\ IsFirst(id, Id)

(* What format_own_txt writes parse_own_txt reads back, the id without a   *)
(* parity and the parity without an id included.                           *)
RoundTrip == written # <<>> /\ next > Len(lines) => written = <<side, id>>
=============================================================================
