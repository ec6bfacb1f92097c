---------------------------- MODULE OwnTxtProofs ----------------------------
(***************************************************************************)
(* parse_own_txt finds the first parity and the first id of any file.      *)
(***************************************************************************)
EXTENDS OwnTxt, TLAPS

(* Every variable keeps its range: what counts as an id is well-formed.    *)
THEOREM TypeCorrect == Spec => []TypeOK
<1>1. Init => TypeOK
  <2> SUFFICES ASSUME Init PROVE TypeOK
    OBVIOUS
  <2>1. CASE written = <<>> /\ \E n \in 0..MaxLines : lines \in [1..n -> Line]
    <3>1. PICK n \in 0..MaxLines : lines \in [1..n -> Line]
      BY <2>1
    <3>2. n \in Nat
      BY OwnTxtAssumption DEF OwnTxtAssumption
    <3>3. lines \in Seq(Line) /\ Len(lines) = n
      BY <3>1, <3>2
    <3> QED BY <2>1, <3>2, <3>3 DEF Init, TypeOK
  <2>2. CASE /\ written \in (Side \cup {None}) \X (Id \cup {None})
             /\ lines = Format(written[1], written[2])
    <3>1. written[1] \in Side \cup {None} /\ written[2] \in Id \cup {None}
      BY <2>2
    <3> DEFINE s == IF written[1] # None THEN <<written[1]>> ELSE <<>>
               i == IF written[2] # None THEN <<written[2]>> ELSE <<>>
    <3>2. s \in Seq(Line)
      <4>1. \A x \in Line : <<x>> \in Seq(Line)
        OBVIOUS
      <4>2. written[1] # None => written[1] \in Line
        BY <3>1 DEF Line
      <4>3. <<>> \in Seq(Line)
        OBVIOUS
      <4> QED BY <4>1, <4>2, <4>3
    <3>3. i \in Seq(Line)
      <4>1. \A x \in Line : <<x>> \in Seq(Line)
        OBVIOUS
      <4>2. written[2] # None => written[2] \in Line
        BY <3>1 DEF Line
      <4>3. <<>> \in Seq(Line)
        OBVIOUS
      <4> QED BY <4>1, <4>2, <4>3
    <3>4. lines = s \o i
      BY <2>2 DEF Format
    <3> HIDE DEF s, i
    <3>5. lines \in Seq(Line) /\ Len(lines) \in Nat
      BY <3>2, <3>3, <3>4
    <3> QED BY <2>2, <3>5 DEF Init, TypeOK
  <2> QED BY <2>1, <2>2 DEF Init
<1>2. TypeOK /\ [Next]_vars => TypeOK'
  <2> SUFFICES ASSUME TypeOK, [Next]_vars PROVE TypeOK'
    OBVIOUS
  <2>1. CASE ReadLine
    <3>1. next' \in 1..(Len(lines) + 1)
      BY <2>1 DEF ReadLine, TypeOK
    <3>2. side' \in Side \cup {None} /\ id' \in Id \cup {None}
      BY <2>1 DEF ReadLine, TakesSide, IdAfter, TypeOK
    <3> QED BY <2>1, <3>1, <3>2 DEF ReadLine, TypeOK
  <2>2. CASE UNCHANGED vars
    BY <2>2 DEF vars, TypeOK
  <2> QED BY <2>1, <2>2 DEF Next
<1> QED BY <1>1, <1>2, PTL DEF Spec

(* The parity that has been found is the first of the lines read so far,   *)
(* and so is the id (parse_own_txt).                                       *)
THEOREM FindsTheFirst == Spec => []FirstOfEach
<1>1. Init => FirstOfEach
  <2> SUFFICES ASSUME Init PROVE FirstOfEach
    OBVIOUS
  <2>1. {k \in 1..(next - 1) : lines[k] \in Side} = {}
        /\ {k \in 1..(next - 1) : lines[k] \in Id} = {}
    BY DEF Init
  <2> QED BY <2>1 DEF Init, FirstOfEach, IsFirst
<1>2. TypeOK /\ FirstOfEach /\ [Next]_vars => FirstOfEach'
  <2> SUFFICES ASSUME TypeOK, FirstOfEach, [Next]_vars PROVE FirstOfEach'
    OBVIOUS
  <2>1. CASE ReadLine
    <3> DEFINE line == lines[next]
               sides == {k \in 1..(next - 1) : lines[k] \in Side}
               ids   == {k \in 1..(next - 1) : lines[k] \in Id}
    <3>1. /\ next \in Nat \ {0} /\ next' = next + 1 /\ lines' = lines
          /\ line \in Line
      BY <2>1 DEF ReadLine, TypeOK
    <3>2. /\ \/ sides = {} /\ side = None
             \/ \E k \in sides : side = lines[k] /\ \A j \in sides : k <= j
          /\ \/ ids = {} /\ id = None
             \/ \E k \in ids : id = lines[k] /\ \A j \in ids : k <= j
      BY DEF FirstOfEach, IsFirst
    <3>3. {k \in 1..(next' - 1) : lines'[k] \in Side}
             = IF line \in Side THEN sides \cup {next} ELSE sides
      BY <3>1
    <3>4. {k \in 1..(next' - 1) : lines'[k] \in Id}
             = IF line \in Id THEN ids \cup {next} ELSE ids
      BY <3>1
    <3>5. /\ side' = IF side = None /\ line \in Side THEN line ELSE side
          /\ id' = IF id = None /\ line \in Id THEN line ELSE id
      BY <2>1, OwnTxtAssumption DEF OwnTxtAssumption, ReadLine, TakesSide, IdAfter
    <3>6. (\A k \in sides : lines[k] # None /\ k <= next)
          /\ (\A k \in ids : lines[k] # None /\ k <= next)
      BY <3>1, OwnTxtAssumption DEF OwnTxtAssumption
    <3>7. IsFirst(side, Side)'
      <4>1. CASE sides = {} /\ side = None
        BY <3>1, <3>3, <3>5, <4>1 DEF IsFirst
      <4>2. CASE \E k \in sides : side = lines[k] /\ \A j \in sides : k <= j
        <5>1. PICK k \in sides : side = lines[k] /\ \A j \in sides : k <= j
          BY <4>2
        <5>2. side' = side
          BY <3>5, <3>6, <5>1
        <5>3. \A j \in (IF line \in Side THEN sides \cup {next} ELSE sides) : k <= j
          BY <3>1, <3>6, <5>1
        <5> QED BY <3>1, <3>3, <5>1, <5>2, <5>3 DEF IsFirst
      <4> QED BY <3>2, <4>1, <4>2
    <3>8. IsFirst(id, Id)'
      <4>1. CASE ids = {} /\ id = None
        BY <3>1, <3>4, <3>5, <4>1 DEF IsFirst
      <4>2. CASE \E k \in ids : id = lines[k] /\ \A j \in ids : k <= j
        <5>1. PICK k \in ids : id = lines[k] /\ \A j \in ids : k <= j
          BY <4>2
        <5>2. id' = id
          BY <3>5, <3>6, <5>1
        <5>3. \A j \in (IF line \in Id THEN ids \cup {next} ELSE ids) : k <= j
          BY <3>1, <3>6, <5>1
        <5> QED BY <3>1, <3>4, <5>1, <5>2, <5>3 DEF IsFirst
      <4> QED BY <3>2, <4>1, <4>2
    <3> QED BY <3>7, <3>8 DEF FirstOfEach
  <2>2. CASE UNCHANGED vars
    BY <2>2 DEF vars, FirstOfEach, IsFirst
  <2> QED BY <2>1, <2>2 DEF Next
<1> QED BY <1>1, <1>2, TypeCorrect, PTL DEF Spec

-----------------------------------------------------------------------------
(* A file that format_own_txt wrote stays what it wrote.                   *)
AsWritten ==
    \/ written = <<>>
    \/ \E s \in Side \cup {None}, i \in Id \cup {None} :
          written = <<s, i>> /\ lines = Format(s, i)

LEMMA StaysAsWritten == Spec => []AsWritten
<1>1. Init => AsWritten
  <2> SUFFICES ASSUME Init, written # <<>> PROVE AsWritten
    BY DEF AsWritten
  <2>1. /\ written \in (Side \cup {None}) \X (Id \cup {None})
        /\ lines = Format(written[1], written[2])
    BY DEF Init
  <2>2. PICK s \in Side \cup {None}, i \in Id \cup {None} : written = <<s, i>>
    BY <2>1
  <2>3. lines = Format(s, i)
    BY <2>1, <2>2
  <2> QED BY <2>2, <2>3 DEF AsWritten
<1>2. AsWritten /\ [Next]_vars => AsWritten'
  BY DEF AsWritten, Next, ReadLine, vars
<1> QED BY <1>1, <1>2, PTL DEF Spec

(* parse_own_txt undoes format_own_txt, for every parity and every id,     *)
(* with either of them missing.                                            *)
THEOREM ReadsBackWhatItWrote == Spec => []RoundTrip
<1>1. TypeOK /\ FirstOfEach /\ AsWritten => RoundTrip
  <2> SUFFICES ASSUME TypeOK, FirstOfEach, AsWritten, written # <<>>, next > Len(lines)
               PROVE  written = <<side, id>>
    BY DEF RoundTrip
  <2>1. PICK s \in Side \cup {None}, i \in Id \cup {None} :
           written = <<s, i>> /\ lines = Format(s, i)
    BY DEF AsWritten
  <2>2. lines \in Seq(Line) /\ Len(lines) \in Nat /\ next = Len(lines) + 1
    BY DEF TypeOK
  <2>3. /\ \/ (\A k \in 1..Len(lines) : lines[k] \notin Side) /\ side = None
           \/ \E k \in 1..Len(lines) : lines[k] \in Side /\ side = lines[k]
        /\ \/ (\A k \in 1..Len(lines) : lines[k] \notin Id) /\ id = None
           \/ \E k \in 1..Len(lines) : lines[k] \in Id /\ id = lines[k]
    <3>1. next - 1 = Len(lines)
      BY <2>2
    <3> QED BY <3>1 DEF FirstOfEach, IsFirst
  <2>4. Side \cap Id = {} /\ None \notin Side /\ None \notin Id
    BY OwnTxtAssumption DEF OwnTxtAssumption
  <2>5. CASE s = None /\ i = None
    <3>1. lines = <<>>
      BY <2>1, <2>5 DEF Format
    <3>2. Len(lines) = 0
      BY <3>1
    <3>3. side = None /\ id = None
      BY <2>3, <3>2
    <3> QED BY <2>1, <2>5, <3>3
  <2>6. CASE s # None /\ i = None
    <3>1. lines = <<s>>
      BY <2>1, <2>6 DEF Format
    <3>2. Len(lines) = 1 /\ lines[1] = s
      BY <3>1
    <3>3. side = s /\ id = None
      BY <2>3, <2>4, <2>6, <3>2
    <3> QED BY <2>1, <2>6, <3>3
  <2>7. CASE s = None /\ i # None
    <3>1. lines = <<i>>
      BY <2>1, <2>7 DEF Format
    <3>2. Len(lines) = 1 /\ lines[1] = i
      BY <3>1
    <3>3. side = None /\ id = i
      BY <2>3, <2>4, <2>7, <3>2
    <3> QED BY <2>1, <2>7, <3>3
  <2>8. CASE s # None /\ i # None
    <3>1. lines = <<s>> \o <<i>>
      BY <2>1, <2>8 DEF Format
    <3>2. Len(lines) = 2 /\ lines[1] = s /\ lines[2] = i
      BY <3>1
    <3>3. side = s /\ id = i
      BY <2>3, <2>4, <2>8, <3>2
    <3> QED BY <2>1, <3>3
  <2> QED BY <2>5, <2>6, <2>7, <2>8
<1> QED BY <1>1, TypeCorrect, FindsTheFirst, StaysAsWritten, PTL
=============================================================================
