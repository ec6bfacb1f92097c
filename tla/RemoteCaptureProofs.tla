------------------------- MODULE RemoteCaptureProofs -------------------------
(***************************************************************************)
(* RemoteCapture keeps its types and implements CaptureFile, whatever the  *)
(* data phases, the sizes claimed, the width of a parameter and the bound. *)
(* The argument has two halves: the host takes an answer for what the      *)
(* camera means by it (TakenAsMeant), and what it assembles of that is one *)
(* write to the file (AssembledFacts, ChunkIsWrite).                       *)
(***************************************************************************)
EXTENDS RemoteCapture, TLAPS

(* A position goes over the wire in two's complement, and taken for a      *)
(* signed word it is again the position that was meant.                    *)
LEMMA SignedWord ==
    ASSUME NEW p \in Positions
    PROVE  /\ p % (2 * Half) \in Nat
           /\ AsSigned32(p % (2 * Half)) = p
<1>1. Half \in Nat /\ Half > 0 /\ p \in Int /\ -Half <= p /\ p < Half
  BY CaptureAssumption DEF CaptureAssumption, Positions
<1>2. CASE p >= 0
  <2>1. p % (2 * Half) = p
    BY <1>1, <1>2
  <2> QED BY <1>1, <1>2, <2>1 DEF AsSigned32
<1>3. CASE p < 0
  <2>1. p % (2 * Half) = p + 2 * Half
    BY <1>1, <1>3
  <2> QED BY <1>1, <1>3, <2>1 DEF AsSigned32
<1> QED BY <1>1, <1>2, <1>3

(* The parameters the host gets of an answer: the first so many.           *)
LEMMA ParamsFacts ==
    ASSUME NEW a \in CameraAnswers
    PROVE  /\ Len(Params(a)) = a.fields
           /\ a.fields >= 1 => Params(a)[1] = a.size
           /\ a.fields >= 2 => Params(a)[2] = IF a.more THEN 1 ELSE 0
           /\ a.fields = 3 => Params(a)[3] = a.position % (2 * Half)
<1> DEFINE all == <<a.size, IF a.more THEN 1 ELSE 0, a.position % (2 * Half)>>
<1>1. a.fields \in 0..3
  BY DEF CameraAnswers
<1>2. Len(all) = 3 /\ all[1] = a.size /\ all[2] = (IF a.more THEN 1 ELSE 0)
      /\ all[3] = a.position % (2 * Half)
  OBVIOUS
<1>3. a.size \in Int /\ a.position % (2 * Half) \in Int
  <2>1. a.size \in Nat /\ a.position \in Positions
    BY CaptureAssumption DEF CaptureAssumption, CameraAnswers
  <2>2. a.position % (2 * Half) \in Nat
    BY ONLY <2>1, SignedWord
  <2> QED BY <2>1, <2>2
<1>4. all \in Seq(Int)
  BY <1>3
<1>5. Params(a) = SubSeq(all, 1, a.fields)
  BY DEF Params
<1> HIDE DEF all
<1>6. Len(Params(a)) = a.fields /\ \A i \in 1..a.fields : Params(a)[i] = all[i]
  BY <1>1, <1>2, <1>4, <1>5
<1> QED BY <1>1, <1>2, <1>6

(* The host takes a chunk for what the camera means by it: its bytes, its  *)
(* position and whether it is the last (remote_capture_get_chunk).         *)
LEMMA TakenAsMeant ==
    ASSUME NEW a \in CameraAnswers
    PROVE  /\ Chunk(a.data, Params(a)) = Meant(a).bytes
           /\ Position(Params(a)) = Meant(a).seek
           /\ More(Params(a)) = ~Meant(a).last
           /\ Meant(a) \in [bytes : Seq(Byte), seek : Positions, last : BOOLEAN]
<1>1. /\ a.data \in Seq(Byte) /\ a.fields \in 0..3 /\ a.size \in Nat
      /\ a.more \in BOOLEAN /\ a.position \in Positions
  BY CaptureAssumption DEF CaptureAssumption, CameraAnswers
<1>2. Len(a.data) \in Nat
  BY <1>1
<1> DEFINE sized == a.fields >= 1 /\ a.size < Len(a.data)
           n == IF sized THEN a.size ELSE Len(a.data)
           bytes == [i \in 1..n |-> a.data[i]]
<1>3. n \in 0..Len(a.data)
  BY <1>1, <1>2
<1>4. bytes \in Seq(Byte) /\ bytes = SubSeq(a.data, 1, n)
  <2> HIDE DEF n
  <2>1. \A i \in 1..n : a.data[i] \in Byte
    BY <1>1, <1>3
  <2>2. bytes \in Seq(Byte)
    BY <1>3, <2>1
  <2>3. bytes = SubSeq(a.data, 1, n)
    BY <1>1, <1>3
  <2> QED BY <2>2, <2>3
<1>5. Claimed(a.data, Params(a)) = IF a.fields >= 1 THEN a.size ELSE Len(a.data)
  BY <1>1, ParamsFacts DEF Claimed
<1>6. Chunk(a.data, Params(a)) = bytes
  <2>1. CASE sized
    BY <1>1, <1>4, <1>5, <2>1 DEF Chunk
  <2>2. CASE ~sized
    <3>1. ~(Claimed(a.data, Params(a)) < Len(a.data))
      BY <1>1, <1>2, <1>5, <2>2
    <3>2. a.data = SubSeq(a.data, 1, Len(a.data))
      BY <1>1
    <3> QED BY <1>4, <2>2, <3>1, <3>2 DEF Chunk
  <2> QED BY <2>1, <2>2
<1>7. Position(Params(a)) = IF a.fields = 3 THEN a.position ELSE -1
  BY <1>1, ParamsFacts, SignedWord DEF Position
<1>8. More(Params(a)) = (a.fields >= 2 /\ a.more)
  BY <1>1, ParamsFacts DEF More
<1>9. (IF a.fields = 3 THEN a.position ELSE -1) \in Positions
  BY <1>1, CaptureAssumption DEF CaptureAssumption, Positions
<1> HIDE DEF n
<1>10. Meant(a) = [bytes |-> bytes,
                   seek  |-> IF a.fields = 3 THEN a.position ELSE -1,
                   last  |-> ~(a.fields >= 2 /\ a.more)]
  BY DEF Meant, n
<1> HIDE DEF bytes
<1>11. /\ Meant(a).bytes = bytes
       /\ Meant(a).seek = IF a.fields = 3 THEN a.position ELSE -1
       /\ Meant(a).last = ~(a.fields >= 2 /\ a.more)
  BY <1>10
<1>12. (~(a.fields >= 2 /\ a.more)) \in BOOLEAN
  OBVIOUS
<1>13. Meant(a) \in [bytes : Seq(Byte), seek : Positions, last : BOOLEAN]
  <2> DEFINE seek == IF a.fields = 3 THEN a.position ELSE -1
             last == ~(a.fields >= 2 /\ a.more)
  <2>1. bytes \in Seq(Byte) /\ seek \in Positions /\ last \in BOOLEAN
    BY <1>4, <1>9, <1>12
  <2>2. Meant(a) = [bytes |-> bytes, seek |-> seek, last |-> last]
    BY <1>10
  <2> HIDE DEF seek, last
  <2> QED BY <2>1, <2>2
<1> QED BY <1>6, <1>7, <1>8, <1>11, <1>13

(* Extending adds zeroes and nothing else.                                 *)
LEMMA ExtendedFacts ==
    ASSUME image \in Seq(Byte), NEW end \in Nat, Len(image) < end
    PROVE  /\ Extended(end) \in Seq(Byte)
           /\ Len(Extended(end)) = end
           /\ \A i \in 1..end :
                 Extended(end)[i] = IF i <= Len(image) THEN image[i] ELSE Zero
<1> DEFINE zeroes == [i \in 1..(end - Len(image)) |-> Zero]
<1>1. end - Len(image) \in Nat
  OBVIOUS
<1>2. zeroes \in Seq(Byte) /\ Len(zeroes) = end - Len(image)
  BY <1>1, CaptureAssumption DEF CaptureAssumption
<1>3. \A i \in 1..(end - Len(image)) : zeroes[i] = Zero
  OBVIOUS
<1>4. Extended(end) = image \o zeroes
  BY DEF Extended
<1> HIDE DEF zeroes
<1>5. Len(Extended(end)) = end /\ Extended(end) \in Seq(Byte)
  BY <1>1, <1>2, <1>4
<1>6. ASSUME NEW i \in 1..end
      PROVE  Extended(end)[i] = IF i <= Len(image) THEN image[i] ELSE Zero
  <2>1. CASE i <= Len(image)
    BY <1>2, <1>4, <2>1
  <2>2. CASE ~(i <= Len(image))
    <3>1. i - Len(image) \in 1..(end - Len(image))
      BY <2>2
    <3>2. (image \o zeroes)[i] = zeroes[i - Len(image)]
      BY <1>1, <1>2, <2>2, <3>1
    <3> QED BY <1>3, <1>4, <2>2, <3>1, <3>2
  <2> QED BY <2>1, <2>2
<1> QED BY <1>5, <1>6

(* Overwriting a stretch of an array that holds it leaves the rest alone.  *)
LEMMA OverwrittenFacts ==
    ASSUME NEW bytes \in Seq(Byte), NEW chunk \in Seq(Byte), NEW start \in Nat,
           start + Len(chunk) <= Len(bytes)
    PROVE  /\ Overwritten(bytes, start, chunk) \in Seq(Byte)
           /\ Len(Overwritten(bytes, start, chunk)) = Len(bytes)
           /\ \A i \in 1..Len(bytes) :
                 Overwritten(bytes, start, chunk)[i] =
                    IF start < i /\ i <= start + Len(chunk)
                    THEN chunk[i - start] ELSE bytes[i]
<1> DEFINE before == SubSeq(bytes, 1, start)
           after  == SubSeq(bytes, start + Len(chunk) + 1, Len(bytes))
           upto   == start + Len(chunk)
<1>1. upto \in Nat /\ Len(bytes) \in Nat /\ Len(chunk) \in Nat /\ start <= Len(bytes)
  OBVIOUS
<1>2. before \in Seq(Byte) /\ Len(before) = start
  BY <1>1
<1>3. \A i \in 1..start : before[i] = bytes[i]
  BY <1>1
<1>4. after \in Seq(Byte) /\ Len(after) = Len(bytes) - upto
  BY <1>1
<1>5. \A i \in 1..(Len(bytes) - upto) : after[i] = bytes[upto + i]
  BY <1>1
<1>6. Overwritten(bytes, start, chunk) = (before \o chunk) \o after
  BY DEF Overwritten
<1> DEFINE front == before \o chunk
<1>7. front \in Seq(Byte) /\ Len(front) = upto
  BY <1>1, <1>2
<1>8. \A i \in 1..upto : front[i] = IF i <= start THEN bytes[i] ELSE chunk[i - start]
  BY <1>1, <1>2, <1>3
<1> HIDE DEF before, after, front
<1>9. Overwritten(bytes, start, chunk) = front \o after
  BY <1>6 DEF front
<1>10. Overwritten(bytes, start, chunk) \in Seq(Byte)
       /\ Len(Overwritten(bytes, start, chunk)) = Len(bytes)
  <2>1. (front \o after) \in Seq(Byte) /\ Len(front \o after) = Len(front) + Len(after)
    <3>1. front \in Seq(Byte) /\ after \in Seq(Byte)
      BY <1>4, <1>7
    <3> QED BY ONLY <3>1
  <2>2. upto + (Len(bytes) - upto) = Len(bytes)
    BY <1>1
  <2>3. Len(front) + Len(after) = Len(bytes)
    BY <1>4, <1>7, <2>2
  <2> QED BY ONLY <1>9, <2>1, <2>3
<1>11. ASSUME NEW i \in 1..Len(bytes)
       PROVE  Overwritten(bytes, start, chunk)[i] =
                 IF start < i /\ i <= upto THEN chunk[i - start] ELSE bytes[i]
  <2>1. CASE i <= upto
    BY <1>1, <1>4, <1>7, <1>8, <1>9, <2>1
  <2>2. CASE ~(i <= upto)
    <3>1. i - upto \in 1..(Len(bytes) - upto) /\ upto + (i - upto) = i
      BY <1>1, <2>2
    <3>2. (front \o after)[i] = after[i - upto]
      BY <1>1, <1>4, <1>7, <2>2, <3>1
    <3> QED BY <1>5, <1>9, <2>2, <3>1, <3>2
  <2> QED BY <2>1, <2>2
<1> QED BY <1>10, <1>11

(* One chunk assembled: the file's own rule, offset by offset.             *)
LEMMA AssembledFacts ==
    ASSUME image \in Seq(Byte), NEW start \in Nat, NEW chunk \in Seq(Byte)
    PROVE  LET end   == start + Len(chunk)
               grown == IF Len(image) < end THEN end ELSE Len(image)
           IN  /\ Assembled(start, chunk) \in Seq(Byte)
               /\ Len(Assembled(start, chunk)) = grown
               /\ \A o \in 0..(grown - 1) :
                     Assembled(start, chunk)[o + 1] =
                        IF start <= o /\ o < end THEN chunk[o - start + 1]
                        ELSE IF o < Len(image) THEN image[o + 1] ELSE Zero
<1> DEFINE end   == start + Len(chunk)
           grown == IF Len(image) < end THEN end ELSE Len(image)
           bytes == IF Len(image) < end THEN Extended(end) ELSE image
<1>1. end \in Nat /\ Len(image) \in Nat /\ grown \in Nat /\ end <= grown
      /\ Len(image) <= grown
  OBVIOUS
<1>2. bytes \in Seq(Byte) /\ Len(bytes) = grown
      /\ \A i \in 1..grown : bytes[i] = IF i <= Len(image) THEN image[i] ELSE Zero
  <2>1. CASE Len(image) < end
    BY <1>1, <2>1, ExtendedFacts
  <2>2. CASE ~(Len(image) < end)
    BY <1>1, <2>2
  <2> QED BY <2>1, <2>2
<1>3. Assembled(start, chunk) = Overwritten(bytes, start, chunk)
  BY DEF Assembled
<1> HIDE DEF bytes
<1>4. /\ Assembled(start, chunk) \in Seq(Byte)
      /\ Len(Assembled(start, chunk)) = grown
      /\ \A i \in 1..grown : Assembled(start, chunk)[i] =
            IF start < i /\ i <= end THEN chunk[i - start] ELSE bytes[i]
  BY <1>1, <1>2, <1>3, OverwrittenFacts
<1> HIDE DEF grown
<1>5. ASSUME NEW o \in 0..(grown - 1)
      PROVE  Assembled(start, chunk)[o + 1] =
                IF start <= o /\ o < end THEN chunk[o - start + 1]
                ELSE IF o < Len(image) THEN image[o + 1] ELSE Zero
  <2>1. o + 1 \in 1..grown /\ (o + 1) - start = o - start + 1
        /\ (start < o + 1 <=> start <= o) /\ (o + 1 <= end <=> o < end)
        /\ (o + 1 <= Len(image) <=> o < Len(image))
    BY <1>1
  <2>2. bytes[o + 1] = IF o < Len(image) THEN image[o + 1] ELSE Zero
    BY <1>2, <2>1
  <2>3. Assembled(start, chunk)[o + 1] =
           IF start < o + 1 /\ o + 1 <= end THEN chunk[(o + 1) - start] ELSE bytes[o + 1]
    BY <1>4, <2>1
  <2> QED BY <2>1, <2>2, <2>3
<1> QED BY <1>4, <1>5 DEF grown

-----------------------------------------------------------------------------
(* What GetChunk does with the chunk the camera gave.                      *)
LEMMA GetChunkWrites ==
    ASSUME TypeOK, GetChunk
    PROVE  LET start == Start(given'.seek)
           IN  /\ given' \in [bytes : Seq(Byte), seek : Positions, last : BOOLEAN]
               /\ start \in Nat
               /\ image' = Assembled(start, given'.bytes)
               /\ cursor' = start + Len(given'.bytes)
               /\ chunks' = Counted(chunks)
               /\ pc' = IF given'.last THEN "returned" ELSE "fetch"
<1>1. PICK a \in CameraAnswers :
         /\ image' = Assembled(Start(Position(Params(a))), Chunk(a.data, Params(a)))
         /\ cursor' = Start(Position(Params(a))) + Len(Chunk(a.data, Params(a)))
         /\ chunks' = Counted(chunks)
         /\ pc' = IF More(Params(a)) THEN "fetch" ELSE "returned"
         /\ given' = Meant(a)
  BY DEF GetChunk
<1>2. /\ Chunk(a.data, Params(a)) = given'.bytes
      /\ Position(Params(a)) = given'.seek
      /\ More(Params(a)) = ~given'.last
      /\ given' \in [bytes : Seq(Byte), seek : Positions, last : BOOLEAN]
  BY <1>1, TakenAsMeant
<1>3. cursor \in Nat
  BY DEF TypeOK
<1>4. given'.seek \in Positions
  BY <1>2
<1>5. Start(given'.seek) \in Nat
  BY <1>3, <1>4, CaptureAssumption DEF CaptureAssumption, Positions, Start
<1>6. pc' = IF given'.last THEN "returned" ELSE "fetch"
  BY <1>1, <1>2
<1> QED BY <1>1, <1>2, <1>5, <1>6

(* Every variable keeps its range; in particular the cursor never lies     *)
(* beyond the image and no more chunks are fetched than                    *)
(* MAX_CAPTURE_CHUNKS (remote_capture_get_data).                           *)
THEOREM TypeCorrect == Spec => []TypeOK
<1>1. Init => TypeOK
  <2> SUFFICES ASSUME Init PROVE TypeOK
    OBVIOUS
  <2>1. -1 \in Positions
    BY CaptureAssumption DEF CaptureAssumption, Positions
  <2> QED BY <2>1, CaptureAssumption DEF CaptureAssumption, Init, TypeOK
<1>2. TypeOK /\ [Next]_vars => TypeOK'
  <2> SUFFICES ASSUME TypeOK, [Next]_vars PROVE TypeOK'
    OBVIOUS
  <2>1. CASE Begin
    BY <2>1, CaptureAssumption DEF CaptureAssumption, Begin, TypeOK
  <2>2. CASE GetChunk
    <3> DEFINE start == Start(given'.seek)
               chunk == given'.bytes
    <3>1. /\ given' \in [bytes : Seq(Byte), seek : Positions, last : BOOLEAN]
          /\ start \in Nat
          /\ image' = Assembled(start, chunk)
          /\ cursor' = start + Len(chunk)
          /\ chunks' = Counted(chunks)
          /\ pc' \in {"fetch", "returned"}
      BY <2>2, GetChunkWrites
    <3>2. chunk \in Seq(Byte) /\ image \in Seq(Byte)
      BY <3>1 DEF TypeOK
    <3> HIDE DEF start, chunk
    <3>3. Len(chunk) \in Nat
      BY <3>2
    <3>4. /\ image' \in Seq(Byte)
          /\ Len(image') = IF Len(image) < start + Len(chunk)
                           THEN start + Len(chunk) ELSE Len(image)
      BY <3>1, <3>2, AssembledFacts
    <3>5. cursor' \in 0..Len(image')
      BY <3>1, <3>2, <3>3, <3>4
    <3>6. chunks' \in 0..MaxCaptureChunks
      <4>1. BelowLimit(chunks) /\ chunks \in 0..MaxCaptureChunks
        BY <2>2 DEF GetChunk, TypeOK
      <4> QED BY <3>1, <4>1, CaptureAssumption DEF CaptureAssumption, BelowLimit, Counted
    <3> QED BY <3>1, <3>4, <3>5, <3>6 DEF TypeOK
  <2>3. CASE Endless
    BY <2>3 DEF Endless, TypeOK
  <2>4. CASE TransactionFails
    BY <2>4 DEF TransactionFails, TypeOK
  <2>5. CASE UNCHANGED vars
    BY <2>5 DEF vars, TypeOK
  <2> QED BY <2>1, <2>2, <2>3, <2>4, <2>5 DEF Next
<1> QED BY <1>1, <1>2, PTL DEF Spec

-----------------------------------------------------------------------------
(* The empty array is the empty file.                                      *)
LEMMA EmptyImage ==
    ASSUME image = <<>>
    PROVE  Len(image) = 0 /\ [o \in 0..(Len(image) - 1) |-> image[o + 1]] = [o \in {} |-> Zero]
<1>1. Len(image) = 0 /\ 0..(Len(image) - 1) = {}
  OBVIOUS
<1> QED BY <1>1

(* One chunk more is one write to the file: of the bytes the camera gave,  *)
(* at the position it gave or at the write position, and the last one      *)
(* completes the file (remote_capture_get_data).                           *)
LEMMA ChunkIsWrite ==
    ASSUME TypeOK, GetChunk
    PROVE  File!Write
<1> DEFINE chunk == given'.bytes
           start == Start(given'.seek)
           upto  == start + Len(chunk)
           grown == IF Len(image) < upto THEN upto ELSE Len(image)
<1>1. /\ chunk \in Seq(Byte) /\ start \in Nat
      /\ image' = Assembled(start, chunk) /\ cursor' = upto
      /\ given'.last \in BOOLEAN
      /\ pc' = IF given'.last THEN "returned" ELSE "fetch"
  BY GetChunkWrites
<1>2. image \in Seq(Byte)
  BY DEF TypeOK
<1>3. start = IF given'.seek >= 0 THEN given'.seek ELSE cursor
  BY DEF Start
<1>4. pc # "returned" /\ (pc' = "returned") = given'.last
  BY <1>1 DEF GetChunk
<1> HIDE DEF start, chunk
<1>5. /\ Len(image') = grown
      /\ \A o \in 0..(grown - 1) :
            image'[o + 1] = IF start <= o /\ o < upto THEN chunk[o - start + 1]
                            ELSE IF o < Len(image) THEN image[o + 1] ELSE Zero
  BY <1>1, <1>2, AssembledFacts
<1>6. \A o \in 0..(grown - 1) :
         o < Len(image) => [q \in 0..(Len(image) - 1) |-> image[q + 1]][o] = image[o + 1]
  BY <1>2
<1>7. [o \in 0..(Len(image') - 1) |-> image'[o + 1]] =
         [o \in 0..(grown - 1) |->
            IF start <= o /\ o < upto THEN chunk[o - start + 1]
            ELSE IF o < Len(image)
                 THEN [q \in 0..(Len(image) - 1) |-> image[q + 1]][o] ELSE Zero]
  BY <1>5, <1>6
<1> QED BY <1>1, <1>3, <1>4, <1>5, <1>7 DEF File!Write, chunk

(* The array put together in remote_capture_get_data is at every moment    *)
(* the file that the chunks the camera gave describe.                      *)
THEOREM ImplementsFile == Spec => AssemblesTheFile
<1>1. Init => File!Create
  <2> SUFFICES ASSUME Init PROVE File!Create
    OBVIOUS
  <2> QED BY EmptyImage DEF Init, File!Create
<1>2. TypeOK /\ [Next]_vars => [File!Next]_(File!file)
  <2> SUFFICES ASSUME TypeOK, [Next]_vars PROVE [File!Next]_(File!file)
    OBVIOUS
  <2>1. CASE Begin
    <3>1. image' = <<>> /\ cursor' = 0 /\ pc' # "returned" /\ given' = given
      BY <2>1 DEF Begin
    <3>2. Len(image') = 0 /\ 0..(Len(image') - 1) = {}
      BY <3>1
    <3>3. File!Truncate
      BY <3>1, <3>2 DEF File!Truncate
    <3> QED BY <3>3 DEF File!Next
  <2>2. CASE GetChunk
    BY <2>2, ChunkIsWrite DEF File!Next
  <2>3. CASE Endless
    BY <2>3 DEF Endless, File!file
  <2>4. CASE TransactionFails
    BY <2>4 DEF TransactionFails, File!file
  <2>5. CASE UNCHANGED vars
    BY <2>5 DEF vars, File!file
  <2> QED BY <2>1, <2>2, <2>3, <2>4, <2>5 DEF Next
<1> QED BY <1>1, <1>2, TypeCorrect, PTL DEF Spec, AssemblesTheFile, File!Spec
=============================================================================
