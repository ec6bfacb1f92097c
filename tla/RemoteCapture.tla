---------------------------- MODULE RemoteCapture ----------------------------
(***************************************************************************)
(* ChdkPTP.remote_capture_get_data and remote_capture_get_chunk (chdk.py): *)
(* a picture fetched one chunk a transaction and put together in a byte    *)
(* array that is extended and overwritten at a cursor.                     *)
(*                                                                         *)
(* The camera answers a transaction with a data phase and up to three      *)
(* unsigned parameters: the size of the chunk, whether more follow, and    *)
(* the position to seek to.  Parameters are 2 * Half values wide; Half is  *)
(* 2^31 in the code.  What the camera means is kept apart from what the    *)
(* host makes of it: given is a history variable, filled on the camera's   *)
(* side of the wire and read by no action.                                 *)
(***************************************************************************)
EXTENDS Integers, Sequences

CONSTANTS Byte, Zero,
          DataPhases,         \* the data phases the camera may send
          Sizes,              \* the sizes it may claim
          Half,               \* half the range of a parameter
          MaxCaptureChunks

ASSUME CaptureAssumption ==
    /\ Zero \in Byte
    /\ DataPhases \subseteq Seq(Byte)
    /\ Sizes \subseteq Nat
    /\ Half \in Nat \ {0} /\ MaxCaptureChunks \in Nat \ {0}

VARIABLES pc,        \* "fetch" inside the loop, else how the last call ended
          image,     \* the bytearray
          cursor,    \* offset of the next write
          chunks,    \* _last_capture_chunks
          given      \* history: the chunk of the camera's last answer

vars == <<pc, image, cursor, chunks, given>>

Positions == (-Half)..(Half - 1)         \* negative: no seek

TypeOK ==
    /\ pc \in {"new", "fetch", "returned", "endless", "failed"}
    /\ image \in Seq(Byte)
    /\ cursor \in 0..Len(image)
    /\ chunks \in 0..MaxCaptureChunks
    /\ given \in [bytes : Seq(Byte), seek : Positions, last : BOOLEAN]

Init ==
    /\ pc = "new" /\ image = <<>> /\ cursor = 0 /\ chunks = 0
    /\ given = [bytes |-> <<>>, seek |-> -1, last |-> FALSE]

-----------------------------------------------------------------------------
(* The camera's side: an answer has the first so many of its fields, a     *)
(* number is sent modulo 2 * Half, and the chunk that is meant is the      *)
(* sized part of the data, where a size is given and no larger.            *)

CameraAnswers ==
    [data : DataPhases, fields : 0..3, size : Sizes, more : BOOLEAN, position : Positions]

Params(a) ==
    SubSeq(<<a.size, IF a.more THEN 1 ELSE 0, a.position % (2 * Half)>>, 1, a.fields)

Meant(a) ==
    LET sized == a.fields >= 1 /\ a.size < Len(a.data)
    IN  [bytes |-> [i \in 1..(IF sized THEN a.size ELSE Len(a.data)) |-> a.data[i]],
         seek  |-> IF a.fields = 3 THEN a.position ELSE -1,
         last  |-> ~(a.fields >= 2 /\ a.more)]

-----------------------------------------------------------------------------
(* remote_capture_get_chunk: what the parameters say, and what they are    *)
(* taken to say where the camera sends fewer of them.                      *)

AsSigned32(word) == IF word >= Half THEN word - 2 * Half ELSE word

Claimed(data, params) == IF Len(params) > 0 THEN params[1] ELSE Len(data)

Chunk(data, params) ==
    IF Claimed(data, params) < Len(data) THEN SubSeq(data, 1, Claimed(data, params)) ELSE data

More(params) == Len(params) > 1 /\ params[2] # 0

Position(params) == IF Len(params) > 2 THEN AsSigned32(params[3]) ELSE -1

-----------------------------------------------------------------------------
(* The byte array: zeroes up to the end of the chunk, then the chunk in    *)
(* place of the bytes that are there.                                      *)

Extended(end) == image \o [i \in 1..(end - Len(image)) |-> Zero]

Overwritten(bytes, start, chunk) ==
    SubSeq(bytes, 1, start) \o chunk \o SubSeq(bytes, start + Len(chunk) + 1, Len(bytes))

Assembled(start, chunk) ==
    LET end == start + Len(chunk)
    IN  Overwritten(IF Len(image) < end THEN Extended(end) ELSE image, start, chunk)

SlipAppend(position) == IF position >= 0 THEN position ELSE Len(image)
Start(position) == IF position >= 0 THEN position ELSE cursor

SlipPastLimit(n) == n <= MaxCaptureChunks
BelowLimit(n) == n < MaxCaptureChunks

SlipUncounted(n) == n
Counted(n) == n + 1

-----------------------------------------------------------------------------
Begin ==
    /\ pc # "fetch"
    /\ pc' = "fetch" /\ image' = <<>> /\ cursor' = 0 /\ chunks' = 0
    /\ UNCHANGED given

GetChunk ==
    /\ pc = "fetch"
    /\ BelowLimit(chunks)
    /\ \E a \in CameraAnswers :
          LET chunk == Chunk(a.data, Params(a))
              start == Start(Position(Params(a)))
          IN  /\ image' = Assembled(start, chunk)
              /\ cursor' = start + Len(chunk)
              /\ chunks' = Counted(chunks)
              /\ pc' = IF More(Params(a)) THEN "fetch" ELSE "returned"
              /\ given' = Meant(a)

Endless ==
    /\ pc = "fetch"
    /\ ~BelowLimit(chunks)
    /\ pc' = "endless"
    /\ UNCHANGED <<image, cursor, chunks, given>>

TransactionFails ==                   \* the exception leaves the loop
    /\ pc = "fetch"
    /\ BelowLimit(chunks)
    /\ pc' = "failed"
    /\ UNCHANGED <<image, cursor, chunks, given>>

Next == Begin \/ GetChunk \/ Endless \/ TransactionFails

Spec == Init /\ [][Next]_vars

(* The host goes on: a transaction brings a chunk or fails (reads have a    *)
(* timeout).  The camera need not clear "more".                            *)
FairSpec == Spec /\ WF_vars(GetChunk \/ Endless \/ TransactionFails)

-----------------------------------------------------------------------------
(* The array is at every moment the file that the chunks the camera gave   *)
(* describe, whatever they overwrite, leave out or seek over and however   *)
(* few parameters come with them, and it is returned with the last one.    *)
File == INSTANCE CaptureFile WITH
    content  <- [o \in 0..(Len(image) - 1) |-> image[o + 1]],
    size     <- Len(image),
    pos      <- cursor,
    complete <- pc = "returned"

AssemblesTheFile == File!Spec

(* A camera that never clears "more" cannot keep the host in the loop      *)
(* (MAX_CAPTURE_CHUNKS).                                                   *)
DownloadEnds == []<>(pc # "fetch")
=============================================================================
