----------------------------- MODULE CaptureFile -----------------------------
(***************************************************************************)
(* What a remote capture promises (chdk.py 413-460): the chunks land where *)
(* a file with a write position would put them.  A chunk with a position   *)
(* seeks there first, a chunk without one goes on where the last one       *)
(* ended, what was never written reads as Zero, and the file is complete   *)
(* with the chunk that was said to be the last.  Offsets count from 0.     *)
(*                                                                         *)
(* What is written is no choice of the file's: it is the chunk the camera  *)
(* gave in the same step.                                                  *)
(***************************************************************************)
EXTENDS Integers, Sequences

CONSTANTS Zero

VARIABLES content,       \* the byte at each offset of the file
          size,          \* its length
          pos,           \* the write position
          complete,      \* the last chunk has been written
          given          \* the camera's last chunk: [bytes, seek, last],
                         \* seek negative for none

file == <<content, size, pos, complete, given>>

Create ==
    /\ size = 0 /\ pos = 0 /\ content = [o \in {} |-> Zero]
    /\ complete = FALSE

Truncate ==
    /\ size' = 0 /\ pos' = 0 /\ content' = [o \in {} |-> Zero]
    /\ complete' = FALSE
    /\ UNCHANGED given

Write ==
    LET chunk == given'.bytes
        from  == IF given'.seek >= 0 THEN given'.seek ELSE pos
        upto  == from + Len(chunk)
        grown == IF size < upto THEN upto ELSE size
    IN  /\ ~complete
        /\ pos' = upto
        /\ size' = grown
        /\ content' = [o \in 0..(grown - 1) |->
                         IF from <= o /\ o < upto THEN chunk[o - from + 1]
                         ELSE IF o < size THEN content[o] ELSE Zero]
        /\ complete' = given'.last

Next == Truncate \/ Write

Spec == Create /\ [][Next]_file
=============================================================================
