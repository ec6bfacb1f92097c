----------------------------- MODULE ChdkCamera -----------------------------
(***************************************************************************)
(* The camera, as pychdk sees it through the CHDK commands of PTP: one     *)
(* script slot, one message queue, one remote-capture buffer and a lens    *)
(* that takes its time to move between the record and the play mode.       *)
(*                                                                         *)
(* The firmware is not part of the repository.  What is said here is what  *)
(* the host code and its comments rely on:                                 *)
(*   - starting a script kills the one still running (device.py 374-379);  *)
(*   - an accepted script is scheduled, not run (chdk.py 373-378);         *)
(*   - starting a script does not flush the queue (chdk.py 506-510);       *)
(*   - the capture pipeline can be held until the host takes the picture   *)
(*     (device.py 381-386): the constant HoldsPipeline;                    *)
(*   - an untaken picture is dropped after the camera's own download       *)
(*     timeout, which then looks like a capture that was never initialised *)
(*     (chdk.py 386-391).                                                  *)
(***************************************************************************)
EXTENDS Naturals, Sequences

CONSTANTS MaxScripts,     \* bound: scripts accepted in one behaviour
          QueueRoom,      \* bound: user messages stop at this queue length
          MaxChunks,      \* bound: chunks one picture is sent in
          HoldsPipeline   \* whether shoot() waits for the picture to be taken

ASSUME CameraAssumption ==
    /\ MaxScripts \in Nat /\ QueueRoom \in Nat /\ MaxChunks \in Nat \ {0}
    /\ HoldsPipeline \in BOOLEAN

VARIABLES lastId,    \* id of the last script accepted, 0 before the first
          prog,      \* what the script lastId does
          fate,      \* fate[id]: how far the script got, or how it ended
          running,   \* whether the camera reports a script running
          queue,     \* script messages the host has not read
          capture,   \* what RemoteCaptureIsReady answers
          left,      \* chunks of the ready picture still to be sent
          owner,     \* the script whose picture the capture buffer is for
          mode,      \* the mode the lens is in
          target     \* the mode the lens is moving to

camera == <<lastId, prog, fate, running, queue, capture, left, owner, mode, target>>

Scripts   == 1..MaxScripts
Programs  == {"lua", "get_mode", "switch_record", "switch_play", "shoot", "stream"}
RetValues == {"true", "false", "nil", "data"}
Alive     == {"scheduled", "body", "shot"}
Fates     == {"unstarted", "silent", "error", "killed"} \cup Alive \cup RetValues
Modes     == {"record", "play"}
Captures  == {"notset", "waiting", "ready", "other"}

Messages ==
    [id : Scripts, kind : {"RET", "ERR", "USER"}, val : RetValues \cup {"error", "text"}]

CameraTypeOK ==
    /\ lastId \in 0..MaxScripts
    /\ prog \in Programs
    /\ fate \in [Scripts -> Fates]
    /\ running \in BOOLEAN
    /\ queue \in Seq(Messages)
    /\ capture \in Captures
    /\ left \in 0..MaxChunks
    /\ owner \in 0..MaxScripts
    /\ mode \in Modes
    /\ target \in Modes

CameraInit ==
    /\ lastId = 0
    /\ prog = "lua"
    /\ fate = [id \in Scripts |-> "unstarted"]
    /\ running = FALSE
    /\ queue = <<>>
    /\ capture = "notset" /\ left = 0 /\ owner = 0
    /\ mode \in Modes /\ target = mode

-----------------------------------------------------------------------------
(* What a command of the host does to the camera.                          *)

Accept(p) ==                          \* EXECUTE_SCRIPT without NOKILL
    /\ lastId < MaxScripts
    /\ lastId' = lastId + 1
    /\ prog' = p
    /\ fate' = [id \in Scripts |->
                  IF id = lastId + 1 THEN "scheduled"
                  ELSE IF fate[id] \in Alive THEN "killed" ELSE fate[id]]
    /\ running' = TRUE
    /\ UNCHANGED <<queue, capture, left, owner, mode, target>>

PopMessage ==                         \* READ_SCRIPT_MSG
    /\ queue # <<>>
    /\ queue' = Tail(queue)
    /\ UNCHANGED <<lastId, prog, fate, running, capture, left, owner, mode, target>>

GiveChunk ==                          \* REMOTE_CAPTURE_GET_DATA
    /\ capture = "ready"
    /\ left' = left - 1
    /\ capture' = IF left = 1 THEN "notset" ELSE capture
    /\ UNCHANGED <<lastId, prog, fate, running, queue, owner, mode, target>>

-----------------------------------------------------------------------------
(* What the camera does by itself.  A final message is in the queue before *)
(* the running flag drops.                                                 *)

State == fate[lastId]                 \* of the script in the slot

Held == HoldsPipeline /\ prog = "stream" /\ capture \in {"ready", "other"}

Post(kind, val) ==
    queue' = Append(queue, [id |-> lastId, kind |-> kind, val |-> val])

Becomes(state) == fate' = [fate EXCEPT ![lastId] = state]

ScriptBegins ==
    /\ running /\ State = "scheduled"
    /\ Becomes("body")
    /\ target' = CASE prog = "switch_record" -> "record"
                   [] prog = "switch_play"   -> "play"
                   [] OTHER                  -> target
    /\ IF prog = "stream"             \* init_usb_capture
       THEN capture' = "waiting" /\ left' = 0 /\ owner' = lastId
       ELSE UNCHANGED <<capture, left, owner>>
    /\ UNCHANGED <<lastId, prog, running, queue, mode>>

CaptureRefused ==                     \* init_usb_capture returned false
    /\ running /\ State = "scheduled" /\ prog = "stream"
    /\ Post("RET", "false") /\ Becomes("false")
    /\ UNCHANGED <<lastId, prog, running, capture, left, owner, mode, target>>

Exposes ==                            \* shoot() with remote capture set up
    /\ running /\ State = "body" /\ prog = "stream"
    /\ \/ capture' = "ready" /\ left' \in 1..MaxChunks
       \/ capture' = "other" /\ left' = 0
    /\ Becomes("shot")
    /\ UNCHANGED <<lastId, prog, running, queue, owner, mode, target>>

UserMessage ==                        \* write_usb_msg in a script of the host's
    /\ running /\ State = "body" /\ prog = "lua" /\ Len(queue) < QueueRoom
    /\ Post("USER", "text")
    /\ UNCHANGED <<lastId, prog, fate, running, capture, left, owner, mode, target>>

Returnable ==                         \* the values each program can return
    CASE prog = "lua"      -> {"data", "nil"}
      [] prog = "get_mode" -> {IF mode = "record" THEN "true" ELSE "false", "nil"}
      [] prog = "stream"   -> {"true"}
      [] OTHER             -> {}

Returns ==
    /\ running /\ State \in {"body", "shot"} /\ ~Held
    /\ \E val \in Returnable : Post("RET", val) /\ Becomes(val)
    /\ UNCHANGED <<lastId, prog, running, capture, left, owner, mode, target>>

Fails ==
    /\ running /\ State \in Alive /\ ~Held
    /\ Post("ERR", "error") /\ Becomes("error")
    /\ UNCHANGED <<lastId, prog, running, capture, left, owner, mode, target>>

EndsSilently ==                       \* a script with no value to return
    /\ running /\ State = "body" /\ prog # "stream"
    /\ Becomes("silent")
    /\ UNCHANGED <<lastId, prog, running, queue, capture, left, owner, mode, target>>

SlotFrees ==
    /\ running /\ State \notin Alive
    /\ running' = FALSE
    /\ UNCHANGED <<lastId, prog, fate, queue, capture, left, owner, mode, target>>

DownloadTimeout ==
    /\ capture \in {"ready", "other"}
    /\ capture' = "notset" /\ left' = 0
    /\ UNCHANGED <<lastId, prog, fate, running, queue, owner, mode, target>>

LensSettles ==
    /\ mode # target
    /\ mode' = target
    /\ UNCHANGED <<lastId, prog, fate, running, queue, capture, left, owner, target>>

CameraNext ==
    \/ ScriptBegins \/ CaptureRefused \/ Exposes \/ UserMessage \/ Returns
    \/ Fails \/ EndsSilently \/ SlotFrees \/ DownloadTimeout \/ LensSettles
=============================================================================
