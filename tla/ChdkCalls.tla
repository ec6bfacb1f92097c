------------------------------ MODULE ChdkCalls -----------------------------
(***************************************************************************)
(* The calls of ChdkDevice and ChdkPTP that start a script and follow it:  *)
(*                                                                         *)
(*   "lua"            lua_execute(code): drain, start, wait for the value  *)
(*   "submit"         lua_execute(code, do_return=False): start only       *)
(*   "shoot"          shoot(): start, wait for the script to end           *)
(*   "stream"         shoot(stream=True): start, take the picture, drain   *)
(*   "switch_record", "switch_play"   switch_mode(mode): start, wait, then *)
(*                    ask get_mode() up to MaxPolls times                  *)
(*                                                                         *)
(* Every step of the host is one PTP transaction with the decision taken   *)
(* on its answer; the camera takes any number of steps in between.  "Sleep *)
(* and poll again" changes nothing and is a stuttering step.  The deadline *)
(* of a loop is read at the loop's head and nowhere else, so "the deadline *)
(* passed and the loop was left" is the one step Expire.  A transaction    *)
(* that fails raises out of the call and leaves the wire in step, as when  *)
(* its write failed or its response was an error; a read that timed out    *)
(* leaves its answer to the next call, which is the subject of PTPSession. *)
(*                                                                         *)
(* An operator named Slip... is a plausible slip in the definition below   *)
(* it: put in its place, it makes a property below fail.                   *)
(***************************************************************************)
EXTENDS ChdkCamera

CONSTANTS Ops,          \* the calls the host makes
          DrainLimit,   \* drain_messages' range: 50 in the code
          MaxPolls,     \* switch_mode's range: 8 in the code
          ChunkLimit,   \* MAX_CAPTURE_CHUNKS: 10000 in the code
          MaxFaults     \* bound: transactions that fail in one behaviour

AllOps == {"lua", "submit", "shoot", "stream", "switch_record", "switch_play"}

ASSUME CallsAssumption ==
    /\ Ops \subseteq AllOps
    /\ DrainLimit \in Nat /\ MaxFaults \in Nat
    /\ MaxPolls \in Nat \ {0} /\ ChunkLimit \in Nat \ {0}

VARIABLES op,        \* the call in progress, or the last one
          pc,        \* its next transaction, "idle" between calls
          sid,       \* script_id, 0 until execute_script has answered
          polls,     \* switch_mode: get_mode() calls begun, 0 before the first
          drained,   \* messages read by the current drain_messages
          status,    \* _shoot_streaming: the last answer of is_ready
          graceOver, \* _shoot_streaming: init_deadline has passed
          chunks,    \* _last_capture_chunks
          picture,   \* the script whose chunks are in image, 0 for None
          outcome,   \* what the call returned or raised
          faults,    \* transactions that have failed
          raised     \* history: a streaming call has ended without a picture

host == <<op, pc, sid, polls, drained, status, graceOver, chunks, picture, outcome,
          faults, raised>>
vars == <<camera, host>>

Loops    == {"wait_poll", "lua_poll", "cap_ready"}     \* where deadlines are read
Draining == {"drain_poll", "drain_read"}
Reading  == {"drain_read", "wait_read", "lua_read", "cap_read"}
Points   == {"idle", "start", "cap_status", "cap_data"} \cup Loops \cup Draining \cup Reading
Answers  == RetValues \cup {"none"}                    \* what execute_lua_wait returns
Errors   == {"start_refused", "script_error", "timeout", "transport", "not_switched",
             "wrong_format", "init_refused", "not_initialized", "init_late",
             "no_capture", "endless"}
Outcomes == {"pending", "submitted", "shot", "switched", "image"} \cup Answers \cup Errors

TypeOK ==
    /\ CameraTypeOK
    /\ op \in AllOps /\ pc \in Points
    /\ sid \in 0..MaxScripts
    /\ polls \in 0..MaxPolls /\ drained \in 0..DrainLimit
    /\ status \in Captures /\ graceOver \in BOOLEAN
    /\ chunks \in 0..ChunkLimit /\ picture \in 0..MaxScripts
    /\ outcome \in Outcomes
    /\ faults \in 0..MaxFaults /\ raised \in BOOLEAN

Init ==
    /\ CameraInit
    /\ op = "submit" /\ pc = "idle" /\ sid = 0
    /\ polls = 0 /\ drained = 0 /\ status = "notset" /\ graceOver = FALSE
    /\ chunks = 0 /\ picture = 0
    /\ outcome = "pending" /\ faults = 0 /\ raised = FALSE

-----------------------------------------------------------------------------
(* The end of a call.  Its local variables go; script id, picture and chunk *)
(* count stay so that the outcome can be judged.                            *)

Finish(o) ==
    /\ pc' = "idle" /\ outcome' = o
    /\ raised' = (raised \/ (op = "stream" /\ o # "image"))
    /\ polls' = 0 /\ drained' = 0 /\ status' = "notset" /\ graceOver' = FALSE
    /\ UNCHANGED <<op, sid>>

Goto(p) ==
    /\ pc' = p
    /\ UNCHANGED <<op, sid, outcome, raised>>

Locals == <<polls, drained, status, graceOver>>
Image  == <<chunks, picture>>

-----------------------------------------------------------------------------
(* The call itself.  A switch needs a script for each of its polls.        *)

Switches == {"switch_record", "switch_play"}

Room(o) == lastId + (IF o \in Switches THEN 1 + MaxPolls ELSE 1) <= MaxScripts

SlipChunksKept == chunks
ChunksAtAttempt == 0                  \* reset_capture_chunks

Call(o) ==
    /\ pc = "idle" /\ Room(o)
    /\ op' = o
    /\ pc' = IF o = "lua" THEN "drain_poll" ELSE "start"
    /\ sid' = 0 /\ outcome' = "pending" /\ picture' = 0
    /\ chunks' = IF o = "stream" THEN ChunksAtAttempt ELSE chunks
    /\ UNCHANGED <<camera, Locals, faults, raised>>

(* drain_messages: before every execute_lua_wait, and after a picture.     *)

SlipOneMore == queue # <<>> /\ drained <= DrainLimit
MoreToDrain == queue # <<>> /\ drained < DrainLimit

DrainPoll ==
    /\ pc = "drain_poll"
    /\ IF MoreToDrain THEN Goto("drain_read") /\ UNCHANGED Locals
       ELSE IF op = "stream" THEN Finish("image")
       ELSE Goto("start") /\ drained' = 0 /\ UNCHANGED <<polls, status, graceOver>>
    /\ UNCHANGED <<camera, Image, faults>>

SlipNotCounted(n) == n
Drained(n) == n + 1

DrainRead ==
    /\ pc = "drain_read"
    /\ PopMessage
    /\ Goto("drain_poll")
    /\ drained' = Drained(drained)
    /\ UNCHANGED <<polls, status, graceOver, Image, faults>>

(* execute_script, and where each call goes with the id it returns.        *)

Polling == op \in Switches /\ polls > 0        \* switch_mode asks get_mode()

Script == IF op \in {"lua", "submit"} THEN "lua" ELSE IF Polling THEN "get_mode" ELSE op

SlipWaitFirst(o) == IF o = "lua" \/ Polling THEN "lua_poll" ELSE "wait_poll"
Follow(o) ==
    CASE o = "stream"         -> "cap_ready"
      [] o = "lua" \/ Polling -> "lua_poll"
      [] OTHER                -> "wait_poll"

Start ==
    /\ pc = "start"
    /\ Accept(Script)
    /\ sid' = lastId'
    /\ IF op = "submit"
       THEN pc' = "idle" /\ outcome' = "submitted"
       ELSE pc' = Follow(op) /\ outcome' = outcome
    /\ UNCHANGED <<op, Locals, Image, faults, raised>>

StartRefused ==                       \* a nonzero startup status
    /\ pc = "start"
    /\ Finish("start_refused")
    /\ UNCHANGED <<camera, Image, faults>>

-----------------------------------------------------------------------------
(* wait_for_script, with the id of the script just started.                *)

SlipAnyScript(msg) == TRUE
IsOurs(msg) == msg.id = sid

SlipFlagOnly(isRunning, hasMsgs) == ~isRunning
OverWhen(isRunning, hasMsgs) == ~isRunning /\ ~hasMsgs

WaitPoll ==                           \* running: sleep and poll again
    /\ pc = "wait_poll"
    /\ \/ queue # <<>> /\ Goto("wait_read") /\ UNCHANGED Locals
       \/ OverWhen(running, queue # <<>>) /\ op = "shoot" /\ Finish("shot")
       \/ /\ OverWhen(running, queue # <<>>) /\ op # "shoot"
          /\ Goto("drain_poll")
          /\ polls' = 1
          /\ UNCHANGED <<drained, status, graceOver>>
    /\ UNCHANGED <<camera, Image, faults>>

WaitRead ==
    /\ pc = "wait_read"
    /\ PopMessage
    /\ IF IsOurs(Head(queue)) /\ Head(queue).kind = "ERR"
       THEN Finish("script_error")
       ELSE Goto("wait_poll") /\ UNCHANGED Locals
    /\ UNCHANGED <<Image, faults>>

-----------------------------------------------------------------------------
(* execute_lua_wait, and what switch_mode makes of its answer.             *)

SlipNoneIsFalse(v) == (v \notin {"false", "nil", "none"}) <=> (op = "switch_record")
Confirms(v) ==
    /\ v \notin {"nil", "none"}                \* Python's None: no answer
    /\ (v # "false") <=> (op = "switch_record")

Answer(v) ==
    IF op = "lua" THEN Finish(v)
    ELSE IF Confirms(v) THEN Finish("switched")
    ELSE IF polls < MaxPolls
         THEN /\ Goto("drain_poll")
              /\ polls' = polls + 1
              /\ UNCHANGED <<drained, status, graceOver>>
    ELSE Finish("not_switched")

LuaPoll ==                            \* running: sleep and poll again
    /\ pc = "lua_poll"
    /\ \/ queue # <<>> /\ Goto("lua_read") /\ UNCHANGED Locals
       \/ OverWhen(running, queue # <<>>) /\ Answer("none")
    /\ UNCHANGED <<camera, Image, faults>>

LuaRead ==
    /\ pc = "lua_read"
    /\ PopMessage
    /\ LET msg == Head(queue)
       IN  IF ~IsOurs(msg) \/ msg.kind = "USER"
           THEN Goto("lua_poll") /\ UNCHANGED Locals
           ELSE IF msg.kind = "RET" THEN Answer(msg.val) ELSE Finish("script_error")
    /\ UNCHANGED <<Image, faults>>

-----------------------------------------------------------------------------
(* _shoot_streaming: readiness first, messages second.                     *)

CapReady ==
    /\ pc = "cap_ready"
    /\ CASE capture = "ready" -> Goto("cap_data") /\ chunks' = 0 /\ UNCHANGED Locals
         [] capture = "other" -> Finish("wrong_format") /\ UNCHANGED chunks
         [] OTHER ->
              /\ Goto("cap_status")
              /\ status' = capture
              /\ UNCHANGED <<polls, drained, graceOver, chunks>>
    /\ UNCHANGED <<camera, picture, faults>>

(* The errors of the loop; each is looked at after the queue.              *)
NotInitialized == status = "notset" /\ ~running
InitLate       == status = "notset" /\ running /\ graceOver
NoCapture      == status # "notset" /\ ~running

CapStatus ==
    /\ pc = "cap_status"
    /\ CASE queue # <<>>   -> Goto("cap_read") /\ UNCHANGED Locals
         [] NotInitialized /\ queue = <<>> -> Finish("not_initialized")
         [] InitLate /\ queue = <<>>       -> Finish("init_late")
         [] NoCapture /\ queue = <<>>      -> Finish("no_capture")
         [] OTHER          -> Goto("cap_ready") /\ UNCHANGED Locals
    /\ UNCHANGED <<camera, Image, faults>>

(* After a message that says nothing the loop asks for readiness again     *)
(* ("continue"), whatever the running flag said.                           *)
SlipNoContinue ==
    IF running THEN Goto("cap_ready") /\ UNCHANGED Locals ELSE Finish("no_capture")
AskAgain == Goto("cap_ready") /\ UNCHANGED Locals

CapRead ==
    /\ pc = "cap_read"
    /\ PopMessage
    /\ LET msg == Head(queue)
       IN  CASE IsOurs(msg) /\ msg.kind = "ERR" -> Finish("script_error")
             [] IsOurs(msg) /\ msg.kind = "RET" /\ msg.val = "false" ->
                  Finish("init_refused")
             [] OTHER -> AskAgain
    /\ UNCHANGED <<Image, faults>>

(* remote_capture_get_data: a chunk a transaction until "more" is clear.   *)
SlipOneChunk == TRUE
LastChunk == left = 1

CapData ==
    /\ pc = "cap_data"
    /\ GiveChunk
    /\ chunks' = chunks + 1 /\ picture' = owner
    /\ IF LastChunk THEN Goto("drain_poll") /\ UNCHANGED Locals
       ELSE IF chunks + 1 = ChunkLimit THEN Finish("endless")
       ELSE Goto("cap_data") /\ UNCHANGED Locals
    /\ UNCHANGED faults

CapGone ==                            \* the camera has dropped the picture
    /\ pc = "cap_data" /\ capture # "ready"
    /\ Finish("transport")
    /\ UNCHANGED <<camera, Image, faults>>

-----------------------------------------------------------------------------
(* Time, and transactions that fail before or after the camera acted on    *)
(* them.  Only the drain behind a picture swallows the exception.          *)

GraceEnds ==
    /\ pc \in {"cap_ready", "cap_status", "cap_read"} /\ ~graceOver
    /\ graceOver' = TRUE
    /\ UNCHANGED <<camera, op, pc, sid, polls, drained, status, Image, outcome, faults,
                   raised>>

Expire ==
    /\ pc \in Loops
    /\ Finish("timeout")
    /\ UNCHANGED <<camera, Image, faults>>

TransportError == IF op = "stream" /\ pc \in Draining THEN "image" ELSE "transport"

TransactionFails ==
    /\ pc # "idle" /\ faults < MaxFaults
    /\ pc = "drain_poll" => drained < DrainLimit       \* else nothing is asked
    /\ faults' = faults + 1
    /\ \/ UNCHANGED camera
       \/ pc = "start" /\ Accept(Script)
       \/ pc \in Reading /\ PopMessage
       \/ pc = "cap_data" /\ GiveChunk
    /\ Finish(TransportError)
    /\ UNCHANGED Image

-----------------------------------------------------------------------------
ScriptsUsedUp ==                      \* the bound, not the program, ends here
    /\ pc = "idle" /\ \A o \in Ops : ~Room(o)
    /\ UNCHANGED vars

Transaction ==
    \/ DrainPoll \/ DrainRead \/ Start \/ StartRefused \/ WaitPoll \/ WaitRead
    \/ LuaPoll \/ LuaRead \/ CapReady \/ CapStatus \/ CapRead \/ CapData \/ CapGone

Next ==
    \/ \E o \in Ops : Call(o)
    \/ Transaction
    \/ GraceEnds \/ Expire \/ TransactionFails
    \/ CameraNext /\ UNCHANGED host
    \/ ScriptsUsedUp

Spec == Init /\ [][Next]_vars

(* The host thread keeps polling; nothing is assumed of the camera.        *)
PollSpec == Spec /\ WF_vars(Transaction)

-----------------------------------------------------------------------------
Ended(outcomes) == pc = "idle" /\ outcome \in outcomes

(* A value, a None or a clean return is what this very script came to: not *)
(* another script's message, not a script that failed, was killed or still *)
(* runs (execute_lua_wait, wait_for_script).                               *)
ReturnMeansSuccess ==
    /\ Ended(RetValues) => fate[sid] = outcome
    /\ Ended({"none", "shot"}) => fate[sid] = "silent"

(* The calls as their caller sees them: scripts of a call are run one at a *)
(* time and never killed by the call itself, and what a call was told of   *)
(* its script stays true until the next call.                              *)
Truth ==
    IF sid = 0 THEN "none" ELSE IF fate[sid] \in Alive THEN "alive" ELSE fate[sid]

Promised == [op |-> op, busy |-> pc # "idle", truth |-> Truth, outcome |-> outcome]

Abstract == INSTANCE DeviceCall WITH call <- Promised

(* ChdkCalls implements DeviceCall: every transaction, and every step of   *)
(* the camera between two, is a step of the call or none at all            *)
(* (lua_execute, switch_mode, shoot over ChdkPTP).                         *)
ImplementsCall == Abstract!Spec

(* An error blames the script that made it, and a script that explained    *)
(* itself is reported by its own words, never by the state it left remote  *)
(* capture in (device.py 460-462).                                         *)
OwnWords ==
    /\ Ended({"script_error"}) => fate[sid] = "error"
    /\ Ended({"init_refused"}) => fate[sid] = "false"
    /\ Ended({"not_initialized", "no_capture"}) => fate[sid] = "true"

(* "Finished without producing a capture" is never said of a script whose  *)
(* picture is waiting in the camera: the loop asks again after a message.  *)
PictureNotAbandoned ==
    Ended({"not_initialized", "no_capture"}) => ~(capture = "ready" /\ owner = sid)

(* switch_mode returns only with the lens in the mode asked for and no     *)
(* earlier switch about to move it away.                                   *)
ModeConfirmed ==
    Ended({"switched"}) => mode = target /\ (op = "switch_record" <=> mode = "record")

(* A picture of an earlier capture can come back only after a streaming    *)
(* call that ended without its own: a picture that was taken is taken      *)
(* whole (remote_capture_get_data, _shoot_streaming).                      *)
StalePictureOnlyAfterFailure ==
    Ended({"image"}) /\ picture # sid => raised

(* Documented for the streaming shot, which promises the JPEG of the photo *)
(* it takes (device.py 287, 341); is_ready does not say whose picture is   *)
(* ready, and the loop takes any.                                          *)
FreshPicture == Ended({"image"}) => picture = sid

(* The chunk count never reports the chunks of an earlier capture: during  *)
(* and after a streaming call it is zero until this call's first chunk.    *)
ChunkCountIsThisCalls ==
    op = "stream" => (chunks = 0 <=> picture = 0)

(* Every call comes to an end, whatever the camera and the queue do, when  *)
(* the clock advances: a loop whose head is reached again and again finds  *)
(* its deadline passed in the end.                                         *)
CallsEnd == SF_vars(Expire) => []<>(pc = "idle")

(* Without any help from the clock the host comes for the picture while    *)
(* the script is held for it: the two never wait on each other.            *)
PipelineServiced ==
    (op = "stream" /\ pc # "idle" /\ capture = "ready" /\ owner = sid)
        ~> (pc = "idle" \/ capture # "ready")
=============================================================================
