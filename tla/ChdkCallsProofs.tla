--------------------------- MODULE ChdkCallsProofs --------------------------
(***************************************************************************)
(* What the calls of ChdkCalls guarantee for every queue length, number of *)
(* scripts, chunks, polls and faults: their types, that a return means the *)
(* script's own success, and that an error is reported in the script's own *)
(* words.                                                                  *)
(*                                                                         *)
(* The argument: every final message in the queue tells the fate of the    *)
(* script it is from (CamInv), and while a call follows its script, the    *)
(* final message it must not miss is still unread once it has been sent    *)
(* (Untold).  A loop that leaves on an empty queue with no script running  *)
(* therefore knows that there was no such message.                         *)
(*                                                                         *)
(* The second part adds that the call of the abstract device is            *)
(* implemented, that a confirmed switch has happened, and that pictures    *)
(* and chunk counts are those of the call.  It takes three more parts of   *)
(* an invariant: which calls can be at which point of the program, and of  *)
(* which script they then speak (Where, Fresh); how far the lens has       *)
(* followed the switch that is being confirmed (LensInv); and whose        *)
(* picture the capture buffer holds (BufferInv, OwnPicture).  The          *)
(* refinement needs Where and Fresh to tell which outcomes a call can come *)
(* to and that no launch kills a script the call has still to wait for.    *)
(***************************************************************************)
EXTENDS ChdkCalls, SequenceTheorems, TLAPS

Final == RetValues \cup {"error"}

FateInv ==
    /\ \A id \in Scripts : fate[id] = "unstarted" <=> id > lastId
    /\ \A id \in Scripts : fate[id] \in Alive => id = lastId /\ running
    /\ \A id \in Scripts : fate[id] = "killed" => id < lastId
    /\ running => lastId \in Scripts
    /\ lastId \in Scripts =>
          /\ prog \in {"shoot", "switch_record", "switch_play"} => fate[lastId] \notin RetValues
          /\ prog = "stream" => fate[lastId] \in Alive \cup {"true", "false", "error"}

Truthful(m, n, f) ==
    /\ m.id <= n
    /\ m.kind # "USER" => m.val = f[m.id]
    /\ m.kind = "ERR" <=> m.val = "error"
    /\ m.kind = "USER" <=> m.val = "text"

QueueInv == \A i \in 1..Len(queue) : Truthful(queue[i], lastId, fate)

CamInv ==
    /\ CameraTypeOK /\ FateInv /\ QueueInv
    /\ capture = "ready" => left > 0

WaitPcs   == {"wait_poll", "wait_read"}
LuaPcs    == {"lua_poll", "lua_read"}
CapPcs    == {"cap_ready", "cap_status", "cap_read"}
Following == WaitPcs \cup LuaPcs \cup CapPcs

(* The final messages a loop must not miss.                                *)
MustHear == IF pc \in WaitPcs THEN {"error"}
            ELSE IF pc \in LuaPcs THEN Final
            ELSE {"error", "false"}

Queued(id, val) == \E i \in 1..Len(queue) : queue[i].id = id /\ queue[i].val = val

Untold ==
    pc \in Following =>
        /\ sid = lastId /\ sid \in Scripts
        /\ fate[sid] \in MustHear => Queued(sid, fate[sid])
        /\ pc \in WaitPcs /\ op = "shoot" => prog = "shoot"
        /\ pc \in CapPcs => prog = "stream"

Judged == RetValues \cup {"none", "shot", "script_error", "init_refused", "not_initialized",
                          "no_capture"}

HostTypeOK ==
    /\ op \in AllOps /\ pc \in Points
    /\ sid \in 0..MaxScripts
    /\ polls \in 0..MaxPolls /\ drained \in 0..DrainLimit
    /\ status \in Captures /\ graceOver \in BOOLEAN
    /\ chunks \in 0..ChunkLimit /\ picture \in 0..MaxScripts
    /\ outcome \in Outcomes
    /\ faults \in 0..MaxFaults /\ raised \in BOOLEAN

Bounds ==
    /\ pc = "drain_read" => drained < DrainLimit
    /\ pc = "cap_data" => chunks < ChunkLimit

HostInv ==
    /\ HostTypeOK /\ Bounds /\ Untold
    /\ ReturnMeansSuccess /\ OwnWords
    /\ Ended(Judged) => sid \in Scripts

IInv == CamInv /\ HostInv

(* What a step of the camera keeps: final fates, what is queued, and no    *)
(* script reaches a final fate with a message before that message.         *)
Kept ==
    /\ lastId' = lastId /\ prog' = prog
    /\ \A id \in Scripts : fate[id] \notin Alive => fate'[id] = fate[id]
    /\ \A id \in Scripts : fate[id] \in Alive /\ fate'[id] \in Final => Queued(id, fate[id])'
    /\ \A id \in Scripts : \A val \in Final : Queued(id, val) => Queued(id, val)'

-----------------------------------------------------------------------------
LEMMA Constants ==
    /\ MaxScripts \in Nat /\ MaxChunks \in Nat \ {0}
    /\ DrainLimit \in Nat /\ MaxFaults \in Nat
    /\ MaxPolls \in Nat \ {0} /\ ChunkLimit \in Nat \ {0} /\ Ops \subseteq AllOps
  BY CameraAssumption, CallsAssumption DEF CameraAssumption, CallsAssumption

LEMMA Camera ==
    ASSUME CamInv
    PROVE  /\ lastId \in 0..MaxScripts /\ lastId \in Nat
           /\ queue \in Seq(Messages) /\ Len(queue) \in Nat
           /\ \A i \in 1..Len(queue) : queue[i] \in Messages /\ Truthful(queue[i], lastId, fate)
           /\ fate \in [Scripts -> Fates]
           /\ running => lastId \in Scripts
  BY Constants, LenProperties, ElementOfSeq DEF CamInv, CameraTypeOK, FateInv, QueueInv

(* A state without a message: the script gets on, or ends with no value.   *)
LEMMA QuietInv ==
    ASSUME CamInv, running, State \in Alive,
           NEW state \in {"body", "shot", "silent"}, Becomes(state),
           prog = "stream" => state # "silent",
           UNCHANGED <<lastId, prog, running, queue, mode>>,
           capture' \in Captures, left' \in 0..MaxChunks, owner' \in 0..MaxScripts,
           target' \in Modes, capture' = "ready" => left' > 0
    PROVE  CamInv' /\ Kept
  <1>1. /\ lastId \in Scripts /\ fate \in [Scripts -> Fates] /\ fate[lastId] \in Alive
        /\ fate' = [fate EXCEPT ![lastId] = state]
    BY Camera DEF State, Becomes
  <1>2. /\ fate' \in [Scripts -> Fates] /\ fate'[lastId] = state
        /\ \A id \in Scripts : id # lastId => fate'[id] = fate[id]
    BY <1>1 DEF Fates, Alive
  <1>3. state \notin Final /\ state # "unstarted" /\ state # "killed"
        /\ \A f \in Alive : f \notin Final
    BY DEF Final, RetValues, Alive
  <1>4. FateInv'
    BY <1>1, <1>2, <1>3, Constants DEF CamInv, CameraTypeOK, FateInv, Final, Alive, Scripts
  <1>5. QueueInv'
    <2> SUFFICES ASSUME NEW i \in 1..Len(queue) PROVE Truthful(queue[i], lastId, fate')
      BY DEF QueueInv
    <2>1. queue[i] \in Messages /\ Truthful(queue[i], lastId, fate)
      BY Camera
    <2>2. CASE queue[i].kind = "USER"
      BY <2>1, <2>2 DEF Truthful
    <2>3. CASE queue[i].kind # "USER"
      <3>1. fate[queue[i].id] \in Final /\ queue[i].id \in Scripts
        BY <2>1, <2>3 DEF Truthful, Messages, Final
      <3>2. queue[i].id # lastId
        BY <1>1, <1>3, <3>1
      <3> QED
        BY <1>2, <2>1, <3>1, <3>2 DEF Truthful
    <2> QED
      BY <2>2, <2>3
  <1>6. CameraTypeOK'
    BY <1>2 DEF CamInv, CameraTypeOK
  <1>7. Kept
    BY <1>1, <1>2, <1>3 DEF Kept, Queued
  <1> QED
    BY <1>4, <1>5, <1>6, <1>7 DEF CamInv

(* A final message and the fate it tells.                                  *)
LEMMA PostInv ==
    ASSUME CamInv, running, State \in Alive,
           NEW kind \in {"RET", "ERR"}, NEW val \in Final, kind = "ERR" <=> val = "error",
           Post(kind, val), Becomes(val),
           val \in RetValues => prog \notin {"shoot", "switch_record", "switch_play"},
           prog = "stream" => val \in {"true", "false", "error"},
           UNCHANGED <<lastId, prog, running, capture, left, owner, mode, target>>
    PROVE  CamInv' /\ Kept
  <1> DEFINE m == [id |-> lastId, kind |-> kind, val |-> val]
  <1>1. /\ lastId \in Scripts /\ fate \in [Scripts -> Fates] /\ fate[lastId] \in Alive
        /\ fate' = [fate EXCEPT ![lastId] = val] /\ queue' = Append(queue, m)
        /\ queue \in Seq(Messages) /\ lastId \in Nat
    BY Camera DEF State, Becomes, Post
  <1>2. m \in Messages /\ m.id = lastId /\ m.kind = kind /\ m.val = val
    BY <1>1 DEF Messages, Final
  <1> HIDE DEF m
  <1>3. /\ queue' \in Seq(Messages) /\ Len(queue') = Len(queue) + 1 /\ Len(queue) \in Nat
        /\ \A i \in 1..Len(queue) : queue'[i] = queue[i]
        /\ queue'[Len(queue) + 1] = m
    BY <1>1, <1>2, AppendProperties, LenProperties
  <1>4. /\ fate' \in [Scripts -> Fates] /\ fate'[lastId] = val
        /\ \A id \in Scripts : id # lastId => fate'[id] = fate[id]
    BY <1>1 DEF Fates, Final
  <1>5. /\ val \notin Alive /\ val # "unstarted" /\ val # "killed" /\ val # "text"
        /\ \A f \in Alive : f \notin Final
    BY DEF Final, RetValues, Alive
  <1>6. FateInv'
    BY <1>1, <1>4, <1>5, Constants DEF CamInv, FateInv, Scripts
  <1>7. Truthful(m, lastId', fate')
    BY <1>1, <1>2, <1>4, <1>5 DEF Truthful
  <1>8. QueueInv'
    <2> SUFFICES ASSUME NEW i \in 1..Len(queue') PROVE Truthful(queue'[i], lastId', fate')
      BY DEF QueueInv
    <2>1. CASE i = Len(queue) + 1
      BY <1>3, <1>7, <2>1 DEF Truthful
    <2>2. CASE i \in 1..Len(queue)
      <3>1. queue'[i] = queue[i] /\ queue[i] \in Messages /\ Truthful(queue[i], lastId, fate)
        BY <1>3, <2>2, Camera
      <3>2. queue[i].kind # "USER" =>
               fate[queue[i].id] \in Final /\ queue[i].id \in Scripts /\ queue[i].id # lastId
        BY <1>1, <1>5, <3>1 DEF Truthful, Messages, Final
      <3> QED
        BY <1>4, <3>1, <3>2 DEF Truthful
    <2> QED
      BY <1>3, <2>1, <2>2
  <1>9. CameraTypeOK'
    BY <1>3, <1>4 DEF CamInv, CameraTypeOK
  <1>10. Queued(lastId, val)'
    BY <1>2, <1>3 DEF Queued
  <1>11. \A id \in Scripts : \A v \in Final : Queued(id, v) => Queued(id, v)'
    BY <1>3 DEF Queued
  <1>12. Kept
    BY <1>1, <1>4, <1>5, <1>10, <1>11 DEF Kept
  <1> QED
    BY <1>6, <1>8, <1>9, <1>12 DEF CamInv

LEMMA UserMessageInv == CamInv /\ UserMessage => CamInv' /\ Kept
  <1> SUFFICES ASSUME CamInv, UserMessage PROVE CamInv' /\ Kept
    OBVIOUS
  <1> DEFINE m == [id |-> lastId, kind |-> "USER", val |-> "text"]
  <1>1. /\ lastId \in Scripts /\ lastId \in Nat /\ queue' = Append(queue, m)
        /\ queue \in Seq(Messages) /\ fate' = fate /\ lastId' = lastId
    BY Camera DEF UserMessage, Post
  <1>2. m \in Messages /\ m.id = lastId /\ m.kind = "USER" /\ m.val = "text"
    BY <1>1 DEF Messages
  <1> HIDE DEF m
  <1>3. /\ queue' \in Seq(Messages) /\ Len(queue') = Len(queue) + 1 /\ Len(queue) \in Nat
        /\ \A i \in 1..Len(queue) : queue'[i] = queue[i]
        /\ queue'[Len(queue) + 1] = m
    BY <1>1, <1>2, AppendProperties, LenProperties
  <1>4. QueueInv'
    <2> SUFFICES ASSUME NEW i \in 1..Len(queue') PROVE Truthful(queue'[i], lastId', fate')
      BY DEF QueueInv
    <2>1. CASE i = Len(queue) + 1
      BY <1>1, <1>2, <1>3, <2>1 DEF Truthful
    <2>2. CASE i \in 1..Len(queue)
      BY <1>1, <1>3, <2>2, Camera
    <2> QED
      BY <1>3, <2>1, <2>2
  <1>5. CameraTypeOK' /\ FateInv' /\ (capture = "ready" => left > 0)'
    BY <1>3 DEF UserMessage, CamInv, CameraTypeOK, FateInv
  <1>6. \A id \in Scripts : \A v \in Final : Queued(id, v) => Queued(id, v)'
    BY <1>3 DEF Queued
  <1>7. \A f \in Alive : f \notin Final
    BY DEF Final, RetValues, Alive
  <1>8. Kept
    BY <1>6, <1>7 DEF UserMessage, Kept
  <1> QED
    BY <1>4, <1>5, <1>8 DEF CamInv

(* Steps that touch neither a fate nor the queue.                          *)
LEMMA AsideInv ==
    ASSUME CamInv, SlotFrees \/ DownloadTimeout \/ LensSettles
    PROVE  CamInv' /\ Kept
  <1>1. UNCHANGED <<lastId, prog, fate, queue>>
    BY DEF SlotFrees, DownloadTimeout, LensSettles
  <1>2. \A f \in Alive : f \notin Final
    BY DEF Final, RetValues, Alive
  <1>3. Kept
    BY <1>1, <1>2 DEF Kept, Queued
  <1>4. FateInv'
    <2>1. CASE SlotFrees
      BY <1>1, <2>1 DEF SlotFrees, CamInv, FateInv, State
    <2>2. CASE DownloadTimeout \/ LensSettles
      BY <1>1, <2>2 DEF DownloadTimeout, LensSettles, CamInv, FateInv
    <2> QED
      BY <2>1, <2>2
  <1>5. QueueInv'
    BY <1>1 DEF CamInv, QueueInv
  <1>6. CameraTypeOK' /\ (capture = "ready" => left > 0)'
    <2>1. CASE SlotFrees
      BY <2>1 DEF SlotFrees, CamInv, CameraTypeOK
    <2>2. CASE DownloadTimeout
      BY <2>2, Constants DEF DownloadTimeout, CamInv, CameraTypeOK, Captures
    <2>3. CASE LensSettles
      BY <2>3 DEF LensSettles, CamInv, CameraTypeOK
    <2> QED
      BY <2>1, <2>2, <2>3
  <1> QED
    BY <1>3, <1>4, <1>5, <1>6 DEF CamInv

(* Whatever the camera does by itself.                                     *)
LEMMA CameraStep == CamInv /\ CameraNext => CamInv' /\ Kept
  <1> SUFFICES ASSUME CamInv, CameraNext PROVE CamInv' /\ Kept
    OBVIOUS
  <1>0. /\ capture \in Captures /\ left \in 0..MaxChunks /\ owner \in 0..MaxScripts
        /\ target \in Modes /\ mode \in Modes /\ prog \in Programs
        /\ capture = "ready" => left > 0
        /\ lastId \in 0..MaxScripts
    BY DEF CamInv, CameraTypeOK
  <1>1. CASE ScriptBegins
    <2>1. target' \in Modes
      BY <1>0, <1>1 DEF ScriptBegins, Modes
    <2>2. /\ capture' \in Captures /\ left' \in 0..MaxChunks /\ owner' \in 0..MaxScripts
          /\ capture' = "ready" => left' > 0
      BY <1>0, <1>1, Constants DEF ScriptBegins, Captures
    <2>3. State \in Alive /\ "body" \in {"body", "shot", "silent"}
      BY <1>1 DEF ScriptBegins, Alive
    <2> QED
      BY <1>1, <2>1, <2>2, <2>3, QuietInv DEF ScriptBegins
  <1>2. CASE CaptureRefused
    BY <1>2, PostInv DEF CaptureRefused, Alive, Final, RetValues
  <1>3. CASE Exposes
    <2>1. /\ capture' \in Captures /\ left' \in 0..MaxChunks
          /\ capture' = "ready" => left' > 0
      BY <1>3, Constants DEF Exposes, Captures
    <2>2. State \in Alive
      BY <1>3 DEF Exposes, Alive
    <2> QED
      BY <1>0, <1>3, <2>1, <2>2, QuietInv DEF Exposes
  <1>4. CASE UserMessage
    BY <1>4, UserMessageInv
  <1>5. CASE Returns
    <2>1. PICK val \in Returnable : Post("RET", val) /\ Becomes(val)
      BY <1>5 DEF Returns
    <2>2. /\ val \in RetValues /\ prog \notin {"shoot", "switch_record", "switch_play"}
          /\ prog = "stream" => val = "true"
      BY <1>0, <2>1 DEF Returnable, RetValues, Programs
    <2>3. State \in Alive /\ val \in Final /\ val # "error"
      BY <1>5, <2>2 DEF Returns, Alive, Final, RetValues
    <2> QED
      BY <1>5, <2>1, <2>2, <2>3, PostInv DEF Returns
  <1>6. CASE Fails
    BY <1>6, PostInv DEF Fails, Final, RetValues
  <1>7. CASE EndsSilently
    BY <1>0, <1>7, QuietInv DEF EndsSilently, Alive
  <1>8. CASE SlotFrees \/ DownloadTimeout \/ LensSettles
    BY <1>8, AsideInv
  <1> QED
    BY <1>1, <1>2, <1>3, <1>4, <1>5, <1>6, <1>7, <1>8 DEF CameraNext

-----------------------------------------------------------------------------
(* What the host's commands do to the camera.                              *)
LEMMA AcceptInv ==
    ASSUME CamInv, NEW p \in Programs, Accept(p)
    PROVE  /\ CamInv' /\ queue' = queue
           /\ lastId' \in Scripts /\ fate'[lastId'] = "scheduled" /\ prog' = p
           /\ \A id \in Scripts :
                 fate[id] \notin Alive \cup {"unstarted"} => fate'[id] = fate[id]
  <1>1. /\ lastId' = lastId + 1 /\ lastId' \in Scripts /\ prog' = p /\ running' = TRUE
        /\ queue' = queue /\ lastId \in Nat
        /\ fate' = [id \in Scripts |->
                      IF id = lastId + 1 THEN "scheduled"
                      ELSE IF fate[id] \in Alive THEN "killed" ELSE fate[id]]
    BY Camera, Constants DEF Accept, Scripts
  <1>2. \A id \in Scripts : id \in Nat
    BY Constants DEF Scripts
  <1>3. fate' \in [Scripts -> Fates] /\ fate'[lastId'] = "scheduled"
    BY <1>1, Camera DEF Fates, Alive
  <1>4. \A id \in Scripts :
            fate[id] \notin Alive \cup {"unstarted"} => fate'[id] = fate[id]
    BY <1>1, <1>2 DEF CamInv, FateInv
  <1>5. FateInv'
    BY <1>1, <1>2 DEF CamInv, FateInv, Alive, RetValues
  <1>6. QueueInv'
    <2> SUFFICES ASSUME NEW i \in 1..Len(queue) PROVE Truthful(queue[i], lastId', fate')
      BY <1>1 DEF QueueInv
    <2>1. queue[i] \in Messages /\ Truthful(queue[i], lastId, fate)
      BY Camera
    <2>2. queue[i].kind # "USER" =>
             queue[i].id \in Scripts /\ fate[queue[i].id] \notin Alive \cup {"unstarted"}
      <3> SUFFICES ASSUME queue[i].kind # "USER"
                   PROVE  queue[i].id \in Scripts
                          /\ fate[queue[i].id] \notin Alive \cup {"unstarted"}
        OBVIOUS
      <3>1. queue[i].val \in RetValues \cup {"error", "text"} /\ queue[i].id \in Scripts
        BY <2>1 DEF Messages
      <3>2. queue[i].val \in Final /\ fate[queue[i].id] = queue[i].val
        BY <2>1, <3>1 DEF Truthful, Final
      <3>3. \A v \in Final : v \notin Alive \cup {"unstarted"}
        BY DEF Final, RetValues, Alive
      <3> QED
        BY <3>1, <3>2, <3>3
    <2>3. queue[i].id <= lastId'
      <3>1. queue[i].id \in Nat /\ queue[i].id <= lastId
        BY <1>2, <2>1 DEF Truthful, Messages
      <3>2. lastId \in Nat /\ lastId' = lastId + 1
        BY <1>1
      <3>3. \A k, l \in Nat : k <= l => k <= l + 1
        OBVIOUS
      <3> QED
        BY <3>1, <3>2, <3>3
    <2>4. queue[i].kind # "USER" => queue[i].val = fate'[queue[i].id]
      BY <1>4, <2>1, <2>2 DEF Truthful
    <2> QED
      BY <2>1, <2>3, <2>4 DEF Truthful
  <1>7. CameraTypeOK' /\ (capture = "ready" => left > 0)'
    BY <1>1, <1>3, Constants DEF CamInv, CameraTypeOK, Accept, Scripts
  <1> QED
    BY <1>1, <1>3, <1>4, <1>5, <1>6, <1>7 DEF CamInv

LEMMA PopInv ==
    ASSUME CamInv, PopMessage
    PROVE  /\ CamInv'
           /\ UNCHANGED <<lastId, prog, fate, running, capture, owner>>
           /\ Head(queue) \in Messages /\ Truthful(Head(queue), lastId, fate)
           /\ \A id \in Scripts : \A val \in Final :
                 Queued(id, val) => \/ Queued(id, val)'
                                    \/ Head(queue).id = id /\ Head(queue).val = val
  <1>1. /\ queue \in Seq(Messages) /\ queue # <<>> /\ queue' = Tail(queue)
        /\ UNCHANGED <<lastId, prog, fate, running, capture, left, owner, mode, target>>
    BY Camera DEF PopMessage
  <1>2. /\ Len(queue) \in Nat \ {0} /\ Head(queue) = queue[1]
        /\ queue' \in Seq(Messages) /\ Len(queue') = Len(queue) - 1
        /\ \A i \in 1..Len(queue') : queue'[i] = queue[i+1]
    BY <1>1, HeadTailProperties, LenProperties, EmptySeq
  <1>3. Head(queue) \in Messages /\ Truthful(Head(queue), lastId, fate)
    BY <1>2, Camera
  <1>4. QueueInv'
    <2> SUFFICES ASSUME NEW i \in 1..Len(queue') PROVE Truthful(queue'[i], lastId', fate')
      BY DEF QueueInv
    <2>1. i + 1 \in 1..Len(queue) /\ queue'[i] = queue[i+1]
      BY <1>2
    <2> QED
      BY <1>1, <2>1, Camera
  <1>5. ASSUME NEW id \in Scripts, NEW val \in Final, Queued(id, val)
        PROVE  Queued(id, val)' \/ (Head(queue).id = id /\ Head(queue).val = val)
    <2>1. PICK i \in 1..Len(queue) : queue[i].id = id /\ queue[i].val = val
      BY <1>5 DEF Queued
    <2>2. CASE i = 1
      BY <1>2, <2>1, <2>2
    <2>3. CASE i # 1
      <3>1. i - 1 \in 1..Len(queue') /\ (i - 1) + 1 = i
        BY <1>2, <2>1, <2>3
      <3>2. queue'[i - 1] = queue[i]
        BY <1>2, <3>1
      <3> QED
        BY <2>1, <3>1, <3>2 DEF Queued
    <2> QED
      BY <2>2, <2>3
  <1>6. CameraTypeOK' /\ FateInv' /\ (capture = "ready" => left > 0)'
    BY <1>1, <1>2 DEF CamInv, CameraTypeOK, FateInv
  <1> QED
    BY <1>1, <1>3, <1>4, <1>5, <1>6 DEF CamInv

LEMMA GiveInv ==
    ASSUME CamInv, GiveChunk
    PROVE  /\ CamInv'
           /\ UNCHANGED <<lastId, prog, fate, running, queue, owner>>
  <1>1. left \in 1..MaxChunks /\ left - 1 \in 0..MaxChunks
    BY Constants DEF GiveChunk, CamInv, CameraTypeOK
  <1>2. CameraTypeOK' /\ (capture = "ready" => left > 0)'
    BY <1>1, Constants DEF GiveChunk, CamInv, CameraTypeOK, Captures
  <1>3. FateInv' /\ QueueInv'
    BY DEF GiveChunk, CamInv, FateInv, QueueInv
  <1> QED
    BY <1>2, <1>3 DEF CamInv, GiveChunk

-----------------------------------------------------------------------------
LEMMA InitInv == Init => IInv
  <1> SUFFICES ASSUME Init PROVE IInv
    OBVIOUS
  <1>1. queue \in Seq(Messages) /\ Len(queue) = 0
    BY EmptySeq DEF Init, CameraInit
  <1>2. fate \in [Scripts -> Fates] /\ \A id \in Scripts : fate[id] = "unstarted"
    BY DEF Init, CameraInit, Fates
  <1>3. \A id \in Scripts : id > 0
    BY Constants DEF Scripts
  <1>4. 0 \notin Scripts
    BY Constants DEF Scripts
  <1>5. CameraTypeOK
    <2>1. 0 \in 0..MaxScripts /\ 0 \in 0..MaxChunks
      BY Constants
    <2>2. mode \in Modes /\ target \in Modes
      BY DEF Init, CameraInit
    <2>3. lastId = 0 /\ prog = "lua" /\ running = FALSE /\ capture = "notset" /\ left = 0
          /\ owner = 0
      BY DEF Init, CameraInit
    <2> QED
      BY <1>1, <1>2, <2>1, <2>2, <2>3 DEF CameraTypeOK, Programs, Captures
  <1>6. FateInv
    BY <1>2, <1>3, <1>4 DEF Init, CameraInit, FateInv, Alive
  <1>7. CamInv
    BY <1>1, <1>5, <1>6 DEF Init, CameraInit, CamInv, QueueInv
  <1>8. HostTypeOK
    <2>1. /\ 0 \in 0..MaxScripts /\ 0 \in 0..MaxPolls /\ 0 \in 0..DrainLimit
          /\ 0 \in 0..ChunkLimit /\ 0 \in 0..MaxFaults
      BY Constants
    <2>2. graceOver \in BOOLEAN /\ raised \in BOOLEAN
      BY DEF Init
    <2> QED
      BY <2>1, <2>2 DEF Init, HostTypeOK, AllOps, Points, Captures, Outcomes
  <1>9. Bounds /\ Untold /\ ReturnMeansSuccess /\ OwnWords /\ (Ended(Judged) => sid \in Scripts)
    BY DEF Init, Bounds, Untold, Following, WaitPcs, LuaPcs, CapPcs, ReturnMeansSuccess, OwnWords,
           Ended, Judged, RetValues
  <1> QED
    BY <1>7, <1>8, <1>9 DEF IInv, HostInv

(* A call ends: what the outcome claims must be the script's fate.         *)
Deserved(o, f) ==
    /\ o \in RetValues => f = o
    /\ o \in {"none", "shot"} => f = "silent"
    /\ o = "script_error" => f = "error"
    /\ o = "init_refused" => f = "false"
    /\ o \in {"not_initialized", "no_capture"} => f = "true"

LEMMA FinishInv ==
    ASSUME HostInv, NEW o \in Outcomes, Finish(o),
           o \in Judged => sid \in Scripts /\ Deserved(o, fate'[sid]),
           chunks' \in 0..ChunkLimit, picture' \in 0..MaxScripts, faults' \in 0..MaxFaults
    PROVE  HostInv'
  <1>1. HostTypeOK'
    <2>1. raised' \in BOOLEAN /\ graceOver' \in BOOLEAN
      BY DEF Finish, HostInv, HostTypeOK
    <2> QED
      BY <2>1, Constants DEF Finish, HostInv, HostTypeOK, Points, Captures
  <1>2. Bounds' /\ Untold'
    BY DEF Finish, Bounds, Untold, Following, WaitPcs, LuaPcs, CapPcs
  <1>3. pc' = "idle" /\ outcome' = o /\ sid' = sid
    BY DEF Finish
  <1>4. ReturnMeansSuccess' /\ OwnWords' /\ (Ended(Judged) => sid \in Scripts)'
    BY <1>3 DEF ReturnMeansSuccess, OwnWords, Ended, Judged, Deserved
  <1> QED
    BY <1>1, <1>2, <1>4 DEF HostInv

(* A call goes on.                                                         *)
LEMMA GoInv ==
    ASSUME HostInv, HostTypeOK', Bounds', Untold', pc' # "idle"
    PROVE  HostInv'
  BY DEF HostInv, ReturnMeansSuccess, OwnWords, Ended

LEMMA GotoInv ==
    ASSUME HostInv, NEW p \in Points \ {"idle"}, Goto(p), Bounds', Untold',
           polls' \in 0..MaxPolls, drained' \in 0..DrainLimit, status' \in Captures,
           graceOver' \in BOOLEAN, chunks' \in 0..ChunkLimit, picture' \in 0..MaxScripts,
           faults' \in 0..MaxFaults
    PROVE  HostInv'
  <1>1. HostTypeOK' /\ pc' # "idle"
    BY DEF Goto, HostInv, HostTypeOK
  <1> QED
    BY <1>1, GoInv

(* A message that is not the one to wait for leaves the loop going.        *)
LEMMA StayInv ==
    ASSUME CamInv, HostInv, pc \in Following, pc' \in Following, MustHear' = MustHear,
           pc \in WaitPcs <=> pc' \in WaitPcs, pc \in CapPcs <=> pc' \in CapPcs,
           sid' = sid, op' = op,
           \/ UNCHANGED camera
           \/ PopMessage /\ ~(Head(queue).id = sid /\ Head(queue).val \in MustHear)
    PROVE  Untold'
  <1>1. sid \in Scripts /\ MustHear \subseteq Final
    BY DEF HostInv, Untold, MustHear, Final, RetValues
  <1>2. UNCHANGED <<lastId, prog, fate>>
    BY DEF camera, PopMessage
  <1>3. ASSUME fate[sid] \in MustHear PROVE Queued(sid, fate[sid])'
    <2>1. Queued(sid, fate[sid]) /\ fate[sid] \in Final
      BY <1>1, <1>3 DEF HostInv, Untold
    <2>2. CASE UNCHANGED camera
      BY <2>1, <2>2, <1>2 DEF camera, Queued
    <2>3. CASE PopMessage /\ ~(Head(queue).id = sid /\ Head(queue).val \in MustHear)
      <3>1. Queued(sid, fate[sid])' \/ (Head(queue).id = sid /\ Head(queue).val = fate[sid])
        <4> DEFINE v == fate[sid]
        <4>1. v \in Final /\ Queued(sid, v)
          BY <2>1
        <4> HIDE DEF v
        <4>2. (\E i \in 1..Len(queue') : queue'[i].id = sid /\ queue'[i].val = v)
              \/ (Head(queue).id = sid /\ Head(queue).val = v)
          BY <1>1, <2>3, <4>1, PopInv DEF Queued
        <4> QED
          BY <4>2, <1>2 DEF Queued, v
      <3> QED
        BY <2>3, <3>1, <1>3
    <2> QED
      BY <2>2, <2>3
  <1>4. /\ pc' \in WaitPcs /\ op' = "shoot" => prog' = "shoot"
        /\ pc' \in CapPcs => prog' = "stream"
    BY <1>2 DEF HostInv, Untold
  <1>5. sid = lastId
    BY DEF HostInv, Untold
  <1> QED
    BY <1>1, <1>2, <1>3, <1>4, <1>5 DEF Untold

(* Nothing queued and nothing running: the script's fate is sealed, and no *)
(* message was missed.                                                     *)
LEMMA SealedFate ==
    ASSUME CamInv, HostInv, pc \in Following, ~running, queue = <<>>
    PROVE  /\ sid \in Scripts /\ sid = lastId
           /\ fate[sid] \in (Final \cup {"silent"}) \ MustHear
  <1>1. sid = lastId /\ sid \in Scripts /\ (fate[sid] \in MustHear => Queued(sid, fate[sid]))
    BY DEF HostInv, Untold
  <1>2. ~Queued(sid, fate[sid])
    <2>1. Len(queue) = 0
      BY EmptySeq
    <2> QED
      BY <2>1 DEF Queued
  <1>3. /\ fate[sid] \in Fates /\ fate[sid] \notin Alive
        /\ fate[sid] # "killed" /\ fate[sid] # "unstarted"
    BY <1>1, Camera, Constants DEF CamInv, FateInv, Scripts
  <1> QED
    BY <1>1, <1>2, <1>3 DEF Fates, Final

-----------------------------------------------------------------------------
(* The steps of the host, one lemma an action.                             *)
LEMMA SameCamera == CamInv /\ UNCHANGED camera => CamInv'
  BY DEF CamInv, camera, CameraTypeOK, FateInv, QueueInv, Truthful

LEMMA CallInv ==
    ASSUME CamInv, HostInv, NEW o \in Ops, Call(o)
    PROVE  CamInv' /\ HostInv'
  <1>1. CamInv'
    BY SameCamera DEF Call
  <1>2. pc' \in {"drain_poll", "start"}
    BY DEF Call
  <1>3. chunks' \in 0..ChunkLimit /\ 0 \in 0..MaxScripts /\ o \in AllOps
    BY Constants DEF Call, ChunksAtAttempt, HostInv, HostTypeOK
  <1>4. HostTypeOK'
    BY <1>2, <1>3 DEF Call, Locals, HostInv, HostTypeOK, Points, Draining, Outcomes
  <1>5. Bounds' /\ Untold'
    BY <1>2 DEF Bounds, Untold, Following, WaitPcs, LuaPcs, CapPcs
  <1> QED
    BY <1>1, <1>2, <1>4, <1>5, GoInv

LEMMA DrainPollInv == CamInv /\ HostInv /\ DrainPoll => CamInv' /\ HostInv'
  <1> SUFFICES ASSUME CamInv, HostInv, DrainPoll PROVE CamInv' /\ HostInv'
    OBVIOUS
  <1>1. CamInv'
    BY SameCamera DEF DrainPoll
  <1>2. /\ chunks' \in 0..ChunkLimit /\ picture' \in 0..MaxScripts /\ faults' \in 0..MaxFaults
        /\ HostTypeOK
    BY DEF DrainPoll, Image, HostInv, HostTypeOK
  <1>3. CASE MoreToDrain
    <2>1. Goto("drain_read") /\ UNCHANGED Locals /\ drained < DrainLimit
      BY <1>3 DEF DrainPoll, MoreToDrain
    <2>2. Bounds' /\ Untold'
      BY <2>1 DEF Goto, Locals, Bounds, Untold, Following, WaitPcs, LuaPcs, CapPcs
    <2> QED
      BY <1>1, <1>2, <2>1, <2>2, GotoInv DEF Locals, HostTypeOK, Points, Draining
  <1>4. CASE ~MoreToDrain /\ op = "stream"
    <2>1. Finish("image")
      BY <1>4 DEF DrainPoll
    <2> QED
      BY <1>1, <1>2, <2>1, FinishInv DEF Outcomes, Judged, RetValues
  <1>5. CASE ~MoreToDrain /\ op # "stream"
    <2>1. Goto("start") /\ drained' = 0 /\ UNCHANGED <<polls, status, graceOver>>
      BY <1>5 DEF DrainPoll
    <2>2. Bounds' /\ Untold'
      BY <2>1 DEF Goto, Bounds, Untold, Following, WaitPcs, LuaPcs, CapPcs
    <2>3. drained' \in 0..DrainLimit
      BY <2>1, Constants
    <2> QED
      BY <1>1, <1>2, <2>1, <2>2, <2>3, GotoInv DEF HostTypeOK, Points
  <1> QED
    BY <1>3, <1>4, <1>5

LEMMA DrainReadInv == CamInv /\ HostInv /\ DrainRead => CamInv' /\ HostInv'
  <1> SUFFICES ASSUME CamInv, HostInv, DrainRead PROVE CamInv' /\ HostInv'
    OBVIOUS
  <1>1. CamInv'
    BY PopInv DEF DrainRead
  <1>2. Bounds' /\ Untold'
    BY DEF DrainRead, Goto, Bounds, Untold, Following, WaitPcs, LuaPcs, CapPcs
  <1>3. drained' \in 0..DrainLimit
    BY Constants DEF DrainRead, Drained, HostInv, HostTypeOK, Bounds
  <1> QED
    BY <1>1, <1>2, <1>3, GotoInv DEF DrainRead, Image, HostInv, HostTypeOK, Points, Draining

LEMMA ScriptType ==
    ASSUME HostInv
    PROVE  /\ Script \in Programs
           /\ op \in {"shoot", "stream"} => Script = op
  BY DEF HostInv, HostTypeOK, AllOps, Script, Programs, Polling, Switches

LEMMA StartInv == CamInv /\ HostInv /\ Start => CamInv' /\ HostInv'
  <1> SUFFICES ASSUME CamInv, HostInv, Start PROVE CamInv' /\ HostInv'
    OBVIOUS
  <1>1. /\ CamInv' /\ lastId' \in Scripts /\ fate'[lastId'] = "scheduled" /\ prog' = Script
        /\ sid' = lastId' /\ op' = op
    BY ScriptType, AcceptInv DEF Start
  <1>2. /\ pc' \in {"idle", "cap_ready", "lua_poll", "wait_poll"}
        /\ pc' = "cap_ready" => op = "stream"
        /\ pc' = "idle" => outcome' = "submitted"
        /\ outcome' \in Outcomes
    BY DEF Start, Follow, HostInv, HostTypeOK, Outcomes
  <1>3. sid' \in 0..MaxScripts
    BY <1>1, Constants DEF Scripts
  <1>4. HostTypeOK'
    BY <1>1, <1>2, <1>3 DEF Start, Locals, Image, HostInv, HostTypeOK, Points, Loops
  <1>5. Bounds'
    BY <1>2 DEF Bounds
  <1>6. "scheduled" \notin MustHear'
    BY DEF MustHear, Final, RetValues
  <1>7. Untold'
    BY <1>1, <1>2, <1>6, ScriptType DEF Untold, WaitPcs, CapPcs
  <1>8. CASE pc' = "idle"
    <2>1. ReturnMeansSuccess' /\ OwnWords' /\ (Ended(Judged) => sid \in Scripts)'
      BY <1>2, <1>8 DEF ReturnMeansSuccess, OwnWords, Ended, Judged, RetValues
    <2> QED
      BY <1>1, <1>4, <1>5, <1>7, <2>1 DEF HostInv
  <1>9. CASE pc' # "idle"
    BY <1>1, <1>4, <1>5, <1>7, <1>9, GoInv
  <1> QED
    BY <1>8, <1>9

(* Ends that claim nothing about the script.                               *)
LEMMA PlainEnd ==
    ASSUME HostInv, NEW o \in Outcomes \ Judged, Finish(o), UNCHANGED Image,
           faults' \in 0..MaxFaults
    PROVE  HostInv'
  BY FinishInv DEF Image, HostInv, HostTypeOK

LEMMA PlainEndsInv ==
    ASSUME CamInv, HostInv, StartRefused \/ CapGone \/ Expire
    PROVE  CamInv' /\ HostInv'
  <1>1. CamInv' /\ UNCHANGED Image /\ faults' \in 0..MaxFaults
    BY SameCamera DEF StartRefused, CapGone, Expire, HostInv, HostTypeOK
  <1>2. {"start_refused", "transport", "timeout"} \subseteq Outcomes \ Judged
    BY DEF Outcomes, Errors, Judged, RetValues
  <1>3. Finish("start_refused") \/ Finish("transport") \/ Finish("timeout")
    BY DEF StartRefused, CapGone, Expire
  <1> QED
    BY <1>1, <1>2, <1>3, PlainEnd

LEMMA FailInv == CamInv /\ HostInv /\ TransactionFails => CamInv' /\ HostInv'
  <1> SUFFICES ASSUME CamInv, HostInv, TransactionFails PROVE CamInv' /\ HostInv'
    OBVIOUS
  <1>1. CamInv'
    BY SameCamera, ScriptType, AcceptInv, PopInv, GiveInv DEF TransactionFails
  <1>2. faults' \in 0..MaxFaults
    BY Constants DEF TransactionFails, HostInv, HostTypeOK
  <1>3. TransportError \in Outcomes \ Judged
    BY DEF TransportError, Outcomes, Errors, Judged, RetValues
  <1> QED
    BY <1>1, <1>2, <1>3, PlainEnd DEF TransactionFails

LEMMA GraceInv == CamInv /\ HostInv /\ GraceEnds => CamInv' /\ HostInv'
  <1> SUFFICES ASSUME CamInv, HostInv, GraceEnds PROVE CamInv' /\ HostInv'
    OBVIOUS
  <1>1. CamInv' /\ UNCHANGED camera /\ UNCHANGED <<pc, op, sid>> /\ pc \in CapPcs
    BY SameCamera DEF GraceEnds, CapPcs
  <1>2. Untold'
    <2>1. pc \in Following /\ pc' \in Following /\ MustHear' = MustHear
      BY <1>1 DEF Following, MustHear
    <2> QED
      BY <1>1, <2>1, StayInv
  <1>3. HostTypeOK' /\ Bounds' /\ pc' # "idle"
    BY DEF GraceEnds, Image, HostInv, HostTypeOK, Bounds
  <1> QED
    BY <1>1, <1>2, <1>3, GoInv

(* A loop turns: it goes on waiting for the same script.                   *)
LEMMA TurnInv ==
    ASSUME CamInv, HostInv,
           NEW W \in {WaitPcs, LuaPcs, CapPcs}, pc \in W, NEW p \in W, Goto(p),
           polls' \in 0..MaxPolls, drained' \in 0..DrainLimit, status' \in Captures,
           graceOver' \in BOOLEAN, UNCHANGED <<Image, faults>>,
           \/ UNCHANGED camera
           \/ PopMessage /\ ~(Head(queue).id = sid /\ Head(queue).val \in MustHear)
    PROVE  HostInv'
  <1>1. /\ pc \in Following /\ pc' \in Following /\ MustHear' = MustHear
        /\ pc \in WaitPcs <=> pc' \in WaitPcs
        /\ pc \in CapPcs <=> pc' \in CapPcs
        /\ sid' = sid /\ op' = op /\ pc' = p
    BY DEF Goto, Following, MustHear, WaitPcs, LuaPcs, CapPcs
  <1>2. Untold'
    BY <1>1, StayInv
  <1>3. Bounds' /\ p \in Points \ {"idle"}
    BY <1>1 DEF Bounds, Following, WaitPcs, LuaPcs, CapPcs, Points, Loops, Reading
  <1> QED
    BY <1>2, <1>3, GotoInv DEF Image, HostInv, HostTypeOK

(* A message in a loop is a final one of its script, or not a final one.   *)
LEMMA MessageRead ==
    ASSUME CamInv, PopMessage
    PROVE  LET m == Head(queue)
           IN  /\ m.id \in Scripts /\ m.kind \in {"RET", "ERR", "USER"}
               /\ m.kind = "ERR" => m.val = "error" /\ fate'[m.id] = "error"
               /\ m.kind = "RET" => m.val \in RetValues /\ fate'[m.id] = m.val
               /\ m.kind = "USER" => m.val = "text"
               /\ m.val = "error" => m.kind = "ERR"
               /\ m.val = "false" => m.kind = "RET"
  BY PopInv DEF Messages, Truthful

LEMMA WaitReadInv == CamInv /\ HostInv /\ WaitRead => CamInv' /\ HostInv'
  <1> SUFFICES ASSUME CamInv, HostInv, WaitRead PROVE CamInv' /\ HostInv'
    OBVIOUS
  <1> DEFINE m == Head(queue)
  <1>1. CamInv' /\ PopMessage /\ UNCHANGED <<Image, faults>> /\ pc \in WaitPcs
    BY PopInv DEF WaitRead, WaitPcs
  <1>2. CASE IsOurs(m) /\ m.kind = "ERR"
    <2>1. Finish("script_error")
      BY <1>2 DEF WaitRead
    <2>2. sid \in Scripts /\ Deserved("script_error", fate'[sid])
      BY <1>1, <1>2, MessageRead DEF IsOurs, Deserved, RetValues
    <2>3. "script_error" \in Outcomes
      BY DEF Outcomes, Errors
    <2> QED
      BY <1>1, <2>1, <2>2, <2>3, FinishInv DEF Image, HostInv, HostTypeOK
  <1>3. CASE ~(IsOurs(m) /\ m.kind = "ERR")
    <2>1. Goto("wait_poll") /\ UNCHANGED Locals
      BY <1>3 DEF WaitRead
    <2>2. ~(m.id = sid /\ m.val \in MustHear) /\ "wait_poll" \in WaitPcs
      BY <1>1, <1>3, MessageRead DEF IsOurs, MustHear, WaitPcs
    <2> QED
      BY <1>1, <2>1, <2>2, TurnInv DEF Locals, HostInv, HostTypeOK
  <1> QED
    BY <1>2, <1>3

LEMMA WaitPollInv == CamInv /\ HostInv /\ WaitPoll => CamInv' /\ HostInv'
  <1> SUFFICES ASSUME CamInv, HostInv, WaitPoll PROVE CamInv' /\ HostInv'
    OBVIOUS
  <1>1. CamInv' /\ UNCHANGED camera /\ UNCHANGED <<Image, faults>> /\ pc \in WaitPcs
        /\ pc \in Following
    BY SameCamera DEF WaitPoll, WaitPcs, Following
  <1>2. CASE Goto("wait_read") /\ UNCHANGED Locals
    <2>1. "wait_read" \in WaitPcs
      BY DEF WaitPcs
    <2> QED
      BY <1>1, <1>2, <2>1, TurnInv DEF Locals, HostInv, HostTypeOK
  <1>3. CASE OverWhen(running, queue # <<>>) /\ op = "shoot" /\ Finish("shot")
    <2>1. sid \in Scripts /\ sid = lastId /\ fate[sid] \in (Final \cup {"silent"}) \ {"error"}
      BY <1>1, <1>3, SealedFate DEF OverWhen, MustHear
    <2>2. fate[sid] \notin RetValues
      BY <1>1, <1>3, <2>1 DEF HostInv, Untold, CamInv, FateInv
    <2>3. Deserved("shot", fate'[sid])
      BY <1>1, <2>1, <2>2 DEF Deserved, Final, RetValues, camera
    <2>4. "shot" \in Outcomes
      BY DEF Outcomes
    <2> QED
      BY <1>1, <1>3, <2>1, <2>3, <2>4, FinishInv DEF Image, HostInv, HostTypeOK
  <1>4. CASE Goto("drain_poll") /\ polls' = 1 /\ UNCHANGED <<drained, status, graceOver>>
    <2>1. Bounds' /\ Untold' /\ "drain_poll" \in Points \ {"idle"}
      BY <1>4 DEF Goto, Bounds, Untold, Following, WaitPcs, LuaPcs, CapPcs, Points, Draining
    <2>2. polls' \in 0..MaxPolls
      BY <1>4, Constants
    <2> QED
      BY <1>1, <1>4, <2>1, <2>2, GotoInv DEF Image, HostInv, HostTypeOK
  <1> QED
    BY <1>2, <1>3, <1>4 DEF WaitPoll

LEMMA AnswerInv ==
    ASSUME HostInv, NEW v \in Answers, Answer(v), sid \in Scripts, Deserved(v, fate'[sid]),
           UNCHANGED <<Image, faults>>
    PROVE  HostInv'
  <1>1. v \in Outcomes /\ {"switched", "not_switched"} \subseteq Outcomes \ Judged
    BY DEF Outcomes, Answers, Errors, Judged, RetValues
  <1>2. CASE Finish(v)
    BY <1>1, <1>2, FinishInv DEF Image, HostInv, HostTypeOK
  <1>3. CASE Finish("switched") \/ Finish("not_switched")
    <2>1. UNCHANGED Image /\ faults' \in 0..MaxFaults
      BY DEF HostInv, HostTypeOK
    <2> QED
      BY <1>1, <1>3, <2>1, PlainEnd
  <1>4. CASE /\ polls < MaxPolls /\ Goto("drain_poll") /\ polls' = polls + 1
             /\ UNCHANGED <<drained, status, graceOver>>
    <2>1. Bounds' /\ Untold' /\ "drain_poll" \in Points \ {"idle"}
      BY <1>4 DEF Goto, Bounds, Untold, Following, WaitPcs, LuaPcs, CapPcs, Points, Draining
    <2>2. polls' \in 0..MaxPolls
      BY <1>4, Constants DEF HostInv, HostTypeOK
    <2> QED
      BY <1>4, <2>1, <2>2, GotoInv DEF Image, HostInv, HostTypeOK
  <1> QED
    BY <1>2, <1>3, <1>4 DEF Answer

LEMMA LuaPollInv == CamInv /\ HostInv /\ LuaPoll => CamInv' /\ HostInv'
  <1> SUFFICES ASSUME CamInv, HostInv, LuaPoll PROVE CamInv' /\ HostInv'
    OBVIOUS
  <1>1. CamInv' /\ UNCHANGED camera /\ UNCHANGED <<Image, faults>> /\ pc = "lua_poll"
    BY SameCamera DEF LuaPoll
  <1>2. pc \in LuaPcs /\ "lua_read" \in LuaPcs /\ pc \in Following /\ MustHear = Final
    BY <1>1 DEF LuaPcs, WaitPcs, Following, MustHear
  <1>3. CASE Goto("lua_read") /\ UNCHANGED Locals
    BY <1>1, <1>2, <1>3, TurnInv DEF Locals, HostInv, HostTypeOK
  <1>4. CASE OverWhen(running, queue # <<>>) /\ Answer("none")
    <2>1. sid \in Scripts /\ fate[sid] = "silent"
      BY <1>2, <1>4, SealedFate DEF OverWhen
    <2>2. Deserved("none", fate'[sid]) /\ "none" \in Answers
      BY <1>1, <2>1 DEF Deserved, RetValues, Answers, camera
    <2> QED
      BY <1>1, <1>4, <2>1, <2>2, AnswerInv
  <1> QED
    BY <1>3, <1>4 DEF LuaPoll

LEMMA LuaReadInv == CamInv /\ HostInv /\ LuaRead => CamInv' /\ HostInv'
  <1> SUFFICES ASSUME CamInv, HostInv, LuaRead PROVE CamInv' /\ HostInv'
    OBVIOUS
  <1> DEFINE m == Head(queue)
  <1>1. CamInv' /\ PopMessage /\ UNCHANGED <<Image, faults>> /\ pc = "lua_read"
    BY PopInv DEF LuaRead
  <1>2. pc \in LuaPcs /\ "lua_poll" \in LuaPcs /\ MustHear = Final
    BY <1>1 DEF LuaPcs, WaitPcs, MustHear
  <1>3. CASE ~IsOurs(m) \/ m.kind = "USER"
    <2>1. Goto("lua_poll") /\ UNCHANGED Locals
      BY <1>3 DEF LuaRead
    <2>2. ~(m.id = sid /\ m.val \in MustHear)
      BY <1>1, <1>2, <1>3, MessageRead DEF IsOurs, Final, RetValues
    <2> QED
      BY <1>1, <1>2, <2>1, <2>2, TurnInv DEF Locals, HostInv, HostTypeOK
  <1>4. CASE IsOurs(m) /\ m.kind = "RET"
    <2>1. Answer(m.val)
      BY <1>4 DEF LuaRead
    <2>2. sid \in Scripts /\ m.val \in RetValues /\ fate'[sid] = m.val
      BY <1>1, <1>4, MessageRead DEF IsOurs
    <2>3. m.val \in Answers /\ Deserved(m.val, fate'[sid])
      BY <2>2 DEF Answers, Deserved, RetValues
    <2> QED
      BY <1>1, <2>1, <2>2, <2>3, AnswerInv
  <1>5. CASE IsOurs(m) /\ m.kind = "ERR"
    <2>1. Finish("script_error")
      BY <1>5 DEF LuaRead
    <2>2. sid \in Scripts /\ Deserved("script_error", fate'[sid])
      BY <1>1, <1>5, MessageRead DEF IsOurs, Deserved, RetValues
    <2>3. "script_error" \in Outcomes
      BY DEF Outcomes, Errors
    <2> QED
      BY <1>1, <2>1, <2>2, <2>3, FinishInv DEF Image, HostInv, HostTypeOK
  <1> QED
    BY <1>1, <1>3, <1>4, <1>5, MessageRead

LEMMA CapReadyInv == CamInv /\ HostInv /\ CapReady => CamInv' /\ HostInv'
  <1> SUFFICES ASSUME CamInv, HostInv, CapReady PROVE CamInv' /\ HostInv'
    OBVIOUS
  <1>1. /\ CamInv' /\ UNCHANGED camera /\ UNCHANGED <<picture, faults>> /\ pc \in CapPcs
        /\ HostTypeOK
    BY SameCamera DEF CapReady, CapPcs, HostInv
  <1>2. CASE capture = "ready"
    <2>1. Goto("cap_data") /\ chunks' = 0 /\ UNCHANGED Locals
      BY <1>2 DEF CapReady
    <2>2. Bounds' /\ Untold' /\ chunks' \in 0..ChunkLimit
      BY <2>1, Constants DEF Goto, Bounds, Untold, Following, WaitPcs, LuaPcs, CapPcs
    <2> QED
      BY <1>1, <2>1, <2>2, GotoInv DEF Locals, HostTypeOK, Points
  <1>3. CASE capture = "other"
    <2>1. Finish("wrong_format") /\ UNCHANGED chunks
      BY <1>3 DEF CapReady
    <2>2. "wrong_format" \in Outcomes \ Judged
      BY DEF Outcomes, Errors, Judged, RetValues
    <2> QED
      BY <1>1, <2>1, <2>2, PlainEnd DEF Image, HostTypeOK
  <1>4. CASE capture # "ready" /\ capture # "other"
    <2>1. Goto("cap_status") /\ status' = capture
          /\ UNCHANGED <<polls, drained, graceOver, chunks>>
      BY <1>4 DEF CapReady
    <2>2. status' \in Captures /\ "cap_status" \in CapPcs
      BY <2>1 DEF CamInv, CameraTypeOK, CapPcs
    <2> QED
      BY <1>1, <2>1, <2>2, TurnInv DEF Image, HostTypeOK
  <1> QED
    BY <1>2, <1>3, <1>4

LEMMA CapStatusInv == CamInv /\ HostInv /\ CapStatus => CamInv' /\ HostInv'
  <1> SUFFICES ASSUME CamInv, HostInv, CapStatus PROVE CamInv' /\ HostInv'
    OBVIOUS
  <1>1. /\ CamInv' /\ UNCHANGED camera /\ UNCHANGED <<Image, faults>> /\ pc = "cap_status"
        /\ HostTypeOK
    BY SameCamera DEF CapStatus, HostInv
  <1>2. /\ pc \in CapPcs /\ {"cap_read", "cap_ready"} \subseteq CapPcs /\ pc \in Following
        /\ MustHear = {"error", "false"}
    BY <1>1 DEF CapPcs, WaitPcs, LuaPcs, Following, MustHear
  <1>3. CASE (Goto("cap_read") \/ Goto("cap_ready")) /\ UNCHANGED Locals
    BY <1>1, <1>2, <1>3, TurnInv DEF Locals, HostTypeOK
  <1>4. CASE /\ Finish("not_initialized") \/ Finish("no_capture")
             /\ ~running /\ queue = <<>>
    <2>1. sid \in Scripts /\ sid = lastId
          /\ fate[sid] \in (Final \cup {"silent"}) \ {"error", "false"}
      BY <1>2, <1>4, SealedFate
    <2>2. fate[sid] \in Alive \cup {"true", "false", "error"}
      BY <1>2, <2>1 DEF HostInv, Untold, CamInv, FateInv
    <2>3. fate[sid] = "true"
      BY <2>1, <2>2 DEF Final, RetValues, Alive
    <2>4. Deserved("not_initialized", fate'[sid]) /\ Deserved("no_capture", fate'[sid])
      BY <1>1, <2>3 DEF Deserved, RetValues, camera
    <2>5. {"not_initialized", "no_capture"} \subseteq Outcomes
      BY DEF Outcomes, Errors
    <2> QED
      BY <1>1, <1>4, <2>1, <2>4, <2>5, FinishInv DEF Image, HostTypeOK
  <1>5. CASE Finish("init_late")
    <2>1. "init_late" \in Outcomes \ Judged
      BY DEF Outcomes, Errors, Judged, RetValues
    <2> QED
      BY <1>1, <1>5, <2>1, PlainEnd DEF HostTypeOK
  <1> QED
    BY <1>3, <1>4, <1>5 DEF CapStatus, NotInitialized, NoCapture

LEMMA CapReadInv == CamInv /\ HostInv /\ CapRead => CamInv' /\ HostInv'
  <1> SUFFICES ASSUME CamInv, HostInv, CapRead PROVE CamInv' /\ HostInv'
    OBVIOUS
  <1> DEFINE m == Head(queue)
  <1>1. CamInv' /\ PopMessage /\ UNCHANGED <<Image, faults>> /\ pc = "cap_read" /\ HostTypeOK
    BY PopInv DEF CapRead, HostInv
  <1>2. pc \in CapPcs /\ "cap_ready" \in CapPcs /\ MustHear = {"error", "false"}
    BY <1>1 DEF CapPcs, WaitPcs, LuaPcs, MustHear
  <1>3. CASE IsOurs(m) /\ m.kind = "ERR"
    <2>1. Finish("script_error") /\ "script_error" \in Outcomes
      BY <1>3 DEF CapRead, Outcomes, Errors
    <2>2. sid \in Scripts /\ Deserved("script_error", fate'[sid])
      BY <1>1, <1>3, MessageRead DEF IsOurs, Deserved, RetValues
    <2> QED
      BY <1>1, <2>1, <2>2, FinishInv DEF Image, HostTypeOK
  <1>4. CASE IsOurs(m) /\ m.kind = "RET" /\ m.val = "false"
    <2>1. Finish("init_refused") /\ "init_refused" \in Outcomes
      BY <1>4 DEF CapRead, Outcomes, Errors
    <2>2. sid \in Scripts /\ Deserved("init_refused", fate'[sid])
      BY <1>1, <1>4, MessageRead DEF IsOurs, Deserved, RetValues
    <2> QED
      BY <1>1, <2>1, <2>2, FinishInv DEF Image, HostTypeOK
  <1>5. CASE ~(IsOurs(m) /\ (m.kind = "ERR" \/ (m.kind = "RET" /\ m.val = "false")))
    <2>1. Goto("cap_ready") /\ UNCHANGED Locals
      BY <1>5 DEF CapRead, AskAgain
    <2>2. ~(m.id = sid /\ m.val \in MustHear)
      BY <1>1, <1>2, <1>5, MessageRead DEF IsOurs
    <2> QED
      BY <1>1, <1>2, <2>1, <2>2, TurnInv DEF Locals, HostTypeOK
  <1> QED
    BY <1>3, <1>4, <1>5

LEMMA CapDataInv == CamInv /\ HostInv /\ CapData => CamInv' /\ HostInv'
  <1> SUFFICES ASSUME CamInv, HostInv, CapData PROVE CamInv' /\ HostInv'
    OBVIOUS
  <1>1. CamInv' /\ UNCHANGED <<fate, owner, faults>> /\ pc = "cap_data" /\ HostTypeOK
    BY GiveInv DEF CapData, HostInv
  <1>2. chunks' \in 0..ChunkLimit /\ picture' \in 0..MaxScripts /\ faults' \in 0..MaxFaults
    BY <1>1, Constants DEF CapData, HostInv, HostTypeOK, Bounds, CamInv, CameraTypeOK
  <1>3. CASE Goto("drain_poll") /\ UNCHANGED Locals
    <2>1. Bounds' /\ Untold' /\ "drain_poll" \in Points \ {"idle"}
      BY <1>3 DEF Goto, Bounds, Untold, Following, WaitPcs, LuaPcs, CapPcs, Points, Draining
    <2> QED
      BY <1>1, <1>2, <1>3, <2>1, GotoInv DEF Locals, HostTypeOK
  <1>4. CASE Finish("endless")
    <2>1. "endless" \in Outcomes /\ "endless" \notin Judged
      BY DEF Outcomes, Errors, Judged, RetValues
    <2> QED
      BY <1>1, <1>2, <1>4, <2>1, FinishInv
  <1>5. CASE chunks + 1 # ChunkLimit /\ Goto("cap_data") /\ UNCHANGED Locals
    <2>1. chunks' < ChunkLimit
      BY <1>1, <1>2, <1>5, Constants DEF CapData
    <2>2. Bounds' /\ Untold' /\ "cap_data" \in Points \ {"idle"}
      BY <1>5, <2>1 DEF Goto, Bounds, Untold, Following, WaitPcs, LuaPcs, CapPcs, Points
    <2> QED
      BY <1>1, <1>2, <1>5, <2>2, GotoInv DEF Locals, HostTypeOK
  <1> QED
    BY <1>3, <1>4, <1>5 DEF CapData

(* The host meanwhile: the camera takes a step, the call waits.            *)
LEMMA AsideHost ==
    ASSUME CamInv, HostInv, Kept, UNCHANGED host
    PROVE  HostInv'
  <1>1. HostTypeOK' /\ Bounds' /\ (Ended(Judged) => sid \in Scripts)'
    BY DEF host, HostInv, HostTypeOK, Bounds, Ended
  <1>2. UNCHANGED <<pc, op, sid, outcome>>
    BY DEF host
  <1>3. ReturnMeansSuccess' /\ OwnWords'
    <2>1. \A f \in RetValues \cup {"silent", "error"} : f \notin Alive
      BY DEF RetValues, Alive
    <2>2. Ended(Judged) => sid \in Scripts
      BY DEF HostInv
    <2>3. pc = "idle" /\ outcome \in Judged /\ fate[sid] \notin Alive => fate'[sid] = fate[sid]
      BY <2>2 DEF Kept, Ended
    <2>4. ReturnMeansSuccess'
      <3>1. ASSUME pc = "idle", outcome \in RetValues PROVE fate'[sid] = outcome
        <4>1. fate[sid] = outcome /\ outcome \in Judged
          BY <3>1 DEF HostInv, ReturnMeansSuccess, Ended, Judged
        <4> QED
          BY <2>1, <2>3, <3>1, <4>1
      <3>2. ASSUME pc = "idle", outcome \in {"none", "shot"} PROVE fate'[sid] = "silent"
        <4>1. fate[sid] = "silent" /\ outcome \in Judged
          BY <3>2 DEF HostInv, ReturnMeansSuccess, Ended, Judged
        <4> QED
          BY <2>1, <2>3, <3>2, <4>1
      <3> QED
        BY <1>2, <3>1, <3>2 DEF ReturnMeansSuccess, Ended
    <2>5. OwnWords'
      <3>1. ASSUME pc = "idle", outcome \in {"script_error", "init_refused", "not_initialized",
                                             "no_capture"}
            PROVE  fate'[sid] = fate[sid]
        <4>1. fate[sid] \in {"error", "false", "true"} /\ outcome \in Judged
          BY <3>1 DEF HostInv, OwnWords, Ended, Judged
        <4> QED
          BY <2>1, <2>3, <3>1, <4>1 DEF RetValues
      <3> QED
        BY <1>2, <3>1 DEF HostInv, OwnWords, Ended
    <2> QED
      BY <2>4, <2>5
  <1>4. Untold'
    <2> SUFFICES ASSUME pc \in Following PROVE Untold'
      BY <1>2 DEF Untold, Following
    <2>1. /\ sid = lastId /\ sid \in Scripts /\ lastId' = lastId /\ prog' = prog
          /\ MustHear' = MustHear /\ MustHear \subseteq Final
          /\ fate[sid] \in MustHear => Queued(sid, fate[sid])
      BY <1>2 DEF HostInv, Untold, Kept, MustHear, Final, RetValues
    <2>2. ASSUME fate'[sid] \in MustHear PROVE Queued(sid, fate[sid])'
      <3>1. CASE fate[sid] \in Alive
        BY <1>2, <2>1, <2>2, <3>1 DEF Kept, Queued
      <3>2. CASE fate[sid] \notin Alive
        <4> DEFINE v == fate[sid]
        <4>1. fate'[sid] = v /\ v \in Final /\ Queued(sid, v)
          BY <2>1, <2>2, <3>2 DEF Kept
        <4> HIDE DEF v
        <4>2. \E i \in 1..Len(queue') : queue'[i].id = sid /\ queue'[i].val = v
          BY <2>1, <4>1 DEF Kept, Queued
        <4> QED
          BY <1>2, <4>1, <4>2 DEF Queued
      <3> QED
        BY <3>1, <3>2
    <2> QED
      BY <1>2, <2>1, <2>2 DEF HostInv, Untold
  <1> QED
    BY <1>1, <1>3, <1>4 DEF HostInv

-----------------------------------------------------------------------------
LEMMA NextInv == IInv /\ [Next]_vars => IInv'
  <1> SUFFICES ASSUME CamInv, HostInv, [Next]_vars PROVE CamInv' /\ HostInv'
    BY DEF IInv
  <1>1. CASE \E o \in Ops : Call(o)
    BY <1>1, CallInv
  <1>2. CASE Transaction
    BY <1>2, DrainPollInv, DrainReadInv, StartInv, PlainEndsInv, WaitPollInv, WaitReadInv,
       LuaPollInv, LuaReadInv, CapReadyInv, CapStatusInv, CapReadInv, CapDataInv
       DEF Transaction
  <1>3. CASE GraceEnds \/ Expire \/ TransactionFails
    BY <1>3, GraceInv, PlainEndsInv, FailInv
  <1>4. CASE CameraNext /\ UNCHANGED host
    BY <1>4, CameraStep, AsideHost
  <1>5. CASE UNCHANGED vars
    <2>1. UNCHANGED camera /\ UNCHANGED host
      BY <1>5 DEF vars
    <2>2. \A f \in Alive : f \notin Final
      BY DEF Final, RetValues, Alive
    <2>3. Kept
      BY <2>1, <2>2 DEF Kept, Queued, camera
    <2> QED
      BY <2>1, <2>3, SameCamera, AsideHost
  <1> QED
    BY <1>1, <1>2, <1>3, <1>4, <1>5 DEF Next, ScriptsUsedUp

LEMMA Invariance == Spec => []IInv
  <1>1. Init => IInv
    BY InitInv
  <1>2. IInv /\ [Next]_vars => IInv'
    BY NextInv
  <1> QED
    BY <1>1, <1>2, PTL DEF Spec

(* Every variable keeps its range: the drain stops at its limit and the    *)
(* chunk loop at MAX_CAPTURE_CHUNKS, whatever the camera queues or sends   *)
(* (drain_messages, remote_capture_get_data).                              *)
THEOREM TypeCorrect == Spec => []TypeOK
  <1>1. IInv => TypeOK
    BY DEF IInv, CamInv, HostInv, HostTypeOK, TypeOK
  <1> QED
    BY <1>1, Invariance, PTL

(* A value, a None or a clean return is what the call's own script came to *)
(* (execute_lua_wait, wait_for_script).                                    *)
THEOREM ReturnsAreTrue == Spec => []ReturnMeansSuccess
  <1>1. IInv => ReturnMeansSuccess
    BY DEF IInv, HostInv
  <1> QED
    BY <1>1, Invariance, PTL

(* A script that explained itself is reported by its own words             *)
(* (_shoot_streaming, execute_lua_wait, wait_for_script).                  *)
THEOREM ErrorsAreTrue == Spec => []OwnWords
  <1>1. IInv => OwnWords
    BY DEF IInv, HostInv
  <1> QED
    BY <1>1, Invariance, PTL

-----------------------------------------------------------------------------
(* The promise of a call, the lens and the picture. *)

Launched == lastId \in Scripts

ModeOf(o) == IF o = "switch_record" THEN "record" ELSE "play"

Where ==
    /\ pc \in WaitPcs => op = "shoot" \/ (op \in Switches /\ polls = 0 /\ prog = op)
    /\ pc \in LuaPcs => op = "lua" \/ (Polling /\ prog = "get_mode")
    /\ pc \in CapPcs \cup {"cap_data"} => op = "stream"
    /\ pc \in Draining => op \in {"lua", "stream"} \/ Polling
    /\ pc = "idle" \/ op \notin Switches => polls = 0

(* A script is launched only when the call has none, or a switch's last    *)
(* one is over.                                                            *)
Fresh ==
    pc = "start" \/ (pc \in Draining /\ op # "stream") =>
        IF Polling THEN sid \in Scripts /\ fate[sid] \notin Alive \cup {"unstarted"}
        ELSE sid = 0

LensInv ==
    /\ Launched /\ prog \in Switches /\ State \in {"body", "silent"} => target = ModeOf(prog)
    /\ Polling /\ pc # "idle" =>
          target = ModeOf(op) /\ Launched /\ (prog = "get_mode" \/ State \notin Alive)
    /\ Launched /\ prog = "get_mode" => State # "data"
    /\ pc \in LuaPcs /\ Polling =>
          /\ op = "switch_record" /\ State = "true" => mode = "record"
          /\ op = "switch_play" /\ State = "false" => mode = "play"
    /\ Ended({"switched"}) => prog = "get_mode" /\ op \in Switches
    /\ ModeConfirmed

(* As long as no streaming call has ended without a picture, what is in    *)
(* the capture buffer or about to be is the call's own.                    *)
OwnPicture ==
    /\ Launched /\ prog = "stream" /\ State \in {"scheduled", "body"} =>
          pc \in CapPcs /\ sid = lastId
    /\ capture # "notset" =>
          owner = sid /\ sid = lastId /\ pc \in CapPcs \cup {"cap_data"}
    /\ pc = "cap_data" =>
          owner = sid /\ sid = lastId /\ Launched /\ State \notin {"scheduled", "body"}
    /\ op = "stream" /\ pc \in Draining => picture = sid
    /\ Ended({"image"}) => picture = sid

BufferInv ==
    /\ capture # "notset" => owner \in Scripts
    /\ owner <= lastId
    /\ Launched /\ prog = "stream" /\ State \in {"body", "shot", "true"} => owner = lastId
    /\ capture \in {"ready", "other"} /\ owner = lastId => State \notin {"scheduled", "body"}

CountInv ==
    /\ pc \in CapPcs \/ (pc = "start" /\ op = "stream") => picture = 0
    /\ ChunkCountIsThisCalls

NotMissed ==
    /\ pc = "cap_status" /\ fate[sid] = "true" /\ ~Queued(sid, "true") =>
          ~(capture = "ready" /\ owner = sid)
    /\ PictureNotAbandoned

PInv == Where /\ Fresh /\ LensInv /\ BufferInv /\ CountInv /\ NotMissed /\ (~raised => OwnPicture)

-----------------------------------------------------------------------------
(* A step of the camera, seen from the script in its slot.                 *)
Begins ==
    /\ State = "scheduled" /\ State' = "body" /\ mode' = mode
    /\ target' = IF prog \in Switches THEN ModeOf(prog) ELSE target
    /\ IF prog = "stream" THEN capture' = "waiting" /\ owner' = lastId
       ELSE UNCHANGED <<capture, owner>>

Shoots ==
    /\ prog = "stream" /\ State = "body" /\ State' = "shot"
    /\ capture' \in {"ready", "other"} /\ UNCHANGED <<owner, mode, target>>

Ends ==
    /\ State \in Alive /\ State' \in Final \cup {"silent"}
    /\ State' = "silent" => State = "body" /\ prog # "stream"
    /\ State' = "true" /\ prog = "stream" => State \in {"body", "shot"}
    /\ State' \in RetValues =>
          prog \notin {"shoot", "switch_record", "switch_play"}
    /\ prog = "get_mode" =>
          State' # "data" /\ (State' = "true" => mode = "record") /\ (State' = "false" => mode = "play")
    /\ UNCHANGED <<capture, owner, mode, target>>

Aside ==
    /\ fate' = fate /\ owner' = owner /\ target' = target
    /\ capture' = capture \/ capture' = "notset"
    /\ mode' = mode \/ mode' = target

LEMMA Effects ==
    ASSUME CamInv, CameraNext
    PROVE  /\ UNCHANGED <<lastId, prog>> /\ Kept
           /\ \/ Launched /\ Begins
              \/ Launched /\ Shoots
              \/ Launched /\ Ends
              \/ Aside
  <1>0. fate \in [Scripts -> Fates] /\ prog \in Programs /\ mode \in Modes
    BY Camera DEF CamInv, CameraTypeOK
  <1>1. running => Launched
    BY Camera DEF Launched
  <1>2. ASSUME Launched, NEW s \in Fates, Becomes(s)
        PROVE  fate'[lastId] = s
    BY <1>0, <1>2 DEF Becomes, Launched
  <1>3. Kept /\ UNCHANGED <<lastId, prog>>
    BY CameraStep DEF Kept
  <1>4. CASE ScriptBegins
    <2>1. Becomes("body") /\ running
      BY <1>4 DEF ScriptBegins
    <2> Launched /\ "body" \in Fates
      BY <1>1, <2>1 DEF Fates, Alive
    <2>2. State = "scheduled" /\ State' = "body"
      BY <1>2, <1>3, <1>4, <2>1 DEF ScriptBegins, State
    <2>3. Begins
      BY <1>4, <2>2 DEF ScriptBegins, Begins, Switches, ModeOf
    <2> QED
      BY <1>3, <2>3
  <1>5. CASE CaptureRefused
    <2>1. Becomes("false") /\ running
      BY <1>5 DEF CaptureRefused
    <2> Launched /\ "false" \in Fates
      BY <1>1, <2>1 DEF Fates, RetValues
    <2>2. State = "scheduled" /\ State' = "false"
      BY <1>2, <1>3, <1>5, <2>1 DEF CaptureRefused, State
    <2>3. Ends
      BY <1>5, <2>2 DEF CaptureRefused, Ends, Alive, Final, RetValues
    <2> QED
      BY <1>3, <2>3
  <1>6. CASE Exposes
    <2>1. Becomes("shot") /\ running
      BY <1>6 DEF Exposes
    <2> Launched /\ "shot" \in Fates
      BY <1>1, <2>1 DEF Fates, Alive
    <2>2. State = "body" /\ State' = "shot"
      BY <1>2, <1>3, <1>6, <2>1 DEF Exposes, State
    <2>3. Shoots
      BY <1>6, <2>2 DEF Exposes, Shoots
    <2> QED
      BY <1>3, <2>3
  <1>7. CASE Returns
    <2>1. PICK val \in Returnable : Becomes(val)
      BY <1>7 DEF Returns
    <2> Launched
      BY <1>1, <1>7 DEF Returns
    <2>2. /\ val \in Fates /\ val \in RetValues
          /\ prog \notin {"shoot", "switch_record", "switch_play"}
          /\ prog = "get_mode" =>
                val # "data" /\ (val = "true" => mode = "record") /\ (val = "false" => mode = "play")
      BY <1>0, <1>7, <2>1 DEF Returns, Returnable, Fates, RetValues, Programs, Modes
    <2>3. State \in {"body", "shot"} /\ State' = val
      BY <1>2, <1>3, <1>7, <2>1, <2>2 DEF Returns, State
    <2>4. Ends
      BY <1>7, <2>2, <2>3 DEF Returns, Ends, Alive, Final, RetValues
    <2> QED
      BY <1>3, <2>4
  <1>8. CASE Fails
    <2>1. Becomes("error") /\ running
      BY <1>8 DEF Fails
    <2> Launched /\ "error" \in Fates
      BY <1>1, <2>1 DEF Fates
    <2>2. State \in Alive /\ State' = "error"
      BY <1>2, <1>3, <1>8, <2>1 DEF Fails, State
    <2>3. Ends
      BY <1>8, <2>2 DEF Fails, Ends, Final, RetValues
    <2> QED
      BY <1>3, <2>3
  <1>9. CASE EndsSilently
    <2>1. Becomes("silent") /\ running
      BY <1>9 DEF EndsSilently
    <2> Launched /\ "silent" \in Fates
      BY <1>1, <2>1 DEF Fates
    <2>2. State = "body" /\ State' = "silent"
      BY <1>2, <1>3, <1>9, <2>1 DEF EndsSilently, State
    <2>3. Ends
      BY <1>9, <2>2 DEF EndsSilently, Ends, Alive, RetValues
    <2> QED
      BY <1>3, <2>3
  <1>10. CASE UserMessage \/ SlotFrees \/ DownloadTimeout \/ LensSettles
    BY <1>3, <1>10 DEF Aside, UserMessage, SlotFrees, DownloadTimeout, LensSettles
  <1> QED
    BY <1>4, <1>5, <1>6, <1>7, <1>8, <1>9, <1>10 DEF CameraNext

(* What is known of the call meanwhile.                                    *)
LEMMA CameraLens ==
    ASSUME CamInv, HostInv, PInv, CameraNext, UNCHANGED host
    PROVE  (Where /\ Fresh /\ LensInv)'
  <1>1. /\ UNCHANGED <<pc, op, sid, polls, outcome, lastId, prog>> /\ Kept
        /\ HostTypeOK /\ prog \in Programs
    BY Effects DEF host, HostInv, CamInv, CameraTypeOK
  <1>2. Where'
    BY <1>1 DEF PInv, Where, Polling
  <1>3. Fresh'
    BY <1>1 DEF PInv, Fresh, Polling, Kept
  <1>4. LensInv /\ Where
    BY DEF PInv
  <1>5. LensInv'
    <2>1. CASE Launched /\ Begins
      BY <1>1, <1>4, <2>1 DEF LensInv, ModeConfirmed, Ended, Begins, ModeOf, Switches, Alive,
                              Launched, Polling
    <2>2. CASE Launched /\ Shoots
      BY <1>1, <1>4, <2>2 DEF LensInv, ModeConfirmed, Ended, Shoots, ModeOf, Switches, Alive,
                              Launched, Polling
    <2>3. CASE Launched /\ Ends
      BY <1>1, <1>4, <2>3 DEF LensInv, ModeConfirmed, Ended, Ends, ModeOf, Switches, Alive,
                              Final, RetValues, Launched, Polling, Where, LuaPcs
    <2>4. CASE Aside
      <3>1. State' = State
        BY <1>1, <2>4 DEF State, Aside
      <3> QED
        BY <1>1, <1>4, <2>4, <3>1 DEF LensInv, ModeConfirmed, Ended, ModeOf, Switches, Launched,
                                      Polling, Aside, LuaPcs
    <2> QED
      BY <2>1, <2>2, <2>3, <2>4, Effects
  <1> QED
    BY <1>2, <1>3, <1>5

LEMMA CameraPicture ==
    ASSUME CamInv, HostInv, PInv, CameraNext, UNCHANGED host
    PROVE  (BufferInv /\ CountInv /\ NotMissed /\ (~raised => OwnPicture))'
  <1>1. /\ UNCHANGED <<pc, op, sid, outcome, raised, chunks, picture, lastId, prog>> /\ Kept
        /\ lastId \in Nat /\ lastId <= lastId
    BY Effects, Camera DEF host
  <1>2. CountInv'
    BY <1>1 DEF PInv, CountInv, ChunkCountIsThisCalls
  <1>3. BufferInv
    BY DEF PInv
  <1>4. BufferInv'
    <2>1. CASE Launched /\ Begins
      BY <1>1, <1>3, <2>1 DEF BufferInv, Begins, Launched
    <2>2. CASE Launched /\ Shoots
      BY <1>1, <1>3, <2>2 DEF BufferInv, Shoots, Launched
    <2>3. CASE Launched /\ Ends
      BY <1>1, <1>3, <2>3 DEF BufferInv, Ends, Launched, Final, RetValues, Alive
    <2>4. CASE Aside
      BY <1>1, <1>3, <2>4 DEF BufferInv, Launched, Aside, State
    <2> QED
      BY <2>1, <2>2, <2>3, <2>4, Effects
  <1>5. ASSUME ~raised PROVE OwnPicture'
    <2>1. OwnPicture
      BY <1>5 DEF PInv
    <2>2. CASE Launched /\ Begins
      BY <1>1, <1>3, <2>1, <2>2 DEF BufferInv, OwnPicture, Ended, Launched, Begins
    <2>3. CASE Launched /\ Shoots
      BY <1>1, <1>3, <2>1, <2>3 DEF BufferInv, OwnPicture, Ended, Launched, Shoots
    <2>4. CASE Launched /\ Ends
      BY <1>1, <1>3, <2>1, <2>4 DEF BufferInv, OwnPicture, Ended, Launched, Ends, Final, RetValues, Alive
    <2>5. CASE Aside
      BY <1>1, <1>3, <2>1, <2>5 DEF BufferInv, OwnPicture, Ended, Launched, Aside, State
    <2> QED
      BY <2>2, <2>3, <2>4, <2>5, Effects
  <1>6. NotMissed'
    <2>1. ASSUME NEW f \in {"true"}, sid \in Scripts, fate'[sid] = f, fate[sid] = f,
                 ~(capture = "ready" /\ owner = sid)
          PROVE  ~(capture' = "ready" /\ owner' = sid)
      <3>1. CASE Launched /\ Begins
        BY <2>1, <3>1 DEF Begins
      <3>2. CASE Launched /\ Shoots
        BY <1>1, <1>3, <2>1, <3>2 DEF BufferInv, Shoots, State
      <3>3. CASE Launched /\ Ends
        BY <2>1, <3>3 DEF Ends
      <3>4. CASE Aside
        BY <2>1, <3>4 DEF Aside
      <3> QED
        BY <3>1, <3>2, <3>3, <3>4, Effects
    <2>2. ASSUME pc = "cap_status", fate'[sid] = "true", ~Queued(sid, "true")'
          PROVE  ~(capture' = "ready" /\ owner' = sid)
      <3>1. sid \in Scripts /\ "true" \in Final
        BY <2>2 DEF HostInv, Untold, Following, CapPcs, Final, RetValues
      <3>2. fate[sid] = "true" /\ ~Queued(sid, "true")
        <4>1. Queued(sid, "true") => Queued(sid, "true")'
          BY <1>1, <3>1 DEF Kept, Queued
        <4>2. fate[sid] \in Alive => Queued(sid, "true")'
          BY <1>1, <2>2, <3>1 DEF Kept, Queued
        <4>3. fate[sid] \notin Alive => fate[sid] = "true"
          BY <1>1, <2>2, <3>1 DEF Kept
        <4> QED
          BY <1>1, <2>2, <4>1, <4>2, <4>3 DEF Queued
      <3> QED
        BY <2>1, <2>2, <3>1, <3>2 DEF PInv, NotMissed
    <2>3. PictureNotAbandoned'
      <3> SUFFICES ASSUME Ended({"not_initialized", "no_capture"})
                   PROVE  ~(capture' = "ready" /\ owner' = sid)
        BY <1>1 DEF PictureNotAbandoned, Ended
      <3>1. sid \in Scripts /\ fate[sid] = "true"
        BY DEF HostInv, OwnWords, Ended, Judged
      <3>2. fate'[sid] = "true"
        BY <1>1, <3>1 DEF Kept, Alive
      <3> QED
        BY <2>1, <3>1, <3>2 DEF PInv, NotMissed, PictureNotAbandoned
    <2> QED
      BY <1>1, <2>2, <2>3 DEF NotMissed
  <1> QED
    BY <1>1, <1>2, <1>4, <1>5, <1>6

-----------------------------------------------------------------------------
(* The steps of the host: points, scripts and the lens.  All but the two   *)
(* that can launch a script leave the slot and the lens as they are.       *)
Still == UNCHANGED <<lastId, prog, fate, owner, mode, target>>

LEMMA PlainSteps ==
    /\ UNCHANGED camera => Still
    /\ PopMessage => Still
    /\ GiveChunk => Still
  BY DEF camera, PopMessage, GiveChunk, Still

LEMMA EndLens ==
    ASSUME PInv, NEW o, o # "switched", Finish(o), Still
    PROVE  (Where /\ Fresh /\ LensInv)'
  <1>1. LensInv /\ State' = State /\ Still
    BY DEF PInv, Still, State
  <1>2. pc' = "idle" /\ polls' = 0 /\ outcome' = o
    BY DEF Finish
  <1>3. Where' /\ Fresh'
    BY <1>2 DEF Where, Fresh, WaitPcs, LuaPcs, CapPcs, Draining
  <1>4. LensInv'
    BY <1>1, <1>2 DEF LensInv, ModeConfirmed, Ended, Launched, Polling, Still
  <1> QED
    BY <1>3, <1>4

LEMMA TurnLens ==
    ASSUME PInv, NEW p, Goto(p), Still, UNCHANGED polls,
           NEW W \in {WaitPcs, LuaPcs, CapPcs \cup {"cap_data"}, Draining}, pc \in W, p \in W
    PROVE  (Where /\ Fresh /\ LensInv)'
  <1>1. /\ LensInv /\ Where /\ Fresh /\ State' = State /\ Still
        /\ pc' = p /\ UNCHANGED <<op, sid, outcome, polls>>
    BY DEF PInv, Still, State, Goto
  <1>2. Where' /\ Fresh'
    BY <1>1 DEF Where, Fresh, WaitPcs, LuaPcs, CapPcs, Draining, Polling, Still
  <1>3. pc # "idle" /\ pc' # "idle" /\ (pc' \in LuaPcs => pc \in LuaPcs)
    BY <1>1 DEF WaitPcs, LuaPcs, CapPcs, Draining
  <1>4. LensInv'
    BY <1>1, <1>3 DEF LensInv, ModeConfirmed, Ended, Launched, Polling, Still
  <1> QED
    BY <1>2, <1>4

LEMMA CallLens ==
    ASSUME PInv, NEW o \in Ops, Call(o)
    PROVE  (Where /\ Fresh /\ LensInv)'
  <1>1. /\ Still /\ State' = State /\ LensInv
        /\ pc' = (IF o = "lua" THEN "drain_poll" ELSE "start")
        /\ op' = o /\ sid' = 0 /\ polls' = 0
    BY PlainSteps DEF PInv, Where, Call, Locals, State, Still
  <1>2. Where' /\ Fresh'
    BY <1>1 DEF Where, Fresh, WaitPcs, LuaPcs, CapPcs, Draining, Polling
  <1>3. LensInv'
    BY <1>1 DEF LensInv, ModeConfirmed, Ended, Launched, Polling, LuaPcs, Still
  <1> QED
    BY <1>2, <1>3

LEMMA StartLens ==
    ASSUME CamInv, HostInv, PInv, Start
    PROVE  (Where /\ Fresh /\ LensInv)'
  <1>1. /\ lastId' \in Scripts /\ State' = "scheduled" /\ prog' = Script
        /\ UNCHANGED <<op, polls, mode, target>>
        /\ Accept(Script) /\ pc = "start" /\ LensInv /\ Where /\ polls \in Nat
    BY AcceptInv, ScriptType, Constants DEF Start, Locals, State, Accept, PInv, HostInv, HostTypeOK
  <1>2. /\ pc' \in {"idle", "cap_ready", "lua_poll", "wait_poll"}
        /\ pc' = "cap_ready" => op = "stream"
        /\ pc' = "lua_poll" => op = "lua" \/ Polling
        /\ pc' = "wait_poll" => op = "shoot" \/ (op \in Switches /\ ~Polling)
        /\ pc' = "idle" => outcome' = "submitted" /\ op \notin Switches
    BY DEF Start, Follow, HostInv, HostTypeOK, AllOps, Switches
  <1>3. /\ Polling => prog' = "get_mode"
        /\ op \in Switches /\ ~Polling => prog' = op /\ polls = 0
    BY <1>1 DEF Script, Polling, Switches
  <1>4. Where'
    BY <1>1, <1>2, <1>3 DEF Where, WaitPcs, LuaPcs, CapPcs, Draining, Polling
  <1>5. Fresh'
    BY <1>2 DEF Fresh, Draining
  <1>6. LensInv'
    BY <1>1, <1>2, <1>3 DEF LensInv, ModeConfirmed, Ended, Launched, Polling
  <1> QED
    BY <1>4, <1>5, <1>6

(* A switch whose script is over and its mode reached goes on to poll.     *)
LEMMA PollLens ==
    ASSUME PInv, HostInv, Goto("drain_poll"), Still, op \in Switches,
           polls' \in Nat \ {0}, target = ModeOf(op), sid = lastId, sid \in Scripts,
           State \notin Alive \cup {"unstarted"}
    PROVE  (Where /\ Fresh /\ LensInv)'
  <1>1. /\ LensInv /\ State' = State /\ Still /\ pc' = "drain_poll" /\ UNCHANGED <<op, sid>>
        /\ fate'[sid'] = State
    BY DEF PInv, Still, State, Goto
  <1>2. Polling'
    BY <1>1 DEF Polling
  <1>3. Where' /\ Fresh'
    BY <1>1, <1>2 DEF Where, Fresh, WaitPcs, LuaPcs, CapPcs, Draining
  <1>4. LensInv'
    BY <1>1 DEF LensInv, ModeConfirmed, Ended, Launched, LuaPcs, Still
  <1> QED
    BY <1>3, <1>4

LEMMA WaitPollLens ==
    ASSUME CamInv, HostInv, PInv, WaitPoll
    PROVE  (Where /\ Fresh /\ LensInv)'
  <1>1. Still /\ pc \in WaitPcs /\ pc \in Following /\ LensInv /\ Where
    BY PlainSteps DEF WaitPoll, WaitPcs, Following, PInv
  <1>2. CASE Goto("wait_read") /\ UNCHANGED Locals
    <2>1. "wait_read" \in WaitPcs
      BY DEF WaitPcs
    <2> QED
      BY <1>1, <1>2, <2>1, TurnLens DEF Locals
  <1>3. CASE Finish("shot")
    BY <1>1, <1>3, EndLens
  <1>4. CASE /\ OverWhen(running, queue # <<>>) /\ op # "shoot"
             /\ Goto("drain_poll") /\ polls' = 1
    <2>1. sid \in Scripts /\ sid = lastId /\ fate[sid] \in (Final \cup {"silent"}) \ {"error"}
      BY <1>1, <1>4, SealedFate DEF OverWhen, MustHear
    <2>2. op \in Switches /\ prog = op
      BY <1>1, <1>4 DEF Where
    <2>3. State = "silent"
      BY <2>1, <2>2 DEF State, CamInv, FateInv, Switches, Final
    <2>4. target = ModeOf(op)
      BY <1>1, <2>1, <2>2, <2>3 DEF LensInv, Launched
    <2>5. State \notin Alive \cup {"unstarted"}
      BY <2>3 DEF Alive
    <2>6. polls' \in Nat \ {0}
      BY <1>4
    <2> QED
      BY <1>1, <1>4, <2>1, <2>2, <2>4, <2>5, <2>6, PollLens
  <1> QED
    BY <1>2, <1>3, <1>4 DEF WaitPoll

LEMMA WaitReadLens ==
    ASSUME PInv, WaitRead
    PROVE  (Where /\ Fresh /\ LensInv)'
  <1>1. Still /\ pc \in WaitPcs /\ "wait_poll" \in WaitPcs
    BY PlainSteps DEF WaitRead, WaitPcs
  <1> QED
    BY <1>1, EndLens, TurnLens DEF WaitRead, Locals

LEMMA AnswerLens ==
    ASSUME CamInv, HostInv, PInv, pc \in LuaPcs, NEW v \in Answers, Answer(v), Still,
           v # "none" => State = v, v = "none" => State = "silent"
    PROVE  (Where /\ Fresh /\ LensInv)'
  <1>1. /\ sid = lastId /\ sid \in Scripts /\ pc # "idle"
        /\ LensInv /\ Where /\ State' = State /\ Still
    BY DEF HostInv, Untold, Following, LuaPcs, PInv, State, Still
  <1>2. /\ v \in RetValues \cup {"none"} /\ v # "switched"
    BY DEF Answers, RetValues
  <1>3. CASE op = "lua"
    BY <1>2, <1>3, EndLens DEF Answer
  <1>4. CASE op # "lua"
    <2>1. op \in Switches /\ Polling /\ prog = "get_mode" /\ target = ModeOf(op)
      BY <1>1, <1>4 DEF Where, Polling, LensInv
    <2>2. CASE Confirms(v) /\ Finish("switched")
      <3>1. /\ \/ v = "true" /\ op = "switch_record"
               \/ v = "false" /\ op = "switch_play"
            /\ State = v
        BY <1>1, <1>2, <2>1, <2>2 DEF Confirms, RetValues, Switches, LensInv, Launched
      <3>2. mode = target /\ (op = "switch_record" <=> mode = "record")
        BY <1>1, <2>1, <3>1 DEF LensInv, ModeOf
      <3>3. /\ pc' = "idle" /\ outcome' = "switched" /\ polls' = 0 /\ op' = op
            /\ UNCHANGED <<lastId, prog, fate, mode, target>>
        BY <1>1, <2>2 DEF Finish, Still
      <3>4. Where' /\ Fresh'
        BY <3>3 DEF Where, Fresh, WaitPcs, LuaPcs, CapPcs, Draining
      <3>5. ModeConfirmed'
        BY <3>2, <3>3 DEF ModeConfirmed
      <3>6. LensInv'
        BY <1>1, <2>1, <3>3, <3>5 DEF LensInv, Ended, Launched, Polling, LuaPcs
      <3> QED
        BY <3>4, <3>6
    <2>3. CASE Goto("drain_poll") /\ polls' = polls + 1
      <3>1. State \notin Alive \cup {"unstarted"}
        BY <1>2 DEF RetValues, Alive
      <3>2. polls' \in Nat \ {0}
        BY <2>3, Constants DEF HostInv, HostTypeOK
      <3> QED
        BY <1>1, <2>1, <2>3, <3>1, <3>2, PollLens
    <2>4. CASE Finish("not_switched")
      BY <2>4, EndLens
    <2> QED
      BY <1>4, <2>2, <2>3, <2>4 DEF Answer
  <1> QED
    BY <1>3, <1>4

LEMMA LuaLens ==
    ASSUME CamInv, HostInv, PInv, LuaPoll \/ LuaRead
    PROVE  (Where /\ Fresh /\ LensInv)'
  <1>1. /\ pc \in LuaPcs /\ pc \in Following /\ MustHear = Final /\ Still
        /\ {"lua_poll", "lua_read"} \subseteq LuaPcs /\ sid = lastId
    BY PlainSteps DEF LuaPoll, LuaRead, LuaPcs, WaitPcs, Following, MustHear, HostInv, Untold
  <1>2. CASE LuaPoll
    <2>1. CASE Goto("lua_read") /\ UNCHANGED Locals
      BY <1>1, <2>1, TurnLens DEF Locals
    <2>2. CASE OverWhen(running, queue # <<>>) /\ Answer("none")
      <3>1. State = "silent" /\ "none" \in Answers
        BY <1>1, <2>2, SealedFate DEF OverWhen, State, Answers
      <3> QED
        BY <1>1, <2>2, <3>1, AnswerLens
    <2> QED
      BY <1>2, <2>1, <2>2 DEF LuaPoll
  <1>3. CASE LuaRead
    <2> DEFINE m == Head(queue)
    <2>1. CASE Goto("lua_poll") /\ UNCHANGED Locals
      BY <1>1, <2>1, TurnLens DEF Locals
    <2>2. CASE IsOurs(m) /\ m.kind = "RET" /\ Answer(m.val)
      <3>1. m.val \in RetValues /\ fate'[lastId] = m.val
        BY <1>1, <1>3, <2>2, MessageRead DEF LuaRead, IsOurs
      <3>2. m.val \in Answers /\ State = m.val /\ m.val # "none"
        BY <1>1, <3>1 DEF Answers, State, Still, RetValues
      <3> QED
        BY <1>1, <2>2, <3>2, AnswerLens
    <2>3. CASE Finish("script_error")
      BY <1>1, <2>3, EndLens
    <2> QED
      BY <1>3, <2>1, <2>2, <2>3 DEF LuaRead
  <1> QED
    BY <1>2, <1>3

LEMMA DrainLens ==
    ASSUME HostInv, PInv, DrainPoll \/ DrainRead
    PROVE  (Where /\ Fresh /\ LensInv)'
  <1>1. Still /\ pc \in Draining /\ {"drain_poll", "drain_read"} \subseteq Draining
    BY PlainSteps DEF DrainPoll, DrainRead, Draining
  <1>2. CASE Finish("image")
    BY <1>1, <1>2, EndLens
  <1>3. CASE op # "stream" /\ Goto("start") /\ UNCHANGED polls
    <2>1. /\ LensInv /\ Where /\ Fresh /\ State' = State /\ Still /\ pc' = "start" /\ pc # "idle"
          /\ UNCHANGED <<op, sid, polls>>
      BY <1>1, <1>3 DEF PInv, State, Still, Goto, Draining
    <2>2. Where' /\ Fresh'
      BY <1>1, <1>3, <2>1 DEF Where, Fresh, Polling, Still, WaitPcs, LuaPcs, CapPcs, Draining
    <2>3. LensInv'
      BY <2>1 DEF LensInv, ModeConfirmed, Ended, Launched, Polling, LuaPcs, Still
    <2> QED
      BY <2>2, <2>3
  <1>4. CASE (Goto("drain_read") \/ Goto("drain_poll")) /\ UNCHANGED polls
    BY <1>1, <1>4, TurnLens
  <1> QED
    BY <1>2, <1>3, <1>4 DEF DrainPoll, DrainRead, Locals

LEMMA CapLens ==
    ASSUME PInv, CapReady \/ CapStatus \/ CapRead \/ CapData \/ GraceEnds
    PROVE  (Where /\ Fresh /\ LensInv)'
  <1> DEFINE W == CapPcs \cup {"cap_data"}
  <1>1. Still /\ pc \in W /\ W \in {WaitPcs, LuaPcs, CapPcs \cup {"cap_data"}, Draining}
    BY PlainSteps DEF CapReady, CapStatus, CapRead, CapData, GraceEnds, CapPcs
  <1>2. CASE \E p \in W : Goto(p) /\ UNCHANGED polls
    BY <1>1, <1>2, TurnLens
  <1>3. CASE Goto("drain_poll") /\ UNCHANGED polls
    <2>1. /\ LensInv /\ Where /\ State' = State /\ Still /\ op = "stream" /\ pc' = "drain_poll"
          /\ UNCHANGED <<op, polls>>
      BY <1>1, <1>3 DEF PInv, Where, State, Still, Goto
    <2>2. "stream" \notin Switches
      BY DEF Switches
    <2>3. Where' /\ Fresh'
      BY <2>1, <2>2 DEF Where, Fresh, WaitPcs, LuaPcs, CapPcs, Draining
    <2>4. LensInv'
      BY <2>1, <2>2 DEF LensInv, ModeConfirmed, Ended, Launched, Polling, LuaPcs, Still
    <2> QED
      BY <2>3, <2>4
  <1>4. CASE \E o \in Outcomes \ {"switched"} : Finish(o)
    BY <1>1, <1>4, EndLens
  <1>5. {"cap_ready", "cap_status", "cap_read", "cap_data"} \subseteq W
    BY DEF CapPcs
  <1>6. {"wrong_format", "not_initialized", "init_late", "no_capture", "script_error",
         "init_refused", "endless"} \subseteq Outcomes \ {"switched"}
    BY DEF Outcomes, Errors
  <1>7. CASE CapReady
    BY <1>2, <1>4, <1>5, <1>6, <1>7 DEF CapReady, Locals
  <1>8. CASE CapStatus
    BY <1>2, <1>4, <1>5, <1>6, <1>8 DEF CapStatus, Locals
  <1>9. CASE CapRead
    BY <1>2, <1>4, <1>5, <1>6, <1>9 DEF CapRead, AskAgain, Locals
  <1>10. CASE CapData
    BY <1>2, <1>3, <1>4, <1>5, <1>6, <1>10 DEF CapData, Locals
  <1>11. CASE GraceEnds
    <2>1. Goto(pc) /\ UNCHANGED polls
      BY <1>11 DEF GraceEnds, Goto
    <2> QED
      BY <1>1, <1>2, <2>1
  <1> QED
    BY <1>7, <1>8, <1>9, <1>10, <1>11

LEMMA StopLens ==
    ASSUME CamInv, HostInv, PInv,
           StartRefused \/ CapGone \/ Expire \/ TransactionFails
    PROVE  (Where /\ Fresh /\ LensInv)'
  <1>1. CASE StartRefused \/ CapGone \/ Expire
    BY <1>1, PlainSteps, EndLens DEF StartRefused, CapGone, Expire
  <1>2. CASE TransactionFails
    <2>1. TransportError # "switched" /\ Finish(TransportError)
      BY <1>2 DEF TransactionFails, TransportError
    <2>2. CASE UNCHANGED camera \/ PopMessage \/ GiveChunk
      BY <2>1, <2>2, PlainSteps, EndLens
    <2>3. CASE Accept(Script)
      <3>1. State' = "scheduled" /\ pc' = "idle" /\ polls' = 0 /\ outcome' # "switched"
        BY <2>1, <2>3, AcceptInv, ScriptType DEF State, Finish
      <3>2. Where' /\ Fresh'
        BY <3>1 DEF Where, Fresh, WaitPcs, LuaPcs, CapPcs, Draining
      <3>3. LensInv'
        BY <3>1 DEF LensInv, ModeConfirmed, Ended, LuaPcs
      <3> QED
        BY <3>2, <3>3
    <2> QED
      BY <1>2, <2>2, <2>3 DEF TransactionFails
  <1> QED
    BY <1>1, <1>2

-----------------------------------------------------------------------------
(* The steps of the host: pictures and chunks.                             *)
LEMMA CallPicture ==
    ASSUME HostInv, PInv, NEW o \in Ops, Call(o)
    PROVE  (BufferInv /\ CountInv /\ NotMissed /\ (~raised => OwnPicture))'
  <1>1. /\ UNCHANGED <<lastId, prog, fate, capture, owner, raised>> /\ State' = State
        /\ pc = "idle" /\ pc' = (IF o = "lua" THEN "drain_poll" ELSE "start")
        /\ op' = o /\ picture' = 0 /\ (o = "stream" => chunks' = 0)
    BY DEF Call, camera, State, ChunksAtAttempt
  <1>2. BufferInv'
    BY <1>1 DEF PInv, BufferInv, Launched
  <1>3. CountInv' /\ NotMissed'
    BY <1>1 DEF CountInv, ChunkCountIsThisCalls, NotMissed, PictureNotAbandoned, Ended, CapPcs
  <1>4. ASSUME ~raised PROVE OwnPicture'
    BY <1>1, <1>4 DEF PInv, OwnPicture, Ended, Launched, CapPcs, Draining
  <1> QED
    BY <1>1, <1>2, <1>3, <1>4

(* A call ends: without a picture, or with one that has been drained.      *)
LEMMA EndPicture ==
    ASSUME PInv, pc # "idle", NEW o, Finish(o), Still, UNCHANGED Image,
           capture' \in {capture, "notset"},
           o = "image" => op = "stream" /\ pc \in Draining,
           o \in {"not_initialized", "no_capture"} => ~(capture = "ready" /\ owner = sid)
    PROVE  (BufferInv /\ CountInv /\ NotMissed /\ (~raised => OwnPicture))'
  <1>1. /\ UNCHANGED <<lastId, prog, fate, owner, op, sid, chunks, picture>> /\ State' = State
        /\ pc' = "idle" /\ outcome' = o
        /\ raised' = (raised \/ (op = "stream" /\ o # "image"))
    BY DEF Still, Finish, Image, State
  <1>2. BufferInv'
    BY <1>1 DEF PInv, BufferInv, Launched
  <1>3. CountInv' /\ NotMissed'
    BY <1>1 DEF PInv, CountInv, ChunkCountIsThisCalls, NotMissed, PictureNotAbandoned, Ended,
                CapPcs
  <1>4. ASSUME ~raised' PROVE OwnPicture'
    <2>1. OwnPicture /\ (op = "stream" => o = "image")
      BY <1>1, <1>4 DEF PInv
    <2>2. pc \notin CapPcs \cup {"cap_data"}
      BY <2>1 DEF PInv, Where, Draining, CapPcs
    <2> QED
      BY <1>1, <2>1, <2>2 DEF OwnPicture, Ended, Launched, CapPcs, Draining
  <1> QED
    BY <1>2, <1>3, <1>4

(* A call goes on without touching the capture.                            *)
LEMMA TurnPicture ==
    ASSUME PInv, NEW p, Goto(p), Still, UNCHANGED Image, UNCHANGED capture,
           pc # "idle", p # "idle", pc # "cap_data", p # "cap_data",
           p = "start" => op # "stream",
           pc \in CapPcs <=> p \in CapPcs,
           p \in Draining => pc \in Draining \/ op # "stream",
           p = "cap_status" => capture # "ready" \/ (pc = "cap_status" /\ UNCHANGED queue)
    PROVE  (BufferInv /\ CountInv /\ NotMissed /\ (~raised => OwnPicture))'
  <1>1. /\ UNCHANGED <<lastId, prog, fate, owner, capture, op, sid, chunks, picture, raised>>
        /\ State' = State /\ pc' = p
    BY DEF Still, Goto, Image, State
  <1>2. BufferInv'
    BY <1>1 DEF PInv, BufferInv, Launched
  <1>3. CountInv'
    BY <1>1 DEF PInv, CountInv, ChunkCountIsThisCalls
  <1>4. NotMissed'
    BY <1>1 DEF PInv, NotMissed, PictureNotAbandoned, Ended, Queued
  <1>5. ASSUME ~raised PROVE OwnPicture'
    BY <1>1, <1>5 DEF PInv, OwnPicture, Ended, Launched
  <1> QED
    BY <1>1, <1>2, <1>3, <1>4, <1>5

LEMMA AcceptBuffer ==
    ASSUME CamInv, PInv, NEW p \in Programs, Accept(p)
    PROVE  BufferInv'
  <1>1. /\ lastId' = lastId + 1 /\ State' = "scheduled" /\ UNCHANGED <<capture, owner>>
        /\ owner \in Nat /\ lastId \in Nat /\ BufferInv
    BY AcceptInv, Constants, Camera DEF Accept, State, CamInv, CameraTypeOK, PInv
  <1> QED
    BY <1>1 DEF BufferInv

LEMMA StartPicture ==
    ASSUME CamInv, HostInv, PInv, Start
    PROVE  (BufferInv /\ CountInv /\ NotMissed /\ (~raised => OwnPicture))'
  <1>1. /\ Accept(Script) /\ Script \in Programs /\ prog' = Script /\ sid' = lastId'
        /\ UNCHANGED <<capture, owner, op, chunks, picture, raised>> /\ pc = "start"
    BY ScriptType DEF Start, Accept, Image
  <1>2. /\ pc' \in {"idle", "cap_ready", "lua_poll", "wait_poll"}
        /\ pc' = "cap_ready" <=> op = "stream"
        /\ pc' = "idle" => outcome' = "submitted"
    BY DEF Start, Follow, Polling, Switches
  <1>3. BufferInv'
    BY <1>1, AcceptBuffer
  <1>4. CountInv' /\ NotMissed'
    BY <1>1, <1>2 DEF PInv, CountInv, ChunkCountIsThisCalls, NotMissed, PictureNotAbandoned,
                      Ended, CapPcs
  <1>5. ASSUME ~raised PROVE OwnPicture'
    <2>1. capture = "notset"
      BY <1>1, <1>5 DEF PInv, OwnPicture, CapPcs
    <2>2. Script = "stream" => op = "stream"
      BY DEF Script
    <2> QED
      BY <1>1, <1>2, <2>1, <2>2 DEF OwnPicture, Ended, CapPcs, Draining
  <1> QED
    BY <1>1, <1>3, <1>4, <1>5

LEMMA FollowPicture ==
    ASSUME CamInv, PInv, WaitPoll \/ WaitRead \/ LuaPoll \/ LuaRead
    PROVE  (BufferInv /\ CountInv /\ NotMissed /\ (~raised => OwnPicture))'
  <1>1. /\ Still /\ UNCHANGED Image /\ UNCHANGED capture
        /\ pc \in {"wait_poll", "wait_read", "lua_poll", "lua_read"}
    BY PlainSteps DEF WaitPoll, WaitRead, LuaPoll, LuaRead, PopMessage, camera
  <1>2. op # "stream"
    BY <1>1 DEF PInv, Where, WaitPcs, LuaPcs, Polling, Switches
  <1>3. CASE \E p \in {"wait_poll", "wait_read", "lua_poll", "lua_read", "drain_poll"} : Goto(p)
    BY <1>1, <1>2, <1>3, TurnPicture DEF CapPcs
  <1>4. CASE \E o \in (Answers \cup Outcomes) \ {"image", "not_initialized", "no_capture"} :
                Finish(o)
    BY <1>1, <1>4, EndPicture
  <1>5. /\ {"shot", "script_error", "switched", "not_switched"}
               \subseteq (Answers \cup Outcomes) \ {"image", "not_initialized", "no_capture"}
        /\ Answers \cap {"image", "not_initialized", "no_capture"} = {}
    BY DEF Outcomes, Errors, Answers, RetValues
  <1>6. ASSUME NEW v \in Answers, Answer(v)
        PROVE  (BufferInv /\ CountInv /\ NotMissed /\ (~raised => OwnPicture))'
    BY <1>3, <1>4, <1>5, <1>6 DEF Answer
  <1>7. CASE WaitPoll
    BY <1>3, <1>4, <1>5, <1>7 DEF WaitPoll
  <1>8. CASE WaitRead
    BY <1>3, <1>4, <1>5, <1>8 DEF WaitRead
  <1>9. CASE LuaPoll
    BY <1>3, <1>6, <1>9 DEF LuaPoll, Answers
  <1>10. CASE LuaRead
    <2>1. Head(queue).kind = "RET" => Head(queue).val \in Answers
      BY <1>10, MessageRead DEF LuaRead, Answers
    <2> QED
      BY <1>3, <1>4, <1>5, <1>6, <1>10, <2>1 DEF LuaRead
  <1> QED
    BY <1>7, <1>8, <1>9, <1>10

LEMMA DrainPicture ==
    ASSUME PInv, DrainPoll \/ DrainRead
    PROVE  (BufferInv /\ CountInv /\ NotMissed /\ (~raised => OwnPicture))'
  <1>1. /\ Still /\ UNCHANGED Image /\ UNCHANGED capture /\ pc \in {"drain_poll", "drain_read"}
        /\ "drain_poll" \in Draining
    BY PlainSteps DEF DrainPoll, DrainRead, PopMessage, camera, Draining
  <1>2. CASE op = "stream" /\ pc = "drain_poll" /\ Finish("image")
    BY <1>1, <1>2, EndPicture
  <1>3. CASE op # "stream" /\ Goto("start")
    BY <1>1, <1>3, TurnPicture DEF CapPcs, Draining
  <1>4. CASE Goto("drain_read") \/ Goto("drain_poll")
    BY <1>1, <1>4, TurnPicture DEF CapPcs, Draining
  <1> QED
    BY <1>2, <1>3, <1>4 DEF DrainPoll, DrainRead

LEMMA CapReadyPicture ==
    ASSUME CamInv, HostInv, PInv, CapReady
    PROVE  (BufferInv /\ CountInv /\ NotMissed /\ (~raised => OwnPicture))'
  <1>1. /\ Still /\ UNCHANGED <<picture, capture, queue>> /\ pc = "cap_ready" /\ pc \in CapPcs
        /\ op = "stream"
    BY PlainSteps DEF CapReady, camera, CapPcs, PInv, Where
  <1>2. CASE capture = "ready"
    <2>1. /\ pc' = "cap_data" /\ chunks' = 0 /\ UNCHANGED <<op, sid, outcome, raised>>
          /\ UNCHANGED <<lastId, prog, fate, owner>> /\ State' = State
      BY <1>1, <1>2 DEF CapReady, Goto, Still, State
    <2>2. BufferInv'
      BY <1>1, <2>1 DEF PInv, BufferInv, Launched
    <2>3. CountInv' /\ NotMissed'
      BY <1>1, <2>1 DEF PInv, CountInv, ChunkCountIsThisCalls, NotMissed, PictureNotAbandoned,
                        Ended, CapPcs
    <2>4. ASSUME ~raised PROVE OwnPicture'
      <3>1. owner = sid /\ sid = lastId /\ Launched /\ State \notin {"scheduled", "body"}
        BY <1>1, <1>2, <2>4 DEF PInv, OwnPicture, BufferInv, Launched
      <3> QED
        BY <1>1, <2>1, <3>1 DEF OwnPicture, Ended, Launched, CapPcs, Draining
    <2> QED
      BY <2>1, <2>2, <2>3, <2>4
  <1>3. CASE capture = "other"
    <2>1. Finish("wrong_format") /\ UNCHANGED Image
      BY <1>1, <1>3 DEF CapReady, Image
    <2> QED
      BY <1>1, <2>1, EndPicture
  <1>4. CASE capture # "ready" /\ capture # "other"
    <2>1. Goto("cap_status") /\ UNCHANGED Image /\ "cap_status" \in CapPcs
      BY <1>1, <1>4 DEF CapReady, Image, CapPcs
    <2> QED
      BY <1>1, <1>4, <2>1, TurnPicture DEF Draining
  <1> QED
    BY <1>2, <1>3, <1>4

LEMMA CapStatusPicture ==
    ASSUME CamInv, HostInv, PInv, CapStatus
    PROVE  (BufferInv /\ CountInv /\ NotMissed /\ (~raised => OwnPicture))'
  <1>1. /\ Still /\ UNCHANGED Image /\ UNCHANGED capture /\ pc = "cap_status"
        /\ pc \in CapPcs /\ pc \in Following /\ {"cap_read", "cap_ready"} \subseteq CapPcs
    BY PlainSteps DEF CapStatus, camera, CapPcs, Following
  <1>2. CASE Goto("cap_read") \/ Goto("cap_ready")
    BY <1>1, <1>2, TurnPicture DEF Draining
  <1>3. CASE /\ Finish("not_initialized") \/ Finish("no_capture")
             /\ ~running /\ queue = <<>>
    <2>1. /\ sid \in Scripts /\ sid = lastId
          /\ fate[sid] \in (Final \cup {"silent"}) \ {"error", "false"}
      BY <1>1, <1>3, SealedFate DEF MustHear, CapPcs, WaitPcs, LuaPcs
    <2>2. fate[sid] \in Alive \cup {"true", "false", "error"}
      BY <1>1, <2>1 DEF HostInv, Untold, CamInv, FateInv
    <2>3. fate[sid] = "true"
      BY <2>1, <2>2 DEF Final, RetValues, Alive
    <2>4. ~Queued(sid, "true")
      BY <1>3, EmptySeq DEF Queued
    <2>5. ~(capture = "ready" /\ owner = sid)
      BY <1>1, <2>3, <2>4 DEF PInv, NotMissed
    <2> QED
      BY <1>1, <1>3, <2>5, EndPicture
  <1>4. CASE Finish("init_late")
    BY <1>1, <1>4, EndPicture
  <1> QED
    BY <1>2, <1>3, <1>4 DEF CapStatus, NotInitialized, NoCapture

LEMMA CapReadPicture ==
    ASSUME PInv, CapRead \/ GraceEnds
    PROVE  (BufferInv /\ CountInv /\ NotMissed /\ (~raised => OwnPicture))'
  <1>1. /\ Still /\ UNCHANGED Image /\ UNCHANGED capture /\ pc \in CapPcs
    BY PlainSteps DEF CapRead, GraceEnds, PopMessage, camera, CapPcs
  <1>2. pc # "idle" /\ pc # "cap_data" /\ pc # "start" /\ pc \notin Draining
    BY <1>1 DEF CapPcs, Draining
  <1>3. CASE Goto("cap_ready")
    BY <1>1, <1>2, <1>3, TurnPicture DEF CapPcs, Draining
  <1>4. CASE Finish("script_error") \/ Finish("init_refused")
    BY <1>1, <1>2, <1>4, EndPicture
  <1>5. CASE GraceEnds
    <2>1. Goto(pc) /\ UNCHANGED queue
      BY <1>5 DEF GraceEnds, Goto, camera
    <2> QED
      BY <1>1, <1>2, <2>1, TurnPicture
  <1> QED
    BY <1>3, <1>4, <1>5 DEF CapRead, AskAgain

LEMMA CapDataPicture ==
    ASSUME CamInv, HostInv, PInv, CapData
    PROVE  (BufferInv /\ CountInv /\ NotMissed /\ (~raised => OwnPicture))'
  <1>1. /\ UNCHANGED <<lastId, prog, fate, owner, op, sid>> /\ State' = State
        /\ capture' \in {capture, "notset"} /\ capture = "ready"
        /\ pc = "cap_data" /\ op = "stream" /\ picture' = owner /\ chunks' = chunks + 1
    BY DEF CapData, GiveChunk, State, Goto, Finish, PInv, Where
  <1>2. /\ pc' \in {"idle", "cap_data", "drain_poll"}
        /\ pc' = "idle" => outcome' = "endless" /\ raised'
        /\ pc' # "idle" => raised' = raised
        /\ pc' = "drain_poll" => capture' = "notset"
    BY <1>1 DEF CapData, GiveChunk, LastChunk, Goto, Finish
  <1>3. BufferInv'
    BY <1>1 DEF PInv, BufferInv, Launched
  <1>4. CountInv' /\ NotMissed'
    <2>1. picture' # 0 /\ chunks' # 0
      BY <1>1, Constants DEF PInv, BufferInv, Scripts, HostInv, HostTypeOK
    <2> QED
      BY <1>2, <2>1 DEF CountInv, ChunkCountIsThisCalls, NotMissed, PictureNotAbandoned,
                        Ended, CapPcs
  <1>5. ASSUME ~raised' PROVE OwnPicture'
    <2>1. OwnPicture /\ pc' \in {"cap_data", "drain_poll"}
      BY <1>2, <1>5 DEF PInv
    <2>2. owner = sid /\ sid = lastId /\ Launched /\ State \notin {"scheduled", "body"}
      BY <1>1, <2>1 DEF OwnPicture
    <2> QED
      BY <1>1, <1>2, <2>1, <2>2 DEF OwnPicture, Ended, Launched, CapPcs, Draining
  <1> QED
    BY <1>3, <1>4, <1>5

LEMMA StopPicture ==
    ASSUME CamInv, HostInv, PInv,
           StartRefused \/ CapGone \/ Expire \/ TransactionFails
    PROVE  (BufferInv /\ CountInv /\ NotMissed /\ (~raised => OwnPicture))'
  <1>1. UNCHANGED Image /\ pc # "idle"
    BY DEF StartRefused, CapGone, Expire, TransactionFails, Loops
  <1>2. CASE StartRefused \/ CapGone \/ Expire
    <2>1. Still /\ UNCHANGED capture
      BY <1>2, PlainSteps DEF StartRefused, CapGone, Expire, camera
    <2>2. Finish("start_refused") \/ Finish("transport") \/ Finish("timeout")
      BY <1>2 DEF StartRefused, CapGone, Expire
    <2> QED
      BY <1>1, <2>1, <2>2, EndPicture
  <1>3. CASE TransactionFails
    <2>1. /\ Finish(TransportError) /\ TransportError \in {"image", "transport"}
          /\ TransportError = "image" <=> (op = "stream" /\ pc \in Draining)
      BY <1>3 DEF TransactionFails, TransportError
    <2>2. CASE UNCHANGED camera \/ PopMessage \/ GiveChunk
      <3>1. Still /\ capture' \in {capture, "notset"}
        BY <2>2, PlainSteps DEF PopMessage, GiveChunk, camera
      <3> QED
        BY <1>1, <2>1, <3>1, EndPicture
    <2>3. CASE pc = "start" /\ Accept(Script)
      <3>1. /\ Script \in Programs /\ prog' = Script
            /\ UNCHANGED <<capture, owner, op, sid, chunks, picture>>
            /\ pc' = "idle" /\ outcome' = "transport"
            /\ raised' = (raised \/ op = "stream")
        BY <1>1, <2>1, <2>3, ScriptType DEF Accept, Finish, Image, Draining
      <3>2. BufferInv'
        BY <2>3, <3>1, AcceptBuffer
      <3>3. CountInv' /\ NotMissed'
        BY <3>1 DEF PInv, CountInv, ChunkCountIsThisCalls, NotMissed, PictureNotAbandoned,
                    Ended, CapPcs
      <3>4. ASSUME ~raised' PROVE OwnPicture'
        <4>1. capture = "notset" /\ op # "stream"
          BY <2>3, <3>1, <3>4 DEF PInv, OwnPicture, CapPcs
        <4>2. prog' # "stream"
          BY <3>1, <4>1 DEF Script
        <4> QED
          BY <3>1, <4>1, <4>2 DEF OwnPicture, Ended, Draining
      <3> QED
        BY <3>2, <3>3, <3>4
    <2> QED
      BY <1>3, <2>2, <2>3 DEF TransactionFails
  <1> QED
    BY <1>2, <1>3

-----------------------------------------------------------------------------
LEMMA InitPInv == Init => PInv
  <1> SUFFICES ASSUME Init PROVE PInv
    OBVIOUS
  <1>1. /\ pc = "idle" /\ outcome = "pending" /\ lastId \notin Scripts /\ capture = "notset"
        /\ op = "submit" /\ polls = 0 /\ owner = 0 /\ lastId = 0
    BY Constants DEF Init, CameraInit, Scripts
  <1> QED
    BY <1>1 DEF PInv, Where, Fresh, LensInv, BufferInv, CountInv, NotMissed, OwnPicture, Ended,
                WaitPcs, LuaPcs, CapPcs, Draining, Launched, ModeConfirmed, Polling,
                ChunkCountIsThisCalls, PictureNotAbandoned, Switches

LEMMA NextPInv == IInv /\ PInv /\ [Next]_vars => PInv'
  <1> SUFFICES ASSUME CamInv, HostInv, PInv, [Next]_vars PROVE PInv'
    BY DEF IInv
  <1>1. (Where /\ Fresh /\ LensInv)'
        /\ (BufferInv /\ CountInv /\ NotMissed /\ (~raised => OwnPicture))'
    <2>1. CASE \E o \in Ops : Call(o)
      BY <2>1, CallLens, CallPicture
    <2>2. CASE Start
      BY <2>2, StartLens, StartPicture
    <2>3. CASE WaitPoll \/ WaitRead \/ LuaPoll \/ LuaRead
      BY <2>3, WaitPollLens, WaitReadLens, LuaLens, FollowPicture
    <2>4. CASE DrainPoll \/ DrainRead
      BY <2>4, DrainLens, DrainPicture
    <2>5. CASE CapReady \/ CapStatus \/ CapRead \/ CapData \/ GraceEnds
      BY <2>5, CapLens, CapReadyPicture, CapStatusPicture, CapReadPicture, CapDataPicture
    <2>6. CASE StartRefused \/ CapGone \/ Expire \/ TransactionFails
      BY <2>6, StopLens, StopPicture
    <2>7. CASE CameraNext /\ UNCHANGED host
      BY <2>7, CameraLens, CameraPicture
    <2>8. CASE UNCHANGED vars
      BY <2>8 DEF vars, camera, host, PInv, Where, Fresh, LensInv, BufferInv, CountInv,
                  NotMissed, OwnPicture, Ended, Launched, State, ModeConfirmed, Polling,
                  ChunkCountIsThisCalls, PictureNotAbandoned, Queued
    <2> QED
      BY <2>1, <2>2, <2>3, <2>4, <2>5, <2>6, <2>7, <2>8 DEF Next, Transaction, ScriptsUsedUp
  <1> QED
    BY <1>1 DEF PInv

LEMMA PInvariance == Spec => [](IInv /\ PInv)
  <1>1. Init => IInv /\ PInv
    BY InitInv, InitPInv
  <1>2. IInv /\ PInv /\ [Next]_vars => (IInv /\ PInv)'
    BY NextInv, NextPInv
  <1> QED
    BY <1>1, <1>2, PTL DEF Spec

(* A switch that returns has happened: the lens is in the mode asked for   *)
(* and is not moving away from it, however many calls, lost transactions   *)
(* and late scripts came before (switch_mode).                             *)
THEOREM SwitchesHaveHappened == Spec => []ModeConfirmed
  <1>1. PInv => ModeConfirmed
    BY DEF PInv, LensInv
  <1> QED
    BY <1>1, PInvariance, PTL

(* The chunk count is zero until this call's first chunk is there          *)
(* (reset_capture_chunks, remote_capture_get_data).                        *)
THEOREM ChunksAreThisCalls == Spec => []ChunkCountIsThisCalls
  <1>1. PInv => ChunkCountIsThisCalls
    BY DEF PInv, CountInv
  <1> QED
    BY <1>1, PInvariance, PTL

(* A script is said to have made no picture only when none of its waits in *)
(* the camera (_shoot_streaming).                                          *)
THEOREM NoPictureAbandoned == Spec => []PictureNotAbandoned
  <1>1. PInv => PictureNotAbandoned
    BY DEF PInv, NotMissed
  <1> QED
    BY <1>1, PInvariance, PTL

(* Another script's picture is returned only after a streaming call that   *)
(* ended without its own (shoot, _shoot_streaming).                        *)
THEOREM StaleOnlyAfterFailure == Spec => []StalePictureOnlyAfterFailure
  <1>1. PInv => StalePictureOnlyAfterFailure
    BY DEF PInv, OwnPicture, StalePictureOnlyAfterFailure
  <1> QED
    BY <1>1, PInvariance, PTL

-----------------------------------------------------------------------------
(* The refinement: what a caller sees of each step.                        *)
LEMMA Unseen ==
    ASSUME UNCHANGED <<op, sid, outcome, fate>>, pc # "idle" <=> pc' # "idle"
    PROVE  UNCHANGED Promised
  BY DEF Promised, Truth

LEMMA SeenTurn ==
    ASSUME Still, NEW p \in Points \ {"idle"}, Goto(p), pc # "idle"
    PROVE  UNCHANGED Promised
  BY Unseen DEF Still, Goto

LEMMA SeenEnd ==
    ASSUME HostInv', pc # "idle", UNCHANGED Truth, NEW o, Finish(o),
           o \in (Abstract!Returns(op) \cup Abstract!Raises(op)) \ {"submitted"}
    PROVE  Promised' \in Abstract!After(Promised)
  <1>1. pc' = "idle" /\ outcome' = o /\ UNCHANGED <<op, sid>>
    BY DEF Finish
  <1>2. Abstract!Honest(o, Truth')
    <2>1. /\ o \in RetValues => fate'[sid'] = o
          /\ o \in {"none", "shot"} => fate'[sid'] = "silent"
          /\ o = "script_error" => fate'[sid'] = "error"
          /\ o = "init_refused" => fate'[sid'] = "false"
          /\ o \in {"not_initialized", "no_capture"} => fate'[sid'] = "true"
      BY <1>1 DEF HostInv, ReturnMeansSuccess, OwnWords, Ended
    <2>2. o \in Judged => sid' \in Scripts /\ sid' # 0
      BY <1>1, Constants DEF HostInv, Ended, Scripts
    <2>3. (RetValues \cup {"silent", "error"}) \cap Alive = {}
      BY DEF RetValues, Alive
    <2>4. o \in Judged => Truth' = fate'[sid']
      BY <2>1, <2>2, <2>3 DEF Truth, Judged, RetValues
    <2> QED
      BY <2>1, <2>4 DEF Abstract!Honest, Judged
  <1>3. /\ Promised.op = op /\ Promised.busy /\ Promised.truth = Truth
        /\ Promised' = Abstract!CallRecord(op, FALSE, Truth, o)
    BY <1>1 DEF Promised, Abstract!CallRecord
  <1>4. Promised' \in Abstract!Told(Promised)
    BY <1>2, <1>3 DEF Abstract!Told
  <1> QED
    BY <1>4 DEF Abstract!After

LEMMA SeenCall ==
    ASSUME NEW o \in Ops, Call(o)
    PROVE  Abstract!Begin
  <1>1. /\ Promised.busy = FALSE /\ o \in AllOps /\ sid' = 0
        /\ pc' # "idle" /\ op' = o /\ outcome' = "pending"
    BY Constants DEF Call, Promised
  <1>2. Promised' = Abstract!Begun(o)
    BY <1>1 DEF Promised, Truth, Abstract!Begun, Abstract!CallRecord
  <1>3. o \in Abstract!AllOps
    BY <1>1 DEF AllOps, Abstract!AllOps, Abstract!Switches
  <1> QED
    BY <1>1, <1>2, <1>3 DEF Abstract!Begin

LEMMA SeenStart ==
    ASSUME CamInv, HostInv, PInv, Start
    PROVE  Promised' \in Abstract!After(Promised)
  <1>1. /\ sid' \in Scripts /\ sid' # 0 /\ fate'[sid'] = "scheduled"
        /\ op' = op /\ pc = "start" /\ Fresh
    BY AcceptInv, ScriptType, Constants DEF Start, Scripts, PInv
  <1>2. Truth' = "alive"
    BY <1>1 DEF Truth, Alive
  <1>3. Truth = "none" \/ (Truth # "alive" /\ op \in Switches)
    <2>1. CASE Polling
      <3>1. op \in Switches /\ sid \in Scripts /\ fate[sid] \notin Alive /\ fate[sid] \in Fates
        BY <1>1, <2>1, Camera DEF Fresh, Polling
      <3> QED
        BY <3>1 DEF Truth, Fates, RetValues, Alive
    <2>2. CASE ~Polling
      BY <1>1, <2>2 DEF Fresh, Truth
    <2> QED
      BY <2>1, <2>2
  <1>4. Promised.op = op /\ Promised.busy /\ Promised.truth = Truth /\ Promised.outcome = outcome
    BY <1>1 DEF Promised
  <1>5. CASE op = "submit"
    <2>1. Truth = "none" /\ Promised' = Abstract!CallRecord("submit", FALSE, "alive", "submitted")
      BY <1>1, <1>2, <1>3, <1>5 DEF Start, Promised, Switches, Abstract!CallRecord
    <2>2. Promised' \in Abstract!Told(Promised)
      BY <1>4, <1>5, <2>1 DEF Abstract!Told
    <2> QED
      BY <2>2 DEF Abstract!After
  <1>6. CASE op # "submit"
    <2>1. Promised' = Abstract!CallRecord(op, TRUE, "alive", outcome)
      BY <1>1, <1>2, <1>6 DEF Start, Follow, Promised, Abstract!CallRecord
    <2>2. Promised' \in Abstract!Launched(Promised)
      BY <1>3, <1>4, <2>1 DEF Abstract!Launched, Abstract!Switches, Switches
    <2> QED
      BY <2>2 DEF Abstract!After
  <1> QED
    BY <1>5, <1>6

LEMMA SeenCamera ==
    ASSUME CamInv, HostInv, CameraNext, UNCHANGED host
    PROVE  UNCHANGED Promised \/ Promised' \in Abstract!After(Promised)
  <1>1. UNCHANGED <<pc, op, sid, outcome, lastId>> /\ Kept /\ sid \in 0..MaxScripts
    BY Effects DEF host, HostInv, HostTypeOK
  <1>2. CASE sid = 0
    BY <1>1, <1>2 DEF Promised, Truth
  <1>3. CASE sid # 0 /\ fate[sid] \notin Alive
    <2>1. fate'[sid] = fate[sid]
      BY <1>1, <1>3, Constants DEF Kept, Scripts
    <2> QED
      BY <1>1, <1>3, <2>1 DEF Promised, Truth
  <1>4. CASE sid # 0 /\ fate[sid] \in Alive
    <2>1. sid = lastId /\ sid \in Scripts
      BY <1>1, <1>4, Constants DEF CamInv, FateInv, Scripts
    <2>2. Truth = "alive"
      BY <1>4 DEF Truth
    <2>3. State' \in Alive \/ State' \in Final \cup {"silent"}
      <3>1. CASE Launched /\ Begins
        BY <3>1 DEF Begins, Alive
      <3>2. CASE Launched /\ Shoots
        BY <3>2 DEF Shoots, Alive
      <3>3. CASE Launched /\ Ends
        BY <3>3 DEF Ends
      <3>4. CASE Aside
        BY <1>1, <1>4, <2>1, <3>4 DEF Aside, State
      <3> QED
        BY <3>1, <3>2, <3>3, <3>4, Effects
    <2>4. CASE State' \in Alive
      BY <1>1, <1>4, <2>1, <2>2, <2>4 DEF Promised, Truth, State
    <2>5. CASE State' \in (Final \cup {"silent"}) \ Alive
      <3>1. Truth' = State'
        BY <1>1, <1>4, <2>1, <2>5 DEF Truth, State
      <3>2. /\ Promised' = Abstract!CallRecord(Promised.op, Promised.busy, State', Promised.outcome)
            /\ Promised.truth = "alive"
        BY <1>1, <2>2, <3>1 DEF Promised, Abstract!CallRecord
      <3>3. State' \in Abstract!Ends
        BY <2>5 DEF Final, Abstract!Ends
      <3>4. Promised' \in Abstract!Concluded(Promised)
        BY <3>2, <3>3 DEF Abstract!Concluded
      <3> QED
        BY <3>4 DEF Abstract!After
    <2> QED
      BY <2>3, <2>4, <2>5
  <1> QED
    BY <1>2, <1>3, <1>4

LEMMA SeenStep ==
    ASSUME CamInv, HostInv, PInv, HostInv',
           Transaction \/ GraceEnds \/ Expire \/ TransactionFails
    PROVE  UNCHANGED Promised \/ Promised' \in Abstract!After(Promised)
  <1> DEFINE Mine == (Abstract!Returns(op) \cup Abstract!Raises(op)) \ {"submitted"}
             Goal == UNCHANGED Promised \/ Promised' \in Abstract!After(Promised)
  <1>1. pc # "idle" /\ op \in AllOps
    BY DEF Transaction, DrainPoll, DrainRead, Start, StartRefused, WaitPoll, WaitRead, LuaPoll,
           LuaRead, CapReady, CapStatus, CapRead, CapData, CapGone, GraceEnds, Expire, Loops,
           TransactionFails, HostInv, HostTypeOK
  <1>2. ASSUME Still, NEW p \in Points \ {"idle"}, Goto(p) PROVE Goal
    BY <1>1, <1>2, SeenTurn
  <1>3. ASSUME Still, NEW o \in Mine, Finish(o) PROVE Goal
    <2>1. UNCHANGED Truth
      BY <1>3 DEF Still, Finish, Truth
    <2> QED
      BY <1>1, <1>3, <2>1, SeenEnd
  <1>4. {"start", "cap_status", "cap_data", "cap_ready", "wait_poll", "lua_poll", "drain_poll",
         "drain_read", "wait_read", "lua_read", "cap_read"} \subseteq Points \ {"idle"}
    BY DEF Points, Loops, Draining, Reading
  <1>5. /\ {"start_refused", "transport"} \subseteq Mine
        /\ op = "lua" => Answers \subseteq Mine
        /\ op # "submit" => {"script_error", "timeout"} \subseteq Mine
        /\ op = "shoot" => "shot" \in Mine
        /\ op \in Switches => {"switched", "not_switched"} \subseteq Mine
        /\ op = "stream" =>
              {"image", "wrong_format", "init_refused", "not_initialized", "init_late",
               "no_capture", "endless"} \subseteq Mine
    BY <1>1 DEF AllOps, Switches, Answers, RetValues, Abstract!Returns, Abstract!Raises,
                Abstract!Failures, Abstract!Switches
  <1>6. /\ pc \in {"wait_poll", "wait_read"} => op = "shoot" \/ op \in Switches
        /\ pc \in {"lua_poll", "lua_read"} => op = "lua" \/ op \in Switches
        /\ pc \in {"cap_ready", "cap_status", "cap_read", "cap_data"} => op = "stream"
    BY DEF PInv, Where, WaitPcs, LuaPcs, CapPcs, Polling
  <1>7. "submit" \notin Switches
    BY DEF Switches
  <1> HIDE DEF Mine
  <1>8. CASE Start
    BY <1>8, SeenStart
  <1>9. CASE DrainPoll \/ DrainRead
    <2>1. Still
      BY <1>9, PlainSteps DEF DrainPoll, DrainRead
    <2> QED
      BY <1>2, <1>3, <1>4, <1>5, <1>9, <2>1 DEF DrainPoll, DrainRead
  <1>10. CASE StartRefused \/ CapGone \/ Expire
    <2>1. Still
      BY <1>10, PlainSteps DEF StartRefused, CapGone, Expire
    <2>2. Expire => op # "submit"
      BY <1>6, <1>7 DEF Expire, Loops
    <2> QED
      BY <1>3, <1>5, <1>10, <2>1, <2>2 DEF StartRefused, CapGone, Expire
  <1>11. CASE WaitPoll
    <2>1. Still
      BY <1>11, PlainSteps DEF WaitPoll
    <2> QED
      BY <1>2, <1>3, <1>4, <1>5, <1>11, <2>1 DEF WaitPoll
  <1>12. CASE WaitRead
    <2>1. Still /\ op # "submit"
      BY <1>6, <1>7, <1>12, PlainSteps DEF WaitRead
    <2> QED
      BY <1>2, <1>3, <1>4, <1>5, <1>12, <2>1 DEF WaitRead
  <1>13. ASSUME NEW v \in Answers, Answer(v), Still, op = "lua" \/ op \in Switches
         PROVE  Goal
    BY <1>2, <1>3, <1>4, <1>5, <1>13 DEF Answer
  <1>14. CASE LuaPoll
    <2>1. Still /\ "none" \in Answers /\ (op = "lua" \/ op \in Switches)
      BY <1>6, <1>14, PlainSteps DEF LuaPoll, Answers
    <2> QED
      BY <1>2, <1>4, <1>13, <1>14, <2>1 DEF LuaPoll
  <1>15. CASE LuaRead
    <2>1. /\ Still /\ op # "submit" /\ (op = "lua" \/ op \in Switches)
          /\ Head(queue).kind = "RET" => Head(queue).val \in Answers
      BY <1>6, <1>7, <1>15, PlainSteps, MessageRead DEF LuaRead, Answers
    <2> QED
      BY <1>2, <1>3, <1>4, <1>5, <1>13, <1>15, <2>1 DEF LuaRead
  <1>16. CASE CapReady \/ CapStatus \/ CapRead \/ CapData
    <2>1. Still /\ op = "stream" /\ op # "submit"
      BY <1>6, <1>16, PlainSteps DEF CapReady, CapStatus, CapRead, CapData
    <2>2. CASE CapReady
      BY <1>2, <1>3, <1>4, <1>5, <2>1, <2>2 DEF CapReady
    <2>3. CASE CapStatus
      BY <1>2, <1>3, <1>4, <1>5, <2>1, <2>3 DEF CapStatus
    <2>4. CASE CapRead
      BY <1>2, <1>3, <1>4, <1>5, <2>1, <2>4 DEF CapRead, AskAgain
    <2>5. CASE CapData
      BY <1>2, <1>3, <1>4, <1>5, <2>1, <2>5 DEF CapData
    <2> QED
      BY <1>16, <2>2, <2>3, <2>4, <2>5
  <1>17. CASE GraceEnds
    <2>1. UNCHANGED <<op, sid, outcome, fate, pc>>
      BY <1>17 DEF GraceEnds, camera
    <2> QED
      BY <2>1, Unseen
  <1>18. CASE TransactionFails
    <2>1. Finish(TransportError) /\ TransportError \in Mine
      BY <1>5, <1>18 DEF TransactionFails, TransportError
    <2>2. CASE UNCHANGED camera \/ PopMessage \/ GiveChunk
      BY <1>3, <2>1, <2>2, PlainSteps
    <2>3. CASE pc = "start" /\ Accept(Script)
      <3>1. sid' = sid /\ Fresh
        BY <2>1 DEF Finish, PInv
      <3>2. sid \in Scripts /\ fate[sid] \notin Alive \cup {"unstarted"} => fate'[sid] = fate[sid]
        BY <2>3, AcceptInv, ScriptType
      <3>3. UNCHANGED Truth
        BY <2>3, <3>1, <3>2 DEF Truth, Fresh
      <3> QED
        BY <1>1, <2>1, <3>3, SeenEnd DEF Mine
    <2> QED
      BY <1>18, <2>2, <2>3 DEF TransactionFails
  <1> QED
    BY <1>8, <1>9, <1>10, <1>11, <1>12, <1>14, <1>15, <1>16, <1>17, <1>18 DEF Transaction

(* Every call is the abstract call: one script at a time, one outcome of   *)
(* the call's own kind that is honest about the script, and nothing said   *)
(* that a later step of the camera could make false (lua_execute,          *)
(* switch_mode, shoot over ChdkPTP).                                       *)
THEOREM CallsAreImplemented == Spec => ImplementsCall
  <1>1. Init => Abstract!Init
    <2> SUFFICES ASSUME Init PROVE Abstract!Init
      OBVIOUS
    <2>1. Promised = Abstract!NotBegun("submit")
      BY DEF Init, Promised, Truth, Abstract!NotBegun, Abstract!CallRecord
    <2>2. "submit" \in Abstract!AllOps
      BY DEF Abstract!AllOps
    <2> QED
      BY <2>1, <2>2 DEF Abstract!Init
  <1>2. IInv /\ PInv /\ IInv' /\ [Next]_vars => [Abstract!Next]_Promised
    <2> SUFFICES ASSUME CamInv, HostInv, PInv, HostInv', [Next]_vars
                 PROVE  [Abstract!Next]_Promised
      BY DEF IInv
    <2>1. CASE \E o \in Ops : Call(o)
      BY <2>1, SeenCall DEF Abstract!Next
    <2>2. CASE Transaction \/ GraceEnds \/ Expire \/ TransactionFails
      BY <2>2, SeenStep DEF Abstract!Next
    <2>3. CASE CameraNext /\ UNCHANGED host
      BY <2>3, SeenCamera DEF Abstract!Next
    <2>4. CASE UNCHANGED vars
      BY <2>4, Unseen DEF vars, camera, host
    <2> QED
      BY <2>1, <2>2, <2>3, <2>4 DEF Next, ScriptsUsedUp
  <1> QED
    BY <1>1, <1>2, PInvariance, PTL DEF Spec, ImplementsCall, Abstract!Spec
=============================================================================
