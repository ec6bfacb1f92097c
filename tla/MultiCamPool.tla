----------------------------- MODULE MultiCamPool ----------------------------
(***************************************************************************)
(* MultiCam.shoot, execute_all and prepare_all (multicam.py): one call for *)
(* every camera, the first two on a pool of worker threads with one worker *)
(* a camera, the third one camera after the other on the caller's thread.  *)
(*                                                                         *)
(* A camera's call is a record of CallPromise, which ChdkCalls implements. *)
(* The executor is the standard library's: a first-in-first-out queue of   *)
(* jobs, workers started as jobs are submitted, a future a job; leaving    *)
(* its "with" block waits until every worker is through with the queue.    *)
(*                                                                         *)
(* A signal's handler runs on the caller's thread and closes every camera, *)
(* workers in the middle of their calls or not; the handler before it may  *)
(* then raise KeyboardInterrupt where the caller is.  What a call on a     *)
(* closed camera comes to is anybody's guess (ChdkDevice.close says so),   *)
(* except that it is one of the outcomes of such a call.                   *)
(***************************************************************************)
EXTENDS CallPromise, Naturals, Sequences, FiniteSets

CONSTANTS N,              \* the cameras of the MultiCam, in order
          Ops,            \* what the caller has done to all of them
          MaxRounds,      \* bound: calls of the MultiCam in one behaviour
          MaxSignals      \* bound: signals in one behaviour

ASSUME PoolAssumption ==
    /\ N \in Nat \ {0} /\ MaxRounds \in Nat /\ MaxSignals \in Nat
    /\ Ops \subseteq AllOps
    /\ RetValues \cap {"alive", "unset", "submitted"} = {}

Camera == 1..N

VARIABLES op,        \* what is being done to all cameras, or was last
          pc,        \* where the caller is
          at,        \* the camera it submits, awaits or switches
          jobs,      \* cameras whose job no worker has taken yet
          threads,   \* workers the pool has started
          running,   \* cameras a worker is making its call on
          call,      \* call[c]: the latest call on camera c, see CallPromise
          future,    \* future[c]: what the future of c holds, "unset" until it is
          results,   \* the results the caller has read, in this order
          ending,    \* how the call of the MultiCam ended: [kind, cam]
          closed,    \* cameras the handler has closed
          signals,   \* signals so far
          rounds     \* calls of the MultiCam so far

pool   == <<jobs, threads, running, future>>
caller == <<op, pc, at, results, ending, rounds>>
vars   == <<pool, caller, call, closed, signals>>

TypeOK ==
    /\ op \in AllOps /\ pc \in {"idle", "submit", "await", "join", "switch"}
    /\ at \in Camera
    /\ jobs \in Seq(Camera) /\ threads \in 0..N /\ running \subseteq Camera
    /\ call \in [Camera -> Calls]
    /\ future \in [Camera -> Outcomes \cup {"unset"}]
    /\ results \in Seq(Outcomes)
    /\ ending \in [kind : {"none", "list", "camera", "interrupted"}, cam : 0..N]
    /\ closed \subseteq Camera
    /\ signals \in 0..MaxSignals /\ rounds \in 0..MaxRounds

NoEnding == [kind |-> "none", cam |-> 0]

Init ==
    /\ op = "submit" /\ pc = "idle" /\ at = 1
    /\ jobs = <<>> /\ threads = 0 /\ running = {}
    /\ call = [c \in Camera |-> NotBegun("submit")]
    /\ future = [c \in Camera |-> "unset"]
    /\ results = <<>> /\ ending = NoEnding
    /\ closed = {} /\ signals = 0 /\ rounds = 0

-----------------------------------------------------------------------------
(* The caller: submits a job for each camera, reads the futures in the     *)
(* order of the cameras, waits for the workers on the way out.             *)

(* A caller that interrupted the wait for the workers lets them finish     *)
(* before it uses the cameras again, and may have reconnected some.        *)
Starts(o) ==
    /\ pc = "idle" /\ running = {} /\ jobs = <<>> /\ rounds < MaxRounds
    /\ rounds' = rounds + 1
    /\ op' = o /\ at' = 1
    /\ threads' = 0 /\ future' = [c \in Camera |-> "unset"]
    /\ results' = <<>> /\ ending' = NoEnding
    /\ closed' \in SUBSET closed
    /\ UNCHANGED <<jobs, running, signals>>

Pooled(o) ==                          \* shoot, execute_all
    /\ o \notin Switches /\ Starts(o)
    /\ pc' = "submit"
    /\ UNCHANGED call

SlipOneWorker == 1
MaxWorkers == N

Idle == threads - Cardinality(running)

SlipOneTooFar(c) == c > N
Last(c) == c = N

Submit ==
    /\ pc = "submit"
    /\ jobs' = Append(jobs, at)
    /\ threads' = IF Idle > Len(jobs) \/ threads >= MaxWorkers THEN threads ELSE threads + 1
    /\ IF Last(at) THEN pc' = "await" /\ at' = 1 ELSE pc' = pc /\ at' = at + 1
    /\ UNCHANGED <<running, future, op, results, ending, rounds, call, closed, signals>>

SlipAsCompleted(c) == c \in Camera
Awaited(c) == c = at

Await ==
    /\ pc = "await"
    /\ \E c \in Camera :
          /\ Awaited(c) /\ future[c] # "unset"
          /\ IF future[c] \in Raises(op)
             THEN /\ ending' = [kind |-> "camera", cam |-> c]
                  /\ pc' = "join" /\ UNCHANGED <<at, results>>
             ELSE /\ results' = Append(results, future[c])
                  /\ IF Last(at)
                     THEN pc' = "join" /\ ending' = [NoEnding EXCEPT !.kind = "list"] /\ at' = at
                     ELSE at' = at + 1 /\ UNCHANGED <<pc, ending>>
    /\ UNCHANGED <<pool, op, rounds, call, closed, signals>>

SlipNoWait == TRUE
SlipEveryFuture == \A c \in Camera : future[c] # "unset"
WorkersGone == running = {} /\ jobs = <<>>

Join ==
    /\ pc = "join" /\ WorkersGone
    /\ pc' = "idle"
    /\ UNCHANGED <<pool, op, at, results, ending, rounds, call, closed, signals>>

-----------------------------------------------------------------------------
(* A worker takes the first job, makes the call, and sets the future.      *)

Take ==
    /\ jobs # <<>> /\ Idle > 0
    /\ LET c == Head(jobs)
       IN  running' = running \cup {c} /\ call' = [call EXCEPT ![c] = Begun(op)]
    /\ jobs' = Tail(jobs)
    /\ UNCHANGED <<threads, future, caller, closed, signals>>

Deliver(c) ==
    /\ c \in running /\ ~call[c].busy
    /\ future' = [future EXCEPT ![c] = call[c].outcome]
    /\ running' = running \ {c}
    /\ UNCHANGED <<jobs, threads, caller, call, closed, signals>>

(* A call goes on as its device promises, or its camera has been closed.   *)
Undone(c) ==
    IF c \in closed /\ call[c].busy
    THEN {CallRecord(call[c].op, FALSE, call[c].truth, o) : o \in Returns(op) \cup Raises(op)}
    ELSE {}

CallStep(c) ==
    /\ \E next \in After(call[c]) \cup Undone(c) : call' = [call EXCEPT ![c] = next]
    /\ UNCHANGED <<pool, caller, closed, signals>>

CallEnds(c) == call[c].busy /\ CallStep(c) /\ ~call'[c].busy

-----------------------------------------------------------------------------
(* prepare_all: sequential, and over at the first camera that fails.       *)

PrepareAll(o) ==
    /\ o \in Switches /\ Starts(o)
    /\ pc' = "switch"
    /\ call' = [call EXCEPT ![1] = Begun(o)]

SlipTogether == TRUE
SwitchOver == ~call[at].busy

SlipGoOn(o) == FALSE
Stops(o) == o \in Raises(op)

SwitchNext ==
    /\ pc = "switch" /\ SwitchOver
    /\ IF Stops(call[at].outcome)
       THEN pc' = "idle" /\ ending' = [kind |-> "camera", cam |-> at] /\ UNCHANGED <<at, call>>
       ELSE IF Last(at)
       THEN pc' = "idle" /\ ending' = [NoEnding EXCEPT !.kind = "list"] /\ UNCHANGED <<at, call>>
       ELSE /\ at' = at + 1 /\ call' = [call EXCEPT ![at + 1] = Begun(op)]
            /\ UNCHANGED <<pc, ending>>
    /\ UNCHANGED <<pool, op, results, rounds, closed, signals>>

-----------------------------------------------------------------------------
(* _signal_handler on the caller's thread, and what the handler before it  *)
(* does: return, or raise KeyboardInterrupt where the caller is.           *)

Signal ==
    /\ signals < MaxSignals /\ signals' = signals + 1
    /\ closed' = Camera
    /\ UNCHANGED <<pool, caller, call>>

(* Out of the loops the exception goes through the wait of the "with"      *)
(* block; out of that wait, or of a switch, straight to the host.          *)
Cut(c) == CallRecord(c.op, FALSE, c.truth, c.outcome)

KeyboardInterrupt ==
    /\ pc # "idle"
    /\ signals < MaxSignals /\ signals' = signals + 1
    /\ closed' = Camera
    /\ ending' = [NoEnding EXCEPT !.kind = "interrupted"]
    /\ pc' = IF pc \in {"submit", "await"} THEN "join" ELSE "idle"
    /\ call' = IF pc = "switch" THEN [call EXCEPT ![at] = Cut(call[at])] ELSE call
    /\ UNCHANGED <<pool, op, at, results, rounds>>

Next ==
    \/ \E o \in Ops : Pooled(o) \/ PrepareAll(o)
    \/ Submit \/ Await \/ Join \/ Take \/ SwitchNext
    \/ \E c \in Camera : Deliver(c) \/ CallStep(c)
    \/ Signal \/ KeyboardInterrupt

Spec == Init /\ [][Next]_vars

(* The caller and the workers are threads the operating system schedules.  *)
FairSpec ==
    /\ Spec
    /\ WF_vars(Submit) /\ WF_vars(Await) /\ WF_vars(Join) /\ WF_vars(SwitchNext)
    /\ WF_vars(Take) /\ \A c \in Camera : WF_vars(Deliver(c))

-----------------------------------------------------------------------------
Over(kinds) == pc = "idle" /\ ending.kind \in kinds

(* A list is in the order of the cameras, an entry each, and every entry   *)
(* is what that camera's own script came to, in this call and not in one   *)
(* before; a switch of all cameras that returned has switched each.        *)
ListIsTheCameras ==
    Over({"list"}) =>
        \A c \in Camera :
            /\ call[c].op = op /\ call[c].outcome \in Returns(op)
            /\ op \notin Switches => results[c] = call[c].outcome
            /\ c \notin closed => Honest(call[c].outcome, call[c].truth)

(* The camera whose error is raised is the first in order that failed,     *)
(* whichever failed first in time.                                         *)
FirstFailureIsRaised ==
    Over({"camera"}) =>
        /\ call[ending.cam].op = op /\ call[ending.cam].outcome \in Raises(op)
        /\ \A c \in 1..(ending.cam - 1) :
              call[c].op = op /\ call[c].outcome \in Returns(op)

(* A pooled call that ends by itself leaves no worker on a camera and no   *)
(* camera out, one that failed early and others that take long included:   *)
(* its pictures are taken and dropped.                                     *)
NobodyLeftRunning ==
    Over({"list", "camera"}) =>
        /\ running = {} /\ jobs = <<>>
        /\ op \notin Switches =>
              \A c \in Camera : call[c].op = op /\ future[c] = call[c].outcome

(* prepare_all never has two cameras switching at once: "Sequential        *)
(* switching avoids USB contention" (multicam.py 66-67).                   *)
OneSwitchAtATime ==
    Cardinality({c \in Camera : call[c].busy /\ call[c].op \in Switches}) <= 1

(* No camera waits for another's shutter: even when no call ever ends,     *)
(* each is started, unless the caller is interrupted first.                *)
EveryCameraStarts ==
    \A c \in Camera :
        (pc = "submit") ~> (c \in running \/ future[c] # "unset" \/ ending.kind = "interrupted")

(* If the calls of the cameras end, those of the MultiCam do, after a      *)
(* failure and after an interrupt as well.                                 *)
RoundsEnd == (\A c \in Camera : WF_vars(CallEnds(c))) => []<>(pc = "idle")
=============================================================================
