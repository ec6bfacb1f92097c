-------------------------- MODULE MultiCamPoolProofs -------------------------
(***************************************************************************)
(* What MultiCam promises for any number of cameras, calls and signals:    *)
(* its types and the four safety properties of MultiCamPool.               *)
(*                                                                         *)
(* The invariant accounts for every camera.  In a pooled call its job is   *)
(* still to be submitted, queued, running or told of by its future, and in *)
(* only one of these (Queue, Accounts); what a future holds is what the    *)
(* camera's call in this round came to (CallsInv), and the caller has      *)
(* read the futures up to where it is (Progress).  In a switch of all      *)
(* cameras those before the one being switched are over and returned.      *)
(***************************************************************************)
EXTENDS MultiCamPool, FiniteSetTheorems, SequenceTheorems, TLAPS

Pooling   == op \notin Switches
Finished  == ending.kind \in {"list", "camera"}
Queued(c) == \E i \in 1..Len(jobs) : jobs[i] = c

Queue ==
    /\ \A i \in 1..Len(jobs) :
          /\ jobs[i] \in Camera /\ jobs[i] \notin running /\ future[jobs[i]] = "unset"
          /\ \A j \in 1..Len(jobs) : i # j => jobs[i] # jobs[j]
    /\ \A c \in running : future[c] = "unset"
    /\ pc = "submit" =>
          \A c \in at..N : future[c] = "unset" /\ c \notin running /\ ~Queued(c)
    /\ ~Pooling => Len(jobs) = 0 /\ running = {} /\ \A c \in Camera : future[c] = "unset"
    /\ pc = "idle" /\ Finished => Len(jobs) = 0 /\ running = {}

Accounted(c) == Queued(c) \/ c \in running \/ future[c] # "unset"

Accounts ==
    /\ pc = "submit" => \A c \in 1..(at - 1) : Accounted(c)
    /\ pc = "await" \/ (Pooling /\ Finished) => \A c \in Camera : Accounted(c)

(* The latest call of the camera is of this round.                         *)
Current(c) ==
    \/ c \in running \/ future[c] # "unset"
    \/ ~Pooling /\ (pc = "switch" \/ Finished) /\ c <= at

CallsInv ==
    \A c \in Camera :
        /\ Current(c) => call[c].op = op
        /\ Current(c) /\ ~call[c].busy =>
              /\ call[c].outcome \in Returns(op) \cup Raises(op)
              /\ c \notin closed => Honest(call[c].outcome, call[c].truth)
        /\ future[c] # "unset" => ~call[c].busy /\ future[c] = call[c].outcome
        /\ call[c].busy /\ call[c].op \in Switches => pc = "switch" /\ c = at

ReadUpTo(k) ==
    /\ Len(results) = k
    /\ \A c \in 1..k : future[c] # "unset" /\ results[c] = future[c] /\ future[c] \in Returns(op)

SwitchedUpTo(k) == \A c \in 1..k : ~call[c].busy /\ call[c].outcome \in Returns(op)

Progress ==
    /\ pc \in {"submit", "await"} => Pooling /\ ending.kind = "none"
    /\ pc = "join" => Pooling /\ ending.kind # "none"
    /\ pc = "switch" => ~Pooling /\ ending.kind = "none" /\ SwitchedUpTo(at - 1)
    /\ pc = "submit" => ReadUpTo(0)
    /\ pc = "await" => ReadUpTo(at - 1)
    /\ Pooling /\ ending.kind = "list" => ReadUpTo(N)
    /\ Pooling /\ ending.kind = "camera" =>
          /\ ending.cam \in Camera
          /\ future[ending.cam] # "unset" /\ future[ending.cam] \in Raises(op)
          /\ \A c \in 1..(ending.cam - 1) : future[c] # "unset" /\ future[c] \in Returns(op)
    /\ ~Pooling /\ ending.kind = "list" => at = N /\ SwitchedUpTo(N)
    /\ ~Pooling /\ ending.kind = "camera" =>
          /\ ending.cam = at /\ SwitchedUpTo(at - 1)
          /\ ~call[at].busy /\ call[at].outcome \in Raises(op)

PoolInv == TypeOK /\ Queue /\ Accounts /\ CallsInv /\ Progress

-----------------------------------------------------------------------------
(* One camera's call.                                                      *)
LEMMA Records ==
    ASSUME NEW o \in AllOps, NEW b \in BOOLEAN, NEW truth \in Truths, NEW out \in Outcomes
    PROVE  /\ CallRecord(o, b, truth, out) \in Calls
           /\ CallRecord(o, b, truth, out).op = o
           /\ CallRecord(o, b, truth, out).busy = b
           /\ CallRecord(o, b, truth, out).truth = truth
           /\ CallRecord(o, b, truth, out).outcome = out
  BY DEF CallRecord, Calls

LEMMA OutcomesOf ==
    ASSUME NEW o \in AllOps
    PROVE  /\ Returns(o) \cup Raises(o) \subseteq Outcomes /\ "pending" \in Outcomes
           /\ "unset" \notin Returns(o) \cup Raises(o)
  <1>1. Returns(o) \cup Raises(o) \subseteq Outcomes /\ "pending" \in Outcomes
    BY DEF Outcomes
  <1>2. "unset" \notin Returns(o)
    BY PoolAssumption DEF PoolAssumption, Returns, AllOps, Switches
  <1>3. "unset" \notin Raises(o)
    BY DEF Raises, AllOps, Switches, Failures
  <1> QED
    BY <1>1, <1>2, <1>3

LEMMA BeginsBusy ==
    ASSUME NEW o \in AllOps
    PROVE  /\ Begun(o) \in Calls /\ Begun(o).op = o /\ Begun(o).busy = TRUE
           /\ NotBegun(o) \in Calls /\ NotBegun(o).op = o /\ NotBegun(o).busy = FALSE
  <1>1. "none" \in Truths /\ "pending" \in Outcomes
    BY DEF Truths, Outcomes
  <1> QED
    BY <1>1 DEF Begun, NotBegun, CallRecord, Calls

(* What is honest of a script that is still alive is so of its end.        *)
LEMMA AliveSaysNothing ==
    ASSUME NEW out, NEW end, Honest(out, "alive")
    PROVE  Honest(out, end)
  <1>1. "alive" \notin RetValues
    BY PoolAssumption DEF PoolAssumption
  <1> QED
    BY <1>1 DEF Honest

(* A call keeps its operation; one that is over stays so with its outcome, *)
(* honest if it was; one that ends comes to an honest outcome of its kind. *)
LEMMA CallMoves ==
    ASSUME NEW r \in Calls, NEW n \in After(r)
    PROVE  /\ n \in Calls /\ n.op = r.op
           /\ n.busy = TRUE => r.busy = TRUE
           /\ r.busy = FALSE =>
                 /\ n.outcome = r.outcome
                 /\ Honest(r.outcome, r.truth) => Honest(n.outcome, n.truth)
           /\ r.busy = TRUE /\ n.busy = FALSE =>
                 /\ n.outcome \in Returns(r.op) \cup Raises(r.op)
                 /\ Honest(n.outcome, n.truth)
  <1>0. /\ r.op \in AllOps /\ r.busy \in BOOLEAN /\ r.truth \in Truths /\ r.outcome \in Outcomes
        /\ "alive" \in Truths
    BY DEF Calls, Truths
  <1>1. CASE n \in Launched(r)
    <2>1. r.busy = TRUE /\ n = CallRecord(r.op, TRUE, "alive", r.outcome)
      BY <1>0, <1>1 DEF Launched
    <2> QED
      BY <1>0, <2>1 DEF CallRecord, Calls
  <1>2. CASE n \in Concluded(r)
    <2>1. PICK end \in Ends : r.truth = "alive" /\ n = CallRecord(r.op, r.busy, end, r.outcome)
      BY <1>2 DEF Concluded
    <2>2. end \in Truths
      BY DEF Truths
    <2>3. /\ n \in Calls /\ n.op = r.op /\ n.busy = r.busy /\ n.truth = end
          /\ n.outcome = r.outcome
      BY <1>0, <2>1, <2>2, Records
    <2> QED
      BY <2>1, <2>3, AliveSaysNothing
  <1>3. CASE n \in Told(r)
    <2>1. r.busy = TRUE
      BY <1>0, <1>3 DEF Told
    <2>2. CASE \E o \in Returns(r.op) \cup Raises(r.op) :
                  Honest(o, r.truth) /\ n = CallRecord(r.op, FALSE, r.truth, o)
      <3>1. PICK o \in Returns(r.op) \cup Raises(r.op) :
                  Honest(o, r.truth) /\ n = CallRecord(r.op, FALSE, r.truth, o)
        BY <2>2
      <3>2. o \in Outcomes
        BY <1>0, OutcomesOf
      <3> QED
        BY <1>0, <2>1, <3>1, <3>2 DEF CallRecord, Calls
    <2>3. CASE r.op = "submit" /\ n = CallRecord("submit", FALSE, "alive", "submitted")
      <3>1. "submitted" \in Returns("submit") /\ "submitted" \in Outcomes
        BY <1>0, <2>3, OutcomesOf DEF Returns, Switches
      <3>2. Honest("submitted", "alive")
        BY PoolAssumption DEF PoolAssumption, Honest
      <3> QED
        BY <1>0, <2>1, <2>3, <3>1, <3>2 DEF CallRecord, Calls
    <2> QED
      BY <1>3, <2>1, <2>2, <2>3 DEF Told
  <1> QED
    BY <1>1, <1>2, <1>3 DEF After

-----------------------------------------------------------------------------
LEMMA Ranges ==
    ASSUME TypeOK
    PROVE  /\ N \in Nat \ {0} /\ at \in 1..N /\ Camera = 1..N
           /\ jobs \in Seq(Camera) /\ Len(jobs) \in Nat
           /\ results \in Seq(Outcomes) /\ Len(results) \in Nat
           /\ op \in AllOps
           /\ \A c \in Camera : call[c] \in Calls /\ call[c].busy \in BOOLEAN
  <1>1. jobs \in Seq(Camera) /\ results \in Seq(Outcomes)
    BY DEF TypeOK
  <1>2. Len(jobs) \in Nat /\ Len(results) \in Nat
    BY <1>1, LenProperties
  <1>3. \A c \in Camera : call[c] \in Calls
    BY DEF TypeOK
  <1>4. \A c \in Camera : call[c].busy \in BOOLEAN
    BY <1>3 DEF Calls
  <1> QED
    BY <1>1, <1>2, <1>3, <1>4, PoolAssumption DEF TypeOK, PoolAssumption, Camera

LEMMA InitPool == Init => PoolInv
  <1> SUFFICES ASSUME Init PROVE PoolInv
    OBVIOUS
  <1>1. N \in Nat \ {0} /\ MaxRounds \in Nat /\ MaxSignals \in Nat
    BY PoolAssumption DEF PoolAssumption
  <1>2. /\ jobs \in Seq(Camera) /\ Len(jobs) = 0 /\ results \in Seq(Outcomes) /\ Len(results) = 0
    BY EmptySeq DEF Init
  <1>3. "submit" \in AllOps /\ "submit" \notin Switches
    BY DEF AllOps, Switches
  <1>4. NotBegun("submit") \in Calls /\ NotBegun("submit").busy = FALSE
    BY <1>3, BeginsBusy
  <1>5. TypeOK
    <2>1. call \in [Camera -> Calls]
      BY <1>4 DEF Init
    <2>2. future \in [Camera -> Outcomes \cup {"unset"}]
      BY DEF Init
    <2>3. ending \in [kind : {"none", "list", "camera", "interrupted"}, cam : 0..N]
      BY <1>1 DEF Init, NoEnding
    <2> QED
      BY <1>1, <1>2, <1>3, <2>1, <2>2, <2>3 DEF Init, TypeOK, Camera
  <1>6. Queue /\ Accounts
    BY <1>2, <1>3 DEF Init, Queue, Accounts, Pooling, Finished, NoEnding
  <1>7. \A c \in Camera : future[c] = "unset" /\ call[c].busy = FALSE
    BY <1>4 DEF Init
  <1>8. CallsInv
    BY <1>3, <1>7 DEF Init, CallsInv, Current, Pooling
  <1>9. Progress
    BY <1>3 DEF Init, Progress, Pooling, NoEnding
  <1> QED
    BY <1>5, <1>6, <1>8, <1>9 DEF PoolInv

-----------------------------------------------------------------------------
(* A call of the MultiCam begins.                                          *)
LEMMA StartsType ==
    ASSUME PoolInv, NEW o \in Ops, Starts(o), pc' \in {"submit", "switch"},
           call' \in [Camera -> Calls]
    PROVE  /\ TypeOK' /\ o \in AllOps
           /\ jobs' = jobs /\ Len(jobs) = 0 /\ running' = {} /\ op' = o /\ at' = 1
           /\ Len(results') = 0 /\ ending'.kind = "none"
           /\ \A c \in Camera : future'[c] = "unset"
  <1>1. /\ N \in Nat \ {0} /\ MaxRounds \in Nat /\ o \in AllOps
    BY PoolAssumption DEF PoolAssumption
  <1>2. results' \in Seq(Outcomes) /\ Len(results') = 0
    BY EmptySeq DEF Starts
  <1>3. future' \in [Camera -> Outcomes \cup {"unset"}]
    BY DEF Starts
  <1>4. ending' \in [kind : {"none", "list", "camera", "interrupted"}, cam : 0..N]
    BY <1>1 DEF Starts, NoEnding
  <1>5. closed' \subseteq Camera
    BY DEF Starts, PoolInv, TypeOK
  <1>6. TypeOK'
    BY <1>1, <1>2, <1>3, <1>4, <1>5 DEF Starts, PoolInv, TypeOK, Camera
  <1>7. Len(jobs) = 0
    BY EmptySeq DEF Starts
  <1> QED
    BY <1>1, <1>2, <1>6, <1>7 DEF Starts, NoEnding

LEMMA PooledInv ==
    ASSUME PoolInv, NEW o \in Ops, Pooled(o)
    PROVE  PoolInv'
  <1>1. /\ Starts(o) /\ o \notin Switches /\ pc = "idle" /\ pc' = "submit" /\ call' = call
    BY DEF Pooled, Starts
  <1>2. /\ TypeOK' /\ jobs' = jobs /\ Len(jobs) = 0 /\ running' = {} /\ op' = o /\ at' = 1
        /\ Len(results') = 0 /\ ending'.kind = "none"
        /\ \A c \in Camera : future'[c] = "unset"
    BY <1>1, StartsType DEF PoolInv, TypeOK
  <1>3. N \in Nat \ {0} /\ Camera = 1..N
    BY PoolAssumption DEF PoolAssumption, Camera
  <1>4. Queue'
    BY <1>1, <1>2, <1>3 DEF Queue, Queued, Pooling
  <1>5. Accounts'
    BY <1>1, <1>2 DEF Accounts, Finished
  <1>6. \A c \in Camera : call[c].busy => call[c].op \notin Switches
    BY <1>1 DEF PoolInv, CallsInv
  <1>7. CallsInv'
    BY <1>1, <1>2, <1>6 DEF CallsInv, Current, Pooling
  <1>8. Progress'
    BY <1>1, <1>2, <1>3 DEF Progress, Pooling, ReadUpTo
  <1> QED
    BY <1>2, <1>4, <1>5, <1>7, <1>8 DEF PoolInv

LEMMA PrepareAllInv ==
    ASSUME PoolInv, NEW o \in Ops, PrepareAll(o)
    PROVE  PoolInv'
  <1>1. /\ Starts(o) /\ o \in Switches /\ pc = "idle" /\ pc' = "switch"
        /\ call' = [call EXCEPT ![1] = Begun(o)]
    BY DEF PrepareAll, Starts
  <1>2. N \in Nat \ {0} /\ Camera = 1..N /\ o \in AllOps /\ call \in [Camera -> Calls]
    BY PoolAssumption DEF PoolAssumption, Camera, PoolInv, TypeOK
  <1>3. Begun(o) \in Calls /\ Begun(o).op = o /\ Begun(o).busy = TRUE
    BY <1>2, BeginsBusy
  <1>4. /\ call' \in [Camera -> Calls] /\ call'[1] = Begun(o)
        /\ \A c \in Camera : c # 1 => call'[c] = call[c]
    BY <1>1, <1>2, <1>3
  <1>5. /\ TypeOK' /\ jobs' = jobs /\ Len(jobs) = 0 /\ running' = {} /\ op' = o /\ at' = 1
        /\ Len(results') = 0 /\ ending'.kind = "none"
        /\ \A c \in Camera : future'[c] = "unset"
    BY <1>1, <1>4, StartsType
  <1>6. Queue' /\ Accounts'
    BY <1>1, <1>5 DEF Queue, Accounts, Pooling, Finished
  <1>7. \A c \in Camera : call[c].busy => call[c].op \notin Switches
    BY <1>1 DEF PoolInv, CallsInv
  <1>8. CallsInv'
    BY <1>1, <1>2, <1>3, <1>4, <1>5, <1>7 DEF CallsInv, Current, Pooling
  <1>9. Progress'
    BY <1>1, <1>2, <1>5 DEF Progress, Pooling, SwitchedUpTo
  <1> QED
    BY <1>5, <1>6, <1>8, <1>9 DEF PoolInv

-----------------------------------------------------------------------------
(* The caller of a pooled call.                                            *)
LEMMA SubmitInv ==
    ASSUME PoolInv, Submit
    PROVE  PoolInv'
  <1>1. /\ pc = "submit" /\ jobs' = Append(jobs, at) /\ threads' \in {threads, threads + 1}
        /\ threads' > threads => threads < N
        /\ UNCHANGED <<running, future, op, results, ending, rounds, call, closed, signals>>
    <2>1. threads \in 0..N /\ N \in Nat
      BY PoolAssumption DEF PoolAssumption, PoolInv, TypeOK
    <2> QED
      BY <2>1 DEF Submit, MaxWorkers
  <1>2. \/ at = N /\ pc' = "await" /\ at' = 1
        \/ at # N /\ pc' = "submit" /\ at' = at + 1
    BY <1>1 DEF Submit, Last
  <1>3. /\ N \in Nat \ {0} /\ at \in 1..N /\ Camera = 1..N
        /\ jobs \in Seq(Camera) /\ Len(jobs) \in Nat
    BY Ranges DEF PoolInv
  <1>4. /\ jobs' \in Seq(Camera) /\ Len(jobs') = Len(jobs) + 1
        /\ \A i \in 1..Len(jobs) : jobs'[i] = jobs[i]
        /\ jobs'[Len(jobs) + 1] = at
    BY <1>1, <1>3, AppendProperties
  <1>5. TypeOK'
    <2>1. threads' \in 0..N
      BY <1>1, <1>3 DEF PoolInv, TypeOK
    <2>2. pc' \in {"idle", "submit", "await", "join", "switch"} /\ at' \in Camera
      BY <1>2, <1>3
    <2> QED
      BY <1>1, <1>4, <2>1, <2>2 DEF PoolInv, TypeOK
  <1>6. Pooling /\ ending.kind = "none" /\ ReadUpTo(0)
    BY <1>1 DEF PoolInv, Progress
  <1>7. \A c \in Camera : Queued(c)' <=> Queued(c) \/ c = at
    <2>1. ASSUME NEW c \in Camera, Queued(c) PROVE Queued(c)'
      <3>1. PICK i \in 1..Len(jobs) : jobs[i] = c
        BY <2>1 DEF Queued
      <3>2. i \in 1..Len(jobs') /\ jobs'[i] = c
        BY <1>3, <1>4, <3>1
      <3> QED
        BY <3>2 DEF Queued
    <2>2. ASSUME NEW c \in Camera, c = at PROVE Queued(c)'
      <3>1. Len(jobs) + 1 \in 1..Len(jobs') /\ jobs'[Len(jobs) + 1] = c
        BY <1>3, <1>4, <2>2
      <3> QED
        BY <3>1 DEF Queued
    <2>3. ASSUME NEW c \in Camera, Queued(c)', c # at PROVE Queued(c)
      <3>1. PICK i \in 1..Len(jobs') : jobs'[i] = c
        BY <2>3 DEF Queued
      <3>2. i \in 1..Len(jobs)
        BY <1>3, <1>4, <2>3, <3>1
      <3> QED
        BY <1>4, <3>1, <3>2 DEF Queued
    <2> QED
      BY <2>1, <2>2, <2>3
  <1>8. /\ future[at] = "unset" /\ at \notin running
        /\ \A i \in 1..Len(jobs) : jobs[i] # at
    BY <1>1, <1>3 DEF PoolInv, Queue, Queued
  <1>9. Queue'
    <2>1. ASSUME NEW i \in 1..Len(jobs')
          PROVE  /\ jobs'[i] \in Camera /\ jobs'[i] \notin running /\ future[jobs'[i]] = "unset"
                 /\ \A j \in 1..Len(jobs') : i # j => jobs'[i] # jobs'[j]
      <3>1. CASE i \in 1..Len(jobs)
        <4>1. \A j \in 1..Len(jobs') : j \in 1..Len(jobs) \/ j = Len(jobs) + 1
          BY <1>3, <1>4
        <4> QED
          BY <1>4, <1>8, <3>1, <4>1 DEF PoolInv, Queue
      <3>2. CASE i = Len(jobs) + 1
        <4>1. \A j \in 1..Len(jobs') : i # j => j \in 1..Len(jobs)
          BY <1>3, <1>4, <3>2
        <4> QED
          BY <1>3, <1>4, <1>8, <3>2, <4>1
      <3> QED
        BY <1>3, <1>4, <3>1, <3>2
    <2>2. pc' = "submit" =>
             \A c \in at'..N : future[c] = "unset" /\ c \notin running /\ ~Queued(c)'
      <3> SUFFICES ASSUME pc' = "submit", NEW c \in at'..N
                   PROVE  future[c] = "unset" /\ c \notin running /\ ~Queued(c)'
        OBVIOUS
      <3>1. c \in at..N /\ c # at /\ c \in Camera
        BY <1>2, <1>3
      <3> QED
        BY <1>1, <1>7, <3>1 DEF PoolInv, Queue
    <2>3. pc' # "idle" /\ Pooling'
      BY <1>1, <1>2, <1>6 DEF Pooling
    <2> QED
      BY <1>1, <2>1, <2>2, <2>3 DEF PoolInv, Queue
  <1>10. \A c \in 1..at : Accounted(c)'
    <2> SUFFICES ASSUME NEW c \in 1..at PROVE Accounted(c)'
      OBVIOUS
    <2>1. c \in Camera /\ (c = at \/ c \in 1..(at - 1))
      BY <1>3
    <2>2. CASE c = at
      BY <1>7, <2>1, <2>2 DEF Accounted
    <2>3. CASE c \in 1..(at - 1)
      <3>1. Accounted(c)
        BY <1>1, <2>3 DEF PoolInv, Accounts
      <3> QED
        BY <1>1, <1>7, <2>1, <3>1 DEF Accounted
    <2> QED
      BY <2>1, <2>2, <2>3
  <1>11. Accounts'
    <2>1. Finished' = FALSE
      BY <1>1, <1>6 DEF Finished
    <2>2. pc' = "submit" => 1..(at' - 1) = 1..at
      BY <1>2, <1>3
    <2>3. pc' = "await" => Camera = 1..at
      BY <1>2, <1>3
    <2> QED
      BY <1>10, <2>1, <2>2, <2>3 DEF Accounts
  <1>12. CallsInv'
    BY <1>1, <1>2, <1>6 DEF PoolInv, CallsInv, Current, Pooling
  <1>13. Progress'
    BY <1>1, <1>2, <1>3, <1>6 DEF Progress, Pooling, ReadUpTo
  <1> QED
    BY <1>5, <1>9, <1>11, <1>12, <1>13 DEF PoolInv

LEMMA AwaitInv ==
    ASSUME PoolInv, Await
    PROVE  PoolInv'
  <1>1. /\ pc = "await" /\ future[at] # "unset"
        /\ UNCHANGED <<jobs, threads, running, future, op, rounds, call, closed, signals>>
        /\ \/ /\ future[at] \in Raises(op)
              /\ ending' = [kind |-> "camera", cam |-> at] /\ pc' = "join"
              /\ at' = at /\ results' = results
           \/ /\ future[at] \notin Raises(op) /\ results' = Append(results, future[at])
              /\ \/ at = N /\ pc' = "join" /\ ending' = [NoEnding EXCEPT !.kind = "list"] /\ at' = at
                 \/ at # N /\ pc' = pc /\ ending' = ending /\ at' = at + 1
    BY DEF Await, Awaited, Last, pool
  <1>2. /\ N \in Nat \ {0} /\ at \in 1..N /\ Camera = 1..N
        /\ results \in Seq(Outcomes) /\ Len(results) \in Nat /\ op \in AllOps
    BY Ranges DEF PoolInv
  <1>3. /\ future[at] \in Returns(op) \cup Raises(op) /\ future[at] \in Outcomes
    <2>1. Current(at) /\ call[at].busy = FALSE /\ future[at] = call[at].outcome
      BY <1>1, <1>2 DEF PoolInv, CallsInv, Current
    <2>2. future[at] \in Returns(op) \cup Raises(op)
      BY <1>2, <2>1 DEF PoolInv, CallsInv
    <2> QED
      BY <1>2, <2>2, OutcomesOf
  <1>4. Pooling /\ ending.kind = "none" /\ ReadUpTo(at - 1)
    BY <1>1 DEF PoolInv, Progress
  <1>5. results' = Append(results, future[at]) =>
           /\ results' \in Seq(Outcomes) /\ Len(results') = Len(results) + 1
           /\ \A i \in 1..Len(results) : results'[i] = results[i]
           /\ results'[Len(results) + 1] = future[at]
    BY <1>2, <1>3, AppendProperties
  <1>6. ASSUME NEW k, k = at, results' = Append(results, future[at]), future[at] \in Returns(op)
        PROVE  ReadUpTo(k)'
    <2>1. Len(results) = k - 1 /\ Len(results') = k
      BY <1>2, <1>4, <1>5, <1>6 DEF ReadUpTo
    <2>2. ASSUME NEW c \in 1..k
          PROVE  future[c] # "unset" /\ results'[c] = future[c] /\ future[c] \in Returns(op)
      <3>1. CASE c = k
        BY <1>1, <1>2, <1>5, <1>6, <2>1, <3>1
      <3>2. CASE c \in 1..(k - 1)
        <4>1. /\ future[c] # "unset" /\ results[c] = future[c] /\ future[c] \in Returns(op)
              /\ results'[c] = results[c]
          BY <1>4, <1>5, <1>6, <2>1, <3>2 DEF ReadUpTo
        <4> QED
          BY <4>1
      <3>3. c = k \/ c \in 1..(k - 1)
        <4>1. k \in 1..N /\ N \in Nat
          BY <1>2, <1>6
        <4> QED
          BY <4>1
      <3> QED
        BY <3>1, <3>2, <3>3
    <2> QED
      BY <1>1, <2>1, <2>2 DEF ReadUpTo
  <1>7. TypeOK'
    <2>1. ending' \in [kind : {"none", "list", "camera", "interrupted"}, cam : 0..N]
      BY <1>1, <1>2 DEF PoolInv, TypeOK, NoEnding
    <2>2. results' \in Seq(Outcomes)
      BY <1>1, <1>2, <1>5
    <2>3. pc' \in {"idle", "submit", "await", "join", "switch"} /\ at' \in Camera
      BY <1>1, <1>2
    <2> QED
      BY <1>1, <2>1, <2>2, <2>3 DEF PoolInv, TypeOK
  <1>8. pc' \in {"join", "await"} /\ Pooling'
    BY <1>1, <1>4 DEF Pooling
  <1>9. Queue'
    BY <1>1, <1>4, <1>8 DEF PoolInv, Queue, Queued
  <1>10. Accounts'
    BY <1>1, <1>8 DEF PoolInv, Accounts, Accounted, Queued
  <1>11. CallsInv'
    BY <1>1, <1>4, <1>8 DEF PoolInv, CallsInv, Current, Pooling
  <1>12. Progress'
    <2>1. CASE future[at] \in Raises(op) /\ ending' = [kind |-> "camera", cam |-> at]
               /\ pc' = "join" /\ at' = at /\ results' = results
      BY <1>1, <1>2, <1>4, <1>8, <2>1 DEF Progress, Pooling, ReadUpTo
    <2>2. CASE future[at] \notin Raises(op) /\ results' = Append(results, future[at])
               /\ at = N /\ pc' = "join" /\ ending' = [NoEnding EXCEPT !.kind = "list"] /\ at' = at
      <3>1. ReadUpTo(N)' /\ ending'.kind = "list"
        BY <1>3, <1>6, <2>2 DEF NoEnding
      <3> QED
        BY <1>1, <1>8, <2>2, <3>1 DEF Progress
    <2>3. CASE future[at] \notin Raises(op) /\ results' = Append(results, future[at])
               /\ at # N /\ pc' = pc /\ ending' = ending /\ at' = at + 1
      <3>1. PICK k \in 1..N : k = at
        BY <1>2
      <3>2. ReadUpTo(k)' /\ ending'.kind = "none" /\ at' - 1 = k /\ pc' = "await"
        BY <1>1, <1>2, <1>3, <1>4, <1>6, <2>3, <3>1
      <3>3. ReadUpTo(at - 1)'
        BY <3>2
      <3> QED
        BY <1>8, <3>2, <3>3 DEF Progress
    <2> QED
      BY <1>1, <2>1, <2>2, <2>3
  <1> QED
    BY <1>7, <1>9, <1>10, <1>11, <1>12 DEF PoolInv

LEMMA JoinInv ==
    ASSUME PoolInv, Join
    PROVE  PoolInv'
  <1>1. /\ pc = "join" /\ running = {} /\ jobs = <<>> /\ pc' = "idle"
        /\ UNCHANGED <<jobs, threads, running, future, op, at, results, ending, rounds>>
        /\ UNCHANGED <<call, closed, signals>>
    BY DEF Join, WorkersGone, pool
  <1>2. Len(jobs) = 0
    BY <1>1, EmptySeq
  <1>3. Pooling /\ Pooling'
    BY <1>1 DEF PoolInv, Progress, Pooling
  <1>4. TypeOK'
    BY <1>1 DEF PoolInv, TypeOK
  <1>5. Queue'
    BY <1>1, <1>2, <1>3 DEF PoolInv, Queue, Queued
  <1>6. Accounts'
    BY <1>1, <1>3 DEF PoolInv, Accounts, Accounted, Queued, Finished
  <1>7. CallsInv'
    BY <1>1, <1>3 DEF PoolInv, CallsInv, Current
  <1>8. Progress'
    BY <1>1, <1>3 DEF PoolInv, Progress, ReadUpTo
  <1> QED
    BY <1>4, <1>5, <1>6, <1>7, <1>8 DEF PoolInv

-----------------------------------------------------------------------------
(* The workers.                                                            *)
LEMMA TakeInv ==
    ASSUME PoolInv, Take
    PROVE  PoolInv'
  <1> DEFINE c == Head(jobs)
  <1>1. /\ jobs # <<>> /\ jobs' = Tail(jobs) /\ running' = running \cup {c}
        /\ call' = [call EXCEPT ![c] = Begun(op)]
        /\ UNCHANGED <<threads, future, op, pc, at, results, ending, rounds, closed, signals>>
    BY DEF Take, caller
  <1>2. /\ N \in Nat \ {0} /\ at \in 1..N /\ Camera = 1..N /\ op \in AllOps
        /\ jobs \in Seq(Camera) /\ Len(jobs) \in Nat
    BY Ranges DEF PoolInv
  <1>3. /\ Len(jobs) > 0 /\ c = jobs[1] /\ jobs' \in Seq(Camera) /\ Len(jobs') = Len(jobs) - 1
        /\ \A i \in 1..Len(jobs') : i + 1 \in 1..Len(jobs) /\ jobs'[i] = jobs[i + 1]
    BY <1>1, <1>2, HeadTailProperties, EmptySeq
  <1>4. 1 \in 1..Len(jobs)
    BY <1>2, <1>3
  <1>5. /\ c \in Camera /\ c \notin running /\ future[c] = "unset"
        /\ \A i \in 1..Len(jobs') : jobs'[i] # c
    <2>1. c \in Camera /\ c \notin running /\ future[c] = "unset"
      BY <1>3, <1>4 DEF PoolInv, Queue
    <2>2. ASSUME NEW i \in 1..Len(jobs') PROVE jobs'[i] # c
      <3>1. i + 1 \in 1..Len(jobs) /\ 1 # i + 1 /\ jobs'[i] = jobs[i + 1]
        BY <1>2, <1>3
      <3> QED
        BY <1>3, <1>4, <3>1 DEF PoolInv, Queue
    <2> QED
      BY <2>1, <2>2
  <1>6. Pooling /\ Pooling' /\ ~(pc = "idle" /\ Finished)
    BY <1>1, <1>3, <1>2 DEF PoolInv, Queue, Pooling
  <1>7. /\ Begun(op) \in Calls /\ Begun(op).op = op /\ Begun(op).busy = TRUE
    BY <1>2, BeginsBusy
  <1>8. \A d \in Camera : Queued(d) <=> Queued(d)' \/ d = c
    <2>1. ASSUME NEW d \in Camera, Queued(d), d # c PROVE Queued(d)'
      <3>1. PICK i \in 1..Len(jobs) : jobs[i] = d
        BY <2>1 DEF Queued
      <3>2. i # 1 /\ i - 1 \in 1..Len(jobs')
        BY <1>2, <1>3, <2>1, <3>1
      <3>3. jobs'[i - 1] = jobs[(i - 1) + 1] /\ (i - 1) + 1 = i
        BY <1>3, <3>2
      <3> QED
        BY <3>1, <3>2, <3>3 DEF Queued
    <2>2. ASSUME NEW d \in Camera, Queued(d)' PROVE Queued(d)
      <3>1. PICK i \in 1..Len(jobs') : jobs'[i] = d
        BY <2>2 DEF Queued
      <3> QED
        BY <1>3, <3>1 DEF Queued
    <2>3. Queued(c)
      BY <1>3, <1>4 DEF Queued
    <2> HIDE DEF c
    <2> QED
      BY <2>1, <2>2, <2>3
  <1> HIDE DEF c
  <1>9. /\ call' \in [Camera -> Calls] /\ call'[c] = Begun(op)
        /\ \A d \in Camera : d # c => call'[d] = call[d]
    BY <1>1, <1>5, <1>7 DEF PoolInv, TypeOK
  <1>10. TypeOK'
    BY <1>1, <1>3, <1>5, <1>9 DEF PoolInv, TypeOK
  <1>11. Queue'
    <2>1. ASSUME NEW i \in 1..Len(jobs')
          PROVE  /\ jobs'[i] \in Camera /\ jobs'[i] \notin running' /\ future[jobs'[i]] = "unset"
                 /\ \A j \in 1..Len(jobs') : i # j => jobs'[i] # jobs'[j]
      <3>1. i + 1 \in 1..Len(jobs) /\ jobs'[i] = jobs[i + 1] /\ jobs'[i] # c
        BY <1>3, <1>5
      <3>2. \A j \in 1..Len(jobs') :
               i # j => i + 1 # j + 1 /\ j + 1 \in 1..Len(jobs) /\ jobs'[j] = jobs[j + 1]
        BY <1>2, <1>3
      <3> QED
        BY <1>1, <3>1, <3>2 DEF PoolInv, Queue
    <2>2. \A d \in running' : future[d] = "unset"
      BY <1>1, <1>5 DEF PoolInv, Queue
    <2>3. ASSUME pc = "submit", NEW d \in at..N
          PROVE  future[d] = "unset" /\ d \notin running' /\ ~Queued(d)'
      <3>1. d \in Camera /\ future[d] = "unset" /\ d \notin running /\ ~Queued(d)
        BY <1>2, <2>3 DEF PoolInv, Queue
      <3> QED
        BY <1>1, <1>8, <3>1
    <2> QED
      BY <1>1, <1>6, <2>1, <2>2, <2>3 DEF Queue, Finished
  <1>12. \A d \in Camera : Accounted(d) => Accounted(d)'
    BY <1>1, <1>8 DEF Accounted
  <1>13. Accounts'
    <2>1. pc = "submit" => 1..(at - 1) \subseteq Camera
      BY <1>2
    <2> QED
      BY <1>1, <1>6, <1>12, <2>1 DEF PoolInv, Accounts, Finished
  <1>14. CallsInv'
    <2> SUFFICES ASSUME NEW d \in Camera
                 PROVE  /\ Current(d)' => call'[d].op = op
                        /\ Current(d)' /\ ~call'[d].busy =>
                              /\ call'[d].outcome \in Returns(op) \cup Raises(op)
                              /\ d \notin closed => Honest(call'[d].outcome, call'[d].truth)
                        /\ future[d] # "unset" => ~call'[d].busy /\ future[d] = call'[d].outcome
                        /\ call'[d].busy /\ call'[d].op \in Switches => pc = "switch" /\ d = at
      BY <1>1 DEF CallsInv
    <2>1. CASE d = c
      BY <1>5, <1>6, <1>7, <1>9, <2>1 DEF Pooling
    <2>2. CASE d # c
      <3>1. call'[d] = call[d] /\ (Current(d)' <=> Current(d))
        BY <1>1, <1>6, <1>9, <2>2 DEF Current
      <3> QED
        BY <3>1 DEF PoolInv, CallsInv
    <2> QED
      BY <2>1, <2>2
  <1>15. Progress'
    BY <1>1, <1>6 DEF PoolInv, Progress, ReadUpTo
  <1> QED
    BY <1>10, <1>11, <1>13, <1>14, <1>15 DEF PoolInv

LEMMA DeliverInv ==
    ASSUME PoolInv, NEW c \in Camera, Deliver(c)
    PROVE  PoolInv'
  <1>1. /\ c \in running /\ ~call[c].busy
        /\ future' = [future EXCEPT ![c] = call[c].outcome] /\ running' = running \ {c}
        /\ UNCHANGED <<jobs, threads, op, pc, at, results, ending, rounds, call, closed, signals>>
    BY DEF Deliver, caller
  <1>2. /\ N \in Nat \ {0} /\ at \in 1..N /\ Camera = 1..N /\ op \in AllOps
    BY Ranges DEF PoolInv
  <1>3. /\ call[c].op = op /\ call[c].outcome \in Returns(op) \cup Raises(op)
        /\ c \notin closed => Honest(call[c].outcome, call[c].truth)
    BY <1>1 DEF PoolInv, CallsInv, Current
  <1>4. /\ call[c].outcome # "unset" /\ call[c].outcome \in Outcomes
    BY <1>2, <1>3, OutcomesOf
  <1>5. /\ future[c] = "unset" /\ Pooling /\ Pooling' /\ ~(pc = "idle" /\ Finished)
    BY <1>1 DEF PoolInv, Queue, Pooling
  <1>6. /\ future' \in [Camera -> Outcomes \cup {"unset"}] /\ future'[c] = call[c].outcome
        /\ \A d \in Camera : d # c => future'[d] = future[d]
    BY <1>1, <1>4 DEF PoolInv, TypeOK
  <1>7. TypeOK'
    BY <1>1, <1>6 DEF PoolInv, TypeOK
  <1>8. Queue'
    <2>1. ASSUME NEW i \in 1..Len(jobs)
          PROVE  /\ jobs[i] \in Camera /\ jobs[i] \notin running' /\ future'[jobs[i]] = "unset"
                 /\ \A j \in 1..Len(jobs) : i # j => jobs[i] # jobs[j]
      <3>1. jobs[i] \in Camera /\ jobs[i] # c
        BY <1>1 DEF PoolInv, Queue
      <3> QED
        BY <1>1, <1>6, <3>1 DEF PoolInv, Queue
    <2>2. \A d \in running' : future'[d] = "unset"
      BY <1>1, <1>6 DEF PoolInv, Queue, TypeOK
    <2>3. ASSUME pc = "submit", NEW d \in at..N
          PROVE  future'[d] = "unset" /\ d \notin running' /\ ~Queued(d)'
      <3>1. d \in Camera /\ future[d] = "unset" /\ d \notin running /\ ~Queued(d)
        BY <1>2, <2>3 DEF PoolInv, Queue
      <3> QED
        BY <1>1, <1>6, <3>1 DEF Queued
    <2> QED
      BY <1>1, <1>5, <2>1, <2>2, <2>3 DEF Queue, Finished
  <1>9. \A d \in Camera : Accounted(d) => Accounted(d)'
    BY <1>1, <1>4, <1>6 DEF Accounted, Queued
  <1>10. Accounts'
    <2>1. pc = "submit" => 1..(at - 1) \subseteq Camera
      BY <1>2
    <2> QED
      BY <1>1, <1>5, <1>9, <2>1 DEF PoolInv, Accounts, Finished
  <1>11. CallsInv'
    <2>1. ASSUME NEW d \in Camera, d # c PROVE Current(d)' <=> Current(d)
      BY <1>1, <1>5, <1>6, <2>1 DEF Current
    <2> QED
      BY <1>1, <1>3, <1>6, <2>1 DEF PoolInv, CallsInv
  <1>12. \A d \in Camera : future[d] # "unset" => future'[d] = future[d]
    BY <1>5, <1>6
  <1>13. \A k \in 0..N : ReadUpTo(k) => ReadUpTo(k)'
    <2> SUFFICES ASSUME NEW k \in 0..N, ReadUpTo(k) PROVE ReadUpTo(k)'
      OBVIOUS
    <2>1. \A d \in 1..k : d \in Camera
      BY <1>2
    <2> QED
      BY <1>1, <1>12, <2>1 DEF ReadUpTo
  <1>14. Progress'
    <2>1. pc = "submit" => ReadUpTo(0)'
      BY <1>2, <1>13 DEF PoolInv, Progress
    <2>2. ASSUME pc = "await" PROVE ReadUpTo(at - 1)'
      <3>1. PICK k \in 0..N : k = at - 1
        BY <1>2
      <3>2. ReadUpTo(k)'
        BY <1>13, <2>2, <3>1 DEF PoolInv, Progress
      <3> QED
        BY <1>1, <3>1, <3>2
    <2>3. ending.kind = "list" => ReadUpTo(N)'
      BY <1>2, <1>5, <1>13 DEF PoolInv, Progress
    <2>4. ending.kind = "camera" =>
             /\ ending.cam \in Camera
             /\ future'[ending.cam] # "unset" /\ future'[ending.cam] \in Raises(op)
             /\ \A d \in 1..(ending.cam - 1) : future'[d] # "unset" /\ future'[d] \in Returns(op)
      <3> SUFFICES ASSUME ending.kind = "camera"
                   PROVE  /\ ending.cam \in Camera
                          /\ future'[ending.cam] # "unset" /\ future'[ending.cam] \in Raises(op)
                          /\ \A d \in 1..(ending.cam - 1) :
                                 future'[d] # "unset" /\ future'[d] \in Returns(op)
        OBVIOUS
      <3>1. ending.cam \in Camera
        BY <1>5 DEF PoolInv, Progress
      <3>2. \A d \in 1..(ending.cam - 1) : d \in Camera
        BY <1>2, <3>1
      <3> QED
        BY <1>5, <1>12, <3>1, <3>2 DEF PoolInv, Progress
    <2> QED
      BY <1>1, <1>5, <2>1, <2>2, <2>3, <2>4 DEF PoolInv, Progress
  <1> QED
    BY <1>7, <1>8, <1>10, <1>11, <1>14 DEF PoolInv

(* What a step of one camera's call may change of it, for the rest.        *)
LEMMA CallChanges ==
    ASSUME PoolInv, NEW c \in Camera, NEW next \in Calls,
           call' = [call EXCEPT ![c] = next],
           UNCHANGED <<pool, caller, closed, signals>>,
           next.op = call[c].op,
           next.busy = TRUE => call[c].busy = TRUE,
           call[c].busy = FALSE =>
              /\ next.outcome = call[c].outcome
              /\ Honest(call[c].outcome, call[c].truth) => Honest(next.outcome, next.truth),
           call[c].busy = TRUE /\ next.busy = FALSE /\ Current(c) =>
              /\ next.outcome \in Returns(op) \cup Raises(op)
              /\ c \notin closed => Honest(next.outcome, next.truth)
    PROVE  PoolInv'
  <1>1. /\ N \in Nat \ {0} /\ at \in 1..N /\ Camera = 1..N
        /\ call[c].busy \in BOOLEAN /\ next.busy \in BOOLEAN
    BY Ranges DEF PoolInv, Calls
  <1>2. UNCHANGED <<jobs, threads, running, future, op, pc, at, results, ending, rounds, closed, signals>>
    BY DEF pool, caller
  <1>3. /\ call' \in [Camera -> Calls] /\ call'[c] = next
        /\ \A d \in Camera : d # c => call'[d] = call[d]
    BY DEF PoolInv, TypeOK
  <1>4. TypeOK'
    BY <1>2, <1>3 DEF PoolInv, TypeOK
  <1>5. Queue' /\ Accounts'
    BY <1>2 DEF PoolInv, Queue, Accounts, Accounted, Queued, Pooling, Finished
  <1>6. \A d \in Camera : Current(d)' <=> Current(d)
    BY <1>2 DEF Current, Pooling, Finished
  <1>7. CallsInv'
    <2>1. ASSUME NEW d \in Camera, d # c
          PROVE  /\ Current(d)' => call'[d].op = op'
                 /\ Current(d)' /\ ~call'[d].busy =>
                       /\ call'[d].outcome \in Returns(op') \cup Raises(op')
                       /\ d \notin closed' => Honest(call'[d].outcome, call'[d].truth)
                 /\ future'[d] # "unset" => ~call'[d].busy /\ future'[d] = call'[d].outcome
                 /\ call'[d].busy /\ call'[d].op \in Switches => pc' = "switch" /\ d = at'
      BY <1>2, <1>3, <1>6, <2>1 DEF PoolInv, CallsInv
    <2>2. /\ Current(c) => next.op = op
          /\ call[c].busy = FALSE /\ Current(c) =>
                /\ next.outcome \in Returns(op) \cup Raises(op)
                /\ c \notin closed => Honest(next.outcome, next.truth)
          /\ future[c] # "unset" =>
                next.busy = FALSE /\ call[c].busy = FALSE /\ future[c] = next.outcome
          /\ next.busy = TRUE /\ next.op \in Switches => pc = "switch" /\ c = at
      BY <1>1 DEF PoolInv, CallsInv
    <2>3. /\ Current(c)' => call'[c].op = op'
          /\ Current(c)' /\ ~call'[c].busy =>
                /\ call'[c].outcome \in Returns(op') \cup Raises(op')
                /\ c \notin closed' => Honest(call'[c].outcome, call'[c].truth)
          /\ future'[c] # "unset" => ~call'[c].busy /\ future'[c] = call'[c].outcome
          /\ call'[c].busy /\ call'[c].op \in Switches => pc' = "switch" /\ c = at'
      BY <1>1, <1>2, <1>3, <1>6, <2>2
    <2> QED
      BY <2>1, <2>3 DEF CallsInv
  <1>8. \A d \in Camera : ~call[d].busy =>
           ~call'[d].busy /\ call'[d].outcome = call[d].outcome
    BY <1>1, <1>3
  <1>9. \A k \in 0..N : SwitchedUpTo(k) => SwitchedUpTo(k)'
    <2> SUFFICES ASSUME NEW k \in 0..N, SwitchedUpTo(k) PROVE SwitchedUpTo(k)'
      OBVIOUS
    <2>1. \A d \in 1..k : d \in Camera
      BY <1>1
    <2> QED
      BY <1>2, <1>8, <2>1 DEF SwitchedUpTo
  <1>10. Progress'
    <2>1. SwitchedUpTo(N) => SwitchedUpTo(N)'
      BY <1>1, <1>9
    <2>2. ASSUME SwitchedUpTo(at - 1) PROVE SwitchedUpTo(at - 1)'
      <3>1. PICK k \in 0..N : k = at - 1
        BY <1>1
      <3>2. SwitchedUpTo(k)'
        BY <1>9, <2>2, <3>1
      <3> QED
        BY <1>2, <3>1, <3>2
    <2>3. ~Pooling /\ ending.kind = "camera" =>
             ~call'[at].busy /\ call'[at].outcome \in Raises(op)
      BY <1>1, <1>8 DEF PoolInv, Progress
    <2> QED
      BY <1>2, <2>1, <2>2, <2>3 DEF PoolInv, Progress, ReadUpTo, Pooling
  <1> QED
    BY <1>4, <1>5, <1>7, <1>10 DEF PoolInv

LEMMA CallStepInv ==
    ASSUME PoolInv, NEW c \in Camera, CallStep(c)
    PROVE  PoolInv'
  <1>1. PICK next \in After(call[c]) \cup Undone(c) : call' = [call EXCEPT ![c] = next]
    BY DEF CallStep
  <1>2. UNCHANGED <<pool, caller, closed, signals>>
    BY DEF CallStep
  <1>3. call[c] \in Calls /\ op \in AllOps /\ (Current(c) => call[c].op = op)
    BY Ranges DEF PoolInv, CallsInv
  <1>4. CASE next \in After(call[c])
    <2>1. /\ next \in Calls /\ next.op = call[c].op
          /\ next.busy = TRUE => call[c].busy = TRUE
          /\ call[c].busy = FALSE =>
                /\ next.outcome = call[c].outcome
                /\ Honest(call[c].outcome, call[c].truth) => Honest(next.outcome, next.truth)
          /\ call[c].busy = TRUE /\ next.busy = FALSE =>
                /\ next.outcome \in Returns(call[c].op) \cup Raises(call[c].op)
                /\ Honest(next.outcome, next.truth)
      BY <1>3, <1>4, CallMoves
    <2> QED
      BY <1>1, <1>2, <1>3, <2>1, CallChanges
  <1>5. CASE next \in Undone(c)
    <2>1. /\ c \in closed /\ call[c].busy = TRUE
          /\ \E o \in Returns(op) \cup Raises(op) :
                next = CallRecord(call[c].op, FALSE, call[c].truth, o)
      BY <1>3, <1>5 DEF Undone, Calls
    <2>2. PICK o \in Returns(op) \cup Raises(op) :
             next = CallRecord(call[c].op, FALSE, call[c].truth, o)
      BY <2>1
    <2>3. o \in Outcomes
      BY <1>3, OutcomesOf
    <2>4. next \in Calls /\ next.op = call[c].op /\ next.busy = FALSE /\ next.outcome = o
      BY <1>3, <2>2, <2>3 DEF CallRecord, Calls
    <2> QED
      BY <1>1, <1>2, <2>1, <2>4, CallChanges
  <1> QED
    BY <1>4, <1>5

-----------------------------------------------------------------------------
(* The cameras switched one after the other.                               *)
LEMMA SwitchNextInv ==
    ASSUME PoolInv, SwitchNext
    PROVE  PoolInv'
  <1>1. /\ pc = "switch" /\ ~call[at].busy
        /\ UNCHANGED <<jobs, threads, running, future, op, results, rounds, closed, signals>>
        /\ \/ /\ call[at].outcome \in Raises(op) /\ pc' = "idle" /\ at' = at /\ call' = call
              /\ ending' = [kind |-> "camera", cam |-> at]
           \/ /\ call[at].outcome \notin Raises(op) /\ at = N
              /\ pc' = "idle" /\ at' = at /\ call' = call
              /\ ending' = [NoEnding EXCEPT !.kind = "list"]
           \/ /\ call[at].outcome \notin Raises(op) /\ at # N
              /\ at' = at + 1 /\ call' = [call EXCEPT ![at + 1] = Begun(op)]
              /\ pc' = pc /\ ending' = ending
    BY DEF SwitchNext, SwitchOver, Stops, Last, pool
  <1>2. /\ N \in Nat \ {0} /\ at \in 1..N /\ Camera = 1..N /\ op \in AllOps
        /\ call \in [Camera -> Calls]
    BY Ranges DEF PoolInv, TypeOK
  <1>3. ~Pooling /\ ~Pooling' /\ op \in Switches /\ ending.kind = "none" /\ SwitchedUpTo(at - 1)
    BY <1>1 DEF PoolInv, Progress, Pooling
  <1>4. call[at].outcome \in Returns(op) \cup Raises(op)
    BY <1>1, <1>2, <1>3 DEF PoolInv, CallsInv, Current
  <1>5. call[at].outcome \notin Raises(op) =>
           \A c \in 1..at : ~call[c].busy /\ call[c].outcome \in Returns(op)
    <2> SUFFICES ASSUME call[at].outcome \notin Raises(op), NEW c \in 1..at
                 PROVE  ~call[c].busy /\ call[c].outcome \in Returns(op)
      OBVIOUS
    <2>1. c = at \/ c \in 1..(at - 1)
      BY <1>2
    <2> QED
      BY <1>1, <1>3, <1>4, <2>1 DEF SwitchedUpTo
  <1>6. /\ Begun(op) \in Calls /\ Begun(op).op = op /\ Begun(op).busy = TRUE
    BY <1>2, BeginsBusy
  <1>7. TypeOK'
    <2>1. ending' \in [kind : {"none", "list", "camera", "interrupted"}, cam : 0..N]
      BY <1>1, <1>2 DEF PoolInv, TypeOK, NoEnding
    <2>2. call' \in [Camera -> Calls] /\ at' \in Camera
      BY <1>1, <1>2, <1>6
    <2>3. pc' \in {"idle", "submit", "await", "join", "switch"}
      BY <1>1
    <2> QED
      BY <1>1, <2>1, <2>2, <2>3 DEF PoolInv, TypeOK
  <1>8. Queue' /\ Accounts'
    BY <1>1, <1>3 DEF PoolInv, Queue, Accounts, Pooling
  <1>9. CASE pc' = "idle" /\ at' = at /\ call' = call /\ ending'.kind \in {"list", "camera"}
             /\ (ending'.kind = "camera" => ending'.cam = at /\ call[at].outcome \in Raises(op))
             /\ (ending'.kind = "list" => at = N /\ call[at].outcome \notin Raises(op))
    <2>1. \A c \in Camera : Current(c)' => Current(c)
      BY <1>1, <1>3, <1>9 DEF Current, Pooling, Finished
    <2>2. \A c \in Camera : call[c].busy => call[c].op \notin Switches
      BY <1>1 DEF PoolInv, CallsInv
    <2>3. CallsInv'
      BY <1>1, <1>9, <2>1, <2>2 DEF PoolInv, CallsInv
    <2>4. SwitchedUpTo(at - 1)' /\ (ending'.kind = "list" => SwitchedUpTo(N)')
      BY <1>1, <1>3, <1>5, <1>9 DEF SwitchedUpTo
    <2>5. Progress'
      BY <1>1, <1>3, <1>9, <2>4 DEF Progress
    <2> QED
      BY <1>7, <1>8, <2>3, <2>5 DEF PoolInv
  <1>10. CASE call[at].outcome \notin Raises(op) /\ at # N
              /\ at' = at + 1 /\ call' = [call EXCEPT ![at + 1] = Begun(op)]
              /\ pc' = pc /\ ending' = ending
    <2>1. at + 1 \in Camera
      BY <1>2, <1>10
    <2>2. /\ call'[at + 1] = Begun(op)
          /\ \A d \in Camera : d # at + 1 => call'[d] = call[d]
      BY <1>2, <1>6, <1>10, <2>1
    <2>3. \A d \in Camera : future[d] = "unset"
      BY <1>3 DEF PoolInv, Queue
    <2>4. ASSUME NEW d \in Camera, d # at + 1
          PROVE  Current(d)' => Current(d)
      BY <1>1, <1>2, <1>3, <1>10, <2>4 DEF Current, Pooling, Finished
    <2>5. \A d \in Camera : call[d].busy => call[d].op \notin Switches
      BY <1>1 DEF PoolInv, CallsInv
    <2>6. ASSUME NEW d \in Camera
          PROVE  /\ Current(d)' => call'[d].op = op'
                 /\ Current(d)' /\ ~call'[d].busy =>
                       /\ call'[d].outcome \in Returns(op') \cup Raises(op')
                       /\ d \notin closed' => Honest(call'[d].outcome, call'[d].truth)
                 /\ future'[d] # "unset" => ~call'[d].busy /\ future'[d] = call'[d].outcome
                 /\ call'[d].busy /\ call'[d].op \in Switches => pc' = "switch" /\ d = at'
      <3>1. CASE d = at + 1
        BY <1>1, <1>6, <1>10, <2>2, <2>3, <3>1
      <3>2. CASE d # at + 1
        BY <1>1, <2>2, <2>3, <2>4, <2>5, <3>2 DEF PoolInv, CallsInv
      <3> QED
        BY <3>1, <3>2
    <2>7. CallsInv'
      BY <2>6 DEF CallsInv
    <2>8. SwitchedUpTo(at - 1)'
      <3>1. PICK k \in 1..N : k = at
        BY <1>2
      <3>2. \A c \in 1..k : ~call'[c].busy /\ call'[c].outcome \in Returns(op)
        <4> SUFFICES ASSUME NEW c \in 1..k
                     PROVE  ~call'[c].busy /\ call'[c].outcome \in Returns(op)
          OBVIOUS
        <4>1. c \in 1..at /\ c \in Camera /\ c # at + 1
          BY <1>2, <3>1
        <4> QED
          BY <1>5, <1>10, <2>2, <4>1
      <3>3. at' - 1 = k
        BY <1>10, <3>1
      <3> QED
        BY <1>1, <3>2, <3>3 DEF SwitchedUpTo
    <2>9. Progress'
      BY <1>1, <1>3, <1>10, <2>8 DEF Progress
    <2> QED
      BY <1>7, <1>8, <2>7, <2>9 DEF PoolInv
  <1>11. /\ ([kind |-> "camera", cam |-> at]).kind = "camera"
         /\ ([kind |-> "camera", cam |-> at]).cam = at
         /\ [NoEnding EXCEPT !.kind = "list"].kind = "list"
    BY DEF NoEnding
  <1> QED
    BY <1>1, <1>9, <1>10, <1>11

-----------------------------------------------------------------------------
(* A signal, and the exception its handler may raise.                      *)
LEMMA SignalInv ==
    ASSUME PoolInv, Signal
    PROVE  PoolInv'
  <1>1. /\ UNCHANGED <<jobs, threads, running, future, op, pc, at, results, ending, rounds, call>>
        /\ closed' = Camera /\ signals < MaxSignals /\ signals' = signals + 1
    BY DEF Signal, pool, caller
  <1>2. TypeOK'
    BY <1>1, PoolAssumption DEF PoolAssumption, PoolInv, TypeOK
  <1>3. Queue' /\ Accounts' /\ Progress'
    BY <1>1 DEF PoolInv, Queue, Accounts, Accounted, Queued, Pooling, Finished, Progress,
                ReadUpTo, SwitchedUpTo
  <1>4. CallsInv'
    BY <1>1 DEF PoolInv, CallsInv, Current, Pooling, Finished
  <1> QED
    BY <1>2, <1>3, <1>4 DEF PoolInv

LEMMA KeyboardInterruptInv ==
    ASSUME PoolInv, KeyboardInterrupt
    PROVE  PoolInv'
  <1>1. /\ UNCHANGED <<jobs, threads, running, future, op, at, results, rounds>>
        /\ closed' = Camera /\ signals < MaxSignals /\ signals' = signals + 1
        /\ pc # "idle" /\ ending' = [NoEnding EXCEPT !.kind = "interrupted"]
        /\ pc' = IF pc \in {"submit", "await"} THEN "join" ELSE "idle"
        /\ call' = IF pc = "switch" THEN [call EXCEPT ![at] = Cut(call[at])] ELSE call
    BY DEF KeyboardInterrupt, pool
  <1>2. /\ N \in Nat \ {0} /\ at \in 1..N /\ Camera = 1..N /\ call \in [Camera -> Calls]
    BY Ranges DEF PoolInv, TypeOK
  <1>3. ending'.kind = "interrupted"
    BY <1>1 DEF NoEnding
  <1>4. Cut(call[at]) \in Calls /\ Cut(call[at]).busy = FALSE
    BY <1>2 DEF Cut, CallRecord, Calls
  <1>5. call' \in [Camera -> Calls]
    BY <1>1, <1>2, <1>4
  <1>6. TypeOK'
    <2>1. ending' \in [kind : {"none", "list", "camera", "interrupted"}, cam : 0..N]
      BY <1>1, <1>2 DEF NoEnding
    <2>2. pc' \in {"idle", "submit", "await", "join", "switch"}
      BY <1>1
    <2>3. signals' \in 0..MaxSignals
      BY <1>1, PoolAssumption DEF PoolAssumption, PoolInv, TypeOK
    <2> QED
      BY <1>1, <1>5, <2>1, <2>2, <2>3 DEF PoolInv, TypeOK
  <1>7. pc' \in {"join", "idle"} /\ (pc' = "join" => pc \in {"submit", "await"})
    BY <1>1
  <1>8. Queue' /\ Accounts'
    BY <1>1, <1>3, <1>7 DEF PoolInv, Queue, Accounts, Queued, Pooling, Finished
  <1>9. Progress'
    BY <1>1, <1>3, <1>7 DEF PoolInv, Progress, Pooling
  <1>10. CallsInv'
    <2> SUFFICES ASSUME NEW d \in Camera
                 PROVE  /\ Current(d)' => call'[d].op = op
                        /\ Current(d)' /\ ~call'[d].busy =>
                              call'[d].outcome \in Returns(op) \cup Raises(op)
                        /\ future[d] # "unset" => ~call'[d].busy /\ future[d] = call'[d].outcome
                        /\ ~(call'[d].busy /\ call'[d].op \in Switches)
      BY <1>1 DEF CallsInv
    <2>1. Current(d)' => pc # "switch" /\ (d \in running \/ future[d] # "unset")
      <3>1. pc = "switch" => ~Pooling
        BY DEF PoolInv, Progress
      <3>2. ~Pooling => running = {} /\ future[d] = "unset"
        BY DEF PoolInv, Queue
      <3> QED
        BY <1>1, <1>3, <1>7, <3>1, <3>2 DEF Current, Finished
    <2>2. future[d] # "unset" => Current(d)'
      BY <1>1 DEF Current
    <2>3. CASE pc # "switch"
      BY <1>1, <2>1, <2>3 DEF PoolInv, CallsInv, Current
    <2>4. CASE pc = "switch"
      <3>1. call'[d] = IF d = at THEN Cut(call[at]) ELSE call[d]
        BY <1>1, <1>2, <2>4
      <3>2. ~(call'[d].busy /\ call'[d].op \in Switches)
        BY <1>4, <3>1 DEF PoolInv, CallsInv
      <3> QED
        BY <2>1, <2>2, <2>4, <3>2
    <2> QED
      BY <2>3, <2>4
  <1> QED
    BY <1>6, <1>8, <1>9, <1>10 DEF PoolInv

-----------------------------------------------------------------------------
LEMMA PoolNext == PoolInv /\ [Next]_vars => PoolInv'
  <1> SUFFICES ASSUME PoolInv, [Next]_vars PROVE PoolInv'
    OBVIOUS
  <1>1. CASE UNCHANGED vars
    BY <1>1 DEF vars, pool, caller, PoolInv, TypeOK, Queue, Accounts, Accounted, Queued, Pooling,
                Finished, Progress, ReadUpTo, SwitchedUpTo, CallsInv, Current
  <1>2. ASSUME NEW o \in Ops, Pooled(o) \/ PrepareAll(o) PROVE PoolInv'
    BY <1>2, PooledInv, PrepareAllInv
  <1>3. ASSUME NEW c \in Camera, Deliver(c) \/ CallStep(c) PROVE PoolInv'
    BY <1>3, DeliverInv, CallStepInv
  <1> QED
    BY <1>1, <1>2, <1>3, SubmitInv, AwaitInv, JoinInv, TakeInv, SwitchNextInv, SignalInv,
       KeyboardInterruptInv DEF Next

LEMMA PoolInvariance == Spec => []PoolInv
  BY InitPool, PoolNext, PTL DEF Spec

(* Types: no more workers than cameras, and every call, future and result  *)
(* is one of a camera's call.                                              *)
THEOREM TypeCorrect == Spec => []TypeOK
  <1>1. PoolInv => TypeOK
    BY DEF PoolInv
  <1> QED
    BY <1>1, PoolInvariance, PTL

(* A list holds, in the order of the cameras, what each camera's own       *)
(* script came to in this call (shoot, execute_all, prepare_all).          *)
THEOREM ListHoldsTheCameras == Spec => []ListIsTheCameras
  <1>1. PoolInv => ListIsTheCameras
    <2> SUFFICES ASSUME PoolInv, pc = "idle", ending.kind = "list", NEW c \in Camera
                 PROVE  /\ call[c].op = op /\ call[c].outcome \in Returns(op)
                        /\ op \notin Switches => results[c] = call[c].outcome
                        /\ c \notin closed => Honest(call[c].outcome, call[c].truth)
      BY DEF ListIsTheCameras, Over
    <2>1. N \in Nat \ {0} /\ Camera = 1..N /\ call[c].busy \in BOOLEAN
      BY Ranges DEF PoolInv
    <2>2. CASE Pooling
      <3>1. future[c] # "unset" /\ results[c] = future[c] /\ future[c] \in Returns(op)
        BY <2>1, <2>2 DEF PoolInv, Progress, ReadUpTo
      <3> QED
        BY <3>1 DEF PoolInv, CallsInv, Current
    <2>3. CASE ~Pooling
      <3>1. at = N /\ ~call[c].busy /\ call[c].outcome \in Returns(op) /\ Current(c)
        BY <2>1, <2>3 DEF PoolInv, Progress, SwitchedUpTo, Current, Finished
      <3> QED
        BY <2>3, <3>1 DEF PoolInv, CallsInv, Pooling
    <2> QED
      BY <2>2, <2>3
  <1> QED
    BY <1>1, PoolInvariance, PTL

(* The failure raised is that of the first camera in order that failed,    *)
(* whatever the order in time (future.result in the order of cameras).     *)
THEOREM RaisesTheFirstFailure == Spec => []FirstFailureIsRaised
  <1>1. PoolInv => FirstFailureIsRaised
    <2> SUFFICES ASSUME PoolInv, pc = "idle", ending.kind = "camera"
                 PROVE  /\ call[ending.cam].op = op /\ call[ending.cam].outcome \in Raises(op)
                        /\ \A c \in 1..(ending.cam - 1) :
                              call[c].op = op /\ call[c].outcome \in Returns(op)
      BY DEF FirstFailureIsRaised, Over
    <2>1. N \in Nat \ {0} /\ Camera = 1..N /\ at \in 1..N
      BY Ranges DEF PoolInv
    <2>2. CASE Pooling
      <3>1. /\ ending.cam \in Camera
            /\ future[ending.cam] # "unset" /\ future[ending.cam] \in Raises(op)
            /\ \A c \in 1..(ending.cam - 1) : future[c] # "unset" /\ future[c] \in Returns(op)
        BY <2>2 DEF PoolInv, Progress
      <3>2. \A c \in 1..(ending.cam - 1) : c \in Camera
        BY <2>1, <3>1
      <3> QED
        BY <3>1, <3>2 DEF PoolInv, CallsInv, Current
    <2>3. CASE ~Pooling
      <3>1. ending.cam = at /\ SwitchedUpTo(at - 1) /\ call[at].outcome \in Raises(op)
        BY <2>3 DEF PoolInv, Progress
      <3>2. \A c \in 1..at : c \in Camera /\ Current(c)
        BY <2>1, <2>3 DEF Current, Finished
      <3>3. at \in 1..at /\ \A c \in 1..(at - 1) : c \in 1..at
        BY <2>1
      <3> QED
        BY <3>1, <3>2, <3>3 DEF PoolInv, CallsInv, SwitchedUpTo
    <2> QED
      BY <2>2, <2>3
  <1> QED
    BY <1>1, PoolInvariance, PTL

(* A call that ends by itself leaves no job queued, no worker running and  *)
(* no camera out (the executor's "with" block).                            *)
THEOREM NoWorkerLeft == Spec => []NobodyLeftRunning
  <1>1. PoolInv => NobodyLeftRunning
    <2> SUFFICES ASSUME PoolInv, pc = "idle", Finished
                 PROVE  /\ running = {} /\ jobs = <<>>
                        /\ op \notin Switches =>
                              \A c \in Camera : call[c].op = op /\ future[c] = call[c].outcome
      BY DEF NobodyLeftRunning, Over, Finished
    <2>1. running = {} /\ Len(jobs) = 0
      BY DEF PoolInv, Queue
    <2>2. jobs = <<>>
      BY <2>1, Ranges, EmptySeq DEF PoolInv
    <2>3. Pooling => \A c \in Camera : future[c] # "unset"
      BY <2>1 DEF PoolInv, Accounts, Accounted, Queued
    <2> QED
      BY <2>1, <2>2, <2>3 DEF PoolInv, CallsInv, Current, Pooling
  <1> QED
    BY <1>1, PoolInvariance, PTL

(* Never two cameras switching at once (prepare_all).                      *)
THEOREM SwitchesAreSequential == Spec => []OneSwitchAtATime
  <1>1. PoolInv => OneSwitchAtATime
    <2> SUFFICES ASSUME PoolInv PROVE OneSwitchAtATime
      OBVIOUS
    <2> DEFINE busy == {c \in Camera : call[c].busy /\ call[c].op \in Switches}
    <2>1. busy \subseteq {at}
      BY DEF PoolInv, CallsInv
    <2>2. IsFiniteSet({at}) /\ Cardinality({at}) = 1
      BY FS_Singleton
    <2>3. Cardinality(busy) <= 1
      BY <2>1, <2>2, FS_Subset
    <2> QED
      BY <2>3 DEF OneSwitchAtATime
  <1> QED
    BY <1>1, PoolInvariance, PTL
=============================================================================
