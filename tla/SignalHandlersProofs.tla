------------------------- MODULE SignalHandlersProofs ------------------------
(***************************************************************************)
(* What SignalHandlers guarantees for any set of signals and any number of *)
(* handlers the host sets: the types, and that the host's latest handler   *)
(* has had the signal when its way through the handlers is over.           *)
(*                                                                         *)
(* The argument: a slot is the host's latest handler, or ours with that    *)
(* one saved behind it (SlotInv), until the default action ends the        *)
(* process; so a signal starts with it or is handed over to it (WayInv).   *)
(* It does not matter whom the handlers of the host pass the signal to.    *)
(***************************************************************************)
EXTENDS SignalHandlers, TLAPS

(* Our handler sets the default only to end the process by it.             *)
SlotInv ==
    running # Default =>
        \A s \in Sig : host[s] = IF slot[s] = Ours THEN original[s] ELSE slot[s]

WayInv ==
    running # Nobody =>
        host[sig] \in reached \/ (running = Ours /\ original[sig] = host[sig])

HandlerInv == TypeOK /\ SlotInv /\ WayInv

LEMMA Names ==
    /\ Ours \in Handler /\ Default \in Handler /\ Nobody \in Handler
    /\ Host \subseteq Handler \ {Ours, Default, Nobody}
    /\ Ours # Default /\ Ours # Nobody /\ Default # Nobody
  BY HandlersAssumption DEF HandlersAssumption, Ours, Default, Nobody, Host, Handler

LEMMA HandlersInit == Init => HandlerInv
  <1> SUFFICES ASSUME Init PROVE HandlerInv
    OBVIOUS
  <1>1. TypeOK
    BY Names, HandlersAssumption DEF HandlersAssumption, Init, TypeOK
  <1>2. SlotInv
    BY Names DEF Init, SlotInv
  <1>3. WayInv
    BY DEF Init, WayInv
  <1> QED BY <1>1, <1>2, <1>3 DEF HandlerInv

LEMMA HandlersStep ==
    ASSUME HandlerInv, [Next]_vars
    PROVE  HandlerInv'
  <1>1. TypeOK /\ SlotInv /\ WayInv
    BY DEF HandlerInv
  <1>2. CASE Install
    <2>1. \A s \in Sig : Saved(s) \in Handler \ {Ours}
      BY <1>1, Names DEF TypeOK, Saved
    <2>2. slot' \in [Sig -> Handler] /\ original' \in [Sig -> Handler \ {Ours}]
      BY <1>1, <1>2, <2>1, Names DEF Install, TypeOK
    <2>3. TypeOK'
      BY <1>1, <1>2, <2>2 DEF Install, TypeOK
    <2>4. SlotInv'
      <3> SUFFICES ASSUME NEW s \in Sig
                   PROVE  host'[s] = IF slot'[s] = Ours THEN original'[s] ELSE slot'[s]
        BY DEF SlotInv
      <3>1. host[s] = IF slot[s] = Ours THEN original[s] ELSE slot[s]
        BY <1>1, <1>2, Names DEF SlotInv, Install
      <3>2. original'[s] = Saved(s)
        BY <1>2 DEF Install
      <3>3. slot'[s] \in {slot[s], Ours} /\ host' = host
        BY <1>2 DEF Install
      <3> QED BY <3>1, <3>2, <3>3 DEF Saved
    <2>5. WayInv'
      BY <1>2 DEF Install, WayInv
    <2> QED BY <2>3, <2>4, <2>5 DEF HandlerInv
  <1>3. ASSUME NEW s \in Sig, HostSets(s)
        PROVE  HandlerInv'
    <2>1. /\ running = Nobody
          /\ UNCHANGED <<original, sig, running, closed, reached>>
      BY <1>3 DEF HostSets
    <2>2. PICK h \in Host \cup {Default} :
             slot' = [slot EXCEPT ![s] = h] /\ host' = [host EXCEPT ![s] = h]
      <3>1. CASE made < MaxHandlers /\ slot' = [slot EXCEPT ![s] = made + 1]
                 /\ host' = [host EXCEPT ![s] = made + 1]
        <4>1. made + 1 \in Host
          BY <1>1, <3>1, HandlersAssumption DEF HandlersAssumption, TypeOK, Host
        <4> QED BY <3>1, <4>1
      <3>2. CASE slot' = [slot EXCEPT ![s] = Default] /\ host' = [host EXCEPT ![s] = Default]
        BY <3>2
      <3> QED BY <1>3, <3>1, <3>2 DEF HostSets
    <2>3. TypeOK'
      <3>1. slot' \in [Sig -> Handler] /\ host' \in [Sig -> Host \cup {Default}]
        BY <1>1, <2>2, Names DEF TypeOK
      <3>2. passes' \in [Host -> Handler] /\ made' \in 0..MaxHandlers
        BY <1>1, <1>3, HandlersAssumption DEF HandlersAssumption, HostSets, TypeOK
      <3> QED BY <1>1, <2>1, <3>1, <3>2 DEF TypeOK
    <2>4. SlotInv'
      <3> SUFFICES ASSUME NEW r \in Sig
                   PROVE  host'[r] = IF slot'[r] = Ours THEN original'[r] ELSE slot'[r]
        BY DEF SlotInv
      <3>1. host[r] = IF slot[r] = Ours THEN original[r] ELSE slot[r]
        BY <1>1, <2>1, Names DEF SlotInv
      <3>2. slot \in [Sig -> Handler] /\ host \in [Sig -> Host \cup {Default}]
        BY <1>1 DEF TypeOK
      <3>3. CASE r = s
        BY <2>2, <3>2, <3>3, Names
      <3>4. CASE r # s
        BY <2>1, <2>2, <3>1, <3>2, <3>4
      <3> QED BY <3>3, <3>4
    <2>5. WayInv'
      BY <2>1 DEF WayInv
    <2> QED BY <2>3, <2>4, <2>5 DEF HandlerInv
  <1>4. ASSUME NEW s \in Sig, Deliver(s)
        PROVE  HandlerInv'
    <2>1. TypeOK'
      BY <1>1, <1>4 DEF Deliver, TypeOK, table
    <2>2. host[s] = IF slot[s] = Ours THEN original[s] ELSE slot[s]
      BY <1>1, <1>4, Names DEF SlotInv, Deliver
    <2>3. SlotInv'
      BY <1>1, <1>4, Names DEF SlotInv, Deliver, table
    <2>4. WayInv'
      BY <1>4, <2>2 DEF WayInv, Deliver, table
    <2> QED BY <2>1, <2>3, <2>4 DEF HandlerInv
  <1>5. CASE OursRuns
    <2>1. slot' \in [Sig -> Handler] /\ original[sig] \in Handler
      BY <1>1, <1>5, Names DEF OursRuns, TypeOK
    <2>2. TypeOK'
      BY <1>1, <1>5, <2>1, Names DEF OursRuns, HandOver, TypeOK
    <2>3. SlotInv'
      BY <1>1, <1>5, Names DEF OursRuns, HandOver, SlotInv
    <2>4. WayInv'
      BY <1>1, <1>5, Names DEF OursRuns, HandOver, WayInv
    <2> QED BY <2>2, <2>3, <2>4 DEF HandlerInv
  <1>6. CASE HostRuns
    <2>1. passes[running] \in Handler
      BY <1>1, <1>6 DEF HostRuns, TypeOK
    <2>2. TypeOK'
      BY <1>1, <1>6, <2>1, Names DEF HostRuns, HandOver, TypeOK, table
    <2>3. SlotInv'
      BY <1>1, <1>6, Names DEF HostRuns, HandOver, SlotInv, table
    <2>4. WayInv'
      BY <1>1, <1>6, Names DEF HostRuns, HandOver, WayInv, table
    <2> QED BY <2>2, <2>3, <2>4 DEF HandlerInv
  <1>7. CASE UNCHANGED vars
    BY <1>1, <1>7 DEF vars, table, HandlerInv, TypeOK, SlotInv, WayInv
  <1> QED BY <1>2, <1>3, <1>4, <1>5, <1>6, <1>7 DEF Next

LEMMA HandlersAlways == Spec => []HandlerInv
  <1> QED BY HandlersInit, HandlersStep, PTL DEF Spec

-----------------------------------------------------------------------------
(* Slots, saved handlers and the way of a signal keep their ranges: what   *)
(* is saved as the original is never our own handler (device.py,           *)
(* install_signal_handlers).                                               *)
THEOREM TypeCorrect == Spec => []TypeOK
  <1>1. HandlerInv => TypeOK
    BY DEF HandlerInv
  <1> QED BY <1>1, HandlersAlways, PTL

(* Whoever the host set last for a signal gets it, however often           *)
(* install_signal_handlers was called between, before and after, and       *)
(* whomever the host's handlers pass their signals to.                     *)
THEOREM HostIsServed == Spec => HostGetsItsSignal
  <1>1. HandlerInv /\ [Next]_vars =>
          [running # Nobody /\ running' \in {Nobody, Default} => host[sig] \in reached']_vars
    <2> SUFFICES ASSUME HandlerInv, Next, running # Nobody, running' \in {Nobody, Default}
                 PROVE  host[sig] \in reached'
      OBVIOUS
    <2>1. WayInv
      BY DEF HandlerInv
    <2>2. OursRuns \/ HostRuns
      BY DEF Next, Install, HostSets, Deliver
    <2> QED BY <2>1, <2>2, Names DEF WayInv, OursRuns, HostRuns, HandOver
  <1> QED BY <1>1, HandlersAlways, PTL DEF Spec, HostGetsItsSignal
=============================================================================
