--------------------------- MODULE SignalHandlers ---------------------------
(***************************************************************************)
(* install_signal_handlers and _signal_handler (device.py), with a host    *)
(* that sets handlers of its own before, between and after the calls; each *)
(* of the host's handlers ends with the signal or passes it on to the one  *)
(* it found in place, as handlers do.                                      *)
(*                                                                         *)
(* Calls from another thread than the main one change nothing and are left *)
(* out.  MaxHandlers bounds the handlers the host sets.                    *)
(***************************************************************************)
EXTENDS Integers

CONSTANTS Sig, MaxHandlers

ASSUME HandlersAssumption == MaxHandlers \in Nat

Ours    == 0                          \* _signal_handler
Default == -1                         \* SIG_DFL: the process ends
Nobody  == -2                         \* SIG_IGN, or None
Host    == 1..MaxHandlers
Handler == Host \cup {Ours, Default, Nobody}

VARIABLES
    slot,          \* signal.getsignal
    original,      \* _original_sigint, _original_sigterm
    host,          \* history: what the host set last
    passes,        \* whom each of the host's handlers passes a signal to
    made,          \* how many handlers the host has set
    sig, running,  \* the signal being delivered, and the handler that has it
    closed,        \* how often _cleanup_all ran for it
    reached        \* history: the handlers that had it

table == <<slot, original, host, passes, made>>
vars  == <<table, sig, running, closed, reached>>

TypeOK ==
    /\ slot \in [Sig -> Handler]
    /\ original \in [Sig -> Handler \ {Ours}]
    /\ host \in [Sig -> Host \cup {Default}]
    /\ passes \in [Host -> Handler]
    /\ made \in 0..MaxHandlers
    /\ sig \in Sig /\ running \in Handler
    /\ closed \in 0..2
    /\ reached \subseteq Handler

Init ==
    /\ slot = [s \in Sig |-> Default]
    /\ original = [s \in Sig |-> Nobody]
    /\ host = [s \in Sig |-> Default]
    /\ passes = [h \in Host |-> Nobody]
    /\ made = 0
    /\ sig \in Sig /\ running = Nobody /\ closed = 0 /\ reached = {}

-----------------------------------------------------------------------------
SlipSaveOurs(s) == slot[s]
SlipSaveOnce(s) == IF original[s] = Nobody THEN slot[s] ELSE original[s]
Saved(s) == IF slot[s] # Ours THEN slot[s] ELSE original[s]

(* The originals are saved before signal.signal may refuse.                *)
Install ==
    /\ running = Nobody
    /\ \E s \in Sig : slot[s] # Ours
    /\ original' = [s \in Sig |-> Saved(s)]
    /\ slot' \in {slot, [s \in Sig |-> Ours]}
    /\ UNCHANGED <<host, passes, made, sig, running, closed, reached>>

HostSets(s) ==
    /\ running = Nobody
    /\ \/ /\ made < MaxHandlers
          /\ made' = made + 1
          /\ passes' \in {passes, [passes EXCEPT ![made + 1] = slot[s]]}
          /\ slot' = [slot EXCEPT ![s] = made + 1]
          /\ host' = [host EXCEPT ![s] = made + 1]
       \/ /\ slot' = [slot EXCEPT ![s] = Default]
          /\ host' = [host EXCEPT ![s] = Default]
          /\ UNCHANGED <<passes, made>>
    /\ UNCHANGED <<original, sig, running, closed, reached>>

Deliver(s) ==
    /\ running = Nobody
    /\ sig' = s /\ running' = slot[s] /\ closed' = 0 /\ reached' = {slot[s]}
    /\ UNCHANGED table

HandOver(h) == running' = h /\ reached' = reached \cup {h}

(* Ours closes every camera and hands over to the original: calls it, or   *)
(* sets the default and raises the signal again.                           *)
OursRuns ==
    /\ running = Ours /\ closed < 2
    /\ closed' = closed + 1
    /\ HandOver(original[sig])
    /\ slot' = IF original[sig] = Default THEN [slot EXCEPT ![sig] = Default] ELSE slot
    /\ UNCHANGED <<original, host, passes, made, sig>>

HostRuns ==
    /\ running \in Host
    /\ HandOver(passes[running])
    /\ UNCHANGED <<table, sig, closed>>

Next ==
    \/ Install \/ OursRuns \/ HostRuns
    \/ \E s \in Sig : HostSets(s) \/ Deliver(s)

Spec == Init /\ [][Next]_vars

-----------------------------------------------------------------------------
(* Whoever the host set last for a signal gets it, with our handler in     *)
(* front of it or not, however often ours was installed.                   *)
HostGetsItsSignal ==
    [][running # Nobody /\ running' \in {Nobody, Default} => host[sig] \in reached']_vars

(* "Installing twice is harmless" (install_signal_handlers): one signal    *)
(* never comes back to our handler.                                        *)
InstallingTwiceIsHarmless == closed < 2
=============================================================================
