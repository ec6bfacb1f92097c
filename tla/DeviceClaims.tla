---------------------------- MODULE DeviceClaims ----------------------------
(***************************************************************************)
(* Who holds which USB interface: PTPDevice.open and close                 *)
(* (usb_transport.py), ChdkDevice._open, reconnect and close (device.py),  *)
(* MultiCam's constructor, its rollback and close (multicam.py), and the   *)
(* signal handler that closes every registered device.                     *)
(*                                                                         *)
(* Two threads of control.  The host builds a MultiCam, reconnects its     *)
(* cameras and closes it, a step a statement.  The handler runs            *)
(* _cleanup_all over a snapshot of the registry: on top of the host where  *)
(* that is the main thread, with an exception out of the host's current    *)
(* statement when the handler before ours raises one, or beside the host   *)
(* where that is a worker.  Both close devices with the same statements.   *)
(***************************************************************************)
EXTENDS Integers

CONSTANTS N,                 \* cameras found, opened in this order
          Reconnects,        \* a worker calls reconnect, as the main thread does
          MaxSignals         \* bound: signals in one behaviour

ASSUME ClaimsAssumption ==
    /\ N \in Nat \ {0} /\ MaxSignals \in Nat
    /\ Reconnects \in BOOLEAN

Device == 1..N
Thread == {"host", "handler"}

VARIABLES
    sameThread,    \* the host is the main thread, not a worker
    claimed,       \* interfaces the kernel holds for this process
    recorded,      \* PTPDevice._claimed_intf is set
    tOpen,         \* PTPDevice._is_open
    sOpen,         \* PTPSession._is_open
    connected,     \* ChdkDevice._connected
    registered,    \* _open_devices
    cameras,       \* MultiCam.cameras, empty when the caller has no MultiCam
    op,            \* what the host does to its cameras
    frame,         \* the function it is in
    on,            \* the device each thread is busy with
    step,          \* the statement each thread is at
    todo,          \* the handler's snapshot of the registry, what is left
    interrupted,   \* the handler raised, the host has not felt it yet
    raised,        \* history: it has raised
    signals        \* signals so far

device  == <<claimed, recorded, tOpen, sOpen, connected, registered>>
control == <<cameras, op, frame, todo, interrupted, raised, signals>>
vars    == <<sameThread, device, control, on, step>>

OpenSteps  == {"claim", "record", "endpoints", "session_open", "connect", "register", "return"}
CloseSteps == {"forget", "session_close", "release", "clear", "dispose", "done"}

TypeOK ==
    /\ sameThread \in BOOLEAN
    /\ \A set \in {claimed, recorded, tOpen, sOpen, connected, registered, cameras, todo} :
          set \subseteq Device
    /\ op \in {"none", "construct", "undo", "reconnect", "close"}
    /\ frame \in {"none", "open", "_open", "close", "reconnect"}
    /\ on \in [Thread -> Device]
    /\ step \in [Thread -> OpenSteps \cup CloseSteps \cup {"none", "next", "reset"}]
    /\ interrupted \in BOOLEAN /\ raised \in BOOLEAN /\ signals \in 0..MaxSignals

Init ==
    /\ sameThread \in BOOLEAN
    /\ claimed = {} /\ recorded = {} /\ tOpen = {} /\ sOpen = {}
    /\ connected = {} /\ registered = {} /\ cameras = {} /\ todo = {}
    /\ op = "none" /\ frame = "none"
    /\ on = [t \in Thread |-> 1] /\ step = [t \in Thread |-> "none"]
    /\ interrupted = FALSE /\ raised = FALSE /\ signals = 0

dev == on["host"]
Idle == op = "none"

(* The handler runs between two statements of the main thread.             *)
At(t, s) ==
    /\ step[t] = s
    /\ (t = "host" /\ sameThread) => step["handler"] = "none" /\ ~interrupted

Goto(t, s) == step' = [step EXCEPT ![t] = s]

-----------------------------------------------------------------------------
(* PTPDevice.open *)

(* A claim left by an object that is gone keeps the interface busy; the    *)
(* same usb device may claim again.  An open device would be left as it is *)
(* (the first lines of open), which no caller here comes to: the host      *)
(* would be stuck at this step, and a run that looks for deadlocks see it. *)
Claim ==
    /\ At("host", "claim") /\ dev \notin tOpen
    /\ dev \in claimed => op = "reconnect"
    /\ claimed' = claimed \cup {dev}
    /\ Goto("host", "record")
    /\ UNCHANGED <<recorded, tOpen, sOpen, connected, registered, control, on>>

ClaimFails ==
    /\ At("host", "claim") /\ dev \notin tOpen
    /\ frame' = "_open" /\ Goto("host", "forget")
    /\ UNCHANGED <<device, cameras, op, todo, interrupted, raised, signals, on>>

Record ==
    /\ At("host", "record")
    /\ recorded' = recorded \cup {dev}
    /\ Goto("host", "endpoints")
    /\ UNCHANGED <<claimed, tOpen, sOpen, connected, registered, control, on>>

Endpoints ==
    /\ At("host", "endpoints")
    /\ tOpen' = tOpen \cup {dev}
    /\ frame' = "_open" /\ Goto("host", "session_open")
    /\ UNCHANGED <<claimed, recorded, sOpen, connected, registered>>
    /\ UNCHANGED <<cameras, op, todo, interrupted, raised, signals, on>>

EndpointsFail ==
    /\ At("host", "endpoints")
    /\ Goto("host", "release")
    /\ UNCHANGED <<device, control, on>>

-----------------------------------------------------------------------------
(* ChdkDevice._open *)

SessionOpen ==
    /\ At("host", "session_open")
    /\ \/ sOpen' = sOpen \cup {dev} /\ Goto("host", "connect")
       \/ sOpen' = sOpen /\ Goto("host", "forget")
    /\ UNCHANGED <<claimed, recorded, tOpen, connected, registered, control, on>>

Connect ==
    /\ At("host", "connect")
    /\ connected' = connected \cup {dev}
    /\ Goto("host", "register")
    /\ UNCHANGED <<claimed, recorded, tOpen, sOpen, registered, control, on>>

-----------------------------------------------------------------------------
(* Closing a device: ChdkDevice.close, the first half of reconnect and the *)
(* rollback of _open forget the device and then let go of it;              *)
(* PTPDevice.close does the letting go, for the rollback of open as well.  *)

SlipStillConnected(d) == IF step["host"] = "forget" /\ frame = "_open" THEN {} ELSE {d}
Disconnected(d) == {d}

Forget(t) ==
    LET d == on[t]
    IN  /\ At(t, "forget")
        /\ connected' = connected \ Disconnected(d)
        /\ registered' = registered \ {d}
        /\ Goto(t, IF t = "host" /\ frame = "_open" THEN "release" ELSE "session_close")
        /\ UNCHANGED <<claimed, recorded, tOpen, sOpen, control, on>>

SessionClose(t) ==            \* a USB error leaves the flag set
    /\ At(t, "session_close")
    /\ sOpen' \in {sOpen, sOpen \ {on[t]}}
    /\ Goto(t, "release")
    /\ UNCHANGED <<claimed, recorded, tOpen, connected, registered, control, on>>

SlipKeyedOnOpen(d) == d \in tOpen
HoldsSomething(d) == d \in recorded \/ d \in tOpen

Release(t) ==
    LET d == on[t]
    IN  /\ At(t, "release")
        /\ \/ /\ HoldsSomething(d)
              /\ claimed' = IF d \in recorded THEN claimed \ {d} ELSE claimed
              /\ Goto(t, "clear")
           \/ /\ ~HoldsSomething(d)
              /\ claimed' = claimed
              /\ Goto(t, "done")
        /\ UNCHANGED <<recorded, tOpen, sOpen, connected, registered, control, on>>

Clear(t) ==
    /\ At(t, "clear")
    /\ recorded' = recorded \ {on[t]}
    /\ Goto(t, "dispose")
    /\ UNCHANGED <<claimed, tOpen, sOpen, connected, registered, control, on>>

Dispose(t) ==
    /\ At(t, "dispose")
    /\ claimed' = claimed \ {on[t]}
    /\ tOpen' = tOpen \ {on[t]}
    /\ Goto(t, "done")
    /\ UNCHANGED <<recorded, sOpen, connected, registered, control, on>>

CloseStep(t) == Forget(t) \/ SessionClose(t) \/ Release(t) \/ Clear(t) \/ Dispose(t)

-----------------------------------------------------------------------------
(* What follows when a function of the host returns or raises.             *)

SlipOneCameraMore(d) == d < N + 1
Following(d) == d < N

SlipKeepOpened == {}
ToUndo == cameras

OpenFrame(d) ==
    /\ frame' = "open" /\ on' = [on EXCEPT !["host"] = d]
    /\ Goto("host", "claim")

CloseFrame(d) ==
    /\ frame' = "close" /\ on' = [on EXCEPT !["host"] = d]
    /\ Goto("host", "forget")

(* The operation ends; without a MultiCam its cameras are collected, and   *)
(* the registry, which holds them weakly, loses them.                      *)
Finish(kept) ==
    /\ op' = "none" /\ frame' = "none" /\ Goto("host", "none")
    /\ cameras' = kept /\ on' = on

(* MultiCam.close over the cameras of "set" from d on; the rollback of the *)
(* constructor then raises, with no MultiCam for the caller.               *)
CloseFrom(set, d, o, registry) ==
    LET left == {c \in set : c >= d}
    IN  \/ /\ left # {}
           /\ op' = o /\ CloseFrame(CHOOSE c \in left : \A e \in left : c <= e)
           /\ cameras' = cameras /\ registered' = registry
        \/ /\ left = {} /\ o = "undo"
           /\ Finish({}) /\ registered' = registry \ cameras
        \/ /\ left = {} /\ o # "undo"
           /\ Finish(cameras) /\ registered' = registry

(* An exception leaves ChdkDevice.  The object under construction is gone; *)
(* a rollback, a close or a reconnect that is interrupted stops.           *)
Raises ==
    \/ op = "construct" /\ CloseFrom(ToUndo, 1, "undo", registered \ {dev})
    \/ op = "undo" /\ Finish({}) /\ registered' = registered \ cameras
    \/ op \in {"reconnect", "close"} /\ Finish(cameras) /\ registered' = registered

Register ==
    /\ At("host", "register")
    /\ registered' = registered \cup {dev}
    /\ Goto("host", "return")
    /\ UNCHANGED <<claimed, recorded, tOpen, sOpen, connected, control, on>>

Return ==
    /\ At("host", "return")
    /\ \/ /\ op = "construct" /\ Following(dev)
          /\ cameras' = cameras \cup {dev} /\ op' = op /\ OpenFrame(dev + 1)
       \/ op = "construct" /\ ~Following(dev) /\ Finish(cameras \cup {dev})
       \/ op = "reconnect" /\ Finish(cameras)
    /\ UNCHANGED <<device, todo, interrupted, raised, signals>>

Closed ==
    /\ At("host", "done")
    /\ \/ /\ frame = "open"
          /\ frame' = "_open" /\ Goto("host", "forget")
          /\ UNCHANGED <<registered, cameras, op, on>>
       \/ frame = "_open" /\ Raises
       \/ frame = "close" /\ CloseFrom(cameras, dev + 1, op, registered)
       \/ /\ frame = "reconnect"
          /\ Goto("host", "reset")
          /\ UNCHANGED <<registered, cameras, op, frame, on>>
    /\ UNCHANGED <<claimed, recorded, tOpen, sOpen, connected, todo, interrupted, raised, signals>>

Reset ==                       \* pyusb lets go of everything before it resets
    /\ At("host", "reset")
    /\ claimed' \in {claimed, claimed \ {dev}}
    /\ op' = op /\ OpenFrame(dev)
    /\ UNCHANGED <<recorded, tOpen, sOpen, connected, registered, cameras, todo, interrupted, raised, signals>>

-----------------------------------------------------------------------------
(* What the caller does. *)

Construct ==                   \* with new objects for every camera
    /\ Idle /\ At("host", "none") /\ cameras = {} /\ step["handler"] = "none"
    /\ op' = "construct" /\ OpenFrame(1)
    /\ recorded' = {} /\ tOpen' = {} /\ sOpen' = {} /\ connected' = {}
    /\ UNCHANGED <<claimed, registered, cameras, todo, interrupted, raised, signals>>

Reconnect ==
    /\ sameThread \/ Reconnects
    /\ Idle /\ At("host", "none")
    /\ \E d \in cameras :
          /\ op' = "reconnect" /\ frame' = "reconnect"
          /\ on' = [on EXCEPT !["host"] = d] /\ Goto("host", "forget")
    /\ UNCHANGED <<device, cameras, todo, interrupted, raised, signals>>

Close ==
    /\ Idle /\ At("host", "none") /\ cameras # {}
    /\ CloseFrom(cameras, 1, "close", registered)
    /\ UNCHANGED <<claimed, recorded, tOpen, sOpen, connected, todo, interrupted, raised, signals>>

Drop ==                        \* the end of a with block
    /\ Idle /\ At("host", "none") /\ cameras # {} /\ registered \cap cameras = {}
    /\ step["handler"] = "none"
    /\ cameras' = {}
    /\ UNCHANGED <<device, op, frame, todo, interrupted, raised, signals, on, step>>

-----------------------------------------------------------------------------
(* _signal_handler *)

Signal ==
    /\ step["handler"] = "none" /\ ~interrupted /\ signals < MaxSignals
    /\ signals' = signals + 1
    /\ todo' = registered
    /\ Goto("handler", "next")
    /\ UNCHANGED <<device, cameras, op, frame, interrupted, raised, on>>

CleanupNext ==
    /\ step["handler"] \in {"next", "done"}
    /\ \E d \in todo :
          /\ todo' = todo \ {d}
          /\ on' = [on EXCEPT !["handler"] = d]
    /\ Goto("handler", "forget")
    /\ UNCHANGED <<device, cameras, op, frame, interrupted, raised, signals>>

(* The handler before ours returns, ...                                    *)
HandlerReturns ==
    /\ step["handler"] \in {"next", "done"} /\ todo = {}
    /\ Goto("handler", "none")
    /\ UNCHANGED <<device, control, on>>

(* ... or raises KeyboardInterrupt in the main thread.                     *)
HandlerRaises ==
    /\ sameThread /\ ~Idle
    /\ step["handler"] \in {"next", "done"} /\ todo = {}
    /\ interrupted' = TRUE /\ raised' = TRUE
    /\ Goto("handler", "none")
    /\ UNCHANGED <<device, cameras, op, frame, todo, signals, on>>

(* It comes out of the statement the host is at: "except BaseException"    *)
(* catches it, "except Exception" does not.                                *)
Interrupt ==
    /\ interrupted /\ interrupted' = FALSE
    /\ \/ /\ frame = "open" /\ step["host"] = "endpoints"
          /\ Goto("host", "release")
          /\ UNCHANGED <<registered, cameras, op, frame, on>>
       \/ /\ \/ frame = "open" /\ step["host"] # "endpoints"
             \/ frame = "_open" /\ step["host"] \in OpenSteps
          /\ frame' = "_open" /\ Goto("host", "forget")
          /\ UNCHANGED <<registered, cameras, op, on>>
       \/ /\ \/ frame = "_open" /\ step["host"] \in CloseSteps
             \/ frame \in {"close", "reconnect"}
          /\ Raises
    /\ UNCHANGED <<claimed, recorded, tOpen, sOpen, connected, todo, raised, signals>>

Next ==
    /\ \/ Claim \/ ClaimFails \/ Record \/ Endpoints \/ EndpointsFail
       \/ SessionOpen \/ Connect \/ Register \/ Return
       \/ \E t \in Thread : CloseStep(t)
       \/ Closed \/ Reset
       \/ Construct \/ Reconnect \/ Close \/ Drop
       \/ Signal \/ CleanupNext \/ HandlerReturns \/ HandlerRaises \/ Interrupt
    /\ UNCHANGED sameThread

Spec == Init /\ [][Next]_vars

-----------------------------------------------------------------------------
(* A device that says it is connected, or that the handler would close,    *)
(* has its interface claimed, its claim recorded, and transport and        *)
(* session open, whatever failed and wherever an interrupt struck.         *)
ConnectedIsUsable ==
    connected \cup registered \subseteq claimed \cap recorded \cap tOpen \cap sOpen

(* No exception has come out of the handler into the host's statements.    *)
Undisturbed == ~raised

(* When nothing is under way, every claimed interface belongs to a camera  *)
(* the caller has and the registry knows: a constructor that raised, a     *)
(* reconnect that failed and a close leave none behind, a handler working  *)
(* beside them or not (device.py, ChdkDevice._open; multicam.py,           *)
(* MultiCam.__init__).                                                     *)
NothingOrphaned ==
    Undisturbed /\ Idle /\ step["handler"] = "none"
        => claimed \subseteq registered \cap cameras

ClaimsOrNothing ==
    frame = "open" /\ frame' # "open"
        => (dev \in claimed' <=> step'["host"] = "session_open")

(* PTPDevice.open returns with the interface claimed or raises having      *)
(* claimed nothing, whichever of its steps fails, in a fresh open as in    *)
(* the one a reconnect does over an interface that may still be claimed.   *)
FailedOpenLeavesNothing == [][Undisturbed => ClaimsOrNothing]_vars

(* The same without a condition, as PTPDevice.open's docstring has it:     *)
(* "Either this returns with the interface claimed, or it raises having    *)
(* claimed nothing" (usb_transport.py 126-127).                            *)
OpenClaimsOrNothing == [][ClaimsOrNothing]_vars
=============================================================================
