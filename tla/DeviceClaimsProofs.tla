-------------------------- MODULE DeviceClaimsProofs -------------------------
(***************************************************************************)
(* What DeviceClaims guarantees for any number of cameras and signals: its *)
(* types, that a connected device is usable, that nothing is claimed for   *)
(* nobody, and that an open that fails leaves nothing claimed.             *)
(*                                                                         *)
(* The types hold as they stand; for the rest a worker does not reconnect  *)
(* its cameras (Reconnects), as device.py 607-633 asks of the host.        *)
(*                                                                         *)
(* The argument: the host and the handler never have the same device in    *)
(* hand while the host opens it (Apart), so the host finds at each step of *)
(* an open what the steps before have left (Progress), and a device that   *)
(* either of them is letting go has been forgotten before (LetGo).  Until  *)
(* an exception out of the handler strikes the host, a claim is recorded   *)
(* before anything can let go of it, and belongs to a registered device or *)
(* is in the hands of one of the two (Claims).                             *)
(***************************************************************************)
EXTENDS DeviceClaims, FiniteSetTheorems, WellFoundedInduction, TLAPS

(* Which function of the host is at which statement, and for whom.         *)
Where ==
    /\ op # "none" <=> step["host"] # "none"
    /\ frame # "none" <=> step["host"] # "none"
    /\ step["host"] # "next"
    /\ step["host"] \in {"claim", "record", "endpoints"} => frame = "open"
    /\ step["host"] \in {"session_open", "connect", "register", "return"} => frame = "_open"
    /\ step["host"] = "forget" => frame # "open"
    /\ step["host"] = "session_close" => frame \in {"close", "reconnect"}
    /\ step["host"] = "reset" => frame = "reconnect"
    /\ frame \in {"open", "_open"} => op \in {"construct", "reconnect"}
    /\ frame = "close" => op \in {"undo", "close"}
    /\ frame = "reconnect" => op = "reconnect"
    /\ step["handler"] \in CloseSteps \cup {"none", "next"}

Handling == step["handler"] # "none"

Signals ==
    /\ ~Handling => todo = {}
    /\ interrupted => sameThread /\ raised /\ op # "none" /\ ~Handling

(* The registry knows the cameras of the caller and no others, except that *)
(* of the one being constructed it may know.                               *)
Owned ==
    /\ registered \subseteq cameras \cup (IF op = "construct" THEN {dev} ELSE {})
    /\ op = "construct" => cameras = 1..(dev - 1) /\ connected \subseteq 1..dev
    /\ op = "reconnect" => sameThread /\ dev \in cameras

InHand  == todo \cup (IF step["handler"] \in CloseSteps THEN {on["handler"]} ELSE {})
Opening == {"claim", "record", "endpoints", "session_open", "connect", "register"}

Apart ==
    /\ ~sameThread /\ op = "construct" =>
          InHand \subseteq cameras \cup (IF step["host"] = "return" THEN {dev} ELSE {})
    /\ step["host"] \in Opening /\ Handling => dev \notin InHand

LetGo ==
    /\ step["host"] \in (Opening \ {"register"}) \cup (CloseSteps \ {"forget"}) \cup {"reset"} =>
          dev \notin connected \cup registered
    /\ step["host"] = "register" => dev \notin registered
    /\ step["host"] = "forget" /\ ~sameThread /\ op = "construct" => dev \notin registered
    /\ step["handler"] \in {"session_close", "release", "clear", "dispose"} =>
          on["handler"] \notin connected \cup registered

Progress ==
    /\ step["host"] \in Opening \ {"claim"} => dev \in claimed
    /\ step["host"] \in Opening \ {"claim", "record"} => dev \in recorded
    /\ step["host"] \in {"session_open", "connect", "register"} => dev \in tOpen
    /\ step["host"] \in {"connect", "register"} => dev \in sOpen

(* Who will see to the claim of d.                                         *)
Covered(d) ==
    \/ d \in registered
    \/ /\ d = dev
       /\ step["host"] \in (Opening \ {"claim"}) \cup {"forget", "session_close", "release"}
    \/ d = on["handler"] /\ step["handler"] \in {"session_close", "release"}

Claims ==
    Undisturbed =>
        /\ claimed \subseteq recorded \cup (IF step["host"] = "record" THEN {dev} ELSE {})
        /\ step["handler"] = "clear" => on["handler"] \notin claimed
        /\ step["host"] \in {"claim", "clear", "dispose", "done", "reset"} => dev \notin claimed
        /\ \A d \in claimed : Covered(d)
        /\ op \in {"undo", "close"} => \A c \in cameras : c < dev => c \notin claimed

ClaimsInv ==
    TypeOK /\ Where /\ Signals /\ Owned /\ Apart /\ LetGo /\ Progress
        /\ ConnectedIsUsable /\ Claims

-----------------------------------------------------------------------------
(* Every set of numbers from 1 on has a least one.                         *)
LEMMA LeastElement ==
    ASSUME NEW S, S \subseteq Nat \ {0}, S # {}
    PROVE  \E i \in S : \A j \in S : i <= j
<1> DEFINE Family == {1..k : k \in S}
           Smaller == StrictSubsetOrdering(Nat)
<1>1. Family \subseteq FiniteSubsetsOf(Nat)
    <2> SUFFICES ASSUME NEW k \in S
                 PROVE  1..k \in SUBSET Nat /\ IsFiniteSet(1..k)
        BY DEF FiniteSubsetsOf
    <2>1. k \in Int /\ 1 \in Int
        OBVIOUS
    <2>2. IsFiniteSet(1..k)
        BY <2>1, FS_Interval
    <2> QED BY <2>1, <2>2
<1>2. Family # {}
    OBVIOUS
<1>3. IsWellFoundedOn(Smaller, FiniteSubsetsOf(Nat))
    BY FS_StrictSubsetOrderingWellFounded
<1>4. \A i, j \in S : j < i => <<1..j, 1..i>> \in Smaller
    <2> SUFFICES ASSUME NEW i \in S, NEW j \in S, j < i
                 PROVE  /\ 1..j \in SUBSET Nat /\ 1..i \in SUBSET Nat
                        /\ 1..j \subseteq 1..i /\ 1..j # 1..i
        BY DEF StrictSubsetOrdering
    <2>1. i \in 1..i /\ i \notin 1..j
        OBVIOUS
    <2> QED BY <2>1
<1>5. PICK low \in Family : \A T \in Family : ~(<<T, low>> \in Smaller)
    <2> HIDE DEF Family, Smaller
    <2> QED BY <1>1, <1>2, <1>3, WFMin
<1>6. PICK i \in S : low = 1..i
    BY <1>5
<1>7. ASSUME NEW j \in S PROVE i <= j
    <2> HIDE DEF Smaller
    <2>1. ~(<<1..j, 1..i>> \in Smaller)
        BY <1>5, <1>6
    <2>2. ~(j < i)
        BY <2>1, <1>4
    <2> QED BY <2>2
<1> QED BY <1>7

LEMMA Threads ==
    /\ "host" \in Thread /\ "handler" \in Thread /\ "host" # "handler"
    /\ \A t \in Thread : t = "host" \/ t = "handler"
  BY DEF Thread

LEMMA Types ==
    ASSUME TypeOK
    PROVE  /\ claimed \subseteq Device /\ recorded \subseteq Device /\ tOpen \subseteq Device
           /\ sOpen \subseteq Device /\ connected \subseteq Device /\ registered \subseteq Device
           /\ cameras \subseteq Device /\ todo \subseteq Device
           /\ dev \in Device /\ on["handler"] \in Device
           /\ Device \subseteq Nat \ {0}
  BY Threads, ClaimsAssumption DEF ClaimsAssumption, TypeOK, Device, dev

(* A thread goes on to its next statement, the other stays where it is.    *)
LEMMA Goes ==
    ASSUME TypeOK, NEW s
    PROVE  /\ Goto("host", s) => step'["host"] = s /\ step'["handler"] = step["handler"]
           /\ Goto("handler", s) => step'["handler"] = s /\ step'["host"] = step["host"]
  BY Threads DEF TypeOK, Goto

(* The host turns to a device, the handler keeps its own.                  *)
LEMMA Turns ==
    ASSUME TypeOK, NEW d
    PROVE  /\ OpenFrame(d) => /\ frame' = "open" /\ dev' = d
                              /\ on'["handler"] = on["handler"]
                              /\ step'["host"] = "claim" /\ step'["handler"] = step["handler"]
           /\ CloseFrame(d) => /\ frame' = "close" /\ dev' = d
                               /\ on'["handler"] = on["handler"]
                               /\ step'["host"] = "forget" /\ step'["handler"] = step["handler"]
  BY Threads, Goes DEF TypeOK, OpenFrame, CloseFrame, dev

(* Closing goes on with the first camera that is left, or is over.         *)
LEMMA ClosesOn ==
    ASSUME TypeOK, NEW set \in SUBSET Device, NEW d \in Nat, NEW o, NEW registry,
           CloseFrom(set, d, o, registry)
    PROVE  \/ \E c \in set :
                 /\ \A e \in set : e >= d => c <= e
                 /\ c >= d
                 /\ op' = o /\ CloseFrame(c) /\ cameras' = cameras /\ registered' = registry
           \/ /\ \A e \in set : e < d
              /\ \/ o = "undo" /\ Finish({}) /\ registered' = registry \ cameras
                 \/ o # "undo" /\ Finish(cameras) /\ registered' = registry
  <1> DEFINE left == {c \in set : c >= d}
             first == CHOOSE c \in left : \A e \in left : c <= e
  <1>1. Device \subseteq Nat \ {0}
    BY Types
  <1>2. CASE left # {}
    <2>1. first \in left /\ \A e \in left : first <= e
      <3>1. left \subseteq Nat \ {0}
        BY <1>1
      <3> HIDE DEF left
      <3>2. \E c \in left : \A e \in left : c <= e
        BY <1>2, <3>1, LeastElement
      <3> QED BY <3>2
    <2>2. op' = o /\ CloseFrame(first) /\ cameras' = cameras /\ registered' = registry
      BY <1>2 DEF CloseFrom
    <2> HIDE DEF first
    <2> QED BY <2>1, <2>2
  <1>3. CASE left = {}
    <2>1. \A e \in set : e < d
      BY <1>1, <1>3
    <2> QED BY <1>3, <2>1 DEF CloseFrom
  <1> QED BY <1>2, <1>3

-----------------------------------------------------------------------------
(* The types. *)

Steps  == OpenSteps \cup CloseSteps \cup {"none", "next", "reset"}
Frames == {"none", "open", "_open", "close", "reconnect"}
Ops    == {"none", "construct", "undo", "reconnect", "close"}

LEMMA GotoType ==
    ASSUME TypeOK, NEW t \in Thread, NEW s \in Steps, Goto(t, s)
    PROVE  step' \in [Thread -> Steps]
  BY DEF TypeOK, Goto, Steps

LEMMA FrameType ==
    ASSUME TypeOK, NEW d \in Device, OpenFrame(d) \/ CloseFrame(d)
    PROVE  /\ step' \in [Thread -> Steps] /\ on' \in [Thread -> Device]
           /\ frame' \in Frames
  <1>1. "claim" \in Steps /\ "forget" \in Steps
    BY DEF Steps, OpenSteps, CloseSteps
  <1> QED BY <1>1, GotoType, Threads DEF OpenFrame, CloseFrame, TypeOK, Frames

(* The variables that change when a function of the host is left.          *)
Settled ==
    /\ step' \in [Thread -> Steps] /\ on' \in [Thread -> Device]
    /\ frame' \in Frames /\ op' \in Ops
    /\ cameras' \subseteq Device /\ registered' \subseteq Device

LEMMA FinishType ==
    ASSUME TypeOK, NEW kept \in SUBSET Device, Finish(kept), registered' \subseteq Device
    PROVE  Settled
  <1>1. "none" \in Steps
    BY DEF Steps
  <1> QED BY <1>1, GotoType, Threads DEF Finish, TypeOK, Settled, Frames, Ops

LEMMA CloseFromType ==
    ASSUME TypeOK, NEW set \in SUBSET Device, NEW d \in Nat, NEW o \in Ops,
           NEW registry \in SUBSET Device, CloseFrom(set, d, o, registry)
    PROVE  Settled
  <1>1. CASE \E c \in set : /\ op' = o /\ CloseFrame(c)
                            /\ cameras' = cameras /\ registered' = registry
    BY <1>1, FrameType, Types DEF Settled
  <1>2. CASE \/ Finish({}) /\ registered' = registry \ cameras
             \/ Finish(cameras) /\ registered' = registry
    BY <1>2, FinishType, Types
  <1> QED BY <1>1, <1>2, ClosesOn

LEMMA RaisesType ==
    ASSUME TypeOK, Raises
    PROVE  Settled
  <1>1. CASE op = "construct" /\ CloseFrom(ToUndo, 1, "undo", registered \ {dev})
    <2>1. ToUndo \in SUBSET Device /\ registered \ {dev} \in SUBSET Device /\ "undo" \in Ops
      BY Types DEF ToUndo, Ops
    <2> QED BY <1>1, <2>1, CloseFromType
  <1>2. CASE \/ Finish({}) /\ registered' = registered \ cameras
             \/ Finish(cameras) /\ registered' = registered
    BY <1>2, FinishType, Types
  <1> QED BY <1>1, <1>2 DEF Raises

LEMMA TypeStep ==
    ASSUME TypeOK, [Next]_vars
    PROVE  TypeOK'
  <1>1. sameThread' = sameThread
    BY DEF Next, vars
  <1>2. CASE Claim
    <2>1. step' \in [Thread -> Steps]
      BY <1>2, GotoType, Threads DEF Claim, Steps, OpenSteps, CloseSteps
    <2> QED BY <1>1, <1>2, <2>1, Types
            DEF Claim, TypeOK, Steps, OpenSteps, CloseSteps, Frames, device, control, vars
  <1>3. CASE ClaimFails
    <2>1. step' \in [Thread -> Steps]
      BY <1>3, GotoType, Threads DEF ClaimFails, Steps, OpenSteps, CloseSteps
    <2> QED BY <1>1, <1>3, <2>1, Types
            DEF ClaimFails, TypeOK, Steps, OpenSteps, CloseSteps, Frames, device, control, vars
  <1>4. CASE Record
    <2>1. step' \in [Thread -> Steps]
      BY <1>4, GotoType, Threads DEF Record, Steps, OpenSteps, CloseSteps
    <2> QED BY <1>1, <1>4, <2>1, Types
            DEF Record, TypeOK, Steps, OpenSteps, CloseSteps, Frames, device, control, vars
  <1>5. CASE Endpoints
    <2>1. step' \in [Thread -> Steps]
      BY <1>5, GotoType, Threads DEF Endpoints, Steps, OpenSteps, CloseSteps
    <2> QED BY <1>1, <1>5, <2>1, Types
            DEF Endpoints, TypeOK, Steps, OpenSteps, CloseSteps, Frames, device, control, vars
  <1>6. CASE EndpointsFail
    <2>1. step' \in [Thread -> Steps]
      BY <1>6, GotoType, Threads DEF EndpointsFail, Steps, OpenSteps, CloseSteps
    <2> QED BY <1>1, <1>6, <2>1, Types
            DEF EndpointsFail, TypeOK, Steps, OpenSteps, CloseSteps, Frames, device, control, vars
  <1>7. CASE SessionOpen
    <2>1. step' \in [Thread -> Steps]
      BY <1>7, GotoType, Threads DEF SessionOpen, Steps, OpenSteps, CloseSteps
    <2> QED BY <1>1, <1>7, <2>1, Types
            DEF SessionOpen, TypeOK, Steps, OpenSteps, CloseSteps, Frames, device, control, vars
  <1>8. CASE Connect
    <2>1. step' \in [Thread -> Steps]
      BY <1>8, GotoType, Threads DEF Connect, Steps, OpenSteps, CloseSteps
    <2> QED BY <1>1, <1>8, <2>1, Types
            DEF Connect, TypeOK, Steps, OpenSteps, CloseSteps, Frames, device, control, vars
  <1>9. CASE Register
    <2>1. step' \in [Thread -> Steps]
      BY <1>9, GotoType, Threads DEF Register, Steps, OpenSteps, CloseSteps
    <2> QED BY <1>1, <1>9, <2>1, Types
            DEF Register, TypeOK, Steps, OpenSteps, CloseSteps, Frames, device, control, vars
  <1>10. CASE HandlerReturns
    <2>1. step' \in [Thread -> Steps]
      BY <1>10, GotoType, Threads DEF HandlerReturns, Steps, OpenSteps, CloseSteps
    <2> QED BY <1>1, <1>10, <2>1, Types
            DEF HandlerReturns, TypeOK, Steps, OpenSteps, CloseSteps, Frames, device, control, vars
  <1>11. CASE HandlerRaises
    <2>1. step' \in [Thread -> Steps]
      BY <1>11, GotoType, Threads DEF HandlerRaises, Steps, OpenSteps, CloseSteps
    <2> QED BY <1>1, <1>11, <2>1, Types
            DEF HandlerRaises, TypeOK, Steps, OpenSteps, CloseSteps, Frames, device, control, vars
  <1>12. ASSUME NEW t \in Thread, CloseStep(t)
         PROVE  TypeOK'
    <2>1. step' \in [Thread -> Steps]
      <3>1. {"session_close", "release", "clear", "dispose", "done"} \subseteq Steps
        BY DEF Steps, CloseSteps
      <3> QED BY <1>12, <3>1, GotoType
              DEF CloseStep, Forget, SessionClose, Release, Clear, Dispose
    <2>2. /\ claimed' \subseteq claimed /\ recorded' \subseteq recorded
          /\ tOpen' \subseteq tOpen /\ sOpen' \subseteq sOpen
          /\ connected' \subseteq connected /\ registered' \subseteq registered
          /\ UNCHANGED <<control, on>>
      BY <1>12 DEF CloseStep, Forget, SessionClose, Release, Clear, Dispose
    <2> QED BY <1>1, <1>12, <2>1, <2>2, Types
            DEF TypeOK, Steps, CloseSteps, OpenSteps, control, vars
  <1>13. CASE Return
    <2>1. Settled
      <3>1. CASE op = "construct" /\ Following(dev) /\ cameras' = cameras \cup {dev}
                 /\ op' = op /\ OpenFrame(dev + 1)
        <4>1. dev + 1 \in Device
          BY <3>1, Types, ClaimsAssumption DEF ClaimsAssumption, Following, Device
        <4> QED BY <1>13, <3>1, <4>1, FrameType, Types DEF Return, Settled, Ops, device
      <3>2. CASE Finish(cameras \cup {dev}) \/ Finish(cameras)
        BY <1>13, <3>2, FinishType, Types DEF Return, device
      <3> QED BY <1>13, <3>1, <3>2 DEF Return
    <2> QED BY <1>1, <1>13, <2>1 DEF Return, Settled, TypeOK, Steps, Frames, Ops, device
  <1>14. CASE Closed
    <2>1. Settled
      <3>1. CASE frame = "open" /\ frame' = "_open" /\ Goto("host", "forget")
                 /\ UNCHANGED <<registered, cameras, op, on>>
        <4>1. "forget" \in Steps
          BY DEF Steps, CloseSteps
        <4> QED BY <3>1, <4>1, GotoType, Threads DEF Settled, TypeOK, Frames, Ops
      <3>2. CASE Raises
        BY <3>2, RaisesType
      <3>3. CASE CloseFrom(cameras, dev + 1, op, registered)
        <4>1. dev + 1 \in Nat /\ op \in Ops
          BY Types DEF TypeOK, Ops
        <4> QED BY <3>3, <4>1, CloseFromType, Types
      <3>4. CASE Goto("host", "reset") /\ UNCHANGED <<registered, cameras, op, frame, on>>
        <4>1. "reset" \in Steps
          BY DEF Steps
        <4> QED BY <3>4, <4>1, GotoType, Threads DEF Settled, TypeOK, Frames, Ops
      <3> QED BY <1>14, <3>1, <3>2, <3>3, <3>4 DEF Closed
    <2> QED BY <1>1, <1>14, <2>1 DEF Closed, Settled, TypeOK, Steps, Frames, Ops
  <1>15. CASE Reset
    BY <1>1, <1>15, FrameType, Types DEF Reset, TypeOK, Steps, Frames
  <1>16. CASE Construct
    <2>1. 1 \in Device
      BY ClaimsAssumption DEF ClaimsAssumption, Device
    <2> QED BY <1>1, <1>16, <2>1, FrameType, Types DEF Construct, TypeOK, Steps, Frames
  <1>17. CASE Reconnect
    <2>1. PICK d \in cameras : on' = [on EXCEPT !["host"] = d] /\ Goto("host", "forget")
      BY <1>17 DEF Reconnect
    <2>2. step' \in [Thread -> Steps] /\ on' \in [Thread -> Device]
      <3>1. "forget" \in Steps
        BY DEF Steps, CloseSteps
      <3> QED BY <2>1, <3>1, GotoType, Threads, Types DEF TypeOK
    <2> QED BY <1>1, <1>17, <2>2 DEF Reconnect, TypeOK, Steps, device
  <1>18. CASE Close
    <2>1. Settled
      BY <1>18, CloseFromType, Types DEF Close, Ops
    <2> QED BY <1>1, <1>18, <2>1 DEF Close, Settled, TypeOK, Steps, Frames, Ops
  <1>19. CASE Drop
    BY <1>1, <1>19 DEF Drop, TypeOK, device
  <1>20. CASE Signal
    <2>1. step' \in [Thread -> Steps]
      BY <1>20, GotoType, Threads DEF Signal, Steps
    <2> QED BY <1>1, <1>20, <2>1, ClaimsAssumption
            DEF ClaimsAssumption, Signal, TypeOK, Steps, device
  <1>21. CASE CleanupNext
    <2>1. PICK d \in todo : todo' = todo \ {d} /\ on' = [on EXCEPT !["handler"] = d]
      BY <1>21 DEF CleanupNext
    <2>2. step' \in [Thread -> Steps] /\ on' \in [Thread -> Device]
      <3>1. "forget" \in Steps
        BY DEF Steps, CloseSteps
      <3> QED BY <1>21, <2>1, <3>1, GotoType, Threads, Types DEF CleanupNext, TypeOK
    <2> QED BY <1>1, <1>21, <2>1, <2>2 DEF CleanupNext, TypeOK, Steps, device
  <1>22. CASE Interrupt
    <2>1. Settled
      <3>1. CASE /\ frame' \in {frame, "_open"}
                 /\ Goto("host", "release") \/ Goto("host", "forget")
                 /\ UNCHANGED <<registered, cameras, op, on>>
        <4>1. "forget" \in Steps /\ "release" \in Steps
          BY DEF Steps, CloseSteps
        <4> QED BY <3>1, <4>1, GotoType, Threads DEF Settled, TypeOK, Frames, Ops
      <3>2. CASE Raises
        BY <3>2, RaisesType
      <3> QED BY <1>22, <3>1, <3>2 DEF Interrupt
    <2> QED BY <1>1, <1>22, <2>1 DEF Interrupt, Settled, TypeOK, Steps, Frames, Ops
  <1>23. CASE UNCHANGED vars
    BY <1>23 DEF vars, device, control, TypeOK
  <1> QED BY <1>2, <1>3, <1>4, <1>5, <1>6, <1>7, <1>8, <1>9, <1>10, <1>11, <1>12,
             <1>13, <1>14, <1>15, <1>16, <1>17, <1>18, <1>19, <1>20, <1>21, <1>22,
             <1>23 DEF Next


-----------------------------------------------------------------------------
(* The step of the invariant. *)

LEMMA ClaimsStep ==
    ASSUME ~Reconnects, ClaimsInv, [Next]_vars
    PROVE  ClaimsInv'
  <1> USE DEF Undisturbed
  <1>1. /\ TypeOK /\ Where /\ Signals /\ Owned /\ Apart /\ LetGo /\ Progress
        /\ ConnectedIsUsable /\ Claims /\ TypeOK' /\ sameThread' = sameThread
    BY TypeStep DEF ClaimsInv, Next, vars
  <1>2. CASE Claim
    <2>1. /\ step["host"] = "claim"
          /\ step'["host"] = "record"
          /\ step'["handler"] = step["handler"]
          /\ op' = op /\ cameras' = cameras /\ on' = on /\ dev' = dev
          /\ todo' = todo /\ interrupted' = interrupted /\ raised' = raised
          /\ claimed' = claimed \cup {dev}
          /\ registered' = registered /\ connected' = connected
          /\ recorded' = recorded /\ tOpen' = tOpen /\ sOpen' = sOpen
          /\ frame' = frame
          /\ sameThread => step["handler"] = "none" /\ ~interrupted
      BY <1>1, <1>2, Goes, Turns, Types, Threads
      DEF Claim, At, TypeOK, dev, device, control
    <2>2. Where'
      BY <1>1, <2>1 DEF Where, CloseSteps
    <2>3. Signals'
      BY <1>1, <2>1 DEF Signals, Handling
    <2>4. Owned'
      BY <1>1, <2>1 DEF Owned
    <2>5. Apart'
      BY <1>1, <2>1 DEF Apart, Opening, CloseSteps, Handling, InHand
    <2>6. LetGo'
      BY <1>1, <2>1 DEF LetGo, Opening, CloseSteps
    <2>7. Progress'
      BY <1>1, <2>1 DEF Progress, Opening, CloseSteps
    <2>8. ConnectedIsUsable'
      BY <1>1, <2>1 DEF ConnectedIsUsable
    <2>9. Claims'
      BY <1>1, <2>1
      DEF Claims, Covered, Opening, CloseSteps, dev, Apart, Where, Owned, Signals, LetGo,
          Progress, Handling, InHand
    <2> QED BY <1>1, <2>2, <2>3, <2>4, <2>5, <2>6, <2>7, <2>8, <2>9
            DEF ClaimsInv
  <1>3. CASE ClaimFails
    <2>1. /\ step["host"] = "claim"
          /\ step'["host"] = "forget"
          /\ step'["handler"] = step["handler"]
          /\ op' = op /\ cameras' = cameras /\ on' = on /\ dev' = dev
          /\ todo' = todo /\ interrupted' = interrupted /\ raised' = raised
          /\ claimed' = claimed
          /\ registered' = registered /\ connected' = connected
          /\ recorded' = recorded /\ tOpen' = tOpen /\ sOpen' = sOpen
          /\ frame' = "_open"
          /\ sameThread => step["handler"] = "none" /\ ~interrupted
      BY <1>1, <1>3, Goes, Turns, Types, Threads
      DEF ClaimFails, At, TypeOK, dev, device, control
    <2>2. Where'
      BY <1>1, <2>1 DEF Where, CloseSteps
    <2>3. Signals'
      BY <1>1, <2>1 DEF Signals, Handling
    <2>4. Owned'
      BY <1>1, <2>1 DEF Owned
    <2>5. Apart'
      BY <1>1, <2>1 DEF Apart, Opening, CloseSteps, Handling, InHand
    <2>6. LetGo'
      BY <1>1, <2>1 DEF LetGo, Opening, CloseSteps
    <2>7. Progress'
      BY <1>1, <2>1 DEF Progress, Opening, CloseSteps
    <2>8. ConnectedIsUsable'
      BY <1>1, <2>1 DEF ConnectedIsUsable
    <2>9. Claims'
      BY <1>1, <2>1 DEF Claims, Covered, Opening, CloseSteps
    <2> QED BY <1>1, <2>2, <2>3, <2>4, <2>5, <2>6, <2>7, <2>8, <2>9
            DEF ClaimsInv
  <1>4. CASE Record
    <2>1. /\ step["host"] = "record"
          /\ step'["host"] = "endpoints"
          /\ step'["handler"] = step["handler"]
          /\ op' = op /\ cameras' = cameras /\ on' = on /\ dev' = dev
          /\ todo' = todo /\ interrupted' = interrupted /\ raised' = raised
          /\ claimed' = claimed
          /\ registered' = registered /\ connected' = connected
          /\ recorded' = recorded \cup {dev} /\ tOpen' = tOpen /\ sOpen' = sOpen
          /\ frame' = frame
          /\ sameThread => step["handler"] = "none" /\ ~interrupted
      BY <1>1, <1>4, Goes, Turns, Types, Threads
      DEF Record, At, TypeOK, dev, device, control
    <2>2. Where'
      BY <1>1, <2>1 DEF Where, CloseSteps
    <2>3. Signals'
      BY <1>1, <2>1 DEF Signals, Handling
    <2>4. Owned'
      BY <1>1, <2>1 DEF Owned
    <2>5. Apart'
      BY <1>1, <2>1 DEF Apart, Opening, CloseSteps, Handling, InHand
    <2>6. LetGo'
      BY <1>1, <2>1 DEF LetGo, Opening, CloseSteps
    <2>7. Progress'
      BY <1>1, <2>1 DEF Progress, Opening, CloseSteps
    <2>8. ConnectedIsUsable'
      BY <1>1, <2>1 DEF ConnectedIsUsable
    <2>9. Claims'
      BY <1>1, <2>1 DEF Claims, Covered, Opening, CloseSteps
    <2> QED BY <1>1, <2>2, <2>3, <2>4, <2>5, <2>6, <2>7, <2>8, <2>9
            DEF ClaimsInv
  <1>5. CASE Endpoints
    <2>1. /\ step["host"] = "endpoints"
          /\ step'["host"] = "session_open"
          /\ step'["handler"] = step["handler"]
          /\ op' = op /\ cameras' = cameras /\ on' = on /\ dev' = dev
          /\ todo' = todo /\ interrupted' = interrupted /\ raised' = raised
          /\ claimed' = claimed
          /\ registered' = registered /\ connected' = connected
          /\ recorded' = recorded /\ tOpen' = tOpen \cup {dev} /\ sOpen' = sOpen
          /\ frame' = "_open"
          /\ sameThread => step["handler"] = "none" /\ ~interrupted
      BY <1>1, <1>5, Goes, Turns, Types, Threads
      DEF Endpoints, At, TypeOK, dev, device, control
    <2>2. Where'
      BY <1>1, <2>1 DEF Where, CloseSteps
    <2>3. Signals'
      BY <1>1, <2>1 DEF Signals, Handling
    <2>4. Owned'
      BY <1>1, <2>1 DEF Owned
    <2>5. Apart'
      BY <1>1, <2>1 DEF Apart, Opening, CloseSteps, Handling, InHand
    <2>6. LetGo'
      BY <1>1, <2>1 DEF LetGo, Opening, CloseSteps
    <2>7. Progress'
      BY <1>1, <2>1 DEF Progress, Opening, CloseSteps
    <2>8. ConnectedIsUsable'
      BY <1>1, <2>1 DEF ConnectedIsUsable
    <2>9. Claims'
      BY <1>1, <2>1 DEF Claims, Covered, Opening, CloseSteps
    <2> QED BY <1>1, <2>2, <2>3, <2>4, <2>5, <2>6, <2>7, <2>8, <2>9
            DEF ClaimsInv
  <1>6. CASE EndpointsFail
    <2>1. /\ step["host"] = "endpoints"
          /\ step'["host"] = "release"
          /\ step'["handler"] = step["handler"]
          /\ op' = op /\ cameras' = cameras /\ on' = on /\ dev' = dev
          /\ todo' = todo /\ interrupted' = interrupted /\ raised' = raised
          /\ claimed' = claimed
          /\ registered' = registered /\ connected' = connected
          /\ recorded' = recorded /\ tOpen' = tOpen /\ sOpen' = sOpen
          /\ frame' = frame
          /\ sameThread => step["handler"] = "none" /\ ~interrupted
      BY <1>1, <1>6, Goes, Turns, Types, Threads
      DEF EndpointsFail, At, TypeOK, dev, device, control
    <2>2. Where'
      BY <1>1, <2>1 DEF Where, CloseSteps
    <2>3. Signals'
      BY <1>1, <2>1 DEF Signals, Handling
    <2>4. Owned'
      BY <1>1, <2>1 DEF Owned
    <2>5. Apart'
      BY <1>1, <2>1 DEF Apart, Opening, CloseSteps, Handling, InHand
    <2>6. LetGo'
      BY <1>1, <2>1 DEF LetGo, Opening, CloseSteps
    <2>7. Progress'
      BY <1>1, <2>1 DEF Progress, Opening, CloseSteps
    <2>8. ConnectedIsUsable'
      BY <1>1, <2>1 DEF ConnectedIsUsable
    <2>9. Claims'
      BY <1>1, <2>1 DEF Claims, Covered, Opening, CloseSteps
    <2> QED BY <1>1, <2>2, <2>3, <2>4, <2>5, <2>6, <2>7, <2>8, <2>9
            DEF ClaimsInv
  <1>7. CASE SessionOpen
    <2>1. /\ step["host"] = "session_open"
          /\ step'["host"] \in {"connect", "forget"}
          /\ step'["handler"] = step["handler"]
          /\ op' = op /\ cameras' = cameras /\ on' = on /\ dev' = dev
          /\ todo' = todo /\ interrupted' = interrupted /\ raised' = raised
          /\ claimed' = claimed
          /\ registered' = registered /\ connected' = connected
          /\ recorded' = recorded /\ tOpen' = tOpen /\ frame' = frame
          /\ sOpen' \in {sOpen, sOpen \cup {dev}}
          /\ step'["host"] = "connect" => dev \in sOpen'
          /\ sameThread => step["handler"] = "none" /\ ~interrupted
      BY <1>1, <1>7, Goes, Turns, Types, Threads
      DEF SessionOpen, At, TypeOK, dev, device, control
    <2>2. Where'
      BY <1>1, <2>1 DEF Where, CloseSteps
    <2>3. Signals'
      BY <1>1, <2>1 DEF Signals, Handling
    <2>4. Owned'
      BY <1>1, <2>1 DEF Owned
    <2>5. Apart'
      BY <1>1, <2>1 DEF Apart, Opening, CloseSteps, Handling, InHand
    <2>6. LetGo'
      BY <1>1, <2>1 DEF LetGo, Opening, CloseSteps
    <2>7. Progress'
      BY <1>1, <2>1 DEF Progress, Opening, CloseSteps
    <2>8. ConnectedIsUsable'
      BY <1>1, <2>1 DEF ConnectedIsUsable
    <2>9. Claims'
      BY <1>1, <2>1 DEF Claims, Covered, Opening, CloseSteps
    <2> QED BY <1>1, <2>2, <2>3, <2>4, <2>5, <2>6, <2>7, <2>8, <2>9
            DEF ClaimsInv
  <1>8. CASE Connect
    <2>1. /\ step["host"] = "connect"
          /\ step'["host"] = "register"
          /\ step'["handler"] = step["handler"]
          /\ op' = op /\ cameras' = cameras /\ on' = on /\ dev' = dev
          /\ todo' = todo /\ interrupted' = interrupted /\ raised' = raised
          /\ claimed' = claimed
          /\ registered' = registered /\ connected' = connected \cup {dev}
          /\ recorded' = recorded /\ tOpen' = tOpen /\ sOpen' = sOpen
          /\ frame' = frame
          /\ sameThread => step["handler"] = "none" /\ ~interrupted
      BY <1>1, <1>8, Goes, Turns, Types, Threads
      DEF Connect, At, TypeOK, dev, device, control
    <2>2. Where'
      BY <1>1, <2>1 DEF Where, CloseSteps
    <2>3. Signals'
      BY <1>1, <2>1 DEF Signals, Handling
    <2>4. Owned'
      BY <1>1, <2>1, Types DEF Owned
    <2>5. Apart'
      BY <1>1, <2>1 DEF Apart, Opening, CloseSteps, Handling, InHand
    <2>6. LetGo'
      BY <1>1, <2>1
      DEF LetGo, Opening, CloseSteps, dev, Apart, Where, Owned, Signals, Handling, InHand
    <2>7. Progress'
      BY <1>1, <2>1 DEF Progress, Opening, CloseSteps
    <2>8. ConnectedIsUsable'
      BY <1>1, <2>1 DEF ConnectedIsUsable, dev, LetGo, Progress, Owned, Where
    <2>9. Claims'
      BY <1>1, <2>1 DEF Claims, Covered, Opening, CloseSteps
    <2> QED BY <1>1, <2>2, <2>3, <2>4, <2>5, <2>6, <2>7, <2>8, <2>9
            DEF ClaimsInv
  <1>9. CASE Register
    <2>1. /\ step["host"] = "register"
          /\ step'["host"] = "return"
          /\ step'["handler"] = step["handler"]
          /\ op' = op /\ cameras' = cameras /\ on' = on /\ dev' = dev
          /\ todo' = todo /\ interrupted' = interrupted /\ raised' = raised
          /\ claimed' = claimed
          /\ registered' = registered \cup {dev} /\ connected' = connected
          /\ recorded' = recorded /\ tOpen' = tOpen /\ sOpen' = sOpen
          /\ frame' = frame
          /\ sameThread => step["handler"] = "none" /\ ~interrupted
      BY <1>1, <1>9, Goes, Turns, Types, Threads
      DEF Register, At, TypeOK, dev, device, control
    <2>2. Where'
      BY <1>1, <2>1 DEF Where, CloseSteps
    <2>3. Signals'
      BY <1>1, <2>1 DEF Signals, Handling
    <2>4. Owned'
      BY <1>1, <2>1 DEF Owned, dev, Where, LetGo
    <2>5. Apart'
      BY <1>1, <2>1 DEF Apart, Opening, CloseSteps, Handling, InHand
    <2>6. LetGo'
      BY <1>1, <2>1
      DEF LetGo, Opening, CloseSteps, dev, Apart, Where, Owned, Signals, Handling, InHand
    <2>7. Progress'
      BY <1>1, <2>1 DEF Progress, Opening, CloseSteps
    <2>8. ConnectedIsUsable'
      BY <1>1, <2>1 DEF ConnectedIsUsable, dev, LetGo, Progress, Owned, Where
    <2>9. Claims'
      BY <1>1, <2>1 DEF Claims, Covered, Opening, CloseSteps
    <2> QED BY <1>1, <2>2, <2>3, <2>4, <2>5, <2>6, <2>7, <2>8, <2>9
            DEF ClaimsInv
  <1>10. CASE Return
    <2>1. CASE op = "construct" /\ Following(dev)
      <3>1. /\ step["host"] = "return" /\ frame = "_open"
            /\ registered' = registered /\ connected' = connected /\ claimed' = claimed
            /\ recorded' = recorded /\ tOpen' = tOpen /\ sOpen' = sOpen
            /\ step'["handler"] = step["handler"] /\ on'["handler"] = on["handler"]
            /\ step'["host"] = "claim" /\ dev' = dev + 1 /\ frame' = "open"
            /\ op' = op /\ cameras' = cameras \cup {dev}
        BY <1>1, <1>10, <2>1, Goes, Turns, Types, Threads
        DEF Return, Where, Following, Finish, At, TypeOK, dev, device, control
      <3>2. Where'
        BY <1>1, <3>1 DEF Where, CloseSteps
      <3>3. Signals'
        BY <1>1, <1>10, <2>1, <3>1, Types
        DEF Signals, Handling, Where, Return, Following, Finish, At, device, control
      <3>4. Owned'
        BY <1>1, <1>10, <2>1, <3>1, Types
        DEF Owned, dev, Where, LetGo, Return, Following, Finish, At, device, control
      <3>5. Apart'
        BY <1>1, <1>10, <2>1, <3>1, Types
        DEF Apart, Opening, CloseSteps, Handling, InHand, dev, Where, Owned, Signals, Return,
            Following, Finish, At, device, control
      <3>6. LetGo'
        BY <1>1, <1>10, <2>1, <3>1, Types
        DEF LetGo, Opening, CloseSteps, dev, Apart, Where, Owned, Signals, Handling, InHand,
            Return, Following, Finish, At, device, control
      <3>7. Progress'
        BY <1>1, <3>1 DEF Progress, Opening, CloseSteps
      <3>8. ConnectedIsUsable'
        BY <1>1, <3>1 DEF ConnectedIsUsable
      <3>9. Claims'
        BY <1>1, <1>10, <2>1, <3>1, Types
        DEF Claims, Covered, Opening, CloseSteps, dev, Apart, Where, Owned, Signals, LetGo,
            Progress, Handling, InHand, Return, Following, Finish, At, device, control
      <3> QED BY <1>1, <3>2, <3>3, <3>4, <3>5, <3>6, <3>7, <3>8, <3>9
              DEF ClaimsInv
    <2>2. CASE op = "construct" /\ ~Following(dev)
      <3>1. /\ step["host"] = "return" /\ frame = "_open"
            /\ registered' = registered /\ connected' = connected /\ claimed' = claimed
            /\ recorded' = recorded /\ tOpen' = tOpen /\ sOpen' = sOpen
            /\ step'["handler"] = step["handler"] /\ on'["handler"] = on["handler"]
            /\ step'["host"] = "none" /\ on' = on /\ frame' = "none"
            /\ op' = "none" /\ cameras' = cameras \cup {dev}
        BY <1>1, <1>10, <2>2, Goes, Turns, Types, Threads
        DEF Return, Where, Following, Finish, At, TypeOK, dev, device, control
      <3>2. Where'
        BY <1>1, <3>1 DEF Where, CloseSteps
      <3>3. Signals'
        BY <1>1, <1>10, <2>2, <3>1, Types
        DEF Signals, Handling, Where, Return, Following, Finish, At, device, control
      <3>4. Owned'
        BY <1>1, <3>1 DEF Owned
      <3>5. Apart'
        BY <1>1, <3>1 DEF Apart, Opening, CloseSteps, Handling, InHand
      <3>6. LetGo'
        BY <1>1, <3>1 DEF LetGo, Opening, CloseSteps
      <3>7. Progress'
        BY <1>1, <3>1 DEF Progress, Opening, CloseSteps
      <3>8. ConnectedIsUsable'
        BY <1>1, <3>1 DEF ConnectedIsUsable
      <3>9. Claims'
        BY <1>1, <1>10, <2>2, <3>1, Types
        DEF Claims, Covered, Opening, CloseSteps, dev, Apart, Where, Owned, Signals, LetGo,
            Progress, Handling, InHand, Return, Following, Finish, At, device, control
      <3> QED BY <1>1, <3>2, <3>3, <3>4, <3>5, <3>6, <3>7, <3>8, <3>9
              DEF ClaimsInv
    <2>3. CASE op = "reconnect"
      <3>1. /\ step["host"] = "return" /\ frame = "_open"
            /\ registered' = registered /\ connected' = connected /\ claimed' = claimed
            /\ recorded' = recorded /\ tOpen' = tOpen /\ sOpen' = sOpen
            /\ step'["handler"] = step["handler"] /\ on'["handler"] = on["handler"]
            /\ step'["host"] = "none" /\ on' = on /\ frame' = "none"
            /\ op' = "none" /\ cameras' = cameras
        BY <1>1, <1>10, <2>3, Goes, Turns, Types, Threads
        DEF Return, Where, Following, Finish, At, TypeOK, dev, device, control
      <3>2. Where'
        BY <1>1, <3>1 DEF Where, CloseSteps
      <3>3. Signals'
        BY <1>1, <1>10, <2>3, <3>1, Types
        DEF Signals, Handling, Where, Return, Following, Finish, At, device, control
      <3>4. Owned'
        BY <1>1, <1>10, <2>3, <3>1 DEF Owned, dev, Where, LetGo
      <3>5. Apart'
        BY <1>1, <3>1 DEF Apart, Opening, CloseSteps, Handling, InHand
      <3>6. LetGo'
        BY <1>1, <3>1 DEF LetGo, Opening, CloseSteps
      <3>7. Progress'
        BY <1>1, <3>1 DEF Progress, Opening, CloseSteps
      <3>8. ConnectedIsUsable'
        BY <1>1, <3>1 DEF ConnectedIsUsable
      <3>9. Claims'
        BY <1>1, <1>10, <2>3, <3>1, Types
        DEF Claims, Covered, Opening, CloseSteps, dev, Apart, Where, Owned, Signals, LetGo,
            Progress, Handling, InHand, Return, Following, Finish, At, device, control
      <3> QED BY <1>1, <3>2, <3>3, <3>4, <3>5, <3>6, <3>7, <3>8, <3>9
              DEF ClaimsInv
    <2> QED BY <1>10, <2>1, <2>2, <2>3 DEF Return
  <1>11. ASSUME NEW t \in Thread, Forget(t)
        PROVE  ClaimsInv'
    <2>1. CASE t = "host"
      <3>1. /\ step["host"] = "forget"
            /\ step'["host"] = IF frame = "_open" THEN "release" ELSE "session_close"
            /\ step'["handler"] = step["handler"]
            /\ frame' = frame /\ op' = op /\ cameras' = cameras /\ on' = on /\ dev' = dev
            /\ todo' = todo /\ interrupted' = interrupted /\ raised' = raised
            /\ registered' = registered \ {dev} /\ connected' = connected \ {dev}
            /\ claimed' = claimed
            /\ recorded' = recorded /\ tOpen' = tOpen /\ sOpen' = sOpen
            /\ frame \in {"_open", "close", "reconnect"}
            /\ sameThread => step["handler"] = "none" /\ ~interrupted
        BY <1>1, <1>11, <2>1, Goes, Turns, Types, Threads
        DEF Forget, At, TypeOK, dev, device, control, Disconnected, HoldsSomething, Where
      <3>2. Where'
        BY <1>1, <3>1 DEF Where, CloseSteps
      <3>3. Signals'
        BY <1>1, <3>1 DEF Signals, Handling
      <3>4. Owned'
        BY <1>1, <3>1 DEF Owned
      <3>5. Apart'
        BY <1>1, <3>1 DEF Apart, Opening, CloseSteps, Handling, InHand
      <3>6. LetGo'
        BY <1>1, <3>1 DEF LetGo, Opening, CloseSteps
      <3>7. Progress'
        BY <1>1, <3>1 DEF Progress, Opening, CloseSteps
      <3>8. ConnectedIsUsable'
        BY <1>1, <3>1 DEF ConnectedIsUsable
      <3>9. Claims'
        BY <1>1, <3>1 DEF Claims, Covered, Opening, CloseSteps
      <3> QED BY <1>1, <3>2, <3>3, <3>4, <3>5, <3>6, <3>7, <3>8, <3>9
              DEF ClaimsInv
    <2>2. CASE t = "handler"
      <3>1. /\ step["handler"] = "forget"
            /\ step'["handler"] = "session_close"
            /\ step'["host"] = step["host"]
            /\ frame' = frame /\ op' = op /\ cameras' = cameras /\ on' = on /\ dev' = dev
            /\ todo' = todo /\ interrupted' = interrupted /\ raised' = raised
            /\ registered' = registered \ {on["handler"]} /\ connected' = connected \ {on["handler"]}
            /\ claimed' = claimed
            /\ recorded' = recorded /\ tOpen' = tOpen /\ sOpen' = sOpen
        BY <1>1, <1>11, <2>2, Goes, Turns, Types, Threads
        DEF Forget, At, TypeOK, dev, device, control, Disconnected, HoldsSomething, Where
      <3>2. Where'
        BY <1>1, <3>1 DEF Where, CloseSteps
      <3>3. Signals'
        BY <1>1, <3>1 DEF Signals, Handling
      <3>4. Owned'
        BY <1>1, <3>1 DEF Owned
      <3>5. Apart'
        BY <1>1, <3>1 DEF Apart, Opening, CloseSteps, Handling, InHand
      <3>6. LetGo'
        BY <1>1, <3>1 DEF LetGo, Opening, CloseSteps
      <3>7. Progress'
        BY <1>1, <3>1 DEF Progress, Opening, CloseSteps
      <3>8. ConnectedIsUsable'
        BY <1>1, <3>1 DEF ConnectedIsUsable
      <3>9. Claims'
        BY <1>1, <3>1 DEF Claims, Covered, Opening, CloseSteps
      <3> QED BY <1>1, <3>2, <3>3, <3>4, <3>5, <3>6, <3>7, <3>8, <3>9
              DEF ClaimsInv
    <2> QED BY <1>11, <2>1, <2>2, Threads
  <1>12. ASSUME NEW t \in Thread, SessionClose(t)
        PROVE  ClaimsInv'
    <2>1. CASE t = "host"
      <3>1. /\ step["host"] = "session_close"
            /\ step'["host"] = "release"
            /\ step'["handler"] = step["handler"]
            /\ frame' = frame /\ op' = op /\ cameras' = cameras /\ on' = on /\ dev' = dev
            /\ todo' = todo /\ interrupted' = interrupted /\ raised' = raised
            /\ registered' = registered /\ connected' = connected /\ claimed' = claimed
            /\ recorded' = recorded /\ tOpen' = tOpen
            /\ sOpen' \in {sOpen, sOpen \ {dev}}
            /\ sameThread => step["handler"] = "none" /\ ~interrupted
        BY <1>1, <1>12, <2>1, Goes, Turns, Types, Threads
        DEF SessionClose, At, TypeOK, dev, device, control, Disconnected, HoldsSomething, Where
      <3>2. Where'
        BY <1>1, <3>1 DEF Where, CloseSteps
      <3>3. Signals'
        BY <1>1, <3>1 DEF Signals, Handling
      <3>4. Owned'
        BY <1>1, <3>1 DEF Owned
      <3>5. Apart'
        BY <1>1, <3>1 DEF Apart, Opening, CloseSteps, Handling, InHand
      <3>6. LetGo'
        BY <1>1, <3>1 DEF LetGo, Opening, CloseSteps
      <3>7. Progress'
        BY <1>1, <3>1 DEF Progress, Opening, CloseSteps
      <3>8. ConnectedIsUsable'
        BY <1>1, <3>1
        DEF ConnectedIsUsable, dev, LetGo, Progress, Owned, Where, CloseSteps, Opening
      <3>9. Claims'
        BY <1>1, <3>1 DEF Claims, Covered, Opening, CloseSteps
      <3> QED BY <1>1, <3>2, <3>3, <3>4, <3>5, <3>6, <3>7, <3>8, <3>9
              DEF ClaimsInv
    <2>2. CASE t = "handler"
      <3>1. /\ step["handler"] = "session_close"
            /\ step'["handler"] = "release"
            /\ step'["host"] = step["host"]
            /\ frame' = frame /\ op' = op /\ cameras' = cameras /\ on' = on /\ dev' = dev
            /\ todo' = todo /\ interrupted' = interrupted /\ raised' = raised
            /\ registered' = registered /\ connected' = connected /\ claimed' = claimed
            /\ recorded' = recorded /\ tOpen' = tOpen
            /\ sOpen' \in {sOpen, sOpen \ {on["handler"]}}
        BY <1>1, <1>12, <2>2, Goes, Turns, Types, Threads
        DEF SessionClose, At, TypeOK, dev, device, control, Disconnected, HoldsSomething, Where
      <3>2. Where'
        BY <1>1, <3>1 DEF Where, CloseSteps
      <3>3. Signals'
        BY <1>1, <3>1 DEF Signals, Handling
      <3>4. Owned'
        BY <1>1, <3>1 DEF Owned
      <3>5. Apart'
        BY <1>1, <3>1 DEF Apart, Opening, CloseSteps, Handling, InHand
      <3>6. LetGo'
        BY <1>1, <3>1 DEF LetGo, Opening, CloseSteps
      <3>7. Progress'
        BY <1>1, <3>1
        DEF Progress, Opening, CloseSteps, dev, Apart, LetGo, Where, Signals, Handling, InHand
      <3>8. ConnectedIsUsable'
        BY <1>1, <3>1
        DEF ConnectedIsUsable, dev, LetGo, Progress, Owned, Where, CloseSteps, Opening
      <3>9. Claims'
        BY <1>1, <3>1 DEF Claims, Covered, Opening, CloseSteps
      <3> QED BY <1>1, <3>2, <3>3, <3>4, <3>5, <3>6, <3>7, <3>8, <3>9
              DEF ClaimsInv
    <2> QED BY <1>12, <2>1, <2>2, Threads
  <1>13. ASSUME NEW t \in Thread, Release(t)
        PROVE  ClaimsInv'
    <2>1. CASE t = "host"
      <3>1. /\ step["host"] = "release"
            /\ step'["host"] = IF HoldsSomething(dev) THEN "clear" ELSE "done"
            /\ step'["handler"] = step["handler"]
            /\ frame' = frame /\ op' = op /\ cameras' = cameras /\ on' = on /\ dev' = dev
            /\ todo' = todo /\ interrupted' = interrupted /\ raised' = raised
            /\ registered' = registered /\ connected' = connected
            /\ recorded' = recorded /\ tOpen' = tOpen /\ sOpen' = sOpen
            /\ claimed' = IF dev \in recorded THEN claimed \ {dev} ELSE claimed
            /\ sameThread => step["handler"] = "none" /\ ~interrupted
        BY <1>1, <1>13, <2>1, Goes, Turns, Types, Threads
        DEF Release, At, TypeOK, dev, device, control, Disconnected, HoldsSomething, Where
      <3>2. Where'
        BY <1>1, <3>1 DEF Where, CloseSteps
      <3>3. Signals'
        BY <1>1, <3>1 DEF Signals, Handling
      <3>4. Owned'
        BY <1>1, <3>1 DEF Owned
      <3>5. Apart'
        BY <1>1, <3>1 DEF Apart, Opening, CloseSteps, Handling, InHand
      <3>6. LetGo'
        BY <1>1, <3>1 DEF LetGo, Opening, CloseSteps
      <3>7. Progress'
        BY <1>1, <3>1 DEF Progress, Opening, CloseSteps
      <3>8. ConnectedIsUsable'
        BY <1>1, <3>1 DEF ConnectedIsUsable
      <3>9. Claims'
        BY <1>1, <3>1 DEF Claims, Covered, Opening, CloseSteps
      <3> QED BY <1>1, <3>2, <3>3, <3>4, <3>5, <3>6, <3>7, <3>8, <3>9
              DEF ClaimsInv
    <2>2. CASE t = "handler"
      <3>1. /\ step["handler"] = "release"
            /\ step'["handler"] = IF HoldsSomething(on["handler"]) THEN "clear" ELSE "done"
            /\ step'["host"] = step["host"]
            /\ frame' = frame /\ op' = op /\ cameras' = cameras /\ on' = on /\ dev' = dev
            /\ todo' = todo /\ interrupted' = interrupted /\ raised' = raised
            /\ registered' = registered /\ connected' = connected
            /\ recorded' = recorded /\ tOpen' = tOpen /\ sOpen' = sOpen
            /\ claimed' = IF on["handler"] \in recorded THEN claimed \ {on["handler"]} ELSE claimed
        BY <1>1, <1>13, <2>2, Goes, Turns, Types, Threads
        DEF Release, At, TypeOK, dev, device, control, Disconnected, HoldsSomething, Where
      <3>2. Where'
        BY <1>1, <3>1 DEF Where, CloseSteps
      <3>3. Signals'
        BY <1>1, <3>1 DEF Signals, Handling
      <3>4. Owned'
        BY <1>1, <3>1 DEF Owned
      <3>5. Apart'
        BY <1>1, <3>1 DEF Apart, Opening, CloseSteps, Handling, InHand
      <3>6. LetGo'
        BY <1>1, <3>1 DEF LetGo, Opening, CloseSteps
      <3>7. Progress'
        BY <1>1, <3>1
        DEF Progress, Opening, CloseSteps, dev, Apart, LetGo, Where, Signals, Handling,
            InHand, HoldsSomething
      <3>8. ConnectedIsUsable'
        BY <1>1, <3>1 DEF ConnectedIsUsable
      <3>9. Claims'
        BY <1>1, <3>1
        DEF Claims, Covered, Opening, CloseSteps, dev, Apart, Where, Owned, Signals, LetGo,
            Progress, Handling, InHand, HoldsSomething
      <3> QED BY <1>1, <3>2, <3>3, <3>4, <3>5, <3>6, <3>7, <3>8, <3>9
              DEF ClaimsInv
    <2> QED BY <1>13, <2>1, <2>2, Threads
  <1>14. ASSUME NEW t \in Thread, Clear(t)
        PROVE  ClaimsInv'
    <2>1. CASE t = "host"
      <3>1. /\ step["host"] = "clear"
            /\ step'["host"] = "dispose"
            /\ step'["handler"] = step["handler"]
            /\ frame' = frame /\ op' = op /\ cameras' = cameras /\ on' = on /\ dev' = dev
            /\ todo' = todo /\ interrupted' = interrupted /\ raised' = raised
            /\ registered' = registered /\ connected' = connected /\ claimed' = claimed
            /\ tOpen' = tOpen /\ sOpen' = sOpen
            /\ recorded' = recorded \ {dev}
            /\ sameThread => step["handler"] = "none" /\ ~interrupted
        BY <1>1, <1>14, <2>1, Goes, Turns, Types, Threads
        DEF Clear, At, TypeOK, dev, device, control, Disconnected, HoldsSomething, Where
      <3>2. Where'
        BY <1>1, <3>1 DEF Where, CloseSteps
      <3>3. Signals'
        BY <1>1, <3>1 DEF Signals, Handling
      <3>4. Owned'
        BY <1>1, <3>1 DEF Owned
      <3>5. Apart'
        BY <1>1, <3>1 DEF Apart, Opening, CloseSteps, Handling, InHand
      <3>6. LetGo'
        BY <1>1, <3>1 DEF LetGo, Opening, CloseSteps
      <3>7. Progress'
        BY <1>1, <3>1 DEF Progress, Opening, CloseSteps
      <3>8. ConnectedIsUsable'
        BY <1>1, <3>1 DEF ConnectedIsUsable
      <3>9. Claims'
        BY <1>1, <3>1 DEF Claims, Covered, Opening, CloseSteps
      <3> QED BY <1>1, <3>2, <3>3, <3>4, <3>5, <3>6, <3>7, <3>8, <3>9
              DEF ClaimsInv
    <2>2. CASE t = "handler"
      <3>1. /\ step["handler"] = "clear"
            /\ step'["handler"] = "dispose"
            /\ step'["host"] = step["host"]
            /\ frame' = frame /\ op' = op /\ cameras' = cameras /\ on' = on /\ dev' = dev
            /\ todo' = todo /\ interrupted' = interrupted /\ raised' = raised
            /\ registered' = registered /\ connected' = connected /\ claimed' = claimed
            /\ tOpen' = tOpen /\ sOpen' = sOpen
            /\ recorded' = recorded \ {on["handler"]}
        BY <1>1, <1>14, <2>2, Goes, Turns, Types, Threads
        DEF Clear, At, TypeOK, dev, device, control, Disconnected, HoldsSomething, Where
      <3>2. Where'
        BY <1>1, <3>1 DEF Where, CloseSteps
      <3>3. Signals'
        BY <1>1, <3>1 DEF Signals, Handling
      <3>4. Owned'
        BY <1>1, <3>1 DEF Owned
      <3>5. Apart'
        BY <1>1, <3>1 DEF Apart, Opening, CloseSteps, Handling, InHand
      <3>6. LetGo'
        BY <1>1, <3>1 DEF LetGo, Opening, CloseSteps
      <3>7. Progress'
        BY <1>1, <3>1
        DEF Progress, Opening, CloseSteps, dev, Apart, LetGo, Where, Signals, Handling, InHand
      <3>8. ConnectedIsUsable'
        BY <1>1, <3>1 DEF ConnectedIsUsable
      <3>9. Claims'
        BY <1>1, <3>1 DEF Claims, Covered, Opening, CloseSteps
      <3> QED BY <1>1, <3>2, <3>3, <3>4, <3>5, <3>6, <3>7, <3>8, <3>9
              DEF ClaimsInv
    <2> QED BY <1>14, <2>1, <2>2, Threads
  <1>15. ASSUME NEW t \in Thread, Dispose(t)
        PROVE  ClaimsInv'
    <2>1. CASE t = "host"
      <3>1. /\ step["host"] = "dispose"
            /\ step'["host"] = "done"
            /\ step'["handler"] = step["handler"]
            /\ frame' = frame /\ op' = op /\ cameras' = cameras /\ on' = on /\ dev' = dev
            /\ todo' = todo /\ interrupted' = interrupted /\ raised' = raised
            /\ registered' = registered /\ connected' = connected
            /\ recorded' = recorded /\ sOpen' = sOpen
            /\ claimed' = claimed \ {dev} /\ tOpen' = tOpen \ {dev}
            /\ sameThread => step["handler"] = "none" /\ ~interrupted
        BY <1>1, <1>15, <2>1, Goes, Turns, Types, Threads
        DEF Dispose, At, TypeOK, dev, device, control, Disconnected, HoldsSomething, Where
      <3>2. Where'
        BY <1>1, <3>1 DEF Where, CloseSteps
      <3>3. Signals'
        BY <1>1, <3>1 DEF Signals, Handling
      <3>4. Owned'
        BY <1>1, <3>1 DEF Owned
      <3>5. Apart'
        BY <1>1, <3>1 DEF Apart, Opening, CloseSteps, Handling, InHand
      <3>6. LetGo'
        BY <1>1, <3>1 DEF LetGo, Opening, CloseSteps
      <3>7. Progress'
        BY <1>1, <3>1 DEF Progress, Opening, CloseSteps
      <3>8. ConnectedIsUsable'
        BY <1>1, <3>1 DEF ConnectedIsUsable
      <3>9. Claims'
        BY <1>1, <3>1 DEF Claims, Covered, Opening, CloseSteps
      <3> QED BY <1>1, <3>2, <3>3, <3>4, <3>5, <3>6, <3>7, <3>8, <3>9
              DEF ClaimsInv
    <2>2. CASE t = "handler"
      <3>1. /\ step["handler"] = "dispose"
            /\ step'["handler"] = "done"
            /\ step'["host"] = step["host"]
            /\ frame' = frame /\ op' = op /\ cameras' = cameras /\ on' = on /\ dev' = dev
            /\ todo' = todo /\ interrupted' = interrupted /\ raised' = raised
            /\ registered' = registered /\ connected' = connected
            /\ recorded' = recorded /\ sOpen' = sOpen
            /\ claimed' = claimed \ {on["handler"]} /\ tOpen' = tOpen \ {on["handler"]}
        BY <1>1, <1>15, <2>2, Goes, Turns, Types, Threads
        DEF Dispose, At, TypeOK, dev, device, control, Disconnected, HoldsSomething, Where
      <3>2. Where'
        BY <1>1, <3>1 DEF Where, CloseSteps
      <3>3. Signals'
        BY <1>1, <3>1 DEF Signals, Handling
      <3>4. Owned'
        BY <1>1, <3>1 DEF Owned
      <3>5. Apart'
        BY <1>1, <3>1 DEF Apart, Opening, CloseSteps, Handling, InHand
      <3>6. LetGo'
        BY <1>1, <3>1 DEF LetGo, Opening, CloseSteps
      <3>7. Progress'
        BY <1>1, <3>1
        DEF Progress, Opening, CloseSteps, dev, Apart, LetGo, Where, Signals, Handling, InHand
      <3>8. ConnectedIsUsable'
        BY <1>1, <3>1 DEF ConnectedIsUsable
      <3>9. Claims'
        BY <1>1, <3>1 DEF Claims, Covered, Opening, CloseSteps
      <3> QED BY <1>1, <3>2, <3>3, <3>4, <3>5, <3>6, <3>7, <3>8, <3>9
              DEF ClaimsInv
    <2> QED BY <1>15, <2>1, <2>2, Threads
  <1>16. CASE Closed
    <2>1. CASE frame = "open"
      <3>1. /\ step["host"] = "done"
            /\ connected' = connected
            /\ claimed' = claimed /\ recorded' = recorded /\ tOpen' = tOpen /\ sOpen' = sOpen
            /\ todo' = todo /\ interrupted' = interrupted /\ raised' = raised
            /\ step'["handler"] = step["handler"] /\ on'["handler"] = on["handler"]
            /\ dev \notin connected \cup registered
            /\ step'["host"] = "forget" /\ frame' = "_open" /\ op' = op /\ on' = on
            /\ cameras' = cameras /\ registered' = registered
        BY <1>1, <1>16, <2>1, Goes, Turns, Types, Threads
        DEF Closed, At, TypeOK, dev, device, control, LetGo, Opening, CloseSteps, Where, Finish, Raises
      <3>2. Where'
        BY <1>1, <1>16, <2>1, <3>1 DEF Where, CloseSteps, Signals
      <3>3. Signals'
        BY <1>1, <3>1 DEF Signals, Handling
      <3>4. Owned'
        BY <1>1, <3>1 DEF Owned, dev, Where, LetGo
      <3>5. Apart'
        BY <1>1, <3>1 DEF Apart, Opening, CloseSteps, Handling, InHand
      <3>6. LetGo'
        BY <1>1, <3>1
        DEF LetGo, Opening, CloseSteps, dev, Apart, Where, Owned, Signals, Handling, InHand
      <3>7. Progress'
        BY <1>1, <3>1 DEF Progress, Opening, CloseSteps
      <3>8. ConnectedIsUsable'
        BY <1>1, <3>1 DEF ConnectedIsUsable
      <3>9. Claims'
        BY <1>1, <3>1
        DEF Claims, Covered, Opening, CloseSteps, dev, Apart, Where, Owned, Signals, LetGo,
            Progress, Handling, InHand
      <3> QED BY <1>1, <3>2, <3>3, <3>4, <3>5, <3>6, <3>7, <3>8, <3>9
              DEF ClaimsInv
    <2>2. CASE frame = "reconnect"
      <3>1. /\ step["host"] = "done"
            /\ connected' = connected
            /\ claimed' = claimed /\ recorded' = recorded /\ tOpen' = tOpen /\ sOpen' = sOpen
            /\ todo' = todo /\ interrupted' = interrupted /\ raised' = raised
            /\ step'["handler"] = step["handler"] /\ on'["handler"] = on["handler"]
            /\ dev \notin connected \cup registered
            /\ step'["host"] = "reset" /\ frame' = frame /\ op' = op /\ on' = on
            /\ cameras' = cameras /\ registered' = registered
        BY <1>1, <1>16, <2>2, Goes, Turns, Types, Threads
        DEF Closed, At, TypeOK, dev, device, control, LetGo, Opening, CloseSteps, Where, Finish, Raises
      <3>2. Where'
        BY <1>1, <1>16, <2>2, <3>1 DEF Where, CloseSteps, Signals
      <3>3. Signals'
        BY <1>1, <3>1 DEF Signals, Handling
      <3>4. Owned'
        BY <1>1, <3>1 DEF Owned, dev, Where, LetGo
      <3>5. Apart'
        BY <1>1, <3>1 DEF Apart, Opening, CloseSteps, Handling, InHand
      <3>6. LetGo'
        BY <1>1, <3>1
        DEF LetGo, Opening, CloseSteps, dev, Apart, Where, Owned, Signals, Handling, InHand
      <3>7. Progress'
        BY <1>1, <3>1 DEF Progress, Opening, CloseSteps
      <3>8. ConnectedIsUsable'
        BY <1>1, <3>1 DEF ConnectedIsUsable
      <3>9. Claims'
        BY <1>1, <3>1
        DEF Claims, Covered, Opening, CloseSteps, dev, Apart, Where, Owned, Signals, LetGo,
            Progress, Handling, InHand
      <3> QED BY <1>1, <3>2, <3>3, <3>4, <3>5, <3>6, <3>7, <3>8, <3>9
              DEF ClaimsInv
    <2>3. CASE frame = "_open" /\ op = "reconnect"
      <3>1. /\ step["host"] = "done"
            /\ connected' = connected
            /\ claimed' = claimed /\ recorded' = recorded /\ tOpen' = tOpen /\ sOpen' = sOpen
            /\ todo' = todo /\ interrupted' = interrupted /\ raised' = raised
            /\ step'["handler"] = step["handler"] /\ on'["handler"] = on["handler"]
            /\ dev \notin connected \cup registered
            /\ step'["host"] = "none" /\ frame' = "none" /\ op' = "none" /\ on' = on /\ dev' = dev
            /\ cameras' = cameras /\ registered' = registered
        BY <1>1, <1>16, <2>3, Goes, Turns, Types, Threads
        DEF Closed, At, TypeOK, dev, device, control, LetGo, Opening, CloseSteps, Where, Finish, Raises
      <3>2. Where'
        BY <1>1, <3>1 DEF Where, CloseSteps
      <3>3. Signals'
        BY <1>1, <1>16, <2>3, <3>1, Types
        DEF Signals, Handling, Where, Closed, At, device, control
      <3>4. Owned'
        BY <1>1, <3>1 DEF Owned
      <3>5. Apart'
        BY <1>1, <3>1 DEF Apart, Opening, CloseSteps, Handling, InHand
      <3>6. LetGo'
        BY <1>1, <3>1 DEF LetGo, Opening, CloseSteps
      <3>7. Progress'
        BY <1>1, <3>1 DEF Progress, Opening, CloseSteps
      <3>8. ConnectedIsUsable'
        BY <1>1, <3>1 DEF ConnectedIsUsable
      <3>9. Claims'
        BY <1>1, <3>1 DEF Claims, Covered, Opening, CloseSteps
      <3> QED BY <1>1, <3>2, <3>3, <3>4, <3>5, <3>6, <3>7, <3>8, <3>9
              DEF ClaimsInv
    <2>4. ASSUME NEW c \in cameras, frame = "_open", op = "construct", \A e \in cameras : c <= e,
                 op' = "undo", CloseFrame(c), cameras' = cameras, registered' = registered \ {dev}
          PROVE  ClaimsInv'
      <3>1. /\ step["host"] = "done"
            /\ connected' = connected
            /\ claimed' = claimed /\ recorded' = recorded /\ tOpen' = tOpen /\ sOpen' = sOpen
            /\ todo' = todo /\ interrupted' = interrupted /\ raised' = raised
            /\ step'["handler"] = step["handler"] /\ on'["handler"] = on["handler"]
            /\ dev \notin connected \cup registered
            /\ step'["host"] = "forget" /\ frame' = "close" /\ dev' = c
            /\ op' = "undo" /\ cameras' = cameras /\ registered' = registered \ {dev}
        BY <1>1, <1>16, <2>4, Goes, Turns, Types, Threads
        DEF Closed, At, TypeOK, dev, device, control, LetGo, Opening, CloseSteps, Where, Finish, Raises
      <3>2. Where'
        BY <1>1, <3>1 DEF Where, CloseSteps
      <3>3. Signals'
        BY <1>1, <3>1 DEF Signals, Handling
      <3>4. Owned'
        BY <1>1, <3>1 DEF Owned
      <3>5. Apart'
        BY <1>1, <3>1 DEF Apart, Opening, CloseSteps, Handling, InHand
      <3>6. LetGo'
        BY <1>1, <3>1 DEF LetGo, Opening, CloseSteps
      <3>7. Progress'
        BY <1>1, <3>1 DEF Progress, Opening, CloseSteps
      <3>8. ConnectedIsUsable'
        BY <1>1, <3>1 DEF ConnectedIsUsable
      <3>9. Claims'
        BY <1>1, <1>16, <2>4, <3>1
        DEF Claims, Covered, Opening, CloseSteps, dev, Apart, Where, Owned, Signals, LetGo,
            Progress, Handling, InHand
      <3> QED BY <1>1, <3>2, <3>3, <3>4, <3>5, <3>6, <3>7, <3>8, <3>9
              DEF ClaimsInv
    <2>5. ASSUME frame = "_open", op = "construct", cameras = {}, Finish({}),
                 registered' = (registered \ {dev}) \ cameras
          PROVE  ClaimsInv'
      <3>1. /\ step["host"] = "done"
            /\ connected' = connected
            /\ claimed' = claimed /\ recorded' = recorded /\ tOpen' = tOpen /\ sOpen' = sOpen
            /\ todo' = todo /\ interrupted' = interrupted /\ raised' = raised
            /\ step'["handler"] = step["handler"] /\ on'["handler"] = on["handler"]
            /\ dev \notin connected \cup registered
            /\ step'["host"] = "none" /\ frame' = "none" /\ op' = "none" /\ on' = on /\ dev' = dev
            /\ cameras' = {} /\ registered' = registered \ {dev}
        BY <1>1, <1>16, <2>5, Goes, Turns, Types, Threads
        DEF Closed, At, TypeOK, dev, device, control, LetGo, Opening, CloseSteps, Where, Finish, Raises
      <3>2. Where'
        BY <1>1, <3>1 DEF Where, CloseSteps
      <3>3. Signals'
        BY <1>1, <1>16, <2>5, <3>1, Types
        DEF Signals, Handling, Where, Closed, At, device, control
      <3>4. Owned'
        BY <1>1, <1>16, <2>5, <3>1 DEF Owned, dev, Where, LetGo
      <3>5. Apart'
        BY <1>1, <3>1 DEF Apart, Opening, CloseSteps, Handling, InHand
      <3>6. LetGo'
        BY <1>1, <3>1 DEF LetGo, Opening, CloseSteps
      <3>7. Progress'
        BY <1>1, <3>1 DEF Progress, Opening, CloseSteps
      <3>8. ConnectedIsUsable'
        BY <1>1, <3>1 DEF ConnectedIsUsable
      <3>9. Claims'
        BY <1>1, <3>1 DEF Claims, Covered, Opening, CloseSteps
      <3> QED BY <1>1, <3>2, <3>3, <3>4, <3>5, <3>6, <3>7, <3>8, <3>9
              DEF ClaimsInv
    <2>6. ASSUME NEW c \in cameras, frame = "close", c > dev, \A e \in cameras : e > dev => c <= e,
                 op' = op, CloseFrame(c), cameras' = cameras, registered' = registered
          PROVE  ClaimsInv'
      <3>1. /\ step["host"] = "done"
            /\ connected' = connected
            /\ claimed' = claimed /\ recorded' = recorded /\ tOpen' = tOpen /\ sOpen' = sOpen
            /\ todo' = todo /\ interrupted' = interrupted /\ raised' = raised
            /\ step'["handler"] = step["handler"] /\ on'["handler"] = on["handler"]
            /\ dev \notin connected \cup registered
            /\ step'["host"] = "forget" /\ frame' = "close" /\ dev' = c
            /\ op' = op /\ cameras' = cameras /\ registered' = registered
        BY <1>1, <1>16, <2>6, Goes, Turns, Types, Threads
        DEF Closed, At, TypeOK, dev, device, control, LetGo, Opening, CloseSteps, Where, Finish, Raises
      <3>2. Where'
        BY <1>1, <1>16, <2>6, <3>1 DEF Where, CloseSteps, Signals
      <3>3. Signals'
        BY <1>1, <3>1 DEF Signals, Handling
      <3>4. Owned'
        BY <1>1, <1>16, <2>6, <3>1 DEF Owned, dev, Where, LetGo
      <3>5. Apart'
        BY <1>1, <3>1 DEF Apart, Opening, CloseSteps, Handling, InHand
      <3>6. LetGo'
        BY <1>1, <1>16, <2>6, <3>1
        DEF LetGo, Opening, CloseSteps, dev, Apart, Where, Owned, Signals, Handling, InHand
      <3>7. Progress'
        BY <1>1, <3>1 DEF Progress, Opening, CloseSteps
      <3>8. ConnectedIsUsable'
        BY <1>1, <3>1 DEF ConnectedIsUsable
      <3>9. Claims'
        BY <1>1, <1>16, <2>6, <3>1, Types
        DEF Claims, Covered, Opening, CloseSteps, dev, Apart, Where, Owned, Signals, LetGo,
            Progress, Handling, InHand, Closed, At, device, control
      <3> QED BY <1>1, <3>2, <3>3, <3>4, <3>5, <3>6, <3>7, <3>8, <3>9
              DEF ClaimsInv
    <2>7. ASSUME frame = "close", \A e \in cameras : e <= dev,
                 op = "undo", Finish({}), registered' = registered \ cameras
          PROVE  ClaimsInv'
      <3>1. /\ step["host"] = "done"
            /\ connected' = connected
            /\ claimed' = claimed /\ recorded' = recorded /\ tOpen' = tOpen /\ sOpen' = sOpen
            /\ todo' = todo /\ interrupted' = interrupted /\ raised' = raised
            /\ step'["handler"] = step["handler"] /\ on'["handler"] = on["handler"]
            /\ dev \notin connected \cup registered
            /\ step'["host"] = "none" /\ frame' = "none" /\ op' = "none" /\ on' = on /\ dev' = dev
            /\ cameras' = {} /\ registered' = registered \ cameras
        BY <1>1, <1>16, <2>7, Goes, Turns, Types, Threads
        DEF Closed, At, TypeOK, dev, device, control, LetGo, Opening, CloseSteps, Where, Finish, Raises
      <3>2. Where'
        BY <1>1, <3>1 DEF Where, CloseSteps
      <3>3. Signals'
        BY <1>1, <1>16, <2>7, <3>1, Types
        DEF Signals, Handling, Where, Closed, At, device, control
      <3>4. Owned'
        BY <1>1, <3>1 DEF Owned
      <3>5. Apart'
        BY <1>1, <3>1 DEF Apart, Opening, CloseSteps, Handling, InHand
      <3>6. LetGo'
        BY <1>1, <3>1 DEF LetGo, Opening, CloseSteps
      <3>7. Progress'
        BY <1>1, <3>1 DEF Progress, Opening, CloseSteps
      <3>8. ConnectedIsUsable'
        BY <1>1, <3>1 DEF ConnectedIsUsable
      <3>9. Claims'
        BY <1>1, <1>16, <2>7, <3>1, Types
        DEF Claims, Covered, Opening, CloseSteps, dev, Apart, Where, Owned, Signals, LetGo,
            Progress, Handling, InHand, Closed, At, device, control
      <3> QED BY <1>1, <3>2, <3>3, <3>4, <3>5, <3>6, <3>7, <3>8, <3>9
              DEF ClaimsInv
    <2>8. ASSUME frame = "close", \A e \in cameras : e <= dev,
                 op # "undo", Finish(cameras), registered' = registered
          PROVE  ClaimsInv'
      <3>1. /\ step["host"] = "done"
            /\ connected' = connected
            /\ claimed' = claimed /\ recorded' = recorded /\ tOpen' = tOpen /\ sOpen' = sOpen
            /\ todo' = todo /\ interrupted' = interrupted /\ raised' = raised
            /\ step'["handler"] = step["handler"] /\ on'["handler"] = on["handler"]
            /\ dev \notin connected \cup registered
            /\ step'["host"] = "none" /\ frame' = "none" /\ op' = "none" /\ on' = on /\ dev' = dev
            /\ cameras' = cameras /\ registered' = registered
        BY <1>1, <1>16, <2>8, Goes, Turns, Types, Threads
        DEF Closed, At, TypeOK, dev, device, control, LetGo, Opening, CloseSteps, Where, Finish, Raises
      <3>2. Where'
        BY <1>1, <3>1 DEF Where, CloseSteps
      <3>3. Signals'
        BY <1>1, <1>16, <2>8, <3>1, Types
        DEF Signals, Handling, Where, Closed, At, device, control
      <3>4. Owned'
        BY <1>1, <3>1 DEF Owned
      <3>5. Apart'
        BY <1>1, <3>1 DEF Apart, Opening, CloseSteps, Handling, InHand
      <3>6. LetGo'
        BY <1>1, <3>1 DEF LetGo, Opening, CloseSteps
      <3>7. Progress'
        BY <1>1, <3>1 DEF Progress, Opening, CloseSteps
      <3>8. ConnectedIsUsable'
        BY <1>1, <3>1 DEF ConnectedIsUsable
      <3>9. Claims'
        BY <1>1, <3>1 DEF Claims, Covered, Opening, CloseSteps
      <3> QED BY <1>1, <3>2, <3>3, <3>4, <3>5, <3>6, <3>7, <3>8, <3>9
              DEF ClaimsInv
    <2>9. CASE frame = "_open" /\ op = "construct"
      <3>1. CloseFrom(cameras, 1, "undo", registered \ {dev})
        BY <1>16, <2>9 DEF Closed, Raises, ToUndo
      <3>2. \A e \in cameras : e >= 1
        BY <1>1, Types
      <3>3. cameras \in SUBSET Device /\ 1 \in Nat
        BY <1>1, Types
      <3>4. \/ \E c \in cameras :
                 /\ \A e \in cameras : e >= 1 => c <= e
                 /\ op' = "undo" /\ CloseFrame(c) /\ cameras' = cameras
                 /\ registered' = registered \ {dev}
            \/ /\ \A e \in cameras : e < 1
               /\ Finish({}) /\ registered' = (registered \ {dev}) \ cameras
        BY <1>1, <3>1, <3>3, ClosesOn
      <3>5. cameras = {} \/ \E c \in cameras : ~(c < 1)
        BY <1>1, Types
      <3> QED BY <2>4, <2>5, <2>9, <3>2, <3>4, <3>5
    <2>10. CASE frame = "close"
      <3>1. CloseFrom(cameras, dev + 1, op, registered)
        BY <1>16, <2>10 DEF Closed
      <3>2. cameras \in SUBSET Device /\ dev + 1 \in Nat /\ dev \in Nat /\ \A e \in cameras : e \in Nat
        BY <1>1, Types
      <3>3. \A e \in cameras : e \in Nat /\ (e >= dev + 1 <=> e > dev) /\ (e < dev + 1 <=> e <= dev)
        BY <3>2
      <3> HIDE DEF dev
      <3>4. \/ \E c \in cameras :
                 /\ \A e \in cameras : e >= dev + 1 => c <= e
                 /\ c >= dev + 1
                 /\ op' = op /\ CloseFrame(c) /\ cameras' = cameras /\ registered' = registered
            \/ /\ \A e \in cameras : e < dev + 1
               /\ \/ op = "undo" /\ Finish({}) /\ registered' = registered \ cameras
                  \/ op # "undo" /\ Finish(cameras) /\ registered' = registered
        BY <1>1, <3>1, <3>2, ClosesOn
      <3> QED BY <2>6, <2>7, <2>8, <2>10, <3>3, <3>4
    <2> QED BY <1>1, <1>16, <2>1, <2>2, <2>3, <2>9, <2>10 DEF Closed, Where
  <1>17. CASE Reset
    <2>1. CASE op = "reconnect"
      <3>1. /\ step["host"] = "reset" /\ ~Handling
            /\ claimed' \in {claimed, claimed \ {dev}}
            /\ connected' = connected /\ registered' = registered
            /\ recorded' = recorded /\ tOpen' = tOpen /\ sOpen' = sOpen
            /\ todo' = todo /\ interrupted' = interrupted /\ raised' = raised
            /\ step'["handler"] = step["handler"] /\ on'["handler"] = on["handler"]
            /\ step'["host"] = "claim" /\ frame' = "open" /\ dev' = dev
            /\ op' = op /\ cameras' = cameras
        BY <1>1, <1>17, <2>1, Goes, Turns, Types, Threads
        DEF Reset, At, TypeOK, dev, device, control, Owned, Where, Handling
      <3>2. Where'
        BY <1>1, <3>1 DEF Where, CloseSteps
      <3>3. Signals'
        BY <1>1, <3>1 DEF Signals, Handling
      <3>4. Owned'
        BY <1>1, <3>1 DEF Owned
      <3>5. Apart'
        BY <1>1, <3>1 DEF Apart, Opening, CloseSteps, Handling, InHand
      <3>6. LetGo'
        BY <1>1, <3>1 DEF LetGo, Opening, CloseSteps
      <3>7. Progress'
        BY <1>1, <3>1 DEF Progress, Opening, CloseSteps
      <3>8. ConnectedIsUsable'
        BY <1>1, <3>1 DEF ConnectedIsUsable
      <3>9. Claims'
        BY <1>1, <3>1 DEF Claims, Covered, Opening, CloseSteps
      <3> QED BY <1>1, <3>2, <3>3, <3>4, <3>5, <3>6, <3>7, <3>8, <3>9
              DEF ClaimsInv
    <2> QED BY <1>1, <1>17, <2>1 DEF Reset, Where, At
  <1>18. CASE Construct
    <2>1. /\ op = "none" /\ cameras = {} /\ ~Handling /\ registered = {}
          /\ registered' = registered /\ claimed' = claimed /\ recorded' = {} /\ connected' = {}
          /\ todo' = todo /\ interrupted' = interrupted /\ raised' = raised
          /\ step'["handler"] = step["handler"] /\ on'["handler"] = on["handler"]
          /\ step'["host"] = "claim" /\ frame' = "open" /\ dev' = 1
          /\ op' = "construct" /\ cameras' = {}
      BY <1>1, <1>18, Goes, Turns, Types, Threads
      DEF Construct, At, TypeOK, dev, device, control, Owned, Handling, Idle
    <2>2. Where'
      BY <1>1, <2>1 DEF Where, CloseSteps
    <2>3. Signals'
      BY <1>1, <2>1 DEF Signals, Handling
    <2>4. Owned'
      BY <1>1, <2>1 DEF Owned
    <2>5. Apart'
      BY <1>1, <2>1 DEF Apart, Opening, CloseSteps, Handling, InHand, dev, Where, Owned, Signals
    <2>6. LetGo'
      BY <1>1, <2>1 DEF LetGo, Opening, CloseSteps
    <2>7. Progress'
      BY <1>1, <2>1 DEF Progress, Opening, CloseSteps
    <2>8. ConnectedIsUsable'
      BY <1>1, <2>1 DEF ConnectedIsUsable
    <2>9. Claims'
      BY <1>1, <2>1
      DEF Claims, Covered, Opening, CloseSteps, dev, Apart, Where, Owned, Signals, LetGo,
          Progress, Handling, InHand
    <2> QED BY <1>1, <2>2, <2>3, <2>4, <2>5, <2>6, <2>7, <2>8, <2>9
            DEF ClaimsInv
  <1>19. CASE Reconnect
    <2>1. ASSUME NEW d \in cameras, op' = "reconnect", frame' = "reconnect",
                 on' = [on EXCEPT !["host"] = d], Goto("host", "forget")
          PROVE  ClaimsInv'
      <3>1. /\ op = "none" /\ sameThread /\ ~Handling
            /\ registered' = registered /\ connected' = connected
            /\ claimed' = claimed /\ recorded' = recorded /\ tOpen' = tOpen /\ sOpen' = sOpen
            /\ todo' = todo /\ interrupted' = interrupted /\ raised' = raised
            /\ step'["handler"] = step["handler"] /\ on'["handler"] = on["handler"]
            /\ step'["host"] = "forget" /\ dev' = d /\ cameras' = cameras
        BY <1>1, <1>19, <2>1, Goes, Turns, Types, Threads
        DEF Reconnect, At, TypeOK, dev, device, control, Owned, Handling, Idle
      <3>2. Where'
        BY <1>1, <1>19, <2>1, <3>1 DEF Where, CloseSteps, Signals
      <3>3. Signals'
        BY <1>1, <3>1 DEF Signals, Handling
      <3>4. Owned'
        BY <1>1, <1>19, <2>1, <3>1 DEF Owned, dev, Where, LetGo
      <3>5. Apart'
        BY <1>1, <3>1 DEF Apart, Opening, CloseSteps, Handling, InHand
      <3>6. LetGo'
        BY <1>1, <3>1 DEF LetGo, Opening, CloseSteps
      <3>7. Progress'
        BY <1>1, <3>1 DEF Progress, Opening, CloseSteps
      <3>8. ConnectedIsUsable'
        BY <1>1, <3>1 DEF ConnectedIsUsable
      <3>9. Claims'
        BY <1>1, <1>19, <2>1, <3>1
        DEF Claims, Covered, Opening, CloseSteps, dev, Apart, Where, Owned, Signals, LetGo,
            Progress, Handling, InHand
      <3> QED BY <1>1, <3>2, <3>3, <3>4, <3>5, <3>6, <3>7, <3>8, <3>9
              DEF ClaimsInv
    <2> QED BY <1>19, <2>1 DEF Reconnect
  <1>20. CASE Close
    <2>1. ASSUME NEW c \in cameras, \A e \in cameras : c <= e,
                 op' = "close", CloseFrame(c), cameras' = cameras, registered' = registered
          PROVE  ClaimsInv'
      <3>1. /\ op = "none" /\ step["host"] = "none"
            /\ connected' = connected
            /\ claimed' = claimed /\ recorded' = recorded /\ tOpen' = tOpen /\ sOpen' = sOpen
            /\ todo' = todo /\ interrupted' = interrupted /\ raised' = raised
            /\ step'["handler"] = step["handler"] /\ on'["handler"] = on["handler"]
            /\ step'["host"] = "forget" /\ frame' = "close" /\ dev' = c
            /\ op' = "close" /\ cameras' = cameras /\ registered' = registered
        BY <1>1, <1>20, <2>1, Goes, Turns, Types, Threads
        DEF Close, At, TypeOK, dev, device, control, Where, Idle
      <3>2. Where'
        BY <1>1, <3>1 DEF Where, CloseSteps
      <3>3. Signals'
        BY <1>1, <3>1 DEF Signals, Handling
      <3>4. Owned'
        BY <1>1, <3>1 DEF Owned
      <3>5. Apart'
        BY <1>1, <3>1 DEF Apart, Opening, CloseSteps, Handling, InHand
      <3>6. LetGo'
        BY <1>1, <3>1 DEF LetGo, Opening, CloseSteps
      <3>7. Progress'
        BY <1>1, <3>1 DEF Progress, Opening, CloseSteps
      <3>8. ConnectedIsUsable'
        BY <1>1, <3>1 DEF ConnectedIsUsable
      <3>9. Claims'
        BY <1>1, <1>20, <2>1, <3>1, Types
        DEF Claims, Covered, Opening, CloseSteps, dev, Apart, Where, Owned, Signals, LetGo,
            Progress, Handling, InHand, Close, At, device, control
      <3> QED BY <1>1, <3>2, <3>3, <3>4, <3>5, <3>6, <3>7, <3>8, <3>9
              DEF ClaimsInv
    <2>2. CloseFrom(cameras, 1, "close", registered)
      BY <1>20 DEF Close
    <2>3. cameras \in SUBSET Device /\ 1 \in Nat
      BY <1>1, Types
    <2>4. \E c \in cameras : ~(c < 1)
      BY <1>1, <1>20, Types DEF Close
    <2>5. \A e \in cameras : e >= 1
      BY <1>1, Types
    <2>6. \E c \in cameras :
             /\ \A e \in cameras : e >= 1 => c <= e
             /\ op' = "close" /\ CloseFrame(c) /\ cameras' = cameras /\ registered' = registered
      BY <1>1, <2>2, <2>3, <2>4, ClosesOn
    <2> QED BY <2>1, <2>5, <2>6
  <1>21. CASE Drop
    <2>1. /\ op = "none" /\ registered = {} /\ ~Handling
          /\ registered' = registered /\ connected' = connected
          /\ claimed' = claimed /\ recorded' = recorded /\ tOpen' = tOpen /\ sOpen' = sOpen
          /\ todo' = todo /\ interrupted' = interrupted /\ raised' = raised
          /\ step'["host"] = step["host"] /\ dev' = dev /\ on' = on
          /\ step'["handler"] = step["handler"] /\ on'["handler"] = on["handler"]
          /\ cameras' = {} /\ op' = op /\ frame' = frame
      BY <1>1, <1>21, Goes, Turns, Types, Threads
      DEF Drop, At, TypeOK, dev, device, control, Owned, Handling, Idle
    <2>2. Where'
      BY <1>1, <2>1 DEF Where, CloseSteps
    <2>3. Signals'
      BY <1>1, <2>1 DEF Signals, Handling
    <2>4. Owned'
      BY <1>1, <2>1 DEF Owned
    <2>5. Apart'
      BY <1>1, <2>1 DEF Apart, Opening, CloseSteps, Handling, InHand
    <2>6. LetGo'
      BY <1>1, <2>1 DEF LetGo, Opening, CloseSteps
    <2>7. Progress'
      BY <1>1, <2>1 DEF Progress, Opening, CloseSteps
    <2>8. ConnectedIsUsable'
      BY <1>1, <2>1 DEF ConnectedIsUsable
    <2>9. Claims'
      BY <1>1, <2>1 DEF Claims, Covered, Opening, CloseSteps
    <2> QED BY <1>1, <2>2, <2>3, <2>4, <2>5, <2>6, <2>7, <2>8, <2>9
            DEF ClaimsInv
  <1>22. CASE Signal
    <2>1. /\ step["handler"] = "none" /\ ~interrupted
          /\ registered' = registered /\ connected' = connected
          /\ claimed' = claimed /\ recorded' = recorded /\ tOpen' = tOpen /\ sOpen' = sOpen
          /\ todo' = registered /\ interrupted' = interrupted /\ raised' = raised
          /\ step'["host"] = step["host"] /\ dev' = dev /\ on' = on
          /\ cameras' = cameras /\ op' = op /\ frame' = frame
          /\ step'["handler"] = "next"
      BY <1>1, <1>22, Goes, Turns, Types, Threads
      DEF Signal, At, TypeOK, dev, device, control
    <2>2. Where'
      BY <1>1, <2>1 DEF Where, CloseSteps
    <2>3. Signals'
      BY <1>1, <2>1 DEF Signals, Handling
    <2>4. Owned'
      BY <1>1, <2>1 DEF Owned
    <2>5. Apart'
      <3>1. step["host"] \in OpenSteps \cup CloseSteps \cup {"none", "next", "reset"}
        BY <1>1, Threads DEF TypeOK
      <3>2. ~sameThread /\ op = "construct" /\ step["host"] # "return" => dev \notin registered
        BY <1>1, <3>1 DEF Where, LetGo, Opening, OpenSteps, CloseSteps
      <3>3. step["host"] \in Opening => dev \notin registered
        BY <1>1 DEF LetGo, Opening
      <3> QED BY <1>1, <2>1, <3>2, <3>3, Types
              DEF Apart, Owned, InHand, Opening, CloseSteps
    <2>6. LetGo'
      BY <1>1, <2>1 DEF LetGo, Opening, CloseSteps
    <2>7. Progress'
      BY <1>1, <2>1 DEF Progress, Opening, CloseSteps
    <2>8. ConnectedIsUsable'
      BY <1>1, <2>1 DEF ConnectedIsUsable
    <2>9. Claims'
      BY <1>1, <2>1 DEF Claims, Covered, Opening, CloseSteps
    <2> QED BY <1>1, <2>2, <2>3, <2>4, <2>5, <2>6, <2>7, <2>8, <2>9
            DEF ClaimsInv
  <1>23. CASE CleanupNext
    <2>1. ASSUME NEW d \in todo, todo' = todo \ {d}, on' = [on EXCEPT !["handler"] = d]
          PROVE  ClaimsInv'
      <3>1. /\ step["handler"] \in {"next", "done"}
            /\ registered' = registered /\ connected' = connected
            /\ claimed' = claimed /\ recorded' = recorded /\ tOpen' = tOpen /\ sOpen' = sOpen
            /\ interrupted' = interrupted /\ raised' = raised
            /\ step'["host"] = step["host"] /\ dev' = dev /\ on'["handler"] = d
            /\ cameras' = cameras /\ op' = op /\ frame' = frame
            /\ step'["handler"] = "forget"
        BY <1>1, <1>23, <2>1, Goes, Turns, Types, Threads
        DEF CleanupNext, At, TypeOK, dev, device, control
      <3>2. Where'
        BY <1>1, <3>1 DEF Where, CloseSteps
      <3>3. Signals'
        BY <1>1, <3>1 DEF Signals, Handling
      <3>4. Owned'
        BY <1>1, <3>1 DEF Owned
      <3>5. Apart'
        BY <1>1, <1>23, <2>1, <3>1
        DEF Apart, Opening, CloseSteps, Handling, InHand, dev, Where, Owned, Signals
      <3>6. LetGo'
        BY <1>1, <3>1 DEF LetGo, Opening, CloseSteps
      <3>7. Progress'
        BY <1>1, <3>1 DEF Progress, Opening, CloseSteps
      <3>8. ConnectedIsUsable'
        BY <1>1, <3>1 DEF ConnectedIsUsable
      <3>9. Claims'
        BY <1>1, <3>1 DEF Claims, Covered, Opening, CloseSteps
      <3> QED BY <1>1, <3>2, <3>3, <3>4, <3>5, <3>6, <3>7, <3>8, <3>9
              DEF ClaimsInv
    <2> QED BY <1>23, <2>1 DEF CleanupNext
  <1>24. CASE HandlerReturns
    <2>1. /\ step["handler"] \in {"next", "done"} /\ todo = {}
          /\ registered' = registered /\ connected' = connected /\ claimed' = claimed
          /\ recorded' = recorded /\ tOpen' = tOpen /\ sOpen' = sOpen
          /\ todo' = todo /\ interrupted' = interrupted /\ raised' = raised
          /\ step'["host"] = step["host"] /\ dev' = dev /\ on' = on
          /\ cameras' = cameras /\ op' = op /\ frame' = frame
          /\ step'["handler"] = "none"
      BY <1>1, <1>24, Goes, Turns, Types, Threads
      DEF HandlerReturns, At, TypeOK, dev, device, control
    <2>2. Where'
      BY <1>1, <2>1 DEF Where, CloseSteps
    <2>3. Signals'
      BY <1>1, <2>1 DEF Signals, Handling
    <2>4. Owned'
      BY <1>1, <2>1 DEF Owned
    <2>5. Apart'
      BY <1>1, <2>1 DEF Apart, Opening, CloseSteps, Handling, InHand
    <2>6. LetGo'
      BY <1>1, <2>1 DEF LetGo, Opening, CloseSteps
    <2>7. Progress'
      BY <1>1, <2>1 DEF Progress, Opening, CloseSteps
    <2>8. ConnectedIsUsable'
      BY <1>1, <2>1 DEF ConnectedIsUsable
    <2>9. Claims'
      BY <1>1, <2>1 DEF Claims, Covered, Opening, CloseSteps
    <2> QED BY <1>1, <2>2, <2>3, <2>4, <2>5, <2>6, <2>7, <2>8, <2>9
            DEF ClaimsInv
  <1>25. CASE HandlerRaises
    <2>1. /\ step["handler"] \in {"next", "done"} /\ todo = {}
          /\ sameThread /\ op # "none"
          /\ registered' = registered /\ connected' = connected /\ claimed' = claimed
          /\ recorded' = recorded /\ tOpen' = tOpen /\ sOpen' = sOpen
          /\ todo' = todo /\ interrupted' /\ raised'
          /\ step'["host"] = step["host"] /\ dev' = dev /\ on' = on
          /\ cameras' = cameras /\ op' = op /\ frame' = frame
          /\ step'["handler"] = "none"
      BY <1>1, <1>25, Goes, Turns, Types, Threads
      DEF HandlerRaises, At, TypeOK, dev, device, control, Idle
    <2>2. Where'
      BY <1>1, <2>1 DEF Where, CloseSteps
    <2>3. Signals'
      BY <1>1, <2>1 DEF Signals, Handling
    <2>4. Owned'
      BY <1>1, <2>1 DEF Owned
    <2>5. Apart'
      BY <1>1, <2>1 DEF Apart, Opening, CloseSteps, Handling, InHand
    <2>6. LetGo'
      BY <1>1, <2>1 DEF LetGo, Opening, CloseSteps
    <2>7. Progress'
      BY <1>1, <2>1 DEF Progress, Opening, CloseSteps
    <2>8. ConnectedIsUsable'
      BY <1>1, <2>1 DEF ConnectedIsUsable
    <2>9. Claims'
      BY <1>1, <2>1 DEF Claims, Covered, Opening, CloseSteps
    <2> QED BY <1>1, <2>2, <2>3, <2>4, <2>5, <2>6, <2>7, <2>8, <2>9
            DEF ClaimsInv
  <1>26. CASE Interrupt
    <2>1. CASE frame = "open" /\ step["host"] = "endpoints"
      <3>1. /\ sameThread /\ ~Handling /\ todo = {} /\ raised
            /\ interrupted' = FALSE /\ raised' = raised /\ todo' = todo
            /\ connected' = connected
            /\ claimed' = claimed /\ recorded' = recorded /\ tOpen' = tOpen /\ sOpen' = sOpen
            /\ step'["handler"] = step["handler"] /\ on'["handler"] = on["handler"]
            /\ step'["host"] = "release" /\ dev' = dev
            /\ cameras' = cameras /\ op' = op /\ frame' = frame /\ registered' = registered
        BY <1>1, <1>26, <2>1, Goes, Turns, Types, Threads
        DEF Interrupt, At, TypeOK, dev, device, control, Signals, Where, Raises, Finish
      <3>2. Where'
        BY <1>1, <1>26, <2>1, <3>1 DEF Where, CloseSteps, Signals
      <3>3. Signals'
        BY <1>1, <3>1 DEF Signals, Handling
      <3>4. Owned'
        BY <1>1, <3>1 DEF Owned
      <3>5. Apart'
        BY <1>1, <3>1 DEF Apart, Opening, CloseSteps, Handling, InHand
      <3>6. LetGo'
        BY <1>1, <1>26, <2>1, <3>1
        DEF LetGo, Opening, CloseSteps, dev, Apart, Where, Owned, Signals, Handling, InHand
      <3>7. Progress'
        BY <1>1, <3>1 DEF Progress, Opening, CloseSteps
      <3>8. ConnectedIsUsable'
        BY <1>1, <3>1 DEF ConnectedIsUsable
      <3>9. Claims'
        BY <1>1, <3>1 DEF Claims, Covered, Opening, CloseSteps
      <3> QED BY <1>1, <3>2, <3>3, <3>4, <3>5, <3>6, <3>7, <3>8, <3>9
              DEF ClaimsInv
    <2>2. ASSUME \/ frame = "open" /\ step["host"] # "endpoints"
                 \/ frame = "_open" /\ step["host"] \in OpenSteps
          PROVE  ClaimsInv'
      <3>1. /\ sameThread /\ ~Handling /\ todo = {} /\ raised
            /\ interrupted' = FALSE /\ raised' = raised /\ todo' = todo
            /\ connected' = connected
            /\ claimed' = claimed /\ recorded' = recorded /\ tOpen' = tOpen /\ sOpen' = sOpen
            /\ step'["handler"] = step["handler"] /\ on'["handler"] = on["handler"]
            /\ step'["host"] = "forget" /\ frame' = "_open" /\ dev' = dev
            /\ cameras' = cameras /\ op' = op /\ registered' = registered
        BY <1>1, <1>26, <2>2, Goes, Turns, Types, Threads
        DEF Interrupt, At, TypeOK, dev, device, control, Signals, Where, Raises, Finish, OpenSteps, CloseSteps
      <3>2. Where'
        BY <1>1, <1>26, <2>2, <3>1 DEF Where, CloseSteps, Signals
      <3>3. Signals'
        BY <1>1, <3>1 DEF Signals, Handling
      <3>4. Owned'
        BY <1>1, <3>1 DEF Owned
      <3>5. Apart'
        BY <1>1, <3>1 DEF Apart, Opening, CloseSteps, Handling, InHand
      <3>6. LetGo'
        BY <1>1, <3>1 DEF LetGo, Opening, CloseSteps
      <3>7. Progress'
        BY <1>1, <3>1 DEF Progress, Opening, CloseSteps
      <3>8. ConnectedIsUsable'
        BY <1>1, <3>1 DEF ConnectedIsUsable
      <3>9. Claims'
        BY <1>1, <3>1 DEF Claims, Covered, Opening, CloseSteps
      <3> QED BY <1>1, <3>2, <3>3, <3>4, <3>5, <3>6, <3>7, <3>8, <3>9
              DEF ClaimsInv
    <2>3. ASSUME Finish(cameras), registered' = registered, op = "reconnect" \/ op = "close"
          PROVE  ClaimsInv'
      <3>1. /\ sameThread /\ ~Handling /\ todo = {} /\ raised
            /\ interrupted' = FALSE /\ raised' = raised /\ todo' = todo
            /\ connected' = connected
            /\ claimed' = claimed /\ recorded' = recorded /\ tOpen' = tOpen /\ sOpen' = sOpen
            /\ step'["handler"] = step["handler"] /\ on'["handler"] = on["handler"]
            /\ step'["host"] = "none" /\ frame' = "none" /\ op' = "none" /\ on' = on /\ dev' = dev
            /\ cameras' = cameras /\ registered' = registered
        BY <1>1, <1>26, <2>3, Goes, Turns, Types, Threads
        DEF Interrupt, At, TypeOK, dev, device, control, Signals, Where, Raises, Finish
      <3>2. Where'
        BY <1>1, <3>1 DEF Where, CloseSteps
      <3>3. Signals'
        BY <1>1, <3>1 DEF Signals, Handling
      <3>4. Owned'
        BY <1>1, <1>26, <2>3, <3>1 DEF Owned, dev, Where, LetGo
      <3>5. Apart'
        BY <1>1, <3>1 DEF Apart, Opening, CloseSteps, Handling, InHand
      <3>6. LetGo'
        BY <1>1, <3>1 DEF LetGo, Opening, CloseSteps
      <3>7. Progress'
        BY <1>1, <3>1 DEF Progress, Opening, CloseSteps
      <3>8. ConnectedIsUsable'
        BY <1>1, <3>1 DEF ConnectedIsUsable
      <3>9. Claims'
        BY <1>1, <3>1 DEF Claims, Covered, Opening, CloseSteps
      <3> QED BY <1>1, <3>2, <3>3, <3>4, <3>5, <3>6, <3>7, <3>8, <3>9
              DEF ClaimsInv
    <2>4. ASSUME Finish({}), registered' = registered \ cameras, op = "undo"
          PROVE  ClaimsInv'
      <3>1. /\ sameThread /\ ~Handling /\ todo = {} /\ raised
            /\ interrupted' = FALSE /\ raised' = raised /\ todo' = todo
            /\ connected' = connected
            /\ claimed' = claimed /\ recorded' = recorded /\ tOpen' = tOpen /\ sOpen' = sOpen
            /\ step'["handler"] = step["handler"] /\ on'["handler"] = on["handler"]
            /\ step'["host"] = "none" /\ frame' = "none" /\ op' = "none" /\ on' = on /\ dev' = dev
            /\ cameras' = {} /\ registered' = registered \ cameras
        BY <1>1, <1>26, <2>4, Goes, Turns, Types, Threads
        DEF Interrupt, At, TypeOK, dev, device, control, Signals, Where, Raises, Finish
      <3>2. Where'
        BY <1>1, <3>1 DEF Where, CloseSteps
      <3>3. Signals'
        BY <1>1, <3>1 DEF Signals, Handling
      <3>4. Owned'
        BY <1>1, <1>26, <2>4, <3>1 DEF Owned, dev, Where, LetGo
      <3>5. Apart'
        BY <1>1, <3>1 DEF Apart, Opening, CloseSteps, Handling, InHand
      <3>6. LetGo'
        BY <1>1, <3>1 DEF LetGo, Opening, CloseSteps
      <3>7. Progress'
        BY <1>1, <3>1 DEF Progress, Opening, CloseSteps
      <3>8. ConnectedIsUsable'
        BY <1>1, <3>1 DEF ConnectedIsUsable
      <3>9. Claims'
        BY <1>1, <3>1 DEF Claims, Covered, Opening, CloseSteps
      <3> QED BY <1>1, <3>2, <3>3, <3>4, <3>5, <3>6, <3>7, <3>8, <3>9
              DEF ClaimsInv
    <2>5. ASSUME NEW c \in cameras, op = "construct", \A e \in cameras : c <= e,
                 op' = "undo", CloseFrame(c), cameras' = cameras, registered' = registered \ {dev}
          PROVE  ClaimsInv'
      <3>1. /\ sameThread /\ ~Handling /\ todo = {} /\ raised
            /\ interrupted' = FALSE /\ raised' = raised /\ todo' = todo
            /\ connected' = connected
            /\ claimed' = claimed /\ recorded' = recorded /\ tOpen' = tOpen /\ sOpen' = sOpen
            /\ step'["handler"] = step["handler"] /\ on'["handler"] = on["handler"]
            /\ step'["host"] = "forget" /\ frame' = "close" /\ dev' = c
            /\ op' = "undo" /\ cameras' = cameras /\ registered' = registered \ {dev}
        BY <1>1, <1>26, <2>5, Goes, Turns, Types, Threads
        DEF Interrupt, At, TypeOK, dev, device, control, Signals, Where, Raises, Finish
      <3>2. Where'
        BY <1>1, <3>1 DEF Where, CloseSteps
      <3>3. Signals'
        BY <1>1, <3>1 DEF Signals, Handling
      <3>4. Owned'
        BY <1>1, <3>1 DEF Owned
      <3>5. Apart'
        BY <1>1, <3>1 DEF Apart, Opening, CloseSteps, Handling, InHand
      <3>6. LetGo'
        BY <1>1, <3>1 DEF LetGo, Opening, CloseSteps
      <3>7. Progress'
        BY <1>1, <3>1 DEF Progress, Opening, CloseSteps
      <3>8. ConnectedIsUsable'
        BY <1>1, <3>1 DEF ConnectedIsUsable
      <3>9. Claims'
        BY <1>1, <3>1 DEF Claims, Covered, Opening, CloseSteps
      <3> QED BY <1>1, <3>2, <3>3, <3>4, <3>5, <3>6, <3>7, <3>8, <3>9
              DEF ClaimsInv
    <2>6. ASSUME op = "construct", cameras = {}, Finish({}),
                 registered' = (registered \ {dev}) \ cameras
          PROVE  ClaimsInv'
      <3>1. /\ sameThread /\ ~Handling /\ todo = {} /\ raised
            /\ interrupted' = FALSE /\ raised' = raised /\ todo' = todo
            /\ connected' = connected
            /\ claimed' = claimed /\ recorded' = recorded /\ tOpen' = tOpen /\ sOpen' = sOpen
            /\ step'["handler"] = step["handler"] /\ on'["handler"] = on["handler"]
            /\ step'["host"] = "none" /\ frame' = "none" /\ op' = "none" /\ on' = on /\ dev' = dev
            /\ cameras' = {} /\ registered' = registered \ {dev}
        BY <1>1, <1>26, <2>6, Goes, Turns, Types, Threads
        DEF Interrupt, At, TypeOK, dev, device, control, Signals, Where, Raises, Finish
      <3>2. Where'
        BY <1>1, <3>1 DEF Where, CloseSteps
      <3>3. Signals'
        BY <1>1, <3>1 DEF Signals, Handling
      <3>4. Owned'
        BY <1>1, <1>26, <2>6, <3>1 DEF Owned, dev, Where, LetGo
      <3>5. Apart'
        BY <1>1, <3>1 DEF Apart, Opening, CloseSteps, Handling, InHand
      <3>6. LetGo'
        BY <1>1, <3>1 DEF LetGo, Opening, CloseSteps
      <3>7. Progress'
        BY <1>1, <3>1 DEF Progress, Opening, CloseSteps
      <3>8. ConnectedIsUsable'
        BY <1>1, <3>1 DEF ConnectedIsUsable
      <3>9. Claims'
        BY <1>1, <3>1 DEF Claims, Covered, Opening, CloseSteps
      <3> QED BY <1>1, <3>2, <3>3, <3>4, <3>5, <3>6, <3>7, <3>8, <3>9
              DEF ClaimsInv
    <2>7. CASE Raises
      <3>1. CASE op = "construct" /\ CloseFrom(cameras, 1, "undo", registered \ {dev})
        <4>1. cameras \in SUBSET Device /\ 1 \in Nat
          BY <1>1, Types
        <4>2. \A e \in cameras : e >= 1 /\ ~(e < 1)
          BY <1>1, Types
        <4>3. \/ \E c \in cameras :
                   /\ \A e \in cameras : e >= 1 => c <= e
                   /\ op' = "undo" /\ CloseFrame(c) /\ cameras' = cameras
                   /\ registered' = registered \ {dev}
              \/ /\ \A e \in cameras : e < 1
                 /\ Finish({}) /\ registered' = (registered \ {dev}) \ cameras
          BY <1>1, <3>1, <4>1, ClosesOn
        <4>4. cameras = {} \/ \E c \in cameras : ~(c < 1)
          BY <4>2
        <4> QED BY <2>5, <2>6, <3>1, <4>2, <4>3, <4>4
      <3> QED BY <2>3, <2>4, <2>7, <3>1 DEF Raises, ToUndo
    <2> QED BY <1>26, <2>1, <2>2, <2>7 DEF Interrupt
  <1>27. CASE UNCHANGED vars
    <2>1. dev' = dev
      BY <1>27 DEF vars, dev
    <2> QED BY <1>1, <1>27, <2>1
            DEF vars, device, control, ClaimsInv, Where, Signals, Handling, Owned, InHand, Apart,
                LetGo, Progress, ConnectedIsUsable, Covered, Claims
  <1> QED BY <1>1, <1>2, <1>3, <1>4, <1>5, <1>6, <1>7, <1>8, <1>9, <1>10, <1>11, <1>12, <1>13, <1>14,
             <1>15, <1>16, <1>17, <1>18, <1>19, <1>20, <1>21, <1>22, <1>23, <1>24, <1>25, <1>26,
             <1>27
          DEF Next, CloseStep

-----------------------------------------------------------------------------
(* The theorems. *)

LEMMA ClaimsInit ==
    ASSUME Init
    PROVE  ClaimsInv
  <1>1. \A t \in Thread : step[t] = "none" /\ on[t] = 1
    BY DEF Init
  <1>2. step["host"] = "none" /\ step["handler"] = "none" /\ dev = 1
    BY <1>1, Threads DEF dev
  <1>3. TypeOK
    <2>1. on \in [Thread -> Device]
      BY ClaimsAssumption DEF Init, ClaimsAssumption, Device
    <2>2. step \in [Thread -> OpenSteps \cup CloseSteps \cup {"none", "next", "reset"}]
      BY DEF Init
    <2>3. \A set \in {claimed, recorded, tOpen, sOpen, connected, registered, cameras, todo} :
             set \subseteq Device
      BY DEF Init
    <2>4. /\ sameThread \in BOOLEAN /\ op = "none" /\ frame = "none"
          /\ interrupted \in BOOLEAN /\ raised \in BOOLEAN
      BY Zenon DEF Init
    <2>5. signals \in 0..MaxSignals
      BY ClaimsAssumption DEF Init, ClaimsAssumption
    <2> QED BY <2>1, <2>2, <2>3, <2>4, <2>5 DEF TypeOK
  <1> QED BY <1>2, <1>3
          DEF Init, ClaimsInv, Where, Signals, Handling, Owned, InHand, Opening, CloseSteps,
              Apart, LetGo, Progress, ConnectedIsUsable, Claims

LEMMA ClaimsAlways ==
    ASSUME ~Reconnects
    PROVE  Spec => []ClaimsInv
  <1>1. Init => ClaimsInv
    BY ClaimsInit
  <1>2. ClaimsInv /\ [Next]_vars => ClaimsInv'
    BY ClaimsStep
  <1> QED BY <1>1, <1>2, PTL DEF Spec

(* Whatever the host and the handler do, beside or on top of one another,  *)
(* with any number of cameras and signals and with a worker that           *)
(* reconnects, every variable keeps its type: no loop over the cameras     *)
(* runs past the last of them (multicam.py, __init__ and close;            *)
(* device.py, _cleanup_all).                                               *)
THEOREM TypeCorrect == Spec => []TypeOK
  <1>1. Init => TypeOK
    BY ClaimsInit DEF ClaimsInv
  <1>2. TypeOK /\ [Next]_vars => TypeOK'
    BY TypeStep
  <1> QED BY <1>1, <1>2, PTL DEF Spec

(* A device that says it is connected, or that the handler would close,    *)
(* has its interface claimed, the claim recorded, and its transport and    *)
(* session open, wherever a step failed or an exception struck             *)
(* (device.py, ChdkDevice._open and close).                                *)
THEOREM ConnectedUsable ==
    ASSUME ~Reconnects
    PROVE  Spec => []ConnectedIsUsable
  <1>1. ClaimsInv => ConnectedIsUsable
    BY DEF ClaimsInv
  <1> QED BY <1>1, ClaimsAlways, PTL

(* With nothing under way and no exception out of the handler so far, what *)
(* is claimed belongs to a camera that the caller has and the registry     *)
(* knows (multicam.py, MultiCam.__init__ and close; device.py, _open).     *)
THEOREM NothingIsOrphaned ==
    ASSUME ~Reconnects
    PROVE  Spec => []NothingOrphaned
  <1>1. ClaimsInv => NothingOrphaned
    <2> SUFFICES ASSUME ClaimsInv, Undisturbed, op = "none", step["handler"] = "none",
                        NEW d \in claimed
                 PROVE  d \in registered \cap cameras
      BY DEF NothingOrphaned, Idle
    <2>1. step["host"] = "none"
      BY DEF ClaimsInv, Where
    <2>2. Covered(d)
      BY DEF ClaimsInv, Claims
    <2>3. d \in registered
      BY <2>1, <2>2 DEF Covered, Opening
    <2> QED BY <2>3 DEF ClaimsInv, Owned
  <1> QED BY <1>1, ClaimsAlways, PTL

(* The steps that take the host out of PTPDevice.open.                     *)
LEMMA OpenEnds ==
    ASSUME TypeOK, Where, [Next]_vars, frame = "open", frame' # "open"
    PROVE  ClaimFails \/ Endpoints \/ Closed \/ Interrupt
  <1>1. op # "none" /\ step["host"] \notin {"none", "return", "reset"}
    BY DEF Where
  <1>2. ~Return /\ ~Reset /\ ~Construct /\ ~Reconnect /\ ~Close
    BY <1>1 DEF Return, Reset, Construct, Reconnect, Close, Idle, At
  <1> QED BY <1>2
          DEF Next, vars, control, Claim, Record, EndpointsFail, SessionOpen, Connect, Register,
              CloseStep, Forget, SessionClose, Release, Clear, Dispose, Drop, Signal,
              CleanupNext, HandlerReturns, HandlerRaises

(* PTPDevice.open returns with the interface claimed or raises having      *)
(* claimed nothing, whichever of its statements fails, as long as no       *)
(* exception has come out of the handler (usb_transport.py, open).         *)
THEOREM FailedOpensLeaveNothing ==
    ASSUME ~Reconnects
    PROVE  Spec => FailedOpenLeavesNothing
  <1>1. ClaimsInv /\ ClaimsInv' /\ [Next]_vars => [Undisturbed => ClaimsOrNothing]_vars
    <2> SUFFICES ASSUME ClaimsInv, [Next]_vars, Undisturbed, frame = "open", frame' # "open"
                 PROVE  dev \in claimed' <=> step'["host"] = "session_open"
      BY DEF ClaimsOrNothing
    <2>1. TypeOK /\ Where /\ Signals /\ Progress /\ Claims
      BY DEF ClaimsInv
    <2>2. ~Interrupt
      BY <2>1 DEF Interrupt, Signals, Undisturbed
    <2>3. ClaimFails \/ Endpoints \/ Closed
      BY <2>1, <2>2, OpenEnds
    <2>4. CASE ClaimFails
      <3>1. step'["host"] = "forget" /\ step["host"] = "claim" /\ claimed' = claimed
        BY <2>1, <2>4, Goes DEF ClaimFails, At, device
      <3> QED BY <2>1, <3>1 DEF Claims
    <2>5. CASE Endpoints
      <3>1. step'["host"] = "session_open" /\ step["host"] = "endpoints" /\ claimed' = claimed
        BY <2>1, <2>5, Goes DEF Endpoints, At
      <3> QED BY <2>1, <3>1 DEF Progress, Opening
    <2>6. CASE Closed
      <3>1. step'["host"] = "forget" /\ step["host"] = "done" /\ claimed' = claimed
        BY <2>1, <2>6, Goes DEF Closed, At
      <3> QED BY <2>1, <3>1 DEF Claims
    <2> QED BY <2>3, <2>4, <2>5, <2>6
  <1> QED BY <1>1, ClaimsAlways, PTL DEF Spec, FailedOpenLeavesNothing

=============================================================================
