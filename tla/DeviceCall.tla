------------------------------ MODULE DeviceCall -----------------------------
(* The calls of one device, one after another: the abstract specification  *)
(* that ChdkCalls implements.                                              *)
EXTENDS CallPromise

VARIABLE call

Init == call \in {NotBegun(o) : o \in AllOps}

Begin == ~call.busy /\ \E o \in AllOps : call' = Begun(o)

Next == Begin \/ call' \in After(call)

Spec == Init /\ [][Next]_call
=============================================================================
