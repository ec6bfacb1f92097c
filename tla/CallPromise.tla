----------------------------- MODULE CallPromise ----------------------------
(***************************************************************************)
(* What one ChdkDevice promises the caller of a call, whatever polling,    *)
(* draining and message reading goes on underneath: the call runs its      *)
(* scripts one at a time, each to its end before the next; it comes to one *)
(* outcome of its own kind, which is honest about the script; and what was *)
(* said stays true until the next call.                                    *)
(*                                                                         *)
(* A call is a record: what was asked, whether it is under way, what its   *)
(* latest script has come to, and what the caller was told.  The operators *)
(* are functions of the record: DeviceCall makes one call of them,         *)
(* MultiCamPool one for each camera.                                       *)
(***************************************************************************)
CONSTANT RetValues         \* what a script can return

Switches == {"switch_record", "switch_play"}
AllOps   == {"lua", "submit", "shoot", "stream"} \cup Switches

(* What the call's script came to: nothing launched, not over yet, over    *)
(* without a value, with an error, or with a value.                        *)
Ends   == {"silent", "error"} \cup RetValues
Truths == {"none", "alive"} \cup Ends

Failures == {"start_refused", "script_error", "timeout", "transport"}
Returns(o) ==                 \* what each call can return ...
    CASE o = "lua"    -> RetValues \cup {"none"}
      [] o = "submit" -> {"submitted"}
      [] o = "shoot"  -> {"shot"}
      [] o = "stream" -> {"image"}
      [] OTHER        -> {"switched"}
Raises(o) ==               \* ... and what each can raise
    CASE o = "submit" -> {"start_refused", "transport"}
      [] o = "stream" -> Failures \cup {"wrong_format", "init_refused", "not_initialized",
                                        "init_late", "no_capture", "endless"}
      [] o \in Switches -> Failures \cup {"not_switched"}
      [] OTHER        -> Failures

Outcomes == {"pending"} \cup UNION {Returns(o) \cup Raises(o) : o \in AllOps}

Calls == [op : AllOps, busy : BOOLEAN, truth : Truths, outcome : Outcomes]

-----------------------------------------------------------------------------
(* An outcome and the script it speaks of.                                 *)
Honest(outcome, truth) ==
    /\ outcome \in RetValues                         => truth = outcome
    /\ outcome \in {"none", "shot"}                  => truth = "silent"
    /\ outcome = "script_error"                      => truth = "error"
    /\ outcome = "init_refused"                      => truth = "false"
    /\ outcome \in {"not_initialized", "no_capture"} => truth = "true"

CallRecord(o, busy, truth, outcome) ==
    [op |-> o, busy |-> busy, truth |-> truth, outcome |-> outcome]

NotBegun(o) == CallRecord(o, FALSE, "none", "pending")
Begun(o)    == CallRecord(o, TRUE, "none", "pending")

(* A script of the call is accepted: its only one, unless it is a switch,  *)
(* which asks get_mode() by one script after another.  None kills another. *)
Launched(c) ==
    IF c.busy /\ (c.truth = "none" \/ (c.truth # "alive" /\ c.op \in Switches))
    THEN {CallRecord(c.op, TRUE, "alive", c.outcome)} ELSE {}

(* The script ends, during the call or after a call that did not wait.     *)
Concluded(c) ==
    IF c.truth = "alive" THEN {CallRecord(c.op, c.busy, end, c.outcome) : end \in Ends} ELSE {}

(* The call returns or raises; a submission returns the moment its script  *)
(* is accepted.                                                            *)
Told(c) ==
    IF ~c.busy THEN {}
    ELSE {CallRecord(c.op, FALSE, c.truth, o) :
             o \in {o \in (Returns(c.op) \cup Raises(c.op)) \ {"submitted"} :
                       Honest(o, c.truth)}}
         \cup (IF c.op = "submit" /\ c.truth = "none"
               THEN {CallRecord("submit", FALSE, "alive", "submitted")}
               ELSE {})

After(c) == Launched(c) \cup Concluded(c) \cup Told(c)
=============================================================================
