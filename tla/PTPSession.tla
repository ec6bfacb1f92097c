----------------------------- MODULE PTPSession -----------------------------
(***************************************************************************)
(* PTPSession (ptp.py): sessions and transactions over the two bulk pipes. *)
(*                                                                         *)
(* A transaction writes a command and reads containers until it has its    *)
(* data and its response.  It takes the first containers that come: no     *)
(* transaction id is compared.  The camera answers every command once, in  *)
(* order, with an optional data phase and one response; what it has not    *)
(* delivered yet and what the host has not read yet are one sequence, the  *)
(* wire, and a read that times out is one whose container comes too late.  *)
(*                                                                         *)
(* A container is [from, kind, more]: the command it answers (counted from *)
(* 1 since the last USB reset), "DATA", a continuation of data ("REST",    *)
(* which has no header of its own) or a response ("OK", "ERR"), and the    *)
(* number of continuations that follow.  A continuation that is read where *)
(* a container should come is payload: unpack finds it too short or of no  *)
(* known type, unless its bytes happen to be those of a header, and then   *)
(* it is taken for one (misread).  A command whose data phase could not be *)
(* written is a transaction abandoned before its first read.               *)
(***************************************************************************)
EXTENDS Integers, Sequences

CONSTANTS MaxCommands,   \* bound: commands between two USB resets
          MaxTx,         \* bound: the transaction id of a session
          MaxParts       \* bound: bulk reads one data phase takes

ASSUME SessionAssumption ==
    MaxCommands \in Nat /\ MaxTx \in Nat \ {0} /\ MaxParts \in Nat

VARIABLES isOpen,      \* PTPSession._is_open
          txId,        \* PTPSession._transaction_id
          pc,          \* which read the transaction is at, "idle" between calls
          cmd,         \* the last command written: [op, wants, tx]
          parts,       \* continuations of the data phase still to be read
          result,      \* how the last call ended: [kind, from, data]
          wire,        \* containers the camera has sent or will send
          camOpen,     \* whether the camera has a session open
          sent,        \* commands written since the last reset
          answered,    \* responses read since the last reset
          abandoned,   \* calls that ended without reading a response
          misread      \* history: payload has been taken for a container

vars == <<isOpen, txId, pc, cmd, parts, result, wire, camOpen, sent, answered, abandoned,
          misread>>

Operations == {"open", "close", "call"}
Responses  == {"OK", "ERR"}
Containers == [from : 1..MaxCommands, kind : {"DATA", "REST"} \cup Responses,
               more : 0..MaxParts]
Reads      == {"data", "rest", "resp", "resp2"}
Kinds      == {"none", "ok", "error", "ptp", "value", "usb"}

TypeOK ==
    /\ isOpen \in BOOLEAN /\ camOpen \in BOOLEAN
    /\ txId \in 0..MaxTx
    /\ pc \in Reads \cup {"idle"}
    /\ cmd \in [op : Operations, wants : BOOLEAN, tx : 0..MaxTx]
    /\ parts \in 0..MaxParts
    /\ result \in [kind : Kinds, from : 0..MaxCommands, data : 0..MaxCommands]
    /\ wire \in Seq(Containers)
    /\ sent \in 0..MaxCommands /\ answered \in 0..MaxCommands
    /\ abandoned \in 0..MaxCommands /\ misread \in BOOLEAN

NoResult == [kind |-> "none", from |-> 0, data |-> 0]

Init ==
    /\ isOpen = FALSE /\ txId = 0
    /\ pc = "idle" /\ cmd = [op |-> "open", wants |-> FALSE, tx |-> 0] /\ parts = 0
    /\ result = NoResult
    /\ wire = <<>> /\ camOpen \in BOOLEAN
    /\ sent = 0 /\ answered = 0 /\ abandoned = 0 /\ misread = FALSE

-----------------------------------------------------------------------------
(* The camera's answer to command n: its data, if any, and one response.   *)

Reply(n, size, code) ==
    [i \in 1..(size + 1) |->
        IF i = size + 1 THEN [from |-> n, kind |-> code, more |-> 0]
        ELSE [from |-> n, kind |-> IF i = 1 THEN "DATA" ELSE "REST", more |-> size - i]]

Refused(o) == IF o = "open" THEN camOpen ELSE ~camOpen

Answered(o) ==
    \E code \in IF Refused(o) THEN {"ERR"} ELSE Responses :
        /\ \E size \in IF o = "call" THEN 0..MaxParts ELSE {0} :
              wire' = wire \o Reply(sent + 1, size, code)
        /\ camOpen' = IF code = "ERR" \/ o = "call" THEN camOpen ELSE (o = "open")

-----------------------------------------------------------------------------
(* A call begins: its command is written, or the write raises and nothing  *)
(* has left the host.  open() sends id 1 and leaves the counter there;     *)
(* transaction() takes the id and advances the counter before it writes.   *)

Written(o, wants) ==
    /\ sent < MaxCommands
    /\ sent' = sent + 1
    /\ Answered(o)
    /\ pc' = IF wants THEN "data" ELSE "resp"
    /\ result' = NoResult

WriteFails ==
    /\ result' = [NoResult EXCEPT !.kind = "usb"]
    /\ UNCHANGED <<pc, wire, camOpen, sent>>

Begin(o, wants, tx) ==
    /\ pc = "idle"
    /\ cmd' = [op |-> o, wants |-> wants, tx |-> tx]
    /\ Written(o, wants) \/ WriteFails
    /\ UNCHANGED <<isOpen, parts, answered, abandoned, misread>>

Open ==
    /\ Begin("open", FALSE, 1)
    /\ txId' = 1

Close ==                              \* returns early when not open
    /\ isOpen /\ txId < MaxTx
    /\ Begin("close", FALSE, txId)
    /\ txId' = txId + 1

Call ==                               \* no flag is looked at
    /\ txId < MaxTx
    /\ \E wants \in BOOLEAN : Begin("call", wants, txId)
    /\ txId' = txId + 1

-----------------------------------------------------------------------------
(* The reads.  Each takes the next container, whosever answer it is; those *)
(* for a response are of 512 bytes and leave the rest of a longer one.     *)

Take ==
    /\ wire # <<>>
    /\ wire' = Tail(wire)
    /\ answered' = IF Head(wire).kind \in Responses THEN answered + 1 ELSE answered
    /\ UNCHANGED <<txId, cmd, camOpen, sent>>

TakePart ==
    /\ wire # <<>> /\ Head(wire).kind \notin Responses
    /\ wire' = <<[Head(wire) EXCEPT !.kind = "REST"]>> \o Tail(wire)
    /\ UNCHANGED <<txId, cmd, camOpen, sent, answered>>

GoOn(p, n) ==
    /\ pc' = p /\ parts' = n
    /\ UNCHANGED <<isOpen, abandoned>>

(* The flag after a call: close() swallows PTPError and nothing else.      *)
SlipFlagKept(kind) == IF cmd.op = "open" /\ kind = "ok" THEN TRUE ELSE isOpen
FlagAfter(kind) ==
    IF cmd.op = "open" /\ kind = "ok" THEN TRUE
    ELSE IF cmd.op = "close" /\ kind \in {"ok", "error", "ptp"} THEN FALSE
    ELSE isOpen

Raise(kind, responseRead) ==
    /\ pc' = "idle" /\ parts' = 0
    /\ result' = [NoResult EXCEPT !.kind = kind]
    /\ isOpen' = FlagAfter(kind)
    /\ abandoned' = IF responseRead THEN abandoned ELSE abandoned + 1

Respond(c) ==
    LET kind == IF c.kind = "OK" THEN "ok" ELSE "error"
    IN  /\ pc' = "idle" /\ parts' = 0
        /\ result' = [result EXCEPT !.kind = kind, !.from = c.from]
        /\ isOpen' = FlagAfter(kind)
        /\ UNCHANGED abandoned

(* A continuation where a container should come.                           *)
Garbled(c) == c.kind = "REST"

SlipAnyData(c) == TRUE
IsData(c) == c.kind = "DATA"

ReceiveData ==
    /\ pc = "data"
    /\ Take
    /\ LET c == Head(wire)
       IN  IF IsData(c)
           THEN /\ GoOn(IF c.more > 0 THEN "rest" ELSE "resp", c.more)
                /\ result' = [result EXCEPT !.data = c.from]
           ELSE \/ Raise("ptp", ~Garbled(c))
                \/ Garbled(c) /\ Raise("value", FALSE)
    /\ UNCHANGED misread

(* The loop of _receive_data reads on while the data is short.             *)
SlipOneReadMore(n) == n >= 1
StillShort(n) == n > 1

ReceiveRest ==
    /\ pc = "rest"
    /\ Take
    /\ GoOn(IF StillShort(parts) THEN "rest" ELSE "resp", parts - 1)
    /\ UNCHANGED <<result, misread>>

(* _receive_response skips one data container, never two.                  *)
ReceiveResponse ==
    /\ pc \in {"resp", "resp2"}
    /\ LET c == Head(wire)
       IN  \/ Take /\ c.kind \in Responses /\ Respond(c)
           \/ /\ Take \/ TakePart
              /\ \/ IsData(c) /\ pc = "resp" /\ GoOn("resp2", 0) /\ UNCHANGED result
                 \/ IsData(c) /\ pc = "resp2" /\ Raise("ptp", FALSE)
                 \/ Garbled(c) /\ Raise("ptp", FALSE)
           \/ Take /\ Garbled(c) /\ Raise("value", FALSE)
    /\ UNCHANGED misread

(* Payload that looks like a container: data of any length, or a response  *)
(* of any code, to whichever of the two reads meets it.                    *)
TakenForData ==
    /\ pc = "data"
    /\ Take
    /\ \E n \in 0..MaxParts : GoOn(IF n > 0 THEN "rest" ELSE "resp", n)
    /\ result' = [result EXCEPT !.data = Head(wire).from]

TakenForSkipped ==
    /\ pc = "resp"
    /\ Take \/ TakePart
    /\ GoOn("resp2", 0)
    /\ UNCHANGED result

TakenForResponse ==
    /\ pc \in {"resp", "resp2"}
    /\ Take \/ TakePart
    /\ \E kind \in {"ok", "error"} :
          /\ result' = [result EXCEPT !.kind = kind, !.from = Head(wire).from]
          /\ isOpen' = FlagAfter(kind)
    /\ pc' = "idle" /\ parts' = 0 /\ abandoned' = abandoned + 1

Misread ==
    /\ wire # <<>> /\ Garbled(Head(wire))
    /\ TakenForData \/ TakenForSkipped \/ TakenForResponse
    /\ misread' = TRUE

ReadTimeout ==
    /\ pc # "idle"
    /\ Raise("usb", FALSE)
    /\ UNCHANGED <<txId, cmd, wire, camOpen, sent, answered, misread>>

-----------------------------------------------------------------------------
NewSession ==                         \* a new ChdkDevice on the same camera
    /\ pc = "idle"
    /\ isOpen' = FALSE /\ txId' = 0
    /\ result' = NoResult
    /\ UNCHANGED <<pc, cmd, parts, wire, camOpen, sent, answered, abandoned, misread>>

UsbReset ==                           \* the reset of reconnect()
    /\ pc = "idle" /\ (~isOpen \/ cmd.op = "close")
    /\ wire' = <<>> /\ camOpen' = FALSE
    /\ sent' = 0 /\ answered' = 0 /\ abandoned' = 0 /\ misread' = FALSE
    /\ result' = NoResult
    /\ UNCHANGED <<isOpen, txId, pc, cmd, parts>>

Next ==
    \/ Open \/ Close \/ Call
    \/ ReceiveData \/ ReceiveRest \/ ReceiveResponse \/ Misread \/ ReadTimeout
    \/ NewSession \/ UsbReset

Spec == Init /\ [][Next]_vars

-----------------------------------------------------------------------------
Returned == pc = "idle" /\ result.kind \in {"ok", "error"}

(* A call that reads a response reads the one of the command as many       *)
(* places back as calls have been abandoned since the last USB reset: none *)
(* abandoned, its own; one read timed out, the answer of the call before,  *)
(* and so on for every later call (transaction never looks at the id).     *)
(* It is so until payload is taken for a container.                        *)
AnswerLag == Returned /\ ~misread => result.from = sent - abandoned

(* Data and response returned together are of one command, late as both    *)
(* may be: the continuations are read to the last.                         *)
DataAndResponseTogether ==
    Returned /\ ~misread /\ cmd.wants => result.data = result.from

(* As long as no call was abandoned, open() and close() that succeed leave *)
(* the flag saying what the camera's session is, and no call that succeeds *)
(* finds the flag up over a session the camera does not have.  The flag    *)
(* may be down over one it has: close() clears it where the camera refused *)
(* to close, and transaction() never asks.                                 *)
OpenFlagHonest ==
    Returned /\ result.kind = "ok" /\ abandoned = 0 =>
        /\ isOpen => camOpen
        /\ cmd.op # "call" => (isOpen <=> camOpen)
=============================================================================
