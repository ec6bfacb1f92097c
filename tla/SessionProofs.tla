---------------------------- MODULE SessionProofs ---------------------------
(***************************************************************************)
(* What PTPSession and the file transfers over it guarantee for any number *)
(* of commands, ids, bulk reads and files: their types, the lag of the     *)
(* answers behind the commands, that data and response always come from    *)
(* one command, that the open flag is honest as long as nothing has been   *)
(* abandoned, and that it takes two abandoned calls to make a download     *)
(* return another file.                                                    *)
(*                                                                         *)
(* The argument is about the wire.  At any moment it holds the answers to  *)
(* the commands answered + 1 .. sent, whole but for a first part already   *)
(* read, each ending in its one response (Chain).  So the next response to *)
(* be read is that of command answered + 1, and answered falls behind sent *)
(* by one with every call that raises before its response (Counted).  All  *)
(* of it but Chain ends with the first payload that is taken for a         *)
(* container (misread); until then a call that is reading knows where it   *)
(* stands (Leading, InStep), and payload is misread only behind a call     *)
(* that was abandoned, so the flag's theorem needs no such premise.  The   *)
(* flag needs the converse too: whatever on the wire claims to answer the  *)
(* latest command is its answer (Wired), and says what the camera did.     *)
(*                                                                         *)
(* For the transfers: data on the wire was asked for by a command that is  *)
(* for data (Purposeful), so data read was too (DataKnown).  With no call  *)
(* abandoned a download's second command carries the path that its first   *)
(* left in the camera; with one abandoned the answer it meets is that of   *)
(* its own first command, which has no data to read (FirstHalf,            *)
(* SecondHalf).                                                            *)
(***************************************************************************)
EXTENDS FileTransfers, SequenceTheorems, TLAPS

IsResponse(c) == c.kind \in Responses

Follows(c, d) ==
    /\ d.from = IF IsResponse(c) THEN c.from + 1 ELSE c.from
    /\ ~IsResponse(c) /\ c.more > 0 => d.kind = "REST" /\ d.more = c.more - 1
    /\ ~IsResponse(c) /\ c.more = 0 => IsResponse(d)
    /\ IsResponse(c) => d.kind # "REST"

Chain(w, a, n) ==
    /\ Len(w) = 0 => n = a
    /\ Len(w) > 0 => /\ w[1].from = a + 1
                     /\ IsResponse(w[Len(w)]) /\ w[Len(w)].from = n
    /\ \A i \in 1..Len(w) : i + 1 <= Len(w) => Follows(w[i], w[i+1])

Busy == IF pc = "idle" THEN 0 ELSE 1

Calls ==
    /\ abandoned + Busy <= sent
    /\ pc = "rest" => parts > 0
    /\ misread => abandoned > 0

Counted == answered + abandoned + Busy = sent

Leading ==
    Len(wire) > 0 /\ wire[1].kind = "REST" => abandoned > 0 \/ pc \in {"rest", "resp2"}

InStep ==
    /\ pc = "data" => cmd.wants
    /\ pc = "rest" => /\ cmd.wants /\ Len(wire) > 0
                      /\ wire[1].kind = "REST" /\ wire[1].more = parts - 1
                      /\ result.data = answered + 1
    /\ pc = "resp" /\ cmd.wants => /\ Len(wire) > 0 /\ IsResponse(wire[1])
                                   /\ result.data = answered + 1
    /\ pc = "resp2" => ~cmd.wants
    /\ Returned => /\ result.from = answered
                   /\ cmd.wants => result.data = answered

IInv ==
    /\ TypeOK /\ Chain(wire, answered, sent) /\ Calls
    /\ ~misread => Counted /\ Leading /\ InStep

-----------------------------------------------------------------------------
LEMMA ContainerType ==
    ASSUME NEW c \in Containers
    PROVE  /\ c.from \in 1..MaxCommands /\ c.more \in 0..MaxParts
           /\ c.kind \in {"DATA", "REST", "OK", "ERR"}
  BY DEF Containers, Responses

(* Reading the first container leaves a chain.                             *)
LEMMA ChainTail ==
    ASSUME NEW w \in Seq(Containers), w # <<>>,
           NEW a \in Nat, NEW n \in Nat, Chain(w, a, n)
    PROVE  Chain(Tail(w), IF IsResponse(w[1]) THEN a + 1 ELSE a, n)
  <1> DEFINE t == Tail(w)
             b == IF IsResponse(w[1]) THEN a + 1 ELSE a
  <1> SUFFICES Chain(t, b, n)
    OBVIOUS
  <1>1. /\ Len(w) \in Nat \ {0} /\ t \in Seq(Containers) /\ Len(t) = Len(w) - 1
        /\ \A i \in 1..Len(t) : t[i] = w[i+1]
    BY HeadTailProperties, LenProperties, EmptySeq
  <1> HIDE DEF t
  <1>2. CASE Len(w) = 1
    <2>1. Len(t) = 0
      BY <1>1, <1>2
    <2>2. IsResponse(w[1]) /\ w[1].from = n /\ w[1].from = a + 1
      BY <1>2 DEF Chain
    <2>3. b = n
      BY <2>2
    <2> QED
      BY <2>1, <2>3 DEF Chain
  <1>3. CASE Len(w) > 1
    <2>0. 1 \in 1..Len(t) /\ Len(t) \in 1..Len(t) /\ Len(t) + 1 = Len(w)
      BY <1>1, <1>3
    <2>1. Len(t) > 0 /\ t[1] = w[1+1] /\ t[Len(t)] = w[Len(t)+1]
      BY <1>1, <1>3, <2>0
    <2>2. Follows(w[1], w[2])
      BY <1>1, <1>3 DEF Chain
    <2>3. t[1].from = b + 1
      BY <1>3, <2>1, <2>2 DEF Chain, Follows
    <2>4. IsResponse(t[Len(t)]) /\ t[Len(t)].from = n
      BY <1>3, <2>0, <2>1 DEF Chain
    <2>5. ASSUME NEW i \in 1..Len(t), i + 1 <= Len(t) PROVE Follows(t[i], t[i+1])
      <3>1. i + 1 \in 1..Len(w) /\ (i + 1) + 1 <= Len(w)
        BY <1>1, <2>5
      <3>2. Follows(w[i+1], w[(i+1)+1])
        BY <3>1 DEF Chain
      <3>3. i + 1 \in 1..Len(t)
        BY <1>1, <2>5
      <3> QED
        BY <1>1, <3>2, <3>3
    <2> QED
      BY <2>1, <2>3, <2>4, <2>5 DEF Chain
  <1> QED
    BY <1>1, <1>2, <1>3

LEMMA ReplyProperties ==
    ASSUME NEW n \in Nat, NEW size \in Nat, NEW code \in Responses
    PROVE  /\ Reply(n, size, code) \in Seq([from : {n}, kind : {"DATA", "REST"} \cup Responses,
                                            more : 0..size])
           /\ Len(Reply(n, size, code)) = size + 1
           /\ \A i \in 1..(size + 1) :
                 Reply(n, size, code)[i] =
                    IF i = size + 1 THEN [from |-> n, kind |-> code, more |-> 0]
                    ELSE [from |-> n, kind |-> IF i = 1 THEN "DATA" ELSE "REST",
                          more |-> size - i]
  <1>1. size + 1 \in Nat
    OBVIOUS
  <1>2. \A i \in 1..(size + 1) :
           (IF i = size + 1 THEN [from |-> n, kind |-> code, more |-> 0]
            ELSE [from |-> n, kind |-> IF i = 1 THEN "DATA" ELSE "REST", more |-> size - i])
             \in [from : {n}, kind : {"DATA", "REST"} \cup Responses, more : 0..size]
    OBVIOUS
  <1> QED
    BY <1>1, <1>2 DEF Reply

(* A reply is a chain of its own, and one more reply keeps the chain.      *)
LEMMA ChainReply ==
    ASSUME NEW w \in Seq(Containers), NEW a \in Nat, NEW n \in Nat, Chain(w, a, n),
           NEW size \in Nat, NEW code \in Responses
    PROVE  Chain(w \o Reply(n + 1, size, code), a, n + 1)
  <1> DEFINE r == Reply(n + 1, size, code)
             v == w \o r
             R == [from : {n + 1}, kind : {"DATA", "REST"} \cup Responses, more : 0..size]
  <1>1. /\ Len(r) = size + 1
        /\ \A i \in 1..(size + 1) :
                 r[i] = IF i = size + 1 THEN [from |-> n + 1, kind |-> code, more |-> 0]
                        ELSE [from |-> n + 1, kind |-> IF i = 1 THEN "DATA" ELSE "REST",
                              more |-> size - i]
        /\ r \in Seq(R)
    <2>1. n + 1 \in Nat
      OBVIOUS
    <2> QED
      BY <2>1, ReplyProperties
  <1> HIDE DEF r
  <1>2. /\ w \in Seq(Containers \cup R) /\ r \in Seq(Containers \cup R)
        /\ Len(w) \in Nat
    BY <1>1, LenProperties, SeqMonotonic
  <1> HIDE DEF R
  <1>3. /\ Len(v) = Len(w) + size + 1
        /\ \A i \in 1..Len(v) : v[i] = IF i <= Len(w) THEN w[i] ELSE r[i - Len(w)]
    <2>1. /\ Len(v) = Len(w) + Len(r)
          /\ \A i \in 1..Len(w) + Len(r) : v[i] = IF i <= Len(w) THEN w[i] ELSE r[i - Len(w)]
      BY <1>2, ConcatProperties
    <2> HIDE DEF v
    <2>2. Len(v) = Len(w) + size + 1
      BY <1>1, <1>2, <2>1
    <2> QED
      BY <2>1, <2>2
  <1>4. r[1].from = n + 1 /\ r[1].kind # "REST"
    <2>1. 1 \in 1..(size + 1) /\ code # "REST"
      BY DEF Responses
    <2> QED
      BY <1>1, <2>1
  <1> HIDE DEF v
  <1>6. v[1].from = a + 1
    <2>1. CASE Len(w) = 0
      BY <2>1, <1>3, <1>4 DEF Chain
    <2>2. CASE Len(w) > 0
      BY <2>2, <1>2, <1>3 DEF Chain
    <2> QED
      BY <2>1, <2>2, <1>2
  <1>7. v[Len(v)] = r[size + 1]
    BY <1>2, <1>3
  <1>8. IsResponse(v[Len(v)]) /\ v[Len(v)].from = n + 1
    BY <1>1, <1>7 DEF IsResponse
  <1>9. ASSUME NEW i \in 1..Len(v), i + 1 <= Len(v) PROVE Follows(v[i], v[i+1])
    <2>1. CASE i + 1 <= Len(w)
      <3>1. v[i] = w[i] /\ v[i+1] = w[i+1] /\ i \in 1..Len(w)
        BY <2>1, <1>2, <1>3, <1>9
      <3> QED
        BY <3>1, <2>1 DEF Chain
    <2>2. CASE i = Len(w)
      <3>1. v[i] = w[Len(w)] /\ v[i+1] = r[1] /\ Len(w) > 0
        BY <2>2, <1>2, <1>3, <1>9
      <3>2. IsResponse(w[Len(w)]) /\ w[Len(w)].from = n
        BY <3>1 DEF Chain
      <3> QED
        BY <3>1, <3>2, <1>4 DEF Follows, IsResponse
    <2>3. CASE i > Len(w)
      <3> DEFINE j == i - Len(w)
      <3>1. /\ j \in 1..size /\ j + 1 \in 1..(size + 1)
            /\ v[i] = r[j] /\ v[i+1] = r[j+1]
        BY <2>3, <1>2, <1>3, <1>9
      <3>2. r[j] = [from |-> n + 1, kind |-> IF j = 1 THEN "DATA" ELSE "REST", more |-> size - j]
        BY <1>1, <3>1
      <3>3. ~IsResponse(r[j]) /\ r[j].from = n + 1 /\ r[j].more = size - j
        BY <3>2 DEF IsResponse, Responses
      <3>4. r[j+1] = IF j + 1 = size + 1 THEN [from |-> n + 1, kind |-> code, more |-> 0]
                     ELSE [from |-> n + 1, kind |-> "REST", more |-> size - (j + 1)]
        BY <1>1, <3>1
      <3> HIDE DEF j
      <3> QED
        BY <3>1, <3>3, <3>4 DEF Follows, IsResponse
    <2> QED
      BY <2>1, <2>2, <2>3, <1>2, <1>3
  <1>10. Len(v) > 0
    BY <1>2, <1>3
  <1>11. Chain(v, a, n + 1)
    BY <1>6, <1>8, <1>9, <1>10 DEF Chain
  <1> QED
    BY <1>11 DEF v, r

-----------------------------------------------------------------------------
(* The types of what the camera appends.                                   *)
LEMMA ReplyContainers ==
    ASSUME NEW n \in 1..MaxCommands, NEW size \in 0..MaxParts, NEW code \in Responses,
           NEW w \in Seq(Containers)
    PROVE  w \o Reply(n, size, code) \in Seq(Containers)
  <1> DEFINE R == [from : {n}, kind : {"DATA", "REST"} \cup Responses, more : 0..size]
  <1>1. n \in Nat /\ size \in Nat
    BY SessionAssumption DEF SessionAssumption
  <1>2. R \subseteq Containers
    BY <1>1, SessionAssumption DEF Containers
  <1>3. Reply(n, size, code) \in Seq(R)
    BY <1>1, ReplyProperties
  <1> HIDE DEF R
  <1>4. Reply(n, size, code) \in Seq(Containers)
    BY <1>2, <1>3, SeqMonotonic
  <1> QED
    BY <1>4, ConcatProperties

LEMMA InitInv == Init => IInv
  <1> SUFFICES ASSUME Init PROVE IInv
    OBVIOUS
  <1>1. wire \in Seq(Containers) /\ Len(wire) = 0
    BY EmptySeq DEF Init
  <1>2. TypeOK
    <2>1. 0 \in 0..MaxCommands /\ 0 \in 0..MaxTx /\ 0 \in 0..MaxParts
      BY SessionAssumption DEF SessionAssumption
    <2>2. cmd \in [op : Operations, wants : BOOLEAN, tx : 0..MaxTx]
      BY <2>1 DEF Init, Operations
    <2>3. result \in [kind : Kinds, from : 0..MaxCommands, data : 0..MaxCommands]
      BY <2>1 DEF Init, NoResult, Kinds
    <2> QED
      BY <1>1, <2>1, <2>2, <2>3 DEF Init, TypeOK
  <1>3. Chain(wire, answered, sent)
    BY <1>1 DEF Init, Chain
  <1>4. Calls
    BY DEF Init, Calls, Busy
  <1>5. Counted /\ Leading /\ InStep
    BY <1>1 DEF Init, Counted, Busy, Leading, InStep, Returned, NoResult
  <1> QED
    BY <1>2, <1>3, <1>4, <1>5 DEF IInv

(* What is first on the wire stays first, and no answer begins with a      *)
(* continuation.                                                           *)
LEMMA FirstOfReply ==
    ASSUME NEW n \in Nat, NEW size \in Nat, NEW code \in Responses, NEW w \in Seq(Containers)
    PROVE  LET v == w \o Reply(n, size, code)
           IN  IF Len(w) > 0 THEN v[1] = w[1] ELSE v[1].kind # "REST"
  <1> DEFINE r == Reply(n, size, code)
             R == [from : {n}, kind : {"DATA", "REST"} \cup Responses, more : 0..size]
  <1>1. /\ r \in Seq(R) /\ Len(r) = size + 1 /\ 1 \in 1..(size + 1)
        /\ r[1] = IF 1 = size + 1 THEN [from |-> n, kind |-> code, more |-> 0]
                  ELSE [from |-> n, kind |-> "DATA", more |-> size - 1]
    <2>1. 1 \in 1..(size + 1)
      OBVIOUS
    <2> QED
      BY <2>1, ReplyProperties
  <1>2. r[1].kind # "REST"
    BY <1>1 DEF Responses
  <1> HIDE DEF r
  <1>3. /\ w \in Seq(Containers \cup R) /\ r \in Seq(Containers \cup R)
        /\ Len(w) \in Nat
    BY <1>1, LenProperties, SeqMonotonic
  <1> HIDE DEF R
  <1>4. \A i \in 1..Len(w) + Len(r) : (w \o r)[i] = IF i <= Len(w) THEN w[i] ELSE r[i - Len(w)]
    BY <1>3, ConcatProperties
  <1>5. 1 \in 1..Len(w) + Len(r)
    BY <1>1, <1>3
  <1>6. CASE Len(w) > 0
    BY <1>3, <1>4, <1>5, <1>6 DEF r
  <1>7. CASE ~(Len(w) > 0)
    <2>1. Len(w) = 0 /\ (w \o r)[1] = r[1]
      BY <1>3, <1>4, <1>5, <1>7
    <2> QED
      BY <1>2, <1>7, <2>1 DEF r
  <1> QED
    BY <1>6, <1>7

(* A call begins.                                                          *)
LEMMA BeginInv ==
    ASSUME IInv, NEW o \in Operations, NEW wants \in BOOLEAN, NEW tx \in 0..MaxTx,
           Begin(o, wants, tx), txId' \in 0..MaxTx
    PROVE  IInv'
  <1> USE SessionAssumption DEF IInv
  <1>0. pc = "idle" /\ misread' = misread /\ abandoned' = abandoned /\ answered' = answered
    BY DEF Begin
  <1>1. CASE WriteFails
    <2>1. /\ TypeOK'
      BY <1>1 DEF TypeOK, Begin, WriteFails, NoResult, Kinds
    <2>2. /\ wire' = wire /\ sent' = sent /\ pc' = pc /\ pc' = "idle"
          /\ result'.kind \notin {"ok", "error"}
      BY <1>0, <1>1 DEF WriteFails, NoResult
    <2>3. Chain(wire, answered, sent)' /\ Calls'
      BY <1>0, <2>2 DEF Calls, Busy
    <2>4. ~misread => Counted' /\ Leading' /\ InStep'
      BY <1>0, <2>2 DEF Counted, Busy, Leading, InStep, Returned
    <2> QED
      BY <1>0, <2>1, <2>3, <2>4
  <1>2. CASE Written(o, wants)
    <2>1. PICK code \in Responses, size \in 0..MaxParts :
             /\ wire' = wire \o Reply(sent + 1, size, code)
             /\ camOpen' = IF code = "ERR" \/ o = "call" THEN camOpen ELSE (o = "open")
      <3>1. PICK code \in IF Refused(o) THEN {"ERR"} ELSE Responses :
               /\ \E size \in IF o = "call" THEN 0..MaxParts ELSE {0} :
                     wire' = wire \o Reply(sent + 1, size, code)
               /\ camOpen' = IF code = "ERR" \/ o = "call" THEN camOpen ELSE (o = "open")
        BY <1>2 DEF Written, Answered
      <3>2. PICK size \in IF o = "call" THEN 0..MaxParts ELSE {0} :
               wire' = wire \o Reply(sent + 1, size, code)
        BY <3>1
      <3>3. code \in Responses /\ size \in 0..MaxParts
        BY DEF Responses, SessionAssumption
      <3> QED
        BY <3>1, <3>2, <3>3
    <2>2. sent + 1 \in 1..MaxCommands /\ size \in Nat /\ answered \in Nat /\ sent \in Nat
      BY <1>2 DEF Written, TypeOK
    <2>3. wire' \in Seq(Containers)
      BY <2>1, <2>2, ReplyContainers DEF TypeOK
    <2>4. camOpen' \in BOOLEAN
      BY <2>1 DEF TypeOK
    <2>5. TypeOK'
      BY <1>2, <2>2, <2>3, <2>4 DEF TypeOK, Begin, Written, NoResult, Kinds, Reads
    <2>6. Chain(wire', answered, sent + 1)
      BY <2>1, <2>2, ChainReply DEF TypeOK
    <2>7. Chain(wire, answered, sent)'
      BY <1>2, <2>6 DEF Begin, Written
    <2>8. sent' = sent + 1 /\ pc' \in {"data", "resp"} /\ (pc' = "data" => cmd'.wants)
          /\ result'.kind = "none" /\ parts' = parts
          /\ result'.data = 0 /\ cmd'.wants = wants /\ (wants => pc' = "data")
      BY <1>2 DEF Begin, Written, NoResult
    <2>9. Calls'
      BY <1>0, <2>2, <2>8 DEF TypeOK, Calls, Busy
    <2>10. ~misread => Counted'
      BY <1>0, <2>2, <2>8 DEF TypeOK, Counted, Busy
    <2>11. ~misread => Leading'
      <3>1. IF Len(wire) > 0 THEN wire'[1] = wire[1] ELSE wire'[1].kind # "REST"
        <4>1. sent + 1 \in Nat /\ wire \in Seq(Containers)
          BY <2>2 DEF TypeOK
        <4> DEFINE v == wire \o Reply(sent + 1, size, code)
        <4>2. IF Len(wire) > 0 THEN v[1] = wire[1] ELSE v[1].kind # "REST"
          BY <2>2, <4>1, FirstOfReply
        <4> HIDE DEF v
        <4>3. wire' = v
          BY <2>1 DEF v
        <4> QED
          BY <4>2, <4>3
      <3>2. CASE Len(wire) > 0
        BY <1>0, <3>1, <3>2 DEF Leading
      <3>3. CASE ~(Len(wire) > 0)
        BY <3>1, <3>3 DEF Leading
      <3> QED
        BY <3>2, <3>3
    <2>12. InStep'
      BY <2>8 DEF InStep, Returned
    <2> QED
      BY <1>0, <2>5, <2>7, <2>9, <2>10, <2>11, <2>12
  <1> QED
    BY <1>1, <1>2 DEF Begin

(* Reading a container: the wire, the count of responses and their types.  *)
LEMMA TakeInv ==
    ASSUME IInv, Take
    PROVE  /\ wire \in Seq(Containers) /\ Len(wire) > 0
           /\ Head(wire) = wire[1] /\ wire[1] \in Containers
           /\ wire' \in Seq(Containers) /\ answered \in Nat /\ sent \in Nat
           /\ answered' = IF IsResponse(wire[1]) THEN answered + 1 ELSE answered
           /\ Chain(wire, answered, sent)'
           /\ wire[1].from = answered + 1
           /\ answered' \in 0..MaxCommands
           /\ txId' = txId /\ cmd' = cmd /\ camOpen' = camOpen /\ sent' = sent
           /\ ~IsResponse(wire[1]) =>
                 /\ Len(wire') > 0
                 /\ wire[1].more > 0 => wire'[1].kind = "REST" /\ wire'[1].more = wire[1].more - 1
                 /\ wire[1].more = 0 => IsResponse(wire'[1])
           /\ IsResponse(wire[1]) /\ Len(wire') > 0 => wire'[1].kind # "REST"
  <1>1. /\ wire \in Seq(Containers) /\ wire # <<>> /\ wire' = Tail(wire)
        /\ answered \in 0..MaxCommands /\ sent \in 0..MaxCommands
    BY DEF IInv, TypeOK, Take
  <1>2. /\ Len(wire) \in Nat \ {0} /\ Head(wire) = wire[1] /\ wire[1] \in Containers
        /\ wire' \in Seq(Containers) /\ Len(wire') = Len(wire) - 1
        /\ \A i \in 1..Len(wire') : wire'[i] = wire[i+1]
    BY <1>1, HeadTailProperties, LenProperties, EmptySeq, ElementOfSeq
  <1>3. answered' = IF IsResponse(wire[1]) THEN answered + 1 ELSE answered
    BY <1>2 DEF Take, IsResponse
  <1>4. sent' = sent /\ answered \in Nat /\ sent \in Nat
    BY <1>1, SessionAssumption DEF Take, SessionAssumption
  <1>5. Chain(Tail(wire), answered', sent)
    BY <1>1, <1>3, <1>4, ChainTail DEF IInv
  <1>6. Chain(wire, answered, sent)'
    BY <1>1, <1>4, <1>5
  <1>7. wire[1].from = answered + 1 /\ (Len(wire) = 1 => IsResponse(wire[1]))
    BY <1>2 DEF IInv, Chain
  <1>8. answered' \in 0..MaxCommands
    <2>1. wire[1].from \in 1..MaxCommands
      BY <1>2, ContainerType
    <2> QED
      BY <1>1, <1>3, <1>7, <2>1, SessionAssumption DEF SessionAssumption
  <1>9. ASSUME Len(wire') > 0
        PROVE  wire'[1] = wire[1+1] /\ Follows(wire[1], wire'[1])
    BY <1>2, <1>9 DEF IInv, Chain
  <1>10. ASSUME ~IsResponse(wire[1])
         PROVE  /\ Len(wire') > 0
                /\ wire[1].more > 0 => wire'[1].kind = "REST" /\ wire'[1].more = wire[1].more - 1
                /\ wire[1].more = 0 => IsResponse(wire'[1])
    <2>1. Len(wire') > 0
      BY <1>2, <1>7, <1>10
    <2> QED
      BY <1>9, <1>10, <2>1 DEF Follows
  <1>11. IsResponse(wire[1]) /\ Len(wire') > 0 => wire'[1].kind # "REST"
    BY <1>9 DEF Follows
  <1> QED
    BY <1>1, <1>2, <1>3, <1>4, <1>6, <1>7, <1>8, <1>10, <1>11 DEF Take

(* Reading the beginning of a long container: what is left of it is the    *)
(* same container, without its header.                                     *)
LEMMA PartInv ==
    ASSUME IInv, TakePart
    PROVE  /\ wire \in Seq(Containers) /\ Len(wire) > 0
           /\ Head(wire) = wire[1] /\ wire[1] \in Containers /\ ~IsResponse(wire[1])
           /\ wire' \in Seq(Containers) /\ Len(wire') = Len(wire) /\ Len(wire) \in Nat
           /\ \A i \in 1..Len(wire) :
                 wire'[i] = IF i = 1 THEN [wire[1] EXCEPT !.kind = "REST"] ELSE wire[i]
           /\ answered' = answered /\ answered' \in 0..MaxCommands
           /\ Chain(wire, answered, sent)'
           /\ wire[1].from = answered + 1
           /\ txId' = txId /\ cmd' = cmd /\ camOpen' = camOpen /\ sent' = sent
  <1> DEFINE d == [Head(wire) EXCEPT !.kind = "REST"]
  <1>1. /\ wire \in Seq(Containers) /\ wire # <<>> /\ wire' = <<d>> \o Tail(wire)
        /\ answered' = answered /\ answered' \in 0..MaxCommands
        /\ txId' = txId /\ cmd' = cmd /\ camOpen' = camOpen /\ sent' = sent
    BY DEF IInv, TypeOK, TakePart
  <1>2. /\ Len(wire) \in Nat \ {0} /\ Head(wire) = wire[1] /\ wire[1] \in Containers
        /\ Tail(wire) \in Seq(Containers) /\ Len(Tail(wire)) = Len(wire) - 1
        /\ \A i \in 1..Len(Tail(wire)) : Tail(wire)[i] = wire[i+1]
    BY <1>1, HeadTailProperties, LenProperties, EmptySeq, ElementOfSeq
  <1>3. d \in Containers /\ d.kind = "REST" /\ d.from = wire[1].from /\ d.more = wire[1].more
    BY <1>2 DEF Containers
  <1>4. d = [wire[1] EXCEPT !.kind = "REST"]
    BY <1>2
  <1> HIDE DEF d
  <1>5. /\ wire' \in Seq(Containers) /\ Len(wire') = Len(wire)
        /\ \A i \in 1..Len(wire) : wire'[i] = IF i = 1 THEN d ELSE wire[i]
    BY <1>1, <1>2, <1>3
  <1>6. ~IsResponse(wire[1])
    BY <1>2 DEF TakePart, IsResponse
  <1>7. ~IsResponse(d)
    BY <1>3 DEF IsResponse, Responses
  <1>8. /\ wire[1].from = answered + 1 /\ Len(wire) > 1
        /\ IsResponse(wire[Len(wire)]) /\ wire[Len(wire)].from = sent
        /\ \A i \in 1..Len(wire) : i + 1 <= Len(wire) => Follows(wire[i], wire[i+1])
    BY <1>2, <1>6 DEF IInv, Chain
  <1>9. wire'[1].from = answered' + 1 /\ IsResponse(wire'[Len(wire')])
        /\ wire'[Len(wire')].from = sent'
    BY <1>1, <1>2, <1>3, <1>5, <1>8
  <1>10. ASSUME NEW i \in 1..Len(wire'), i + 1 <= Len(wire')
         PROVE  Follows(wire'[i], wire'[i+1])
    <2>1. wire'[i+1] = wire[i+1] /\ Follows(wire[i], wire[i+1])
      BY <1>2, <1>5, <1>8, <1>10
    <2>2. CASE i = 1
      <3>1. wire'[i] = d /\ Follows(wire[1], wire[i+1])
        BY <1>2, <1>5, <2>1, <2>2
      <3> QED
        BY <1>3, <1>6, <1>7, <2>1, <3>1 DEF Follows
    <2>3. CASE i # 1
      BY <1>5, <1>10, <2>1, <2>3
    <2> QED
      BY <2>2, <2>3
  <1>11. Chain(wire, answered, sent)'
    <2>1. ~(Len(wire') = 0) /\ Len(wire') > 0
      BY <1>2, <1>5
    <2> QED
      BY <1>9, <1>10, <2>1 DEF Chain
  <1>12. \A i \in 1..Len(wire) :
            wire'[i] = IF i = 1 THEN [wire[1] EXCEPT !.kind = "REST"] ELSE wire[i]
    BY <1>4, <1>5
  <1>13. Len(wire) \in Nat /\ Len(wire) > 0
    BY <1>2
  <1> QED
    BY <1>1, <1>2, <1>5, <1>6, <1>8, <1>11, <1>12, <1>13

-----------------------------------------------------------------------------
(* The two ways a call ends at a read, given what the read leaves behind.  *)
LEMMA RaiseInv ==
    ASSUME IInv, pc # "idle",
           NEW kind \in {"ptp", "value", "usb"}, NEW read \in BOOLEAN, Raise(kind, read),
           TypeOK => wire' \in Seq(Containers),
           answered' \in 0..MaxCommands,
           answered' = IF read THEN answered + 1 ELSE answered,
           read /\ Len(wire') > 0 => wire'[1].kind # "REST",
           Chain(wire, answered, sent)',
           txId' = txId, cmd' = cmd, camOpen' = camOpen, sent' = sent, misread' = misread
    PROVE  IInv'
  <1>1. answered \in Nat /\ abandoned \in Nat /\ sent \in 0..MaxCommands
        /\ abandoned + 1 <= sent
    BY SessionAssumption DEF IInv, TypeOK, Calls, Busy, SessionAssumption
  <1>2. abandoned' = IF read THEN abandoned ELSE abandoned + 1
    BY DEF Raise
  <1>3. abandoned' \in 0..MaxCommands
    BY <1>1, <1>2, SessionAssumption DEF SessionAssumption
  <1>4. result' \in [kind : Kinds, from : 0..MaxCommands, data : 0..MaxCommands]
    BY SessionAssumption DEF SessionAssumption, Raise, NoResult, Kinds
  <1>5. isOpen' \in BOOLEAN /\ camOpen' \in BOOLEAN /\ misread' \in BOOLEAN
    BY DEF IInv, TypeOK, Raise, FlagAfter
  <1>6. parts' \in 0..MaxParts
    BY SessionAssumption DEF SessionAssumption, Raise
  <1>7. TypeOK'
    BY <1>3, <1>4, <1>5, <1>6 DEF IInv, TypeOK, Raise
  <1>8. pc' = "idle" /\ result'.kind \notin {"ok", "error"}
    BY DEF Raise, NoResult
  <1>9. InStep'
    BY <1>8 DEF InStep, Returned
  <1>10. Calls'
    BY <1>1, <1>2, <1>8 DEF IInv, Calls, Busy
  <1>11. ~misread => Counted'
    BY <1>1, <1>2, <1>8 DEF IInv, Counted, Busy
  <1>12. Leading'
    BY <1>1, <1>2 DEF Leading
  <1> QED
    BY <1>7, <1>9, <1>10, <1>11, <1>12 DEF IInv

LEMMA RespondInv ==
    ASSUME IInv, pc \in {"resp", "resp2"}, Take, misread' = misread,
           IsResponse(Head(wire)), Respond(Head(wire))
    PROVE  IInv'
  <1> DEFINE c == wire[1]
  <1>1. /\ Head(wire) = c /\ c \in Containers /\ IsResponse(c) /\ Respond(c)
        /\ wire' \in Seq(Containers) /\ answered' = answered + 1
        /\ answered' \in 0..MaxCommands
        /\ Chain(wire, answered, sent)' /\ c.from = answered + 1
        /\ txId' = txId /\ cmd' = cmd /\ camOpen' = camOpen /\ sent' = sent
        /\ Len(wire') > 0 => wire'[1].kind # "REST"
    BY TakeInv
  <1> HIDE DEF c
  <1>2. c.kind \in {"OK", "ERR"} /\ c.from \in 0..MaxCommands
    BY <1>1, ContainerType DEF IsResponse, Responses
  <1>3. pc' = "idle" /\ abandoned' = abandoned /\ parts' = 0
    BY <1>1 DEF Respond
  <1>4. /\ result' \in [kind : Kinds, from : 0..MaxCommands, data : 0..MaxCommands]
        /\ result'.from = answered' /\ result'.data = result.data
    BY <1>1, <1>2 DEF IInv, TypeOK, Respond, Kinds
  <1>5. isOpen' \in BOOLEAN
    BY <1>1 DEF IInv, TypeOK, Respond, FlagAfter
  <1>6. TypeOK'
    BY <1>1, <1>3, <1>4, <1>5, SessionAssumption DEF IInv, TypeOK, SessionAssumption
  <1>7. ~misread /\ cmd.wants => result.data = answered + 1
    BY DEF IInv, InStep
  <1>8. ~misread => InStep'
    BY <1>1, <1>3, <1>4, <1>7 DEF InStep, Returned
  <1>9. Calls' /\ (~misread => Counted' /\ Leading')
    BY <1>1, <1>3, SessionAssumption
    DEF IInv, Calls, Counted, Leading, Busy, TypeOK, SessionAssumption
  <1> QED
    BY <1>1, <1>6, <1>8, <1>9 DEF IInv

(* A read after which the call goes on.                                    *)
LEMMA GoOnInv ==
    ASSUME IInv, pc # "idle", NEW p \in Reads, NEW n \in 0..MaxParts, GoOn(p, n),
           p = "rest" => n > 0,
           wire' \in Seq(Containers), answered' \in 0..MaxCommands,
           Chain(wire, answered, sent)',
           txId' = txId, cmd' = cmd, camOpen' = camOpen, sent' = sent, misread' \in BOOLEAN,
           result' \in [kind : Kinds, from : 0..MaxCommands, data : 0..MaxCommands],
           misread' => abandoned > 0,
           ~misread' => ~misread /\ answered' = answered /\ Leading' /\ InStep'
    PROVE  IInv'
  <1>1. pc' = p /\ pc' # "idle" /\ parts' = n /\ abandoned' = abandoned /\ isOpen' = isOpen
    BY DEF GoOn, Reads
  <1>2. TypeOK'
    BY <1>1 DEF IInv, TypeOK
  <1>3. Calls'
    BY <1>1 DEF IInv, Calls, Busy
  <1>4. ~misread' => Counted'
    BY <1>1 DEF IInv, Counted, Busy
  <1> QED
    BY <1>2, <1>3, <1>4 DEF IInv

-----------------------------------------------------------------------------
(* The reads.                                                              *)
LEMMA ReceiveDataInv == IInv /\ ReceiveData => IInv'
  <1> SUFFICES ASSUME IInv, ReceiveData PROVE IInv'
    OBVIOUS
  <1> DEFINE c == wire[1]
  <1>1. /\ Head(wire) = c /\ c \in Containers /\ pc = "data" /\ misread' = misread
        /\ wire' \in Seq(Containers)
        /\ answered' = IF IsResponse(c) THEN answered + 1 ELSE answered
        /\ answered' \in 0..MaxCommands
        /\ Chain(wire, answered, sent)' /\ c.from = answered + 1
        /\ txId' = txId /\ cmd' = cmd /\ camOpen' = camOpen /\ sent' = sent
        /\ ~IsResponse(c) => /\ Len(wire') > 0
                             /\ c.more > 0 => wire'[1].kind = "REST" /\ wire'[1].more = c.more - 1
                             /\ c.more = 0 => IsResponse(wire'[1])
        /\ IsResponse(c) /\ Len(wire') > 0 => wire'[1].kind # "REST"
    BY TakeInv DEF ReceiveData
  <1>2. /\ IsData(c) => /\ GoOn(IF c.more > 0 THEN "rest" ELSE "resp", c.more)
                        /\ result' = [result EXCEPT !.data = c.from]
        /\ ~IsData(c) => \/ Raise("ptp", ~Garbled(c))
                         \/ Garbled(c) /\ Raise("value", FALSE)
    BY <1>1 DEF ReceiveData
  <1> HIDE DEF c
  <1>3. /\ c.kind \in {"DATA", "REST", "OK", "ERR"} /\ c.more \in 0..MaxParts
        /\ c.from \in 0..MaxCommands /\ misread \in BOOLEAN
    BY <1>1, ContainerType DEF IInv, TypeOK
  <1>4. CASE IsData(c)
    <2>1. ~IsResponse(c) /\ answered' = answered
      BY <1>1, <1>4 DEF IsData, IsResponse, Responses
    <2>2. /\ result' \in [kind : Kinds, from : 0..MaxCommands, data : 0..MaxCommands]
          /\ result'.data = c.from
      BY <1>2, <1>3, <1>4 DEF IInv, TypeOK
    <2> DEFINE p == IF c.more > 0 THEN "rest" ELSE "resp"
    <2>3. GoOn(p, c.more) /\ p \in Reads /\ (p = "rest" => c.more > 0)
      BY <1>2, <1>4 DEF Reads
    <2>4. pc' = p /\ parts' = c.more
      BY <2>3 DEF GoOn
    <2>5. ~misread => Leading' /\ InStep'
      <3> SUFFICES ASSUME ~misread PROVE Leading' /\ InStep'
        OBVIOUS
      <3>1. cmd.wants
        BY <1>1 DEF IInv, InStep
      <3>2. CASE c.more > 0
        BY <1>1, <1>3, <2>1, <2>2, <2>4, <3>1, <3>2, SessionAssumption
        DEF SessionAssumption, Leading, InStep, Returned
      <3>3. CASE ~(c.more > 0)
        <4>1. c.more = 0
          BY <1>3, <3>3, SessionAssumption DEF SessionAssumption
        <4>2. IsResponse(wire'[1]) /\ Len(wire') > 0 /\ pc' = "resp"
          BY <1>1, <2>1, <2>4, <4>1
        <4>3. wire'[1].kind # "REST"
          BY <4>2 DEF IsResponse, Responses
        <4> QED
          BY <1>1, <2>1, <2>2, <3>1, <4>2, <4>3 DEF Leading, InStep, Returned
      <3> QED
        BY <3>2, <3>3
    <2>6. misread' => abandoned > 0
      BY <1>1 DEF IInv, Calls
    <2> HIDE DEF p
    <2> QED
      BY <1>1, <1>3, <2>1, <2>2, <2>3, <2>5, <2>6, GoOnInv
  <1>5. CASE ~IsData(c)
    <2>1. IsResponse(c) <=> ~Garbled(c)
      BY <1>3, <1>5 DEF IsData, Garbled, IsResponse, Responses
    <2> DEFINE read == ~Garbled(c)
    <2>2. PICK kind \in {"ptp", "value"} : Raise(kind, read)
      <3>1. CASE Raise("ptp", read)
        BY <3>1
      <3>2. CASE Garbled(c) /\ Raise("value", FALSE)
        <4>1. read = FALSE
          BY <3>2
        <4> QED
          BY <3>2, <4>1
      <3> QED
        BY <1>2, <1>5, <3>1, <3>2
    <2>3. /\ answered' = IF read THEN answered + 1 ELSE answered
          /\ read /\ Len(wire') > 0 => wire'[1].kind # "REST"
      BY <1>1, <2>1
    <2>4. read \in BOOLEAN /\ pc # "idle"
      BY <1>1
    <2> HIDE DEF read
    <2> QED
      BY <1>1, <2>2, <2>3, <2>4, RaiseInv
  <1> QED
    BY <1>4, <1>5

LEMMA ReceiveRestInv == IInv /\ ReceiveRest => IInv'
  <1> SUFFICES ASSUME IInv, ReceiveRest PROVE IInv'
    OBVIOUS
  <1> DEFINE c == wire[1]
             p == IF parts > 1 THEN "rest" ELSE "resp"
  <1>1. /\ pc = "rest" /\ misread' = misread
        /\ wire' \in Seq(Containers)
        /\ answered' \in 0..MaxCommands
        /\ answered' = IF IsResponse(c) THEN answered + 1 ELSE answered
        /\ Chain(wire, answered, sent)'
        /\ txId' = txId /\ cmd' = cmd /\ camOpen' = camOpen /\ sent' = sent
        /\ ~IsResponse(c) => /\ Len(wire') > 0
                             /\ c.more > 0 => wire'[1].kind = "REST" /\ wire'[1].more = c.more - 1
                             /\ c.more = 0 => IsResponse(wire'[1])
    BY TakeInv DEF ReceiveRest
  <1> HIDE DEF c
  <1>2. /\ GoOn(p, parts - 1) /\ p \in Reads /\ result' = result
        /\ parts - 1 \in 0..MaxParts /\ (p = "rest" => parts - 1 > 0)
        /\ pc' = p /\ parts' = parts - 1
        /\ parts \in 0..MaxParts /\ parts > 0 /\ misread \in BOOLEAN
        /\ result \in [kind : Kinds, from : 0..MaxCommands, data : 0..MaxCommands]
        /\ misread' => abandoned > 0
    BY <1>1, SessionAssumption
    DEF SessionAssumption, ReceiveRest, StillShort, GoOn, IInv, TypeOK, Calls, Reads
  <1>3. ASSUME ~misread PROVE answered' = answered /\ Leading' /\ InStep'
    <2>1. cmd.wants /\ c.kind = "REST" /\ c.more = parts - 1 /\ result.data = answered + 1
      BY <1>1, <1>3 DEF IInv, InStep, c
    <2>2. ~IsResponse(c) /\ answered' = answered /\ Len(wire') > 0
      BY <1>1, <2>1 DEF IsResponse, Responses
    <2>3. CASE parts > 1
      <3>1. c.more > 0 /\ pc' = "rest"
        BY <1>2, <2>1, <2>3
      <3> QED
        BY <1>1, <1>2, <2>1, <2>2, <3>1, SessionAssumption
        DEF SessionAssumption, Leading, InStep, Returned
    <2>4. CASE ~(parts > 1)
      <3>1. parts = 1 /\ pc' = "resp"
        BY <1>2, <2>4, SessionAssumption DEF SessionAssumption
      <3>2. IsResponse(wire'[1])
        BY <1>1, <2>1, <2>2, <3>1
      <3>3. wire'[1].kind # "REST"
        BY <3>2 DEF IsResponse, Responses
      <3> QED
        BY <1>1, <1>2, <2>1, <2>2, <3>1, <3>2, <3>3 DEF Leading, InStep, Returned
    <2> QED
      BY <2>3, <2>4
  <1> HIDE DEF p
  <1>4. pc # "idle" /\ misread' \in BOOLEAN
    BY <1>1, <1>2
  <1> QED
    BY <1>1, <1>2, <1>3, <1>4, GoOnInv

(* A read for a response that meets none takes a container or a part of it.*)
LEMMA AnyRead ==
    ASSUME IInv, Take \/ TakePart
    PROVE  /\ wire \in Seq(Containers) /\ Len(wire) > 0 /\ wire # <<>>
           /\ Head(wire) = wire[1] /\ wire[1] \in Containers
           /\ wire' \in Seq(Containers)
           /\ answered' = IF IsResponse(wire[1]) THEN answered + 1 ELSE answered
           /\ answered' \in 0..MaxCommands
           /\ Chain(wire, answered, sent)'
           /\ wire[1].from = answered + 1
           /\ txId' = txId /\ cmd' = cmd /\ camOpen' = camOpen /\ sent' = sent
  <1>1. CASE Take
    BY <1>1, TakeInv DEF Take
  <1>2. CASE TakePart
    BY <1>2, PartInv DEF TakePart
  <1> QED
    BY <1>1, <1>2

LEMMA ReceiveResponseInv == IInv /\ ReceiveResponse => IInv'
  <1> SUFFICES ASSUME IInv, ReceiveResponse PROVE IInv'
    OBVIOUS
  <1> DEFINE c == wire[1]
  <1>1. /\ pc \in {"resp", "resp2"} /\ pc # "idle" /\ misread' = misread
        /\ Take \/ TakePart
        /\ Head(wire) = c /\ c \in Containers
        /\ wire' \in Seq(Containers)
        /\ answered' = IF IsResponse(c) THEN answered + 1 ELSE answered
        /\ answered' \in 0..MaxCommands
        /\ Chain(wire, answered, sent)'
        /\ txId' = txId /\ cmd' = cmd /\ camOpen' = camOpen /\ sent' = sent
    BY AnyRead DEF ReceiveResponse
  <1>2. \/ Take /\ IsResponse(c) /\ Respond(c)
        \/ /\ ~IsResponse(c)
           /\ \/ pc = "resp" /\ IsData(c) /\ GoOn("resp2", 0) /\ result' = result
              \/ Raise("ptp", FALSE) \/ Raise("value", FALSE)
    BY <1>1 DEF ReceiveResponse, IsResponse, IsData, Garbled, Responses
  <1> HIDE DEF c
  <1>3. CASE Take /\ IsResponse(c) /\ Respond(c)
    BY <1>1, <1>3, RespondInv
  <1>4. CASE ~IsResponse(c) /\ (Raise("ptp", FALSE) \/ Raise("value", FALSE))
    BY <1>1, <1>4, RaiseInv
  <1>5. CASE ~IsResponse(c) /\ pc = "resp" /\ IsData(c) /\ GoOn("resp2", 0) /\ result' = result
    <2>1. ~misread => ~cmd.wants
      BY <1>1, <1>5 DEF IInv, InStep, IsResponse, IsData, c
    <2>2. pc' = "resp2" /\ answered' = answered
      BY <1>1, <1>5 DEF GoOn
    <2>3. ~misread => Leading' /\ InStep'
      BY <1>1, <2>1, <2>2 DEF Leading, InStep, Returned
    <2>4. /\ "resp2" \in Reads /\ 0 \in 0..MaxParts /\ misread \in BOOLEAN
          /\ result' \in [kind : Kinds, from : 0..MaxCommands, data : 0..MaxCommands]
          /\ misread' => abandoned > 0
      BY <1>1, <1>5, SessionAssumption DEF SessionAssumption, IInv, TypeOK, Calls, Reads
    <2> QED
      BY <1>1, <1>5, <2>2, <2>3, <2>4, GoOnInv
  <1> QED
    BY <1>2, <1>3, <1>4, <1>5

(* Payload taken for a container: it takes an abandoned call, or makes one.*)
LEMMA MisreadInv == IInv /\ Misread => IInv'
  <1> SUFFICES ASSUME IInv, Misread PROVE IInv'
    OBVIOUS
  <1>0. misread' = TRUE /\ (Take \/ TakePart) /\ pc \in {"data", "resp", "resp2"} /\ pc # "idle"
    BY DEF Misread, TakenForData, TakenForSkipped, TakenForResponse
  <1>1. /\ wire[1] \in Containers /\ Head(wire) = wire[1] /\ Len(wire) > 0
        /\ wire' \in Seq(Containers) /\ answered' \in 0..MaxCommands
        /\ Chain(wire, answered, sent)'
        /\ txId' = txId /\ cmd' = cmd /\ camOpen' = camOpen /\ sent' = sent
    BY <1>0, AnyRead
  <1>2. wire[1].kind = "REST" /\ wire[1].from \in 0..MaxCommands
    BY <1>1, ContainerType DEF Misread, Garbled
  <1>3. pc \in {"data", "resp"} => abandoned > 0
    BY <1>1, <1>2 DEF IInv, Calls, Leading
  <1>4. result \in [kind : Kinds, from : 0..MaxCommands, data : 0..MaxCommands]
    BY DEF IInv, TypeOK
  <1>5. CASE TakenForData
    <2>1. PICK n \in 0..MaxParts : GoOn(IF n > 0 THEN "rest" ELSE "resp", n)
      BY <1>5 DEF TakenForData
    <2> DEFINE p == IF n > 0 THEN "rest" ELSE "resp"
    <2>2. GoOn(p, n) /\ p \in Reads /\ (p = "rest" => n > 0) /\ abandoned > 0
      BY <1>3, <1>5, <2>1 DEF Reads, TakenForData
    <2>3. result' \in [kind : Kinds, from : 0..MaxCommands, data : 0..MaxCommands]
      BY <1>1, <1>2, <1>4, <1>5 DEF TakenForData
    <2> HIDE DEF p
    <2> QED
      BY <1>0, <1>1, <2>2, <2>3, GoOnInv
  <1>6. CASE TakenForSkipped
    <2>1. GoOn("resp2", 0) /\ result' = result /\ abandoned > 0
      BY <1>3, <1>6 DEF TakenForSkipped
    <2>2. "resp2" \in Reads /\ 0 \in 0..MaxParts
      BY SessionAssumption DEF SessionAssumption, Reads
    <2> QED
      BY <1>0, <1>1, <1>4, <2>1, <2>2, GoOnInv
  <1>7. CASE TakenForResponse
    <2>1. PICK kind \in {"ok", "error"} :
             /\ result' = [result EXCEPT !.kind = kind, !.from = Head(wire).from]
             /\ isOpen' = FlagAfter(kind)
      BY <1>7 DEF TakenForResponse
    <2>2. result' \in [kind : Kinds, from : 0..MaxCommands, data : 0..MaxCommands]
      BY <1>1, <1>2, <1>4, <2>1 DEF Kinds
    <2>3. isOpen' \in BOOLEAN
      BY <2>1 DEF IInv, TypeOK, FlagAfter
    <2>4. /\ abandoned \in Nat /\ sent \in 0..MaxCommands /\ abandoned + 1 <= sent
          /\ abandoned' = abandoned + 1 /\ pc' = "idle" /\ parts' = 0
      BY <1>0, <1>7, SessionAssumption
      DEF IInv, TypeOK, Calls, Busy, SessionAssumption, TakenForResponse
    <2>5. abandoned' \in 0..MaxCommands /\ parts' \in 0..MaxParts
      BY <2>4, SessionAssumption DEF SessionAssumption
    <2>6. TypeOK'
      BY <1>0, <1>1, <2>2, <2>3, <2>4, <2>5 DEF IInv, TypeOK
    <2>7. Calls'
      BY <1>1, <2>4 DEF Calls, Busy
    <2> QED
      BY <1>0, <1>1, <2>6, <2>7 DEF IInv
  <1> QED
    BY <1>5, <1>6, <1>7 DEF Misread

-----------------------------------------------------------------------------
(* Every step keeps the invariant.                                         *)
LEMMA NextInv == IInv /\ [Next]_vars => IInv'
  <1> SUFFICES ASSUME IInv, [Next]_vars PROVE IInv'
    OBVIOUS
  <1>0. MaxCommands \in Nat /\ MaxTx \in Nat \ {0} /\ MaxParts \in Nat
    BY SessionAssumption DEF SessionAssumption
  <1>1. CASE Open
    <2>1. 1 \in 0..MaxTx
      BY <1>0
    <2>3. Begin("open", FALSE, 1) /\ txId' = 1
      BY <1>1 DEF Open
    <2>2. "open" \in Operations /\ FALSE \in BOOLEAN
      BY DEF Operations
    <2> QED
      BY <2>1, <2>2, <2>3, BeginInv
  <1>2. CASE Close
    <2>1. txId \in 0..MaxTx /\ txId' \in 0..MaxTx
      BY <1>0, <1>2 DEF Close, IInv, TypeOK
    <2> QED
      BY <1>2, <2>1, BeginInv DEF Close, Operations
  <1>3. CASE Call
    <2>1. txId \in 0..MaxTx /\ txId' \in 0..MaxTx
      BY <1>0, <1>3 DEF Call, IInv, TypeOK
    <2> QED
      BY <1>3, <2>1, BeginInv DEF Call, Operations
  <1>4. CASE ReceiveData
    BY <1>4, ReceiveDataInv
  <1>5. CASE ReceiveRest
    BY <1>5, ReceiveRestInv
  <1>6. CASE ReceiveResponse
    BY <1>6, ReceiveResponseInv
  <1>11. CASE Misread
    BY <1>11, MisreadInv
  <1>7. CASE ReadTimeout
    <2>1. /\ pc # "idle" /\ Raise("usb", FALSE)
          /\ UNCHANGED <<txId, cmd, wire, camOpen, sent, answered, misread>>
      BY <1>7 DEF ReadTimeout
    <2>2. Chain(wire, answered, sent)' /\ answered' \in 0..MaxCommands
          /\ (TypeOK => wire' \in Seq(Containers))
      BY <2>1 DEF IInv, TypeOK
    <2> QED
      BY <2>1, <2>2, RaiseInv
  <1>8. CASE NewSession
    <2>1. result' \in [kind : Kinds, from : 0..MaxCommands, data : 0..MaxCommands]
      BY <1>0, <1>8 DEF NewSession, NoResult, Kinds
    <2>2. TypeOK'
      <3>1. isOpen' \in BOOLEAN /\ camOpen' \in BOOLEAN /\ misread' \in BOOLEAN
        BY <1>8 DEF NewSession, IInv, TypeOK
      <3>2. txId' \in 0..MaxTx
        BY <1>0, <1>8 DEF NewSession
      <3> QED
        BY <1>8, <2>1, <3>1, <3>2 DEF NewSession, IInv, TypeOK
    <2>3. Chain(wire, answered, sent)' /\ Calls'
      BY <1>8 DEF NewSession, IInv, Calls, Busy
    <2>4. ~misread => Counted' /\ Leading' /\ InStep'
      BY <1>8 DEF NewSession, IInv, Counted, Leading, Busy, InStep, Returned, NoResult
    <2>5. misread' = misread
      BY <1>8 DEF NewSession
    <2> QED
      BY <2>2, <2>3, <2>4, <2>5 DEF IInv
  <1>9. CASE UsbReset
    <2>1. wire' \in Seq(Containers) /\ Len(wire') = 0
      BY <1>9, EmptySeq DEF UsbReset
    <2>5. result' \in [kind : Kinds, from : 0..MaxCommands, data : 0..MaxCommands]
      BY <1>0, <1>9 DEF UsbReset, NoResult, Kinds
    <2>2. TypeOK'
      <3>1. isOpen' \in BOOLEAN /\ camOpen' \in BOOLEAN /\ misread' \in BOOLEAN
        BY <1>9 DEF UsbReset, IInv, TypeOK
      <3>2. sent' \in 0..MaxCommands /\ answered' \in 0..MaxCommands
            /\ abandoned' \in 0..MaxCommands
        BY <1>0, <1>9 DEF UsbReset
      <3> QED
        BY <1>9, <2>1, <2>5, <3>1, <3>2 DEF UsbReset, IInv, TypeOK
    <2>3. Chain(wire, answered, sent)'
      BY <1>9, <2>1 DEF UsbReset, Chain
    <2>4. Calls' /\ Counted' /\ Leading' /\ InStep'
      BY <1>9, <2>1 DEF UsbReset, Calls, Busy, Counted, Leading, InStep, Returned, NoResult
    <2> QED
      BY <2>2, <2>3, <2>4 DEF IInv
  <1>10. CASE UNCHANGED vars
    BY <1>10 DEF vars, IInv, TypeOK, Calls, Busy, Counted, Leading, InStep, Returned, Chain,
                 Follows, IsResponse
  <1> QED
    BY <1>1, <1>2, <1>3, <1>4, <1>5, <1>6, <1>7, <1>8, <1>9, <1>10, <1>11 DEF Next

LEMMA Invariance == Spec => []IInv
  BY InitInv, NextInv, PTL DEF Spec

-----------------------------------------------------------------------------
(* Types: the counters of a session stay in their bounds and the wire is a *)
(* sequence of containers.                                                 *)
THEOREM TypeCorrect == Spec => []TypeOK
  <1>1. IInv => TypeOK
    BY DEF IInv
  <1> QED
    BY Invariance, <1>1, PTL

(* A call that reads a response reads the one of the command as many       *)
(* places back as calls have been abandoned: transaction() and             *)
(* _receive_response() take whatever response comes first.  It is so until *)
(* payload has been taken for a container (PTPContainer.unpack).           *)
THEOREM LagIsAbandoned == Spec => []AnswerLag
  <1>1. IInv => AnswerLag
    <2> SUFFICES ASSUME IInv, Returned, ~misread PROVE result.from = sent - abandoned
      BY DEF AnswerLag
    <2> QED
      BY SessionAssumption
      DEF SessionAssumption, IInv, TypeOK, InStep, Counted, Busy, Returned
  <1> QED
    BY Invariance, <1>1, PTL

(* Data and response returned by one transaction() answer one command,     *)
(* however late they are, until payload has been taken for a container.    *)
THEOREM DataWithItsResponse == Spec => []DataAndResponseTogether
  <1>1. IInv => DataAndResponseTogether
    BY DEF IInv, InStep, DataAndResponseTogether
  <1> QED
    BY Invariance, <1>1, PTL

-----------------------------------------------------------------------------
(* What is on the wire, in order: every container answers a command that   *)
(* has been written and not been answered, and a response is the last of   *)
(* its command's.                                                          *)
Wired ==
    \A i \in 1..Len(wire) :
        /\ wire[i].from \in (answered + 1)..sent
        /\ \A j \in 1..Len(wire) :
              i < j => /\ wire[i].from <= wire[j].from
                       /\ IsResponse(wire[i]) => wire[i].from < wire[j].from

(* What the flag will have to say once the command under way is answered.  *)
FlagInv ==
    /\ pc # "idle" =>
          \A i \in 1..Len(wire) :
              wire[i].from = sent /\ wire[i].kind = "OK" => (camOpen <=> cmd.op # "close")
    /\ OpenFlagHonest

WireInv == Wired /\ FlagInv

LEMMA Appended ==
    ASSUME NEW w \in Seq(Containers), NEW n \in 1..MaxCommands, NEW size \in 0..MaxParts,
           NEW code \in Responses
    PROVE  LET v == w \o Reply(n, size, code)
           IN  /\ Len(w) \in Nat /\ Len(v) = Len(w) + size + 1
               /\ \A i \in 1..Len(w) : v[i] = w[i]
               /\ \A i \in (Len(w) + 1)..Len(v) :
                     /\ v[i].from = n
                     /\ IsResponse(v[i]) <=> i = Len(v)
                     /\ v[i].kind = "OK" => code = "OK"
                     /\ ~IsResponse(v[i]) => size > 0
  <1> DEFINE r == Reply(n, size, code)
             v == w \o r
             R == [from : {n}, kind : {"DATA", "REST"} \cup Responses, more : 0..size]
  <1>1. n \in Nat /\ size \in Nat /\ Len(w) \in Nat
    BY SessionAssumption, LenProperties DEF SessionAssumption
  <1>2. /\ r \in Seq(R) /\ Len(r) = size + 1
        /\ \A i \in 1..(size + 1) :
                 r[i] = IF i = size + 1 THEN [from |-> n, kind |-> code, more |-> 0]
                        ELSE [from |-> n, kind |-> IF i = 1 THEN "DATA" ELSE "REST",
                              more |-> size - i]
    BY <1>1, ReplyProperties
  <1> HIDE DEF r
  <1>3. /\ Len(v) = Len(w) + size + 1
        /\ \A i \in 1..Len(w) : v[i] = w[i]
        /\ \A i \in (Len(w) + 1)..Len(v) : v[i] = r[i - Len(w)]
    BY <1>1, <1>2 DEF r
  <1> HIDE DEF v
  <1>4. ASSUME NEW i \in (Len(w) + 1)..Len(v)
        PROVE  /\ v[i].from = n
               /\ IsResponse(v[i]) <=> i = Len(v)
               /\ v[i].kind = "OK" => code = "OK"
               /\ ~IsResponse(v[i]) => size > 0
    <2>1. PICK k \in 1..(size + 1) : i = Len(w) + k /\ v[i] = r[k]
      <3>1. i - Len(w) \in 1..(size + 1) /\ i = Len(w) + (i - Len(w))
        BY <1>1, <1>3
      <3> QED
        BY <1>3, <3>1
    <2>2. CASE i = Len(v)
      <3>1. k = size + 1
        BY <1>1, <1>3, <2>1, <2>2
      <3>2. v[i] = [from |-> n, kind |-> code, more |-> 0]
        BY <1>2, <2>1, <3>1
      <3> QED
        BY <2>2, <3>2 DEF IsResponse
    <2>3. CASE i # Len(v)
      <3>0. Len(v) = Len(w) + (size + 1) /\ i = Len(w) + k
        BY <1>1, <1>3, <2>1
      <3>1. k # size + 1 /\ size > 0
        BY <1>1, <2>3, <3>0
      <3>2. r[k] = [from |-> n, kind |-> IF k = 1 THEN "DATA" ELSE "REST", more |-> size - k]
        BY <1>2, <3>1
      <3>3. v[i].from = n /\ v[i].kind \in {"DATA", "REST"}
        BY <2>1, <3>2
      <3> QED
        BY <2>3, <3>1, <3>3 DEF IsResponse, Responses
    <2> QED
      BY <2>2, <2>3
  <1> QED
    BY <1>1, <1>3, <1>4 DEF v, r

LEMMA Popped ==
    ASSUME IInv, Take
    PROVE  /\ Len(wire) \in Nat \ {0} /\ Len(wire') = Len(wire) - 1
           /\ \A i \in 1..Len(wire') : i + 1 \in 1..Len(wire) /\ wire'[i] = wire[i + 1]
  <1>1. wire \in Seq(Containers) /\ wire # <<>> /\ wire' = Tail(wire)
    BY DEF IInv, TypeOK, Take
  <1> QED
    BY <1>1, HeadTailProperties, LenProperties, EmptySeq

LEMMA WhatIsWritten ==
    ASSUME IInv, NEW o \in Operations, NEW wants, Written(o, wants)
    PROVE  /\ sent + 1 \in 1..MaxCommands
           /\ \E code \in Responses, size \in 0..MaxParts :
                 /\ wire' = wire \o Reply(sent + 1, size, code)
                 /\ camOpen' = IF code = "ERR" \/ o = "call" THEN camOpen ELSE (o = "open")
                 /\ code = "OK" => ~Refused(o)
                 /\ o # "call" => size = 0
  <1>1. PICK code \in IF Refused(o) THEN {"ERR"} ELSE Responses :
           /\ \E size \in IF o = "call" THEN 0..MaxParts ELSE {0} :
                 wire' = wire \o Reply(sent + 1, size, code)
           /\ camOpen' = IF code = "ERR" \/ o = "call" THEN camOpen ELSE (o = "open")
    BY DEF Written, Answered
  <1>2. PICK size \in IF o = "call" THEN 0..MaxParts ELSE {0} :
           wire' = wire \o Reply(sent + 1, size, code)
    BY <1>1
  <1>3. /\ code \in Responses /\ size \in 0..MaxParts /\ (code = "OK" => ~Refused(o))
        /\ o # "call" => size = 0
    BY SessionAssumption DEF Responses, SessionAssumption
  <1>4. sent + 1 \in 1..MaxCommands
    BY SessionAssumption DEF SessionAssumption, Written, IInv, TypeOK
  <1> QED
    BY <1>1, <1>2, <1>3, <1>4

LEMMA BeginWire ==
    ASSUME IInv, WireInv, NEW o \in Operations, NEW wants \in BOOLEAN, NEW tx,
           Begin(o, wants, tx)
    PROVE  WireInv'
  <1>0. /\ sent \in Nat /\ answered \in Nat /\ answered <= sent /\ pc = "idle"
        /\ wire \in Seq(Containers) /\ camOpen \in BOOLEAN
    <2>1. /\ sent \in Nat /\ answered \in Nat /\ pc = "idle"
          /\ wire \in Seq(Containers) /\ camOpen \in BOOLEAN /\ Len(wire) \in Nat
      BY SessionAssumption, LenProperties DEF SessionAssumption, IInv, TypeOK, Begin
    <2>2. CASE Len(wire) = 0
      BY <2>1, <2>2 DEF IInv, Chain
    <2>3. CASE Len(wire) # 0
      <3>1. 1 \in 1..Len(wire)
        BY <2>1, <2>3
      <3>2. wire[1].from \in (answered + 1)..sent
        BY <3>1 DEF WireInv, Wired
      <3> QED
        BY <2>1, <3>2
    <2> QED
      BY <2>1, <2>2, <2>3
  <1>1. CASE WriteFails
    BY <1>0, <1>1 DEF Begin, WriteFails, WireInv, Wired, FlagInv, OpenFlagHonest, Returned, NoResult
  <1>2. CASE Written(o, wants)
    <2>1. PICK code \in Responses, size \in 0..MaxParts :
             /\ wire' = wire \o Reply(sent + 1, size, code)
             /\ camOpen' = IF code = "ERR" \/ o = "call" THEN camOpen ELSE (o = "open")
             /\ code = "OK" => ~Refused(o)
      BY <1>2, WhatIsWritten
    <2>2. /\ sent' = sent + 1 /\ answered' = answered /\ isOpen' = isOpen /\ pc' # "idle"
          /\ cmd'.op = o /\ result' = NoResult
      BY <1>2 DEF Begin, Written
    <2>3. /\ Len(wire) \in Nat /\ Len(wire') = Len(wire) + size + 1
          /\ \A i \in 1..Len(wire) : wire'[i] = wire[i]
          /\ \A i \in (Len(wire) + 1)..Len(wire') :
                /\ wire'[i].from = sent + 1
                /\ IsResponse(wire'[i]) <=> i = Len(wire')
                /\ wire'[i].kind = "OK" => code = "OK"
      <3>1. sent + 1 \in 1..MaxCommands
        BY <1>2, WhatIsWritten
      <3> DEFINE v == wire \o Reply(sent + 1, size, code)
      <3>2. /\ Len(wire) \in Nat /\ Len(v) = Len(wire) + size + 1
            /\ \A i \in 1..Len(wire) : v[i] = wire[i]
            /\ \A i \in (Len(wire) + 1)..Len(v) :
                  /\ v[i].from = sent + 1
                  /\ IsResponse(v[i]) <=> i = Len(v)
                  /\ v[i].kind = "OK" => code = "OK"
        BY <1>0, <3>1, Appended
      <3> HIDE DEF v
      <3>3. wire' = v
        BY <2>1 DEF v
      <3> QED
        BY <3>2, <3>3
    <2>4. \A i \in 1..Len(wire) : wire[i].from \in (answered + 1)..sent
      BY DEF WireInv, Wired
    <2>5. Wired'
      <3> SUFFICES ASSUME NEW i \in 1..Len(wire')
                   PROVE  /\ wire'[i].from \in (answered + 1)..(sent + 1)
                          /\ \A j \in 1..Len(wire') :
                                i < j => /\ wire'[i].from <= wire'[j].from
                                         /\ IsResponse(wire'[i]) => wire'[i].from < wire'[j].from
        BY <2>2 DEF Wired
      <3>1. CASE i \in 1..Len(wire)
        <4>1. wire'[i].from \in (answered + 1)..sent
          BY <2>3, <2>4, <3>1
        <4>2. ASSUME NEW j \in 1..Len(wire'), i < j
              PROVE  /\ wire'[i].from <= wire'[j].from
                     /\ IsResponse(wire'[i]) => wire'[i].from < wire'[j].from
          <5>1. CASE j \in 1..Len(wire)
            BY <2>3, <3>1, <4>2, <5>1 DEF WireInv, Wired
          <5>2. CASE j \in (Len(wire) + 1)..Len(wire')
            BY <1>0, <2>3, <4>1, <5>2
          <5> QED
            BY <2>3, <5>1, <5>2
        <4> QED
          BY <1>0, <4>1, <4>2
      <3>2. CASE i \in (Len(wire) + 1)..Len(wire')
        BY <1>0, <2>3, <3>2
      <3> QED
        BY <2>3, <3>1, <3>2
    <2>6. ASSUME NEW i \in 1..Len(wire'), wire'[i].from = sent + 1, wire'[i].kind = "OK"
          PROVE  camOpen' <=> o # "close"
      <3>1. i \in (Len(wire) + 1)..Len(wire')
        BY <1>0, <2>3, <2>4, <2>6
      <3>2. code = "OK" /\ ~Refused(o)
        BY <2>1, <2>3, <2>6, <3>1
      <3> QED
        BY <2>1, <3>2 DEF Refused, Operations
    <2>7. FlagInv'
      BY <1>2, <2>2, <2>6 DEF FlagInv, OpenFlagHonest, Returned, NoResult
    <2> QED
      BY <2>5, <2>7 DEF WireInv
  <1> QED
    BY <1>1, <1>2 DEF Begin

LEMMA TakeWire ==
    ASSUME IInv, WireInv, Take
    PROVE  Wired'
  <1>1. /\ Len(wire) \in Nat \ {0} /\ Len(wire') = Len(wire) - 1
        /\ \A i \in 1..Len(wire') : i + 1 \in 1..Len(wire) /\ wire'[i] = wire[i + 1]
    BY Popped
  <1>2. /\ answered' = IF IsResponse(wire[1]) THEN answered + 1 ELSE answered
        /\ wire[1].from = answered + 1 /\ sent' = sent /\ answered \in Nat /\ sent \in Nat
    BY TakeInv
  <1> SUFFICES ASSUME NEW i \in 1..Len(wire')
               PROVE  /\ wire'[i].from \in (answered' + 1)..sent
                      /\ \A j \in 1..Len(wire') :
                            i < j => /\ wire'[i].from <= wire'[j].from
                                     /\ IsResponse(wire'[i]) => wire'[i].from < wire'[j].from
    BY <1>2 DEF Wired
  <1>3. /\ i + 1 \in 1..Len(wire) /\ 1 \in 1..Len(wire) /\ 1 < i + 1 /\ wire'[i] = wire[i + 1]
    BY <1>1
  <1>4. /\ wire[i + 1].from \in (answered + 1)..sent
        /\ IsResponse(wire[1]) => wire[1].from < wire[i + 1].from
    BY <1>3 DEF WireInv, Wired
  <1>5. wire'[i].from \in (answered' + 1)..sent
    BY <1>2, <1>3, <1>4
  <1>6. ASSUME NEW j \in 1..Len(wire'), i < j
        PROVE  /\ wire'[i].from <= wire'[j].from
               /\ IsResponse(wire'[i]) => wire'[i].from < wire'[j].from
    <2>1. j + 1 \in 1..Len(wire) /\ i + 1 < j + 1 /\ wire'[j] = wire[j + 1]
      BY <1>1, <1>6
    <2> QED
      BY <1>3, <2>1 DEF WireInv, Wired
  <1> QED
    BY <1>5, <1>6

LEMMA PartWire ==
    ASSUME IInv, WireInv, TakePart
    PROVE  Wired'
  <1>1. /\ Len(wire') = Len(wire) /\ wire[1] \in Containers /\ ~IsResponse(wire[1])
        /\ \A i \in 1..Len(wire) :
              wire'[i] = IF i = 1 THEN [wire[1] EXCEPT !.kind = "REST"] ELSE wire[i]
        /\ answered' = answered /\ sent' = sent
    BY PartInv
  <1>2. ASSUME NEW i \in 1..Len(wire)
        PROVE  wire'[i].from = wire[i].from /\ (IsResponse(wire'[i]) <=> IsResponse(wire[i]))
    <2>1. CASE i = 1
      <3>1. wire'[i] = [wire[1] EXCEPT !.kind = "REST"]
        BY <1>1, <2>1
      <3>2. wire'[i].from = wire[1].from /\ wire'[i].kind = "REST"
        BY <1>1, <3>1 DEF Containers
      <3> QED
        BY <1>1, <2>1, <3>2 DEF IsResponse, Responses
    <2>2. CASE i # 1
      BY <1>1, <2>2
    <2> QED
      BY <2>1, <2>2
  <1> QED
    BY <1>1, <1>2 DEF WireInv, Wired

(* Every container left by a read was there before it, whole but for its   *)
(* header.                                                                 *)
LEMMA Leftover ==
    ASSUME IInv, Take \/ TakePart
    PROVE  /\ 1 \in 1..Len(wire)
           /\ \A i \in 1..Len(wire') : \E j \in 1..Len(wire) :
                 /\ wire'[i].from = wire[j].from
                 /\ IsResponse(wire'[i]) <=> IsResponse(wire[j])
                 /\ wire'[i].kind = "OK" => wire[j].kind = "OK"
  <1>1. CASE Take
    <2>1. /\ Len(wire) \in Nat \ {0}
          /\ \A i \in 1..Len(wire') : i + 1 \in 1..Len(wire) /\ wire'[i] = wire[i + 1]
      BY <1>1, Popped
    <2> QED
      BY <2>1
  <1>2. CASE TakePart
    <2>1. /\ Len(wire') = Len(wire) /\ wire[1] \in Containers /\ ~IsResponse(wire[1])
          /\ Len(wire) \in Nat /\ Len(wire) > 0
          /\ \A i \in 1..Len(wire) :
                wire'[i] = IF i = 1 THEN [wire[1] EXCEPT !.kind = "REST"] ELSE wire[i]
      BY <1>2, PartInv
    <2>2. ASSUME NEW i \in 1..Len(wire)
          PROVE  /\ wire'[i].from = wire[i].from
                 /\ IsResponse(wire'[i]) <=> IsResponse(wire[i])
                 /\ wire'[i].kind = "OK" => wire[i].kind = "OK"
      <3>1. CASE i = 1
        <4>1. wire'[i] = [wire[1] EXCEPT !.kind = "REST"]
          BY <2>1, <3>1
        <4>2. wire'[i].from = wire[1].from /\ wire'[i].kind = "REST"
          BY <2>1, <4>1 DEF Containers
        <4> QED
          BY <2>1, <3>1, <4>2 DEF IsResponse, Responses
      <3>2. CASE i # 1
        BY <2>1, <3>2
      <3> QED
        BY <3>1, <3>2
    <2> QED
      BY <2>1, <2>2
  <1> QED
    BY <1>1, <1>2

(* A read: the flag follows the answer, or the call goes on, raises or     *)
(* ends without having read a response.                                    *)
LEMMA ReadWire ==
    ASSUME IInv, WireInv, pc # "idle", Take \/ TakePart,
           \/ IsResponse(wire[1]) /\ Respond(wire[1])
           \/ pc' # "idle" /\ isOpen' = isOpen
           \/ \E kind \in {"ptp", "value", "usb"}, read \in BOOLEAN : Raise(kind, read)
           \/ pc' = "idle" /\ abandoned' > 0
    PROVE  WireInv'
  <1>1. Wired'
    BY TakeWire, PartWire
  <1>2. /\ UNCHANGED <<cmd, camOpen, sent>> /\ wire[1].from = answered + 1
        /\ 1 \in 1..Len(wire)
        /\ \A i \in 1..Len(wire') : wire'[i].kind = "OK" =>
              \E j \in 1..Len(wire) : wire'[i].from = wire[j].from /\ wire[j].kind = "OK"
    BY AnyRead, Leftover
  <1>3. CASE IsResponse(wire[1]) /\ Respond(wire[1])
    <2>1. pc' = "idle" /\ abandoned' = abandoned
      BY <1>3 DEF Respond
    <2>2. ASSUME wire[1].kind = "OK", abandoned = 0
          PROVE  (isOpen' => camOpen) /\ (cmd.op # "call" => (isOpen' <=> camOpen))
      <3>1. wire[1].from = sent
        BY <1>2, <2>2, SessionAssumption
        DEF SessionAssumption, IInv, TypeOK, Calls, Counted, Busy
      <3>2. camOpen <=> cmd.op # "close"
        BY <1>2, <2>2, <3>1 DEF WireInv, FlagInv
      <3>3. isOpen' = FlagAfter("ok")
        BY <1>3, <2>2 DEF Respond
      <3>4. cmd.op \in Operations
        BY DEF IInv, TypeOK
      <3>5. CASE cmd.op = "open"
        BY <3>2, <3>3, <3>5 DEF FlagAfter
      <3>6. CASE cmd.op = "close"
        BY <3>2, <3>3, <3>6 DEF FlagAfter
      <3>7. CASE cmd.op = "call"
        BY <3>2, <3>7
      <3> QED
        BY <3>4, <3>5, <3>6, <3>7 DEF Operations
    <2>3. result'.kind = "ok" => wire[1].kind = "OK"
      BY <1>3 DEF Respond, IInv, TypeOK
    <2>4. OpenFlagHonest'
      BY <1>2, <2>1, <2>2, <2>3 DEF OpenFlagHonest
    <2> QED
      BY <1>1, <2>1, <2>4 DEF WireInv, FlagInv
  <1>4. CASE pc' # "idle" /\ isOpen' = isOpen
    <2>1. OpenFlagHonest'
      BY <1>4 DEF OpenFlagHonest, Returned
    <2>2. ASSUME NEW i \in 1..Len(wire'), wire'[i].from = sent, wire'[i].kind = "OK"
          PROVE  camOpen <=> cmd.op # "close"
      BY <1>2, <2>2 DEF WireInv, FlagInv
    <2> QED
      BY <1>1, <1>2, <1>4, <2>1, <2>2 DEF WireInv, FlagInv
  <1>5. CASE \E kind \in {"ptp", "value", "usb"}, read \in BOOLEAN : Raise(kind, read)
    <2>1. pc' = "idle" /\ result'.kind \in {"ptp", "value", "usb"}
      BY <1>5 DEF Raise, NoResult
    <2> QED
      BY <1>1, <2>1 DEF WireInv, FlagInv, OpenFlagHonest
  <1>6. CASE pc' = "idle" /\ abandoned' > 0
    BY <1>1, <1>6 DEF WireInv, FlagInv, OpenFlagHonest
  <1> QED
    BY <1>3, <1>4, <1>5, <1>6

LEMMA WireNext == IInv /\ WireInv /\ [Next]_vars => WireInv'
  <1> SUFFICES ASSUME IInv, WireInv, [Next]_vars PROVE WireInv'
    OBVIOUS
  <1>1. CASE Open
    BY <1>1, BeginWire DEF Open, Operations
  <1>2. CASE Close
    BY <1>2, BeginWire DEF Close, Operations
  <1>3. CASE Call
    BY <1>3, BeginWire DEF Call, Operations
  <1>4. CASE ReceiveData \/ ReceiveRest \/ ReceiveResponse
    <2>1. (Take \/ TakePart) /\ pc # "idle"
      BY <1>4 DEF ReceiveData, ReceiveRest, ReceiveResponse
    <2>2. Head(wire) = wire[1]
      BY <2>1, AnyRead
    <2>3. \/ IsResponse(wire[1]) /\ Respond(wire[1])
          \/ pc' # "idle" /\ isOpen' = isOpen
          \/ \E kind \in {"ptp", "value", "usb"}, read \in BOOLEAN : Raise(kind, read)
      <3>1. CASE ReceiveData
        BY <2>2, <3>1 DEF ReceiveData, GoOn, Garbled
      <3>2. CASE ReceiveRest
        BY <3>2 DEF ReceiveRest, GoOn
      <3>3. CASE ReceiveResponse
        BY <2>2, <3>3 DEF ReceiveResponse, GoOn, IsResponse
      <3> QED
        BY <1>4, <3>1, <3>2, <3>3
    <2> QED
      BY <2>1, <2>3, ReadWire
  <1>9. CASE Misread
    <2>1. (Take \/ TakePart) /\ pc # "idle"
      BY <1>9 DEF Misread, TakenForData, TakenForSkipped, TakenForResponse
    <2>2. \/ pc' # "idle" /\ isOpen' = isOpen
          \/ pc' = "idle" /\ abandoned' > 0
      <3>1. abandoned \in Nat
        BY SessionAssumption DEF SessionAssumption, IInv, TypeOK
      <3> QED
        BY <1>9, <3>1 DEF Misread, TakenForData, TakenForSkipped, TakenForResponse, GoOn
    <2> QED
      BY <2>1, <2>2, ReadWire
  <1>5. CASE ReadTimeout
    <2>1. /\ pc' = "idle" /\ result'.kind = "usb" /\ UNCHANGED <<wire, answered, sent>>
      BY <1>5 DEF ReadTimeout, Raise, NoResult
    <2> QED
      BY <2>1 DEF WireInv, Wired, FlagInv, OpenFlagHonest, Returned
  <1>6. CASE NewSession
    BY <1>6 DEF NewSession, WireInv, Wired, FlagInv, OpenFlagHonest, Returned, NoResult
  <1>7. CASE UsbReset
    <2>1. Len(wire') = 0
      BY <1>7 DEF UsbReset
    <2> QED
      BY <1>7, <2>1 DEF UsbReset, WireInv, Wired, FlagInv, OpenFlagHonest, Returned, NoResult
  <1>8. CASE UNCHANGED vars
    BY <1>8 DEF vars, WireInv, Wired, FlagInv, OpenFlagHonest, Returned, IsResponse
  <1> QED
    BY <1>1, <1>2, <1>3, <1>4, <1>5, <1>6, <1>7, <1>8, <1>9 DEF Next

LEMMA WireInvariance == Spec => [](IInv /\ WireInv)
  <1>1. Init => WireInv
    BY DEF Init, WireInv, Wired, FlagInv, OpenFlagHonest, Returned, NoResult
  <1> QED
    BY <1>1, InitInv, NextInv, WireNext, PTL DEF Spec

(* As long as no call was abandoned, open() and close() that succeed leave *)
(* _is_open saying what the camera's session is, and transaction() never   *)
(* succeeds with the flag up over a session the camera does not have.      *)
THEOREM FlagIsHonest == Spec => []OpenFlagHonest
  <1>1. WireInv => OpenFlagHonest
    BY DEF WireInv, FlagInv
  <1> QED
    BY <1>1, WireInvariance, PTL

-----------------------------------------------------------------------------
(* The file transfers. *)

Purposeful ==
    \A i \in 1..Len(wire) :
        ~IsResponse(wire[i]) => asked[wire[i].from].what \in WithData

DataKnown ==
    cmd.wants /\ (pc \in {"rest", "resp"} \/ Returned) =>
        result.data \in 1..MaxCommands /\ asked[result.data].what \in WithData

FirstHalf ==
    job = "download_file" /\ stage = 1 /\ (pc # "idle" \/ Succeeded) =>
        /\ sent \in 1..MaxCommands /\ asked[sent].what = "temp"
        /\ pc # "idle" =>
              \A i \in 1..Len(wire) :
                  wire[i].from = sent /\ wire[i].kind = "OK" => temp = path
        /\ pc = "idle" /\ abandoned = 0 => temp = path

SecondHalf ==
    job = "download_file" /\ stage = 2 /\ (pc # "idle" \/ Succeeded) =>
        /\ cmd.wants
        /\ abandoned = 0 => asked[sent] = [what |-> "file", file |-> path]
        /\ abandoned = 1 => asked[sent - 1].what = "temp"

TInv ==
    /\ TransfersTypeOK /\ Purposeful
    /\ ~misread => DataKnown /\ FirstHalf /\ SecondHalf

-----------------------------------------------------------------------------
LEMMA Numbers ==
    ASSUME IInv
    PROVE  /\ sent \in Nat /\ answered \in Nat /\ abandoned \in Nat
           /\ sent <= MaxCommands /\ MaxCommands \in Nat
           /\ ~misread => answered + abandoned + (IF pc = "idle" THEN 0 ELSE 1) = sent
           /\ wire \in Seq(Containers) /\ Len(wire) \in Nat
  BY SessionAssumption, LenProperties
  DEF SessionAssumption, IInv, TypeOK, Calls, Counted, Busy

(* What a transaction begun, or an open or close, leaves on the wire.      *)
LEMMA NewWire ==
    ASSUME IInv, NEW o \in Operations, NEW wants, Written(o, wants)
    PROVE  /\ sent' = sent + 1 /\ sent + 1 \in 1..MaxCommands
           /\ Len(wire') \in Nat /\ Len(wire') > Len(wire)
           /\ \A i \in 1..Len(wire) : wire'[i] = wire[i]
           /\ \A i \in (Len(wire) + 1)..Len(wire') :
                 /\ wire'[i].from = sent + 1
                 /\ IsResponse(wire'[i]) <=> i = Len(wire')
                 /\ ~IsResponse(wire'[i]) => Len(wire') > Len(wire) + 1 /\ o = "call"
  <1>1. PICK code \in Responses, size \in 0..MaxParts :
           wire' = wire \o Reply(sent + 1, size, code) /\ (o # "call" => size = 0)
    BY WhatIsWritten
  <1>2. sent + 1 \in 1..MaxCommands /\ wire \in Seq(Containers)
    BY WhatIsWritten, Numbers
  <1> DEFINE v == wire \o Reply(sent + 1, size, code)
  <1>3. /\ Len(wire) \in Nat /\ Len(v) = Len(wire) + size + 1
        /\ \A i \in 1..Len(wire) : v[i] = wire[i]
        /\ \A i \in (Len(wire) + 1)..Len(v) :
              /\ v[i].from = sent + 1
              /\ IsResponse(v[i]) <=> i = Len(v)
              /\ ~IsResponse(v[i]) => size > 0
    BY <1>2, Appended
  <1> HIDE DEF v
  <1>4. wire' = v /\ size \in Nat
    BY <1>1, SessionAssumption DEF v, SessionAssumption
  <1>5. sent' = sent + 1
    BY DEF Written
  <1>6. Len(wire') \in Nat /\ Len(wire') > Len(wire)
    BY <1>3, <1>4
  <1>7. ASSUME NEW i \in (Len(wire) + 1)..Len(wire'), ~IsResponse(wire'[i])
        PROVE  Len(wire') > Len(wire) + 1 /\ o = "call"
    <2>1. size > 0
      BY <1>3, <1>4, <1>7
    <2> QED
      BY <1>1, <1>3, <1>4, <2>1
  <1>8. /\ \A i \in 1..Len(wire) : wire'[i] = wire[i]
        /\ \A i \in (Len(wire) + 1)..Len(wire') :
              /\ wire'[i].from = sent + 1
              /\ IsResponse(wire'[i]) <=> i = Len(wire')
    BY <1>3, <1>4
  <1> QED
    BY <1>2, <1>5, <1>6, <1>7, <1>8

(* asked keeps what is still to be answered.                               *)
LEMMA Kept ==
    ASSUME IInv, TransfersTypeOK, sent' \in Nat, sent <= sent'
    PROVE  /\ StillAsked \in [1..MaxCommands -> [what : Purposes, file : Paths \cup {NoPath}]]
           /\ \A n \in (answered + 1)..sent : n \in 1..MaxCommands /\ StillAsked[n] = asked[n]
  <1>1. StillAsked \in [1..MaxCommands -> [what : Purposes, file : Paths \cup {NoPath}]]
    BY DEF StillAsked, NothingAsked, TransfersTypeOK, Purposes
  <1>2. ASSUME NEW n \in (answered + 1)..sent
        PROVE  n \in 1..MaxCommands /\ StillAsked[n] = asked[n]
    <2>1. n \in 1..MaxCommands /\ n \in (answered + 1)..sent'
      BY <1>2, Numbers
    <2> QED
      BY <2>1 DEF StillAsked
  <1> QED
    BY <1>1, <1>2

(* A transaction begins.                                                   *)
LEMMA AskStep ==
    ASSUME IInv, WireInv, TInv, NEW what \in Purposes, NEW p \in Paths \cup {NoPath},
           Ask(what, p),
           job' \in Jobs /\ stage' \in 0..2 /\ path' \in Paths \cup {NoPath},
           job' = "download_file" /\ stage' = 1 => what = "temp" /\ path' = p,
           job' = "download_file" /\ stage' = 2 =>
               what = "file" /\ Midway /\ path' = path
    PROVE  TInv'
  <1>1. PICK wants \in BOOLEAN : Begin("call", wants, txId)
    BY DEF Ask, Call
  <1>2. /\ cmd'.wants = wants /\ wants = (what \in WithData) /\ pc = "idle"
        /\ UNCHANGED <<answered, abandoned, misread>> /\ "call" \in Operations
    BY <1>1 DEF Ask, Begin, Operations
  <1>3. CASE WriteFails
    <2>1. /\ pc' = "idle" /\ result'.kind = "usb" /\ UNCHANGED <<wire, sent, asked, temp>>
      <3>1. sent' = sent /\ sent # sent + 1
        BY <1>3, Numbers DEF WriteFails
      <3> QED
        BY <1>2, <1>3, <3>1 DEF WriteFails, NoResult, Ask
    <2> QED
      BY <2>1 DEF TInv, TransfersTypeOK, Purposeful, DataKnown, FirstHalf, SecondHalf,
                  Succeeded, Returned
  <1>4. CASE Written("call", wants)
    <2> DEFINE new == [what |-> what, file |-> IF what = "file" THEN temp ELSE NoPath]
    <2>1. /\ sent' = sent + 1 /\ sent + 1 \in 1..MaxCommands
          /\ Len(wire') \in Nat /\ Len(wire') > Len(wire)
          /\ \A i \in 1..Len(wire) : wire'[i] = wire[i]
          /\ \A i \in (Len(wire) + 1)..Len(wire') :
                /\ wire'[i].from = sent + 1
                /\ IsResponse(wire'[i]) <=> i = Len(wire')
                /\ ~IsResponse(wire'[i]) => Len(wire') > Len(wire) + 1
      BY <1>2, <1>4, NewWire
    <2>2. /\ Len(wire') > Len(wire) + 1 => what \in WithData
          /\ asked' = [StillAsked EXCEPT ![sent + 1] = new]
          /\ temp' = IF what = "temp" /\ Accepted THEN p ELSE temp
      BY <2>1, Numbers DEF Ask
    <2>3. /\ StillAsked \in [1..MaxCommands -> [what : Purposes, file : Paths \cup {NoPath}]]
          /\ \A n \in (answered + 1)..sent : n \in 1..MaxCommands /\ StillAsked[n] = asked[n]
      <3>1. sent' \in Nat /\ sent <= sent'
        BY <2>1, Numbers
      <3> QED
        BY <3>1, Kept DEF TInv
    <2>4. new \in [what : Purposes, file : Paths \cup {NoPath}]
      BY DEF TInv, TransfersTypeOK
    <2>5. new.what = what /\ (what = "file" => new.file = temp)
      OBVIOUS
    <2> HIDE DEF new
    <2>6. /\ asked' \in [1..MaxCommands -> [what : Purposes, file : Paths \cup {NoPath}]]
          /\ asked'[sent + 1] = new
          /\ \A n \in (answered + 1)..sent : asked'[n] = asked[n]
      BY <2>1, <2>2, <2>3, <2>4, Numbers
    <2>7. TransfersTypeOK'
      BY <2>2, <2>6 DEF TInv, TransfersTypeOK
    <2>8. Purposeful'
      <3> SUFFICES ASSUME NEW i \in 1..Len(wire'), ~IsResponse(wire'[i])
                   PROVE  asked'[wire'[i].from].what \in WithData
        BY DEF Purposeful
      <3>1. CASE i \in 1..Len(wire)
        <4>1. wire'[i] = wire[i] /\ wire[i].from \in (answered + 1)..sent
          BY <2>1, <3>1 DEF WireInv, Wired
        <4> QED
          BY <2>6, <3>1, <4>1 DEF TInv, Purposeful
      <3>2. CASE i \in (Len(wire) + 1)..Len(wire')
        BY <2>1, <2>2, <2>5, <2>6, <3>2
      <3> QED
        BY <2>1, <3>1, <3>2, Numbers
    <2>9. /\ pc' = IF wants THEN "data" ELSE "resp"
          /\ result'.kind = "none"
      BY <1>4 DEF Written, NoResult
    <2>10. DataKnown'
      BY <1>2, <2>9 DEF DataKnown, Returned
    <2>11. FirstHalf'
      <3> SUFFICES ASSUME job' = "download_file", stage' = 1 PROVE FirstHalf'
        BY DEF FirstHalf
      <3>1. what = "temp" /\ path' = p
        OBVIOUS
      <3>2. asked'[sent'].what = "temp" /\ sent' \in 1..MaxCommands /\ pc' # "idle"
        BY <2>1, <2>5, <2>6, <2>9, <3>1
      <3>3. ASSUME NEW i \in 1..Len(wire'), wire'[i].from = sent + 1, wire'[i].kind = "OK"
            PROVE  temp' = path'
        <4>1. i \notin 1..Len(wire)
          <5> SUFFICES ASSUME i \in 1..Len(wire) PROVE FALSE
            OBVIOUS
          <5>1. wire[i].from \in (answered + 1)..sent /\ wire'[i] = wire[i]
            BY <2>1 DEF WireInv, Wired
          <5> QED
            BY <3>3, <5>1, Numbers
        <4>2. i \in (Len(wire) + 1)..Len(wire')
          BY <2>1, <4>1, Numbers
        <4>3. i = Len(wire')
          BY <2>1, <3>3, <4>2 DEF IsResponse, Responses
        <4> QED
          BY <2>2, <3>1, <3>3, <4>3 DEF Accepted
      <3> QED
        BY <2>1, <3>2, <3>3 DEF FirstHalf
    <2>12. ~misread => SecondHalf'
      <3> SUFFICES ASSUME ~misread, job' = "download_file", stage' = 2 PROVE SecondHalf'
        BY DEF SecondHalf
      <3>1. what = "file" /\ path' = path /\ job = "download_file" /\ stage = 1 /\ Succeeded
        BY DEF Midway, DataPending, Accomplished
      <3>2. cmd'.wants
        BY <1>2, <3>1 DEF WithData
      <3>3. /\ sent \in 1..MaxCommands /\ asked[sent].what = "temp"
            /\ abandoned = 0 => temp = path
        BY <1>2, <3>1 DEF TInv, FirstHalf
      <3>4. ASSUME abandoned = 0 PROVE asked'[sent'] = [what |-> "file", file |-> path']
        BY <2>1, <2>6, <3>1, <3>3, <3>4 DEF new
      <3>5. ASSUME abandoned = 1 PROVE asked'[sent' - 1].what = "temp"
        <4>1. sent \in (answered + 1)..sent /\ sent' - 1 = sent
          BY <1>2, <2>1, <3>5, Numbers
        <4> QED
          BY <2>6, <3>3, <4>1
      <3> QED
        BY <1>2, <3>2, <3>4, <3>5 DEF SecondHalf
    <2> QED
      BY <1>2, <2>7, <2>8, <2>10, <2>11, <2>12 DEF TInv
  <1> QED
    BY <1>1, <1>3, <1>4 DEF Begin

(* The session is opened, closed or given up, or the bus is reset.         *)
LEMMA SessionStep ==
    ASSUME IInv, WireInv, TInv, Session
    PROVE  TInv'
  <1>1. job' = "none" /\ stage' = 0 /\ path' = NoPath /\ temp' = temp /\ asked' = StillAsked
    BY DEF Session
  <1>2. FirstHalf' /\ SecondHalf'
    BY <1>1 DEF FirstHalf, SecondHalf
  <1>3. StillAsked \in [1..MaxCommands -> [what : Purposes, file : Paths \cup {NoPath}]]
    BY DEF StillAsked, NothingAsked, TInv, TransfersTypeOK, Purposes
  <1>4. TransfersTypeOK'
    BY <1>1, <1>3 DEF TInv, TransfersTypeOK, Jobs
  <1>5. CASE UsbReset
    <2>1. Len(wire') = 0 /\ pc' = "idle" /\ result'.kind = "none"
      BY <1>5 DEF UsbReset, NoResult
    <2>2. Purposeful' /\ DataKnown'
      BY <2>1 DEF Purposeful, DataKnown, Returned
    <2> QED
      BY <1>2, <1>4, <2>2 DEF TInv
  <1>6. ASSUME sent' \in Nat, sent <= sent',
               \A i \in 1..Len(wire') :
                  ~IsResponse(wire'[i]) => i \in 1..Len(wire) /\ wire'[i] = wire[i]
        PROVE  Purposeful'
    <2>1. \A n \in (answered + 1)..sent : StillAsked[n] = asked[n]
      BY <1>6, Kept DEF TInv
    <2> SUFFICES ASSUME NEW i \in 1..Len(wire'), ~IsResponse(wire'[i])
                 PROVE  asked'[wire'[i].from].what \in WithData
      BY DEF Purposeful
    <2>2. i \in 1..Len(wire) /\ wire'[i] = wire[i] /\ wire[i].from \in (answered + 1)..sent
      BY <1>6 DEF WireInv, Wired
    <2> QED
      BY <1>1, <2>1, <2>2 DEF TInv, Purposeful
  <1>7. CASE NewSession
    <2>1. pc' = "idle" /\ result'.kind = "none" /\ wire' = wire /\ sent' = sent
      BY <1>7 DEF NewSession, NoResult
    <2>2. DataKnown'
      BY <2>1 DEF DataKnown, Returned
    <2>3. Purposeful'
      BY <1>6, <2>1, Numbers
    <2> QED
      BY <1>2, <1>4, <2>2, <2>3 DEF TInv
  <1>8. CASE Open \/ Close
    <2>1. PICK o \in {"open", "close"}, tx \in {1, txId} : Begin(o, FALSE, tx)
      BY <1>8 DEF Open, Close
    <2>2. DataKnown'
      BY <2>1 DEF Begin, DataKnown
    <2>3. CASE WriteFails
      <3>1. wire' = wire /\ sent' = sent
        BY <2>3 DEF WriteFails
      <3>2. Purposeful'
        BY <1>6, <3>1, Numbers
      <3> QED
        BY <1>2, <1>4, <2>2, <3>2 DEF TInv
    <2>4. CASE Written(o, FALSE)
      <3>1. o \in Operations /\ o # "call"
        BY DEF Operations
      <3>2. /\ sent' = sent + 1 /\ Len(wire') \in Nat /\ Len(wire') > Len(wire)
            /\ \A i \in 1..Len(wire) : wire'[i] = wire[i]
            /\ \A i \in (Len(wire) + 1)..Len(wire') : IsResponse(wire'[i])
        BY <2>4, <3>1, NewWire
      <3>3. Purposeful'
        BY <1>6, <3>2, Numbers
      <3> QED
        BY <1>2, <1>4, <2>2, <3>3 DEF TInv
    <2> QED
      BY <2>1, <2>3, <2>4 DEF Begin
  <1> QED
    BY <1>5, <1>7, <1>8 DEF Session

-----------------------------------------------------------------------------
(* The reads: what is left on the wire and what is known of the data.      *)
LEMMA ReadPurposes ==
    ASSUME IInv, WireInv, TInv, Take \/ TakePart, asked' = asked
    PROVE  /\ Purposeful'
           /\ \A i \in 1..Len(wire') : wire'[i].kind = "OK" =>
                 \E j \in 1..Len(wire) : wire'[i].from = wire[j].from /\ wire[j].kind = "OK"
           /\ 1 \in 1..Len(wire) /\ wire[1].from \in 1..MaxCommands
           /\ wire[1].from = answered + 1 /\ Head(wire) = wire[1]
           /\ ~IsResponse(wire[1]) => asked[wire[1].from].what \in WithData
           /\ UNCHANGED <<txId, cmd, camOpen, sent>>
  <1>1. /\ 1 \in 1..Len(wire)
        /\ \A i \in 1..Len(wire') : \E j \in 1..Len(wire) :
              /\ wire'[i].from = wire[j].from
              /\ IsResponse(wire'[i]) <=> IsResponse(wire[j])
              /\ wire'[i].kind = "OK" => wire[j].kind = "OK"
    BY Leftover
  <1>2. /\ wire[1].from = answered + 1 /\ wire[1] \in Containers /\ Head(wire) = wire[1]
        /\ UNCHANGED <<txId, cmd, camOpen, sent>>
    BY AnyRead
  <1>3. wire[1].from \in 1..MaxCommands
    BY <1>2, ContainerType
  <1>4. Purposeful'
    BY <1>1 DEF TInv, Purposeful
  <1> QED
    BY <1>1, <1>2, <1>3, <1>4 DEF TInv, Purposeful

(* A read after which the transaction goes on.                             *)
LEMMA GoesOn ==
    ASSUME IInv, WireInv, TInv, Take \/ TakePart, UNCHANGED transfer,
           pc # "idle", pc' # "idle",
           abandoned' = abandoned, misread' = misread, ~misread => DataKnown'
    PROVE  TInv'
  <1>1. /\ Purposeful' /\ sent' = sent /\ cmd' = cmd
        /\ \A i \in 1..Len(wire') : wire'[i].kind = "OK" =>
              \E j \in 1..Len(wire) : wire'[i].from = wire[j].from /\ wire[j].kind = "OK"
    BY ReadPurposes DEF transfer
  <1>2. TransfersTypeOK'
    BY DEF TInv, TransfersTypeOK, transfer
  <1>3. ~misread => FirstHalf'
    <2> SUFFICES ASSUME ~misread, job = "download_file", stage = 1
                 PROVE  FirstHalf'
      BY DEF FirstHalf, transfer
    <2>1. /\ sent \in 1..MaxCommands /\ asked[sent].what = "temp"
          /\ \A i \in 1..Len(wire) :
                  wire[i].from = sent /\ wire[i].kind = "OK" => temp = path
      BY DEF TInv, FirstHalf
    <2>2. ASSUME NEW i \in 1..Len(wire'), wire'[i].from = sent, wire'[i].kind = "OK"
          PROVE  temp = path
      BY <1>1, <2>1, <2>2
    <2> QED
      BY <1>1, <2>1, <2>2 DEF FirstHalf, transfer
  <1>4. ~misread => SecondHalf'
    BY <1>1 DEF TInv, SecondHalf, transfer
  <1> QED
    BY <1>1, <1>2, <1>3, <1>4 DEF TInv

(* A read at which the call raises, or times out.                          *)
LEMMA RaiseStep ==
    ASSUME IInv, WireInv, TInv, UNCHANGED transfer, Purposeful',
           NEW kind \in {"ptp", "value", "usb"}, NEW read, Raise(kind, read)
    PROVE  TInv'
  <1>1. pc' = "idle" /\ result'.kind \notin {"ok", "error"}
    BY DEF Raise, NoResult
  <1>2. TransfersTypeOK'
    BY DEF TInv, TransfersTypeOK, transfer
  <1>3. DataKnown' /\ FirstHalf' /\ SecondHalf'
    BY <1>1 DEF DataKnown, FirstHalf, SecondHalf, Returned, Succeeded
  <1> QED
    BY <1>2, <1>3 DEF TInv

(* A response ends the call.                                               *)
LEMMA RespondStep ==
    ASSUME IInv, WireInv, TInv, Take, UNCHANGED transfer, pc \in {"resp", "resp2"},
           misread' = misread, IsResponse(wire[1]), Respond(wire[1])
    PROVE  TInv'
  <1>1. /\ Purposeful' /\ sent' = sent /\ cmd' = cmd /\ 1 \in 1..Len(wire)
        /\ wire[1].from = answered + 1
    BY ReadPurposes DEF transfer
  <1>2. TransfersTypeOK'
    BY DEF TInv, TransfersTypeOK, transfer
  <1>3. /\ pc' = "idle" /\ abandoned' = abandoned /\ result'.data = result.data
        /\ result'.kind = IF wire[1].kind = "OK" THEN "ok" ELSE "error"
    BY DEF Respond, IInv, TypeOK
  <1>4. ~misread => DataKnown'
    <2>1. ~misread /\ cmd.wants => pc = "resp"
      BY DEF IInv, InStep
    <2> QED
      BY <1>1, <1>3, <2>1 DEF TInv, DataKnown, transfer
  <1>5. ~misread => FirstHalf'
    <2> SUFFICES ASSUME ~misread, job = "download_file", stage = 1, wire[1].kind = "OK"
                 PROVE  FirstHalf'
      BY <1>3 DEF FirstHalf, Succeeded, transfer
    <2>1. /\ sent \in 1..MaxCommands /\ asked[sent].what = "temp"
          /\ \A i \in 1..Len(wire) :
                  wire[i].from = sent /\ wire[i].kind = "OK" => temp = path
      BY DEF TInv, FirstHalf
    <2>2. abandoned = 0 => wire[1].from = sent
      BY <1>1, Numbers
    <2> QED
      BY <1>1, <1>3, <2>1, <2>2 DEF FirstHalf, transfer
  <1>6. ~misread => SecondHalf'
    BY <1>1, <1>3 DEF TInv, SecondHalf, transfer
  <1> QED
    BY <1>1, <1>2, <1>4, <1>5, <1>6 DEF TInv

LEMMA ReadStep ==
    ASSUME IInv, WireInv, TInv, Reading, UNCHANGED transfer
    PROVE  TInv'
  <1>1. CASE ReceiveData
    <2>1. /\ Take /\ pc = "data" /\ misread' = misread
          /\ \/ /\ IsData(wire[1])
                /\ GoOn(IF wire[1].more > 0 THEN "rest" ELSE "resp", wire[1].more)
                /\ result' = [result EXCEPT !.data = wire[1].from]
             \/ Raise("ptp", ~Garbled(wire[1]))
             \/ Raise("value", FALSE)
      BY <1>1, TakeInv DEF ReceiveData
    <2>2. asked' = asked
      BY DEF transfer
    <2>3. /\ Purposeful' /\ wire[1].from \in 1..MaxCommands /\ UNCHANGED cmd
          /\ ~IsResponse(wire[1]) => asked[wire[1].from].what \in WithData
      BY <2>1, <2>2, ReadPurposes
    <2>4. CASE /\ IsData(wire[1])
               /\ GoOn(IF wire[1].more > 0 THEN "rest" ELSE "resp", wire[1].more)
               /\ result' = [result EXCEPT !.data = wire[1].from]
      <3>1. pc' # "idle" /\ abandoned' = abandoned /\ result'.data = wire[1].from
        BY <2>4 DEF GoOn, IInv, TypeOK
      <3>2. ~IsResponse(wire[1])
        BY <2>4 DEF IsData, IsResponse, Responses
      <3>3. DataKnown'
        BY <2>2, <2>3, <3>1, <3>2 DEF DataKnown
      <3> QED
        BY <2>1, <3>1, <3>3, GoesOn
    <2> QED
      BY <2>1, <2>3, <2>4, RaiseStep
  <1>2. CASE ReceiveRest
    <2>1. /\ Take /\ pc = "rest" /\ pc' \in {"rest", "resp"} /\ abandoned' = abandoned
          /\ result' = result /\ cmd' = cmd /\ asked' = asked /\ misread' = misread
      BY <1>2 DEF ReceiveRest, GoOn, Take, transfer
    <2>2. ~misread => DataKnown'
      BY <2>1 DEF TInv, DataKnown
    <2> QED
      BY <2>1, <2>2, GoesOn
  <1>3. CASE ReceiveResponse
    <2>1. /\ Take \/ TakePart
          /\ pc \in {"resp", "resp2"} /\ asked' = asked /\ misread' = misread
      BY <1>3 DEF ReceiveResponse, transfer
    <2>4. Head(wire) = wire[1]
      BY <2>1, AnyRead
    <2>5. \/ Take /\ IsResponse(wire[1]) /\ Respond(wire[1])
          \/ IsData(wire[1]) /\ pc = "resp" /\ GoOn("resp2", 0) /\ result' = result
          \/ Raise("ptp", FALSE)
          \/ Raise("value", FALSE)
      BY <1>3, <2>4 DEF ReceiveResponse, IsResponse
    <2>2. Purposeful' /\ UNCHANGED cmd
      BY <2>1, ReadPurposes
    <2>3. CASE IsData(wire[1]) /\ pc = "resp" /\ GoOn("resp2", 0) /\ result' = result
      <3>1. pc' = "resp2" /\ abandoned' = abandoned
        BY <2>3 DEF GoOn
      <3>2. DataKnown'
        BY <3>1 DEF DataKnown, Returned
      <3> QED
        BY <2>1, <3>1, <3>2, GoesOn
    <2> QED
      BY <2>1, <2>2, <2>3, <2>5, RespondStep, RaiseStep
  <1>4. CASE ReadTimeout
    <2>1. Raise("usb", FALSE) /\ wire' = wire /\ asked' = asked
      BY <1>4 DEF ReadTimeout, transfer
    <2>2. Purposeful'
      BY <2>1 DEF TInv, Purposeful
    <2> QED
      BY <2>1, <2>2, RaiseStep
  <1>5. CASE Misread
    <2>1. /\ misread' = TRUE /\ (Take \/ TakePart) /\ asked' = asked
      BY <1>5 DEF Misread, TakenForData, TakenForSkipped, TakenForResponse, transfer
    <2>2. Purposeful'
      BY <2>1, ReadPurposes
    <2> QED
      BY <2>1, <2>2 DEF TInv, TransfersTypeOK, transfer
  <1> QED
    BY <1>1, <1>2, <1>3, <1>4, <1>5 DEF Reading

-----------------------------------------------------------------------------
(* Every step is a step of PTPSession, or leaves its variables alone.      *)
LEMMA StepsOfASession == [TransfersNext]_allVars => [Next]_vars
  <1>1. ASSUME NEW what, NEW p, Ask(what, p) PROVE Next
    BY <1>1 DEF Ask, Next
  <1>2. Session => Next
    BY DEF Session, Next
  <1>3. Reading => Next
    BY DEF Reading, Next
  <1> QED
    BY <1>1, <1>2, <1>3
    DEF TransfersNext, Upload, Frame, Download, DownloadData, allVars

LEMMA TransfersNextInv ==
    ASSUME IInv, WireInv, TInv, [TransfersNext]_allVars
    PROVE  TInv'
  <1>1. CASE Upload
    <2>1. Starts("upload_file", NoPath) /\ Ask("upload", NoPath)
      BY <1>1 DEF Upload
    <2>2. job' = "upload_file" /\ stage' = 1 /\ path' = NoPath
      BY <2>1 DEF Starts
    <2> QED
      BY <2>1, <2>2, AskStep DEF Jobs, Purposes
  <1>2. CASE Frame
    <2>1. Starts("get_frames", NoPath) /\ Ask("frame", NoPath)
      BY <1>2 DEF Frame
    <2>2. job' = "get_frames" /\ stage' = 1 /\ path' = NoPath
      BY <2>1 DEF Starts
    <2> QED
      BY <2>1, <2>2, AskStep DEF Jobs, Purposes
  <1>3. ASSUME NEW p \in Paths, Download(p) PROVE TInv'
    <2>1. Starts("download_file", p) /\ Ask("temp", p)
      BY <1>3 DEF Download
    <2>2. job' = "download_file" /\ stage' = 1 /\ path' = p
      BY <2>1 DEF Starts
    <2> QED
      BY <2>1, <2>2, AskStep DEF Jobs, Purposes
  <1>4. CASE DownloadData
    <2>1. /\ Midway /\ Ask("file", path) /\ stage' = 2 /\ path' = path
          /\ job' = "download_file" /\ path \in Paths \cup {NoPath}
      BY <1>4 DEF DownloadData, Midway, DataPending, TInv, TransfersTypeOK
    <2> QED
      BY <2>1, AskStep DEF Jobs, Purposes
  <1>5. CASE Session
    BY <1>5, SessionStep
  <1>6. CASE Reading /\ UNCHANGED transfer
    BY <1>6, ReadStep
  <1>7. CASE UNCHANGED allVars
    BY <1>7 DEF allVars, vars, transfer, TInv, TransfersTypeOK, Purposeful, DataKnown,
                FirstHalf, SecondHalf, Returned, Succeeded, IsResponse
  <1> QED
    BY <1>1, <1>2, <1>3, <1>4, <1>5, <1>6, <1>7 DEF TransfersNext

(* The file transfers of ChdkPTP are sessions of PTPSession: what is       *)
(* proved of transaction() holds of each of theirs.                        *)
THEOREM TransfersAreSessions == TransfersSpec => Spec
  <1>1. TransfersInit => Init
    BY DEF TransfersInit
  <1> QED
    BY <1>1, StepsOfASession, PTL DEF TransfersSpec, Spec

LEMMA TransfersInvariance == TransfersSpec => [](IInv /\ TInv)
  <1>1. TransfersInit => TInv
    <2> SUFFICES ASSUME TransfersInit PROVE TInv
      OBVIOUS
    <2>1. /\ Len(wire) = 0 /\ pc = "idle" /\ result.kind = "none" /\ job = "none"
          /\ stage = 0 /\ path = NoPath /\ temp = NoPath /\ asked = NothingAsked
      BY EmptySeq DEF TransfersInit, Init, NoResult
    <2>2. TransfersTypeOK
      BY <2>1 DEF TransfersTypeOK, NothingAsked, Jobs, Purposes
    <2>3. Purposeful /\ DataKnown /\ FirstHalf /\ SecondHalf
      BY <2>1 DEF Purposeful, DataKnown, FirstHalf, SecondHalf, Returned, Succeeded
    <2> QED
      BY <2>2, <2>3 DEF TInv
  <1>2. IInv /\ WireInv /\ TInv /\ [TransfersNext]_allVars => TInv'
    BY TransfersNextInv
  <1> QED
    BY <1>1, <1>2, TransfersAreSessions, WireInvariance, PTL DEF TransfersSpec

(* Types: the purposes of the commands, the calls and their stages.        *)
THEOREM TransfersTypeCorrect == TransfersSpec => []TransfersTypeOK
  <1>1. TInv => TransfersTypeOK
    BY DEF TInv
  <1> QED
    BY <1>1, TransfersInvariance, PTL

(* download_file returns another file's bytes only after two calls have    *)
(* been abandoned since the last USB reset (chdk.py 339-350), or when      *)
(* payload has been taken for a container.                                 *)
THEOREM RightFileUnlessTwoLosses == TransfersSpec => []WrongFileTakesTwoLosses
  <1>1. IInv /\ TInv => WrongFileTakesTwoLosses
    <2> SUFFICES ASSUME IInv, TInv, Downloaded, ~misread, ~(abandoned >= 2)
                 PROVE  asked[result.data] = [what |-> "file", file |-> path]
      BY DEF WrongFileTakesTwoLosses
    <2>1. Returned /\ cmd.wants
      BY DEF Downloaded, Succeeded, Returned, TInv, SecondHalf
    <2>2. result.data = sent - abandoned
      BY <2>1, Numbers DEF IInv, InStep, Returned
    <2>3. asked[result.data].what \in {"file", "frame"}
      BY <2>1 DEF TInv, DataKnown, WithData
    <2>4. abandoned = 0 \/ abandoned = 1
      BY Numbers
    <2>5. CASE abandoned = 0
      <3>1. result.data = sent
        BY <2>2, <2>5, Numbers
      <3> QED
        BY <2>5, <3>1 DEF TInv, SecondHalf, Downloaded
    <2>6. CASE abandoned = 1
      BY <2>2, <2>3, <2>6 DEF TInv, SecondHalf, Downloaded
    <2> QED
      BY <2>4, <2>5, <2>6
  <1> QED
    BY <1>1, TransfersInvariance, PTL
=============================================================================
