---------------------------- MODULE EncoderProofs ----------------------------
(***************************************************************************)
(* EncoderConfig for every set of clients, every number of calls and every *)
(* order in which the device serves, refuses or ignores what it was sent.  *)
(***************************************************************************)
EXTENDS EncoderConfig, TLAPS

Kinds == {"full", "bare", "empty", "done", "fault"}
Messages == [call : Call, op : {"get", "set"}, nonce : 0 .. 2, cfg : Config]

\* The configuration that stands for "none" is a configuration.
LEMMA BlankIsConfig ==
    ASSUME NEW k \in Rates
    PROVE  Blank \in Config
  BY EncoderAssumption DEF Blank, Config

\* A client that may begin a call has a number for it.
LEMMA NextCall ==
    ASSUME TypeOK, NEW c \in Clients, calls[c] < MaxCalls
    PROVE  /\ calls[c] + 1 \in 0 .. MaxCalls
           /\ <<c, calls[c] + 1>> \in Call
  BY EncoderAssumption DEF TypeOK, Call

\* What Begin and SendSet put into the inbox keeps the inbox well typed.
LEMMA SendTypes ==
    ASSUME TypeOK, NEW c \in Clients, NEW call \in Call, NEW op \in {"get", "set"},
           NEW config \in Config, NEW next \in {"getting", "setting"},
           header' \in [Clients -> 0 .. 2],
           Send(c, call, op, config, next)
    PROVE  /\ inbox' \subseteq Messages
           /\ pc' \in [Clients -> {"idle", "getting", "got", "setting"}]
           /\ result' \in [Clients -> {"none", "ok", "error"}]
           /\ outbox' = outbox
  <1>1. [call |-> call, op |-> op, nonce |-> header'[c], cfg |-> config] \in Messages
    BY DEF Messages
  <1> QED
    BY <1>1 DEF Send, TypeOK, Messages

\* Leaving a call only removes answers.
LEMMA ReturnTypes ==
    ASSUME TypeOK, NEW c \in Clients, NEW code \in {"ok", "error"}, Return(c, code)
    PROVE  /\ pc' \in [Clients -> {"idle", "getting", "got", "setting"}]
           /\ result' \in [Clients -> {"none", "ok", "error"}]
           /\ header' \in [Clients -> 0 .. 2]
           /\ outbox' \subseteq outbox
  BY DEF Return, TypeOK

\* A device's answer is at most one well-typed message more.
LEMMA AnswerTypes ==
    ASSUME TypeOK, NEW r \in inbox, NEW kind \in Kinds, NEW config \in Config,
           Answer(r, kind, config)
    PROVE  outbox' \subseteq [call : Call, kind : Kinds, cfg : Config]
  <1>1. [call |-> r.call, kind |-> kind, cfg |-> config]
            \in [call : Call, kind : Kinds, cfg : Config]
    BY DEF TypeOK
  <1> QED
    BY <1>1 DEF Answer, TypeOK, Kinds

\* Serving removes the request and remembers its nonce.
LEMMA ServeTypes ==
    ASSUME TypeOK, NEW r \in inbox, Serve(r)
    PROVE  /\ inbox' \subseteq Messages
           /\ seen' \subseteq (Call \X (0 .. 2))
  BY DEF Serve, TypeOK, Nonce, Messages

-----------------------------------------------------------------------------
\* Every variable keeps its range, for every value of the constants.
THEOREM EncoderTypeCorrect == Spec => []TypeOK
<1>1. Init => TypeOK
  <2> SUFFICES ASSUME Init PROVE TypeOK
    OBVIOUS
  <2>1. cfg.rate \in Rates
    BY DEF Init
  <2>2. Blank \in Config
    BY <2>1, BlankIsConfig
  <2>3. snap \in [Clients -> Config]
    BY <2>2 DEF Init
  <2>4. heard \in [Clients -> Seq({"full", "bare", "empty", "done", "fault"})]
    BY DEF Init
  <2> QED
    BY <2>3, <2>4, EncoderAssumption DEF Init, TypeOK
<1>2. TypeOK /\ [Next]_vars => TypeOK'
  <2> SUFFICES ASSUME TypeOK, [Next]_vars
               PROVE  TypeOK'
    OBVIOUS
  <2>0. Blank \in Config
    BY BlankIsConfig DEF TypeOK
  <2>1. ASSUME NEW c \in Clients, NEW r \in Resolutions, Begin(c, r)
        PROVE  TypeOK'
    <3>1. <<c, calls[c] + 1>> \in Call /\ calls[c] + 1 \in 0 .. MaxCalls
      BY <2>1, NextCall DEF Begin
    <3>2. header' \in [Clients -> 0 .. 2]
      BY <2>1 DEF Begin, TypeOK
    <3>3. /\ inbox' \subseteq Messages
          /\ pc' \in [Clients -> {"idle", "getting", "got", "setting"}]
          /\ result' \in [Clients -> {"none", "ok", "error"}]
          /\ outbox' = outbox
      BY <2>0, <2>1, <3>1, <3>2, SendTypes DEF Begin
    <3>4. calls' \in [Clients -> 0 .. MaxCalls] /\ want' \in [Clients -> Resolutions]
      BY <2>1, <3>1 DEF Begin, TypeOK
    <3>5. heard' \in [Clients -> Seq(Kinds)]
      BY <2>1 DEF Begin, TypeOK, Kinds
    <3>6. \A d \in Clients : pc'[d] # "idle" => calls'[d] > 0
      BY <2>1 DEF Begin, Send, TypeOK
    <3> QED
      BY <2>1, <3>2, <3>3, <3>4, <3>5, <3>6 DEF Begin, TypeOK, device, Messages, Kinds
  <2>2. ASSUME NEW c \in Clients, RecvGet(c)
        PROVE  TypeOK'
    <3> PICK a \in outbox :
          /\ a.call = This(c)
          /\ heard' = [heard EXCEPT ![c] = Append(@, a.kind)]
          /\ \/ /\ a.kind \in {"full", "bare"}
                /\ snap' = [snap EXCEPT ![c] = a.cfg]
                /\ pc' = [pc EXCEPT ![c] = "got"]
                /\ header' = [header EXCEPT ![c] = 0]
                /\ outbox' = outbox \ {a}
                /\ UNCHANGED result
             \/ a.kind = "empty" /\ Return(c, "ok") /\ UNCHANGED snap
             \/ a.kind = "fault" /\ Return(c, "error") /\ UNCHANGED snap
      BY <2>2 DEF RecvGet
    <3>1. a.cfg \in Config /\ a.kind \in Kinds
      BY DEF TypeOK, Kinds
    <3>2. heard' \in [Clients -> Seq(Kinds)]
      BY <3>1 DEF TypeOK, Kinds
    <3>3. /\ pc' \in [Clients -> {"idle", "getting", "got", "setting"}]
          /\ result' \in [Clients -> {"none", "ok", "error"}]
          /\ header' \in [Clients -> 0 .. 2]
          /\ outbox' \subseteq outbox
          /\ snap' \in [Clients -> Config]
      <4>1. CASE pc' = [pc EXCEPT ![c] = "got"] /\ header' = [header EXCEPT ![c] = 0]
                 /\ snap' = [snap EXCEPT ![c] = a.cfg] /\ outbox' = outbox \ {a}
                 /\ result' = result
        BY <3>1, <4>1 DEF TypeOK
      <4>2. CASE Return(c, "ok") /\ snap' = snap
        BY <4>2, ReturnTypes DEF TypeOK
      <4>3. CASE Return(c, "error") /\ snap' = snap
        BY <4>3, ReturnTypes DEF TypeOK
      <4> QED
        BY <4>1, <4>2, <4>3
    <3>4. \A d \in Clients : pc'[d] # "idle" => calls'[d] > 0
      <4>1. pc[c] # "idle" /\ calls' = calls
        BY <2>2 DEF RecvGet
      <4>2. pc' = [pc EXCEPT ![c] = "got"] \/ pc' = [pc EXCEPT ![c] = "idle"]
        BY DEF Return
      <4> QED
        BY <4>1, <4>2 DEF TypeOK
    <3> QED
      BY <2>2, <3>2, <3>3, <3>4 DEF RecvGet, TypeOK, device, Kinds
  <2>3. ASSUME NEW c \in Clients, SendSet(c)
        PROVE  TypeOK'
    <3>1. Request(c) \in Config
      <4>1. snap[c] \in Config /\ want[c] \in Resolutions
        BY DEF TypeOK
      <4> QED
        BY <4>1 DEF Request, Config
    <3>2. This(c) \in Call
      <4>1. calls[c] \in 0 .. MaxCalls /\ calls[c] > 0
        BY <2>3 DEF SendSet, TypeOK
      <4> QED
        BY <4>1, EncoderAssumption DEF This, Call
    <3>3. header' \in [Clients -> 0 .. 2]
      BY <2>3 DEF SendSet, TypeOK
    <3>4. /\ inbox' \subseteq Messages
          /\ pc' \in [Clients -> {"idle", "getting", "got", "setting"}]
          /\ result' \in [Clients -> {"none", "ok", "error"}]
          /\ outbox' = outbox
      BY <2>3, <3>1, <3>2, <3>3, SendTypes DEF SendSet
    <3>5. \A d \in Clients : pc'[d] # "idle" => calls'[d] > 0
      BY <2>3 DEF SendSet, Send, TypeOK
    <3> QED
      BY <2>3, <3>3, <3>4, <3>5 DEF SendSet, TypeOK, device, Messages
  <2>4. ASSUME NEW c \in Clients, RecvSet(c)
        PROVE  TypeOK'
    <3> PICK a \in outbox :
          /\ heard' = [heard EXCEPT ![c] = Append(@, a.kind)]
          /\ Return(c, IF a.kind = "fault" THEN "error" ELSE "ok")
      BY <2>4 DEF RecvSet
    <3>1. heard' \in [Clients -> Seq(Kinds)]
      BY DEF TypeOK, Kinds
    <3>2. /\ pc' \in [Clients -> {"idle", "getting", "got", "setting"}]
          /\ result' \in [Clients -> {"none", "ok", "error"}]
          /\ header' \in [Clients -> 0 .. 2]
          /\ outbox' \subseteq outbox
      BY ReturnTypes
    <3>3. \A d \in Clients : pc'[d] # "idle" => calls'[d] > 0
      BY <2>4 DEF RecvSet, Return, TypeOK
    <3> QED
      BY <2>4, <3>1, <3>2, <3>3 DEF RecvSet, TypeOK, device, Kinds
  <2>5. ASSUME NEW c \in Clients, GiveUp(c)
        PROVE  TypeOK'
    <3>1. /\ pc' \in [Clients -> {"idle", "getting", "got", "setting"}]
          /\ result' \in [Clients -> {"none", "ok", "error"}]
          /\ header' \in [Clients -> 0 .. 2]
          /\ outbox' \subseteq outbox
      BY <2>5, ReturnTypes DEF GiveUp
    <3>2. \A d \in Clients : pc'[d] # "idle" => calls'[d] > 0
      BY <2>5 DEF GiveUp, Return, TypeOK
    <3> QED
      BY <2>5, <3>1, <3>2 DEF GiveUp, TypeOK, device
  <2>6. ASSUME NEW r \in inbox, ServeGet(r)
        PROVE  TypeOK'
    <3>1. Now \in Config /\ [Now EXCEPT !.res = Absent] \in Config
      BY DEF Now, TypeOK, Config
    <3>2. outbox' \subseteq [call : Call, kind : Kinds, cfg : Config]
      BY <2>0, <2>6, <3>1, AnswerTypes DEF ServeGet, Kinds
    <3>3. inbox' \subseteq Messages /\ seen' \subseteq (Call \X (0 .. 2))
      BY <2>6, ServeTypes DEF ServeGet
    <3> QED
      BY <2>6, <3>2, <3>3 DEF ServeGet, Serve, TypeOK, Messages, Kinds
  <2>7. ASSUME NEW r \in inbox, ServeSet(r)
        PROVE  TypeOK'
    <3>1. outbox' \subseteq [call : Call, kind : Kinds, cfg : Config]
      BY <2>0, <2>7, AnswerTypes DEF ServeSet, Kinds
    <3>2. inbox' \subseteq Messages /\ seen' \subseteq (Call \X (0 .. 2))
      BY <2>7, ServeTypes DEF ServeSet
    <3>3. cfg' \in [res : Resolutions, rate : Rates] /\ version' \in Nat
      BY <2>7 DEF ServeSet, TypeOK, Config
    <3>4. applied' \subseteq Call
      BY <2>7 DEF ServeSet, TypeOK
    <3> QED
      BY <2>7, <3>1, <3>2, <3>3, <3>4 DEF ServeSet, Serve, TypeOK, Messages, Kinds
  <2>8. ASSUME NEW r \in inbox, Refuse(r)
        PROVE  TypeOK'
    <3>1. outbox' \subseteq [call : Call, kind : Kinds, cfg : Config]
      BY <2>0, <2>8, AnswerTypes DEF Refuse, Kinds
    <3>2. inbox' \subseteq Messages /\ seen' \subseteq (Call \X (0 .. 2))
      BY <2>8, ServeTypes DEF Refuse
    <3> QED
      BY <2>8, <3>1, <3>2 DEF Refuse, Serve, TypeOK, Messages, Kinds
  <2>9. CASE Edit
    <3>1. cfg' \in [res : Resolutions, rate : Rates]
      BY <2>9 DEF Edit, TypeOK
    <3>2. version' \in Nat /\ edits' \in 0 .. MaxEdits
      BY <2>9, EncoderAssumption DEF Edit, TypeOK
    <3> QED
      BY <2>9, <3>1, <3>2 DEF Edit, TypeOK
  <2>10. ASSUME NEW c \in Clients, Hold(c)
         PROVE  TypeOK'
    BY <2>10 DEF Hold, TypeOK
  <2>11. CASE UNCHANGED vars
    BY <2>11 DEF vars, TypeOK
  <2> QED
    BY <2>1, <2>2, <2>3, <2>4, <2>5, <2>6, <2>7, <2>8, <2>9, <2>10, <2>11
    DEF Next, Proceed, Finished
<1> QED
  BY <1>1, <1>2, PTL DEF Spec

-----------------------------------------------------------------------------
(***************************************************************************)
(* InStep is inductive once the tokens are counted: a caller that has not  *)
(* sent its Set yet has not used its second token either.                  *)
(***************************************************************************)
TokensFresh ==
    /\ \A r \in inbox : r.nonce = IF r.op = "get" THEN 1 ELSE 2
    /\ \A s \in seen : s[1][2] <= calls[s[1][1]]
    /\ \A c \in Clients : pc[c] \in {"getting", "got"} => <<This(c), 2>> \notin seen

HeardNothing == \A c \in Clients : pc[c] = "getting" => heard[c] = << >>

IInv == TypeOK /\ InStep /\ TokensFresh /\ RequestsAreAuthentic
             /\ HeardNothing /\ SuccessMeansApplied


\* The fields of a message, and the two halves of a call.
LEMMA RequestFields ==
    ASSUME TypeOK, NEW r \in inbox
    PROVE  /\ r.call \in Call /\ r.op \in {"get", "set"} /\ r.cfg \in Config
           /\ r.call[1] \in Clients /\ r.call[2] \in Nat
           /\ r.call = <<r.call[1], r.call[2]>>
  <1>1. r.call \in Call /\ r.op \in {"get", "set"} /\ r.cfg \in Config
    BY DEF TypeOK
  <1> QED
    BY <1>1, EncoderAssumption DEF Call

LEMMA AnswerFields ==
    ASSUME TypeOK, NEW a \in outbox
    PROVE  /\ a.call \in Call /\ a.cfg \in Config /\ a.kind \in Kinds
           /\ a.call[1] \in Clients /\ a.call[2] \in Nat
           /\ a.call = <<a.call[1], a.call[2]>>
  <1>1. a.call \in Call /\ a.cfg \in Config /\ a.kind \in Kinds
    BY DEF TypeOK, Kinds
  <1> QED
    BY <1>1, EncoderAssumption DEF Call

\* Two calls are the same call only if client and number agree.
LEMMA SamePair ==
    ASSUME NEW c, NEW d, NEW m, NEW n
    PROVE  <<c, m>> = <<d, n>> <=> c = d /\ m = n
  OBVIOUS

\* Beginning a call: its number is new, so nothing under way belongs to it.
LEMMA BeginInStep ==
    ASSUME IInv, NEW c \in Clients, NEW x \in Resolutions, Begin(c, x)
    PROVE  InStep'
  <1> DEFINE new == [call |-> <<c, calls[c] + 1>>, op |-> "get",
                     nonce |-> header'[c], cfg |-> Blank]
  <1>1. /\ pc[c] = "idle" /\ calls[c] \in Nat
        /\ calls' = [calls EXCEPT ![c] = @ + 1]
        /\ outbox' = outbox /\ applied' = applied
        /\ \/ inbox' = inbox \union {new} /\ pc' = [pc EXCEPT ![c] = "getting"]
           \/ inbox' = inbox /\ pc' = [pc EXCEPT ![c] = "idle"]
    BY DEF Begin, Send, device, IInv, TypeOK
  <1>2. \A r \in inbox : r.call[1] \in Clients /\ r.call[2] \in Nat
                         /\ r.call = <<r.call[1], r.call[2]>>
                         /\ r.call[2] <= calls[r.call[1]]
    BY RequestFields DEF IInv, InStep, MessagesBelong
  <1>3. \A a \in outbox : a.call[1] \in Clients /\ a.call[1] # c
    BY <1>1, AnswerFields DEF IInv, InStep, MessagesBelong, Awaiting
  <1>4. /\ \A d \in Clients \ {c} : calls'[d] = calls[d] /\ pc'[d] = pc[d]
        /\ calls'[c] = calls[c] + 1 /\ pc'[c] \in {"getting", "idle"}
    BY <1>1 DEF IInv, TypeOK
  <1>5. \A r \in inbox : r.call # new.call /\ (r.call[1] = c => r.call[2] # calls'[c])
    BY <1>1, <1>2, <1>4
  <1>6. new.call = <<c, calls'[c]>> /\ new.call[1] = c /\ new.call[2] = calls'[c]
        /\ new.op = "get"
    BY <1>4
  <1>7. MessagesBelong'
    <2>1. \A r \in inbox' : r.call[2] <= calls'[r.call[1]]
      BY <1>1, <1>2, <1>4, <1>6 DEF IInv, TypeOK
    <2>2. \A a \in outbox' : a.call = This(a.call[1])' /\ Awaiting(a.call[1])'
      BY <1>1, <1>3, <1>4 DEF IInv, InStep, MessagesBelong, This, Awaiting
    <2>3. \A r, q \in inbox' : r.call = q.call => r = q
      BY <1>1, <1>5 DEF IInv, InStep, MessagesBelong
    <2>4. \A r \in inbox', a \in outbox' : r.call # a.call
      BY <1>1, <1>3, <1>6 DEF IInv, InStep, MessagesBelong
    <2> QED
      BY <1>1, <2>1, <2>2, <2>3, <2>4 DEF IInv, InStep, MessagesBelong
  <1>8. MessagesFit'
    <2>1. \A r \in inbox' : r.call = This(r.call[1])' =>
           /\ pc'[r.call[1]] # "got"
           /\ pc'[r.call[1]] = "getting" => r.op = "get"
           /\ pc'[r.call[1]] = "setting" => r.op = "set"
      <3> SUFFICES ASSUME NEW r \in inbox', r.call = This(r.call[1])'
                   PROVE  /\ pc'[r.call[1]] # "got"
                          /\ pc'[r.call[1]] = "getting" => r.op = "get"
                          /\ pc'[r.call[1]] = "setting" => r.op = "set"
        OBVIOUS
      <3>1. CASE r = new
        BY <3>1, <1>4, <1>6
      <3>2. CASE r \in inbox
        <4>1. r.call[1] # c
          BY <3>2, <1>2, <1>5 DEF This
        <4> QED
          BY <3>2, <4>1, <1>2, <1>4 DEF IInv, InStep, MessagesFit, This
      <3> QED
        BY <1>1, <3>1, <3>2
    <2>2. \A a \in outbox' :
           /\ pc'[a.call[1]] = "getting" => a.kind # "done"
           /\ pc'[a.call[1]] = "setting" =>
                  a.kind = "fault" \/ (a.kind \in {"done", "empty"} /\ a.call \in applied')
      BY <1>1, <1>3, <1>4 DEF IInv, InStep, MessagesFit
    <2> QED
      BY <2>1, <2>2 DEF MessagesFit
  <1> QED
    BY <1>7, <1>8 DEF InStep

\* Sending the Set: the answer to Get was read, so nothing of the call is
\* under way.
LEMMA SendSetInStep ==
    ASSUME IInv, NEW c \in Clients, SendSet(c)
    PROVE  InStep'
  <1> DEFINE new == [call |-> This(c), op |-> "set",
                     nonce |-> header'[c], cfg |-> Request(c)]
  <1>1. /\ pc[c] = "got" /\ calls' = calls
        /\ outbox' = outbox /\ applied' = applied
        /\ \/ inbox' = inbox \union {new} /\ pc' = [pc EXCEPT ![c] = "setting"]
           \/ inbox' = inbox /\ pc' = [pc EXCEPT ![c] = "idle"]
    BY DEF SendSet, Send, device
  <1>2. \A r \in inbox : r.call[1] \in Clients /\ r.call # This(c)
    BY <1>1, RequestFields, SamePair DEF IInv, InStep, MessagesFit, This
  <1>3. \A a \in outbox : a.call[1] \in Clients /\ a.call[1] # c
    BY <1>1, AnswerFields DEF IInv, InStep, MessagesBelong, Awaiting
  <1>4. /\ \A d \in Clients \ {c} : pc'[d] = pc[d]
        /\ pc'[c] \in {"setting", "idle"}
    BY <1>1 DEF IInv, TypeOK
  <1>5. new.call = This(c) /\ new.call[1] = c /\ new.call[2] = calls[c] /\ new.op = "set"
    BY DEF This
  <1>6. MessagesBelong'
    <2>1. \A r \in inbox' : r.call[2] <= calls'[r.call[1]]
      BY <1>1, <1>5 DEF IInv, InStep, MessagesBelong, TypeOK
    <2>2. \A a \in outbox' : a.call = This(a.call[1])' /\ Awaiting(a.call[1])'
      BY <1>1, <1>3, <1>4 DEF IInv, InStep, MessagesBelong, This, Awaiting
    <2>3. \A r, q \in inbox' : r.call = q.call => r = q
      BY <1>1, <1>2, <1>5 DEF IInv, InStep, MessagesBelong
    <2>4. \A r \in inbox', a \in outbox' : r.call # a.call
      BY <1>1, <1>3, <1>5 DEF IInv, InStep, MessagesBelong
    <2> QED
      BY <1>1, <2>1, <2>2, <2>3, <2>4 DEF IInv, InStep, MessagesBelong
  <1>7. MessagesFit'
    <2>1. \A r \in inbox' : r.call = This(r.call[1])' =>
           /\ pc'[r.call[1]] # "got"
           /\ pc'[r.call[1]] = "getting" => r.op = "get"
           /\ pc'[r.call[1]] = "setting" => r.op = "set"
      BY <1>1, <1>2, <1>4, <1>5 DEF IInv, InStep, MessagesFit, This
    <2>2. \A a \in outbox' :
           /\ pc'[a.call[1]] = "getting" => a.kind # "done"
           /\ pc'[a.call[1]] = "setting" =>
                  a.kind = "fault" \/ (a.kind \in {"done", "empty"} /\ a.call \in applied')
      BY <1>1, <1>3, <1>4 DEF IInv, InStep, MessagesFit
    <2> QED
      BY <2>1, <2>2 DEF MessagesFit
  <1> QED
    BY <1>6, <1>7 DEF InStep

\* Leaving a call takes its answers away; its request may stay behind.
LEMMA ReturnInStep ==
    ASSUME IInv, NEW c \in Clients, NEW code, Return(c, code),
           UNCHANGED <<inbox, calls, applied>>
    PROVE  InStep'
  <1>1. /\ pc' = [pc EXCEPT ![c] = "idle"]
        /\ outbox' \subseteq outbox
        /\ \A a \in outbox' : a.call # This(c)
    BY DEF Return
  <1>2. \A a \in outbox' : a.call[1] \in Clients /\ a.call[1] # c
    BY <1>1, AnswerFields DEF IInv, InStep, MessagesBelong
  <1>3. \A r \in inbox : r.call[1] \in Clients
    BY RequestFields DEF IInv
  <1>4. (\A d \in Clients \ {c} : pc'[d] = pc[d]) /\ pc'[c] = "idle"
    BY <1>1 DEF IInv, TypeOK
  <1>5. MessagesBelong'
    BY <1>1, <1>2, <1>4 DEF IInv, InStep, MessagesBelong, This, Awaiting
  <1>6. MessagesFit'
    <2>1. \A r \in inbox' : r.call = This(r.call[1])' =>
           /\ pc'[r.call[1]] # "got"
           /\ pc'[r.call[1]] = "getting" => r.op = "get"
           /\ pc'[r.call[1]] = "setting" => r.op = "set"
      BY <1>3, <1>4 DEF IInv, InStep, MessagesFit, This
    <2>2. \A a \in outbox' :
           /\ pc'[a.call[1]] = "getting" => a.kind # "done"
           /\ pc'[a.call[1]] = "setting" =>
                  a.kind = "fault" \/ (a.kind \in {"done", "empty"} /\ a.call \in applied')
      BY <1>1, <1>2, <1>4 DEF IInv, InStep, MessagesFit
    <2> QED
      BY <2>1, <2>2 DEF MessagesFit
  <1> QED
    BY <1>5, <1>6 DEF InStep

\* Reading the configuration: it was the only message of the call.
LEMMA GotInStep ==
    ASSUME IInv, NEW c \in Clients, NEW a \in outbox, a.call = This(c),
           pc' = [pc EXCEPT ![c] = "got"], outbox' = outbox \ {a},
           UNCHANGED <<inbox, calls, applied>>
    PROVE  InStep'
  <1>1. \A b \in outbox' : b.call[1] \in Clients /\ b.call[1] # c
    BY AnswerFields DEF IInv, InStep, MessagesBelong
  <1>2. \A r \in inbox : r.call[1] \in Clients /\ r.call # This(c)
    BY RequestFields DEF IInv, InStep, MessagesBelong
  <1>3. (\A d \in Clients \ {c} : pc'[d] = pc[d]) /\ pc'[c] = "got"
    BY DEF IInv, TypeOK
  <1>4. MessagesBelong'
    BY <1>1, <1>3 DEF IInv, InStep, MessagesBelong, This, Awaiting
  <1>5. MessagesFit'
    <2>1. \A r \in inbox' : r.call = This(r.call[1])' =>
           /\ pc'[r.call[1]] # "got"
           /\ pc'[r.call[1]] = "getting" => r.op = "get"
           /\ pc'[r.call[1]] = "setting" => r.op = "set"
      BY <1>2, <1>3 DEF IInv, InStep, MessagesFit, This
    <2>2. \A b \in outbox' :
           /\ pc'[b.call[1]] = "getting" => b.kind # "done"
           /\ pc'[b.call[1]] = "setting" =>
                  b.kind = "fault" \/ (b.kind \in {"done", "empty"} /\ b.call \in applied')
      BY <1>1, <1>3 DEF IInv, InStep, MessagesFit
    <2> QED
      BY <2>1, <2>2 DEF MessagesFit
  <1> QED
    BY <1>4, <1>5 DEF InStep

\* Answering a request: the request goes, and its answer, which fits the step
\* its client is at, is the only message of the call.
LEMMA ServeInStep ==
    ASSUME IInv, NEW r \in inbox, NEW kind \in Kinds, NEW config \in Config,
           Answer(r, kind, config), Serve(r),
           kind = "done" => r.op = "set",
           kind # "fault" /\ r.op = "set" => kind \in {"done", "empty"} /\ r.call \in applied',
           applied \subseteq applied'
    PROVE  InStep'
  <1> DEFINE new == [call |-> r.call, kind |-> kind, cfg |-> config]
  <1>1. /\ inbox' = inbox \ {r} /\ pc' = pc /\ calls' = calls
        /\ \/ outbox' = outbox
           \/ /\ outbox' = outbox \union {new}
              /\ This(r.call[1]) = r.call /\ Awaiting(r.call[1])
    BY DEF Serve, Answer, Awaiting
  <1>2. new.call = r.call /\ new.kind = kind
    OBVIOUS
  <1>3. \A q \in inbox' : q \in inbox /\ q.call # r.call
    BY <1>1 DEF IInv, InStep, MessagesBelong
  <1>4. \A a \in outbox : a.call # r.call
    BY DEF IInv, InStep, MessagesBelong
  <1>5. MessagesBelong'
    <2>1. \A q \in inbox' : q.call[2] <= calls'[q.call[1]]
      BY <1>1 DEF IInv, InStep, MessagesBelong
    <2>2. \A a \in outbox' : a.call = This(a.call[1])' /\ Awaiting(a.call[1])'
      BY <1>1, <1>2 DEF IInv, InStep, MessagesBelong, This, Awaiting
    <2>3. \A q, p \in inbox' : q.call = p.call => q = p
      BY <1>1 DEF IInv, InStep, MessagesBelong
    <2>4. \A a, b \in outbox' : a.call = b.call => a = b
      BY <1>1, <1>2, <1>4 DEF IInv, InStep, MessagesBelong
    <2>5. \A q \in inbox', a \in outbox' : q.call # a.call
      BY <1>1, <1>2, <1>3 DEF IInv, InStep, MessagesBelong
    <2> QED
      BY <2>1, <2>2, <2>3, <2>4, <2>5 DEF MessagesBelong
  <1>6. MessagesFit'
    <2>1. \A q \in inbox' : q.call = This(q.call[1])' =>
           /\ pc'[q.call[1]] # "got"
           /\ pc'[q.call[1]] = "getting" => q.op = "get"
           /\ pc'[q.call[1]] = "setting" => q.op = "set"
      BY <1>1 DEF IInv, InStep, MessagesFit, This
    <2>2. \A a \in outbox' :
           /\ pc'[a.call[1]] = "getting" => a.kind # "done"
           /\ pc'[a.call[1]] = "setting" =>
                  a.kind = "fault" \/ (a.kind \in {"done", "empty"} /\ a.call \in applied')
      <3> SUFFICES ASSUME NEW a \in outbox'
                   PROVE  /\ pc[a.call[1]] = "getting" => a.kind # "done"
                          /\ pc[a.call[1]] = "setting" =>
                               \/ a.kind = "fault"
                               \/ a.kind \in {"done", "empty"} /\ a.call \in applied'
        BY <1>1
      <3>1. CASE a \in outbox
        BY <3>1 DEF IInv, InStep, MessagesFit
      <3>2. CASE a = new /\ This(r.call[1]) = r.call /\ Awaiting(r.call[1])
        <4>1. /\ pc[r.call[1]] = "getting" => r.op = "get"
              /\ pc[r.call[1]] = "setting" => r.op = "set"
          BY <3>2 DEF IInv, InStep, MessagesFit
        <4> QED
          BY <1>2, <3>2, <4>1
      <3> QED
        BY <1>1, <3>1, <3>2
    <2> QED
      BY <2>1, <2>2 DEF MessagesFit
  <1> QED
    BY <1>5, <1>6 DEF InStep

\* Every step keeps the messages in step.
LEMMA StepInStep ==
    ASSUME IInv, [Next]_vars
    PROVE  InStep'
  <1>0. Blank \in Config /\ Now \in Config /\ [Now EXCEPT !.res = Absent] \in Config
    <2>1. Blank \in Config
      BY BlankIsConfig DEF IInv, TypeOK
    <2>2. Now \in Config /\ [Now EXCEPT !.res = Absent] \in Config
      BY DEF Now, IInv, TypeOK, Config
    <2> QED
      BY <2>1, <2>2
  <1>1. ASSUME NEW c \in Clients, NEW x \in Resolutions, Begin(c, x)
        PROVE  InStep'
    BY <1>1, BeginInStep
  <1>2. ASSUME NEW c \in Clients, RecvGet(c)
        PROVE  InStep'
    <2>1. UNCHANGED <<inbox, calls, applied>>
      BY <1>2 DEF RecvGet, device
    <2>2. CASE Return(c, "ok") \/ Return(c, "error")
      BY <2>1, <2>2, ReturnInStep
    <2>3. CASE \E a \in outbox : a.call = This(c) /\ pc' = [pc EXCEPT ![c] = "got"]
                                 /\ outbox' = outbox \ {a}
      BY <2>1, <2>3, GotInStep
    <2> QED
      BY <1>2, <2>2, <2>3 DEF RecvGet
  <1>3. ASSUME NEW c \in Clients, SendSet(c)
        PROVE  InStep'
    BY <1>3, SendSetInStep
  <1>4. ASSUME NEW c \in Clients, RecvSet(c) \/ GiveUp(c)
        PROVE  InStep'
    <2>1. UNCHANGED <<inbox, calls, applied>>
      BY <1>4 DEF RecvSet, GiveUp, device
    <2>2. \E code : Return(c, code)
      BY <1>4 DEF RecvSet, GiveUp
    <2> QED
      BY <2>1, <2>2, ReturnInStep
  <1>5. ASSUME NEW r \in inbox, ServeGet(r)
        PROVE  InStep'
    <2>1. Serve(r) /\ applied' = applied /\ r.op = "get"
      BY <1>5 DEF ServeGet
    <2>2. \E kind \in {"full", "bare", "empty"}, config \in Config : Answer(r, kind, config)
      BY <1>0, <1>5 DEF ServeGet
    <2> QED
      BY <2>1, <2>2, ServeInStep DEF Kinds
  <1>6. ASSUME NEW r \in inbox, ServeSet(r)
        PROVE  InStep'
    <2>1. Serve(r) /\ applied' = applied \union {r.call} /\ r.op = "set"
      BY <1>6 DEF ServeSet
    <2>2. \E kind \in {"done", "empty"} : Answer(r, kind, Blank)
      BY <1>6 DEF ServeSet
    <2> QED
      BY <1>0, <2>1, <2>2, ServeInStep DEF Kinds
  <1>7. ASSUME NEW r \in inbox, Refuse(r)
        PROVE  InStep'
    BY <1>0, <1>7, ServeInStep DEF Refuse, Kinds
  <1>8. CASE Edit \/ (\E c \in Clients : Hold(c)) \/ UNCHANGED vars
    BY <1>8 DEF Edit, Hold, vars, IInv, InStep, MessagesBelong, MessagesFit, This, Awaiting
  <1> QED
    BY <1>1, <1>2, <1>3, <1>4, <1>5, <1>6, <1>7, <1>8 DEF Next, Proceed, Finished

\* Every step keeps the tokens fresh: each request that is sent carries one the
\* device has not met, and serving one request uses up no other's.
LEMMA StepTokens ==
    ASSUME IInv, [Next]_vars
    PROVE  TokensFresh' /\ RequestsAreAuthentic'
  <1> USE DEF TokensFresh, RequestsAreAuthentic, Authentic, Nonce
  <1>1. ASSUME NEW c \in Clients, NEW x \in Resolutions, Begin(c, x)
        PROVE  TokensFresh' /\ RequestsAreAuthentic'
    <2> DEFINE new == [call |-> <<c, calls[c] + 1>>, op |-> "get",
                       nonce |-> header'[c], cfg |-> Blank]
    <2>1. /\ calls[c] \in Nat /\ header'[c] = 1 /\ seen' = seen
          /\ inbox' = inbox \union {new} \/ inbox' = inbox
          /\ calls'[c] = calls[c] + 1
          /\ \A d \in Clients \ {c} : calls'[d] = calls[d] /\ pc'[d] = pc[d]
      BY <1>1 DEF Begin, Send, device, IInv, TypeOK
    <2>2. \A s \in seen : s[1][1] \in Clients /\ s[1][2] <= calls[s[1][1]]
                          /\ s[1][2] \in Nat
      BY EncoderAssumption DEF IInv, TypeOK, Call
    <2>3. \A s \in seen : s[1][2] <= calls'[s[1][1]]
      <3> SUFFICES ASSUME NEW s \in seen
                   PROVE  s[1][2] <= calls'[s[1][1]]
        OBVIOUS
      <3>1. CASE s[1][1] = c
        BY <2>1, <2>2, <3>1
      <3>2. CASE s[1][1] # c
        BY <2>1, <2>2, <3>2
      <3> QED
        BY <3>1, <3>2
    <2>4. \A s \in seen : s[1] # <<c, calls'[c]>>
      BY <2>1, <2>2
    <2>5. \A r \in inbox' : /\ r.nonce = IF r.op = "get" THEN 1 ELSE 2
                            /\ r.nonce # 0 /\ <<r.call, r.nonce>> \notin seen
      <3>1. new.nonce = 1 /\ new.op = "get" /\ new.call = <<c, calls'[c]>>
        BY <2>1
      <3>2. <<new.call, new.nonce>> \notin seen
        BY <2>4, <3>1
      <3>3. \A r \in inbox : /\ r.nonce = IF r.op = "get" THEN 1 ELSE 2
                             /\ r.nonce # 0 /\ <<r.call, r.nonce>> \notin seen
        BY DEF IInv
      <3>4. new.nonce = (IF new.op = "get" THEN 1 ELSE 2) /\ new.nonce # 0
        BY <3>1
      <3>5. inbox' \subseteq inbox \union {new}
        BY <2>1
      <3> HIDE DEF new
      <3> QED
        BY <3>2, <3>3, <3>4, <3>5
    <2>6. \A d \in Clients : pc'[d] \in {"getting", "got"} =>
              <<<<d, calls'[d]>>, 2>> \notin seen
      BY <2>1, <2>4 DEF IInv, This
    <2> QED
      BY <2>1, <2>3, <2>5, <2>6 DEF This
  <1>2. ASSUME NEW c \in Clients, RecvGet(c) \/ RecvSet(c) \/ GiveUp(c)
        PROVE  TokensFresh' /\ RequestsAreAuthentic'
    <2>1. UNCHANGED <<inbox, seen, calls>>
      BY <1>2 DEF RecvGet, RecvSet, GiveUp, device
    <2>2. \A d \in Clients : pc'[d] \in {"getting", "got"} => pc[d] \in {"getting", "got"}
      <3>1. \/ pc[c] = "getting" /\ pc' = [pc EXCEPT ![c] = "got"]
            \/ pc' = [pc EXCEPT ![c] = "idle"]
        BY <1>2 DEF RecvGet, RecvSet, GiveUp, Return
      <3> QED
        BY <3>1 DEF IInv, TypeOK
    <2> QED
      BY <2>1, <2>2 DEF IInv, This
  <1>3. ASSUME NEW c \in Clients, SendSet(c)
        PROVE  TokensFresh' /\ RequestsAreAuthentic'
    <2> DEFINE new == [call |-> This(c), op |-> "set",
                       nonce |-> header'[c], cfg |-> Request(c)]
    <2>1. /\ pc[c] = "got" /\ header'[c] = 2 /\ seen' = seen /\ calls' = calls
          /\ inbox' = inbox \union {new} \/ inbox' = inbox
          /\ \A d \in Clients : pc'[d] \in {"getting", "got"} => pc[d] \in {"getting", "got"}
      BY <1>3 DEF SendSet, Send, device, IInv, TypeOK
    <2>2. new.nonce = 2 /\ new.op = "set" /\ new.call = This(c)
      BY <2>1
    <2>3. <<new.call, new.nonce>> \notin seen
      BY <2>1, <2>2 DEF IInv
    <2> QED
      BY <2>1, <2>2, <2>3 DEF IInv, This
  <1>4. ASSUME NEW r \in inbox, ServeGet(r) \/ ServeSet(r) \/ Refuse(r)
        PROVE  TokensFresh' /\ RequestsAreAuthentic'
    <2>1. /\ inbox' = inbox \ {r} /\ seen' = seen \union {<<r.call, r.nonce>>}
          /\ calls' = calls /\ pc' = pc
      BY <1>4 DEF ServeGet, ServeSet, Refuse, Serve
    <2>2. \A q \in inbox' : q \in inbox /\ <<q.call, q.nonce>> # <<r.call, r.nonce>>
      BY <2>1, SamePair DEF IInv, InStep, MessagesBelong
    <2>3. r.call[2] <= calls[r.call[1]] /\ <<r.call, r.nonce>>[1] = r.call
      BY DEF IInv, InStep, MessagesBelong
    <2>4. \A d \in Clients : pc[d] \in {"getting", "got"} =>
              <<This(d), 2>> # <<r.call, r.nonce>>
      <3> SUFFICES ASSUME NEW d \in Clients, pc[d] \in {"getting", "got"},
                          This(d) = r.call, r.nonce = 2
                   PROVE  FALSE
        BY SamePair
      <3>1. r.call[1] = d
        BY DEF This
      <3>2. r.op = "set"
        BY RequestFields DEF IInv
      <3> QED
        BY <3>1, <3>2 DEF IInv, InStep, MessagesFit
    <2> QED
      BY <2>1, <2>2, <2>3, <2>4 DEF IInv, This
  <1>5. CASE Edit \/ (\E c \in Clients : Hold(c)) \/ UNCHANGED vars
    BY <1>5 DEF Edit, Hold, vars, IInv, This
  <1> QED
    BY <1>1, <1>2, <1>3, <1>4, <1>5 DEF Next, Proceed, Finished

\* Every step keeps success honest.
LEMMA StepSuccess ==
    ASSUME IInv, [Next]_vars
    PROVE  HeardNothing' /\ SuccessMeansApplied'
  <1> USE DEF HeardNothing, SuccessMeansApplied
  <1>1. ASSUME NEW c \in Clients, NEW x \in Resolutions, Begin(c, x)
        PROVE  HeardNothing' /\ SuccessMeansApplied'
    <2>1. /\ heard' = [heard EXCEPT ![c] = << >>] /\ applied' = applied
          /\ pc'[c] = "idle" => result'[c] = "error"
          /\ \A d \in Clients \ {c} : pc'[d] = pc[d] /\ calls'[d] = calls[d]
                                      /\ result'[d] = result[d]
      BY <1>1 DEF Begin, Send, device, IInv, TypeOK
    <2> QED
      BY <2>1 DEF IInv, TypeOK, This
  <1>2. ASSUME NEW c \in Clients, RecvGet(c)
        PROVE  HeardNothing' /\ SuccessMeansApplied'
    <2> PICK a \in outbox :
          /\ a.call = This(c)
          /\ heard' = [heard EXCEPT ![c] = Append(@, a.kind)]
          /\ \/ /\ pc' = [pc EXCEPT ![c] = "got"] /\ UNCHANGED result
             \/ a.kind = "empty" /\ Return(c, "ok")
             \/ a.kind = "fault" /\ Return(c, "error")
      BY <1>2 DEF RecvGet
    <2>1. pc[c] = "getting" /\ UNCHANGED <<calls, applied>>
      BY <1>2 DEF RecvGet, device
    <2>2. heard'[c] = <<a.kind>>
      <3>1. heard[c] = << >> /\ c \in DOMAIN heard
        BY <2>1 DEF IInv, TypeOK
      <3>2. heard'[c] = Append(<< >>, a.kind)
        BY <3>1
      <3> QED
        BY <3>2
    <2>3. /\ pc'[c] = "got" \/ (pc'[c] = "idle" /\ (a.kind = "empty" \/ result'[c] = "error"))
          /\ \A d \in Clients \ {c} : pc'[d] = pc[d] /\ result'[d] = result[d]
                                      /\ heard'[d] = heard[d]
      BY DEF Return, IInv, TypeOK
    <2> QED
      BY <2>1, <2>2, <2>3 DEF IInv, This
  <1>3. ASSUME NEW c \in Clients, SendSet(c)
        PROVE  HeardNothing' /\ SuccessMeansApplied'
    <2>1. /\ UNCHANGED <<heard, applied, calls>>
          /\ pc'[c] = "setting" \/ (pc'[c] = "idle" /\ result'[c] = "error")
          /\ \A d \in Clients \ {c} : pc'[d] = pc[d] /\ result'[d] = result[d]
      BY <1>3 DEF SendSet, Send, device, IInv, TypeOK
    <2> QED
      BY <2>1 DEF IInv, This
  <1>4. ASSUME NEW c \in Clients, RecvSet(c)
        PROVE  HeardNothing' /\ SuccessMeansApplied'
    <2> PICK a \in outbox :
          /\ a.call = This(c)
          /\ heard' = [heard EXCEPT ![c] = Append(@, a.kind)]
          /\ Return(c, IF a.kind = "fault" THEN "error" ELSE "ok")
      BY <1>4 DEF RecvSet
    <2>1. pc[c] = "setting" /\ UNCHANGED <<calls, applied>>
      BY <1>4 DEF RecvSet, device
    <2>2. a.call[1] = c
      BY DEF This
    <2>3. a.kind = "fault" \/ This(c) \in applied
      BY <2>1, <2>2 DEF IInv, InStep, MessagesFit
    <2>4. /\ pc'[c] = "idle" /\ (a.kind = "fault" => result'[c] = "error")
          /\ \A d \in Clients \ {c} : pc'[d] = pc[d] /\ result'[d] = result[d]
                                      /\ heard'[d] = heard[d]
      BY DEF Return, IInv, TypeOK
    <2> QED
      BY <2>1, <2>3, <2>4 DEF IInv, This
  <1>5. ASSUME NEW c \in Clients, GiveUp(c)
        PROVE  HeardNothing' /\ SuccessMeansApplied'
    <2>1. UNCHANGED <<heard, applied, calls>> /\ Return(c, "error")
      BY <1>5 DEF GiveUp, device
    <2>2. /\ pc'[c] = "idle" /\ result'[c] = "error"
          /\ \A d \in Clients \ {c} : pc'[d] = pc[d] /\ result'[d] = result[d]
      BY <2>1 DEF Return, IInv, TypeOK
    <2> QED
      BY <2>1, <2>2 DEF IInv, This
  <1>6. ASSUME NEW r \in inbox, ServeGet(r) \/ ServeSet(r) \/ Refuse(r)
        PROVE  HeardNothing' /\ SuccessMeansApplied'
    <2>1. UNCHANGED <<pc, calls, result, heard>> /\ applied \subseteq applied'
      BY <1>6 DEF ServeGet, ServeSet, Refuse, Serve
    <2> QED
      BY <2>1 DEF IInv, This
  <1>7. CASE Edit \/ (\E c \in Clients : Hold(c)) \/ UNCHANGED vars
    BY <1>7 DEF Edit, Hold, vars, IInv, This
  <1> QED
    BY <1>1, <1>2, <1>3, <1>4, <1>5, <1>6, <1>7 DEF Next, Proceed, Finished

\* Nothing has been sent, heard or returned at first.
LEMMA InitIInv ==
    ASSUME Init, TypeOK
    PROVE  IInv
  <1>1. InStep
    BY DEF Init, InStep, MessagesBelong, MessagesFit
  <1>2. TokensFresh /\ RequestsAreAuthentic
    BY DEF Init, TokensFresh, RequestsAreAuthentic
  <1>3. HeardNothing /\ SuccessMeansApplied
    BY DEF Init, HeardNothing, SuccessMeansApplied
  <1> QED
    BY <1>1, <1>2, <1>3 DEF IInv

\* The inductive invariant, from which the three properties follow.
LEMMA EncoderInvariant == Spec => []IInv
<1>1. Init /\ TypeOK => IInv
  BY InitIInv
<1>2. IInv /\ TypeOK' /\ [Next]_vars => IInv'
  BY StepInStep, StepTokens, StepSuccess DEF IInv
<1> QED
  BY <1>1, <1>2, EncoderTypeCorrect, PTL DEF Spec

\* The two SOAP calls of a Set stay in step (InStep), however many callers give
\* up at whatever moment.
THEOREM EncoderStaysInStep == Spec => []InStep
<1>1. IInv => InStep
  BY DEF IInv
<1> QED
  BY <1>1, EncoderInvariant, PTL

\* What ONVIF_SetVideoEncoderConfiguration reports as success after a
\* configuration was read has happened (SuccessMeansApplied).
THEOREM EncoderSuccess == Spec => []SuccessMeansApplied
<1>1. IInv => SuccessMeansApplied
  BY DEF IInv
<1> QED
  BY <1>1, EncoderInvariant, PTL

\* No request reaches the device without a token or with one it has met
\* (RequestsAreAuthentic).
THEOREM EncoderAuthentic == Spec => []RequestsAreAuthentic
<1>1. IInv => RequestsAreAuthentic
  BY DEF IInv
<1> QED
  BY <1>1, EncoderInvariant, PTL

-----------------------------------------------------------------------------
(***************************************************************************)
(* SetKeepsTheRest: every configuration on its way back to the device      *)
(* carries the fields the device had when it was read.                     *)
(***************************************************************************)
Agrees(k) == k.asOf <= version /\ (k.asOf = version => k.rate = cfg.rate)

CopiesAgree ==
    /\ \A a \in outbox : a.kind \in {"full", "bare"} => Agrees(a.cfg)
    /\ \A c \in Clients : pc[c] = "got" => Agrees(snap[c])
    /\ \A r \in inbox : r.op = "set" => Agrees(r.cfg)

\* A copy that agrees goes on agreeing when the device's configuration is left
\* alone or written again.
LEMMA AgreesLater ==
    ASSUME TypeOK, NEW k \in Config, Agrees(k),
           UNCHANGED <<cfg, version>> \/ version' = version + 1
    PROVE  Agrees(k)'
  <1>1. version \in Nat /\ k.asOf \in Nat
    BY DEF TypeOK, Config
  <1> QED
    BY <1>1 DEF Agrees

\* Every step keeps the copies in agreement.
LEMMA StepCopies ==
    ASSUME TypeOK, CopiesAgree, [Next]_vars
    PROVE  CopiesAgree'
  <1>0. /\ \A a \in outbox : a.cfg \in Config
        /\ \A c \in Clients : snap[c] \in Config
        /\ \A r \in inbox : r.cfg \in Config
    BY DEF TypeOK
  <1>1. ASSUME UNCHANGED <<cfg, version>> \/ version' = version + 1,
               NEW k \in Config, Agrees(k)
        PROVE  Agrees(k)'
    BY <1>1, AgreesLater
  <1>2. ASSUME NEW c \in Clients, NEW x \in Resolutions, Begin(c, x)
        PROVE  CopiesAgree'
    <2>1. /\ UNCHANGED <<cfg, version, outbox, snap>>
          /\ \A r \in inbox' : r \in inbox \/ r.op = "get"
          /\ \A d \in Clients : pc'[d] = "got" => pc[d] = "got"
      BY <1>2 DEF Begin, Send, device, TypeOK
    <2> QED
      BY <2>1 DEF CopiesAgree, Agrees
  <1>3. ASSUME NEW c \in Clients, RecvGet(c)
        PROVE  CopiesAgree'
    <2>1. UNCHANGED <<cfg, version, inbox>>
      BY <1>3 DEF RecvGet, device
    <2>2. ASSUME NEW a \in outbox, a.kind \in {"full", "bare"},
                 snap' = [snap EXCEPT ![c] = a.cfg], pc' = [pc EXCEPT ![c] = "got"],
                 outbox' = outbox \ {a}
          PROVE  CopiesAgree'
      BY <2>1, <2>2 DEF CopiesAgree, Agrees, TypeOK
    <2>3. ASSUME NEW code, Return(c, code), snap' = snap
          PROVE  CopiesAgree'
      BY <2>1, <2>3 DEF Return, CopiesAgree, Agrees, TypeOK
    <2> QED
      BY <1>3, <2>2, <2>3 DEF RecvGet
  <1>4. ASSUME NEW c \in Clients, SendSet(c)
        PROVE  CopiesAgree'
    <2>1. /\ UNCHANGED <<cfg, version, outbox, snap>> /\ pc[c] = "got"
          /\ \A r \in inbox' : r \in inbox \/ r.cfg = Request(c)
          /\ \A d \in Clients : pc'[d] = "got" => pc[d] = "got"
      BY <1>4 DEF SendSet, Send, device, TypeOK
    <2>2. Request(c).asOf = snap[c].asOf /\ Request(c).rate = snap[c].rate
      BY <1>0 DEF Request, Config
    <2> QED
      BY <2>1, <2>2 DEF CopiesAgree, Agrees
  <1>5. ASSUME NEW c \in Clients, RecvSet(c) \/ GiveUp(c)
        PROVE  CopiesAgree'
    <2>1. UNCHANGED <<cfg, version, inbox, snap>> /\ \E code : Return(c, code)
      BY <1>5 DEF RecvSet, GiveUp, device
    <2> QED
      BY <2>1 DEF Return, CopiesAgree, Agrees, TypeOK
  <1>6. ASSUME NEW r \in inbox, ServeGet(r)
        PROVE  CopiesAgree'
    <2>1. /\ UNCHANGED <<cfg, version, snap, pc>> /\ inbox' \subseteq inbox
          /\ \A a \in outbox' : \/ a \in outbox
                                \/ a.cfg \in {Now, [Now EXCEPT !.res = Absent]}
                                \/ a.kind = "empty"
      BY <1>6 DEF ServeGet, Serve, Answer
    <2>2. Agrees(Now) /\ Agrees([Now EXCEPT !.res = Absent])
      BY DEF Now, Agrees, TypeOK
    <2> QED
      BY <2>1, <2>2 DEF CopiesAgree, Agrees
  <1>7. ASSUME NEW r \in inbox, ServeSet(r) \/ Refuse(r)
        PROVE  CopiesAgree'
    <2>1. /\ UNCHANGED <<cfg, version>> \/ version' = version + 1
          /\ UNCHANGED <<snap, pc>> /\ inbox' \subseteq inbox
          /\ \A a \in outbox' : a \in outbox \/ a.kind \in {"done", "empty", "fault"}
      BY <1>7 DEF ServeSet, Refuse, Serve, Answer
    <2> QED
      BY <1>0, <1>1, <2>1 DEF CopiesAgree
  <1>8. CASE Edit
    BY <1>0, <1>1, <1>8 DEF Edit, CopiesAgree
  <1>9. CASE (\E c \in Clients : Hold(c)) \/ UNCHANGED vars
    BY <1>9 DEF Hold, vars, CopiesAgree, Agrees
  <1> QED
    BY <1>2, <1>3, <1>4, <1>5, <1>6, <1>7, <1>8, <1>9 DEF Next, Proceed, Finished

\* A Set that the device carries out before anyone else has written changes the
\* resolution and nothing but the resolution (SetKeepsTheRest).
THEOREM EncoderKeepsTheRest == Spec => SetKeepsTheRest
<1> DEFINE Kept ==
        \A r \in inbox :
          (r \notin inbox' /\ version' # version /\ r.op = "set" /\ r.cfg.asOf = version)
              => /\ cfg'.rate = cfg.rate
                 /\ cfg'.res \in {cfg.res, r.cfg.res}
<1>1. Init => CopiesAgree
  BY DEF Init, CopiesAgree
<1>2. TypeOK /\ CopiesAgree /\ [Next]_vars => CopiesAgree'
  BY StepCopies
<1>3. TypeOK /\ CopiesAgree /\ [Next]_vars => Kept
  <2> SUFFICES ASSUME TypeOK, CopiesAgree, [Next]_vars, NEW r \in inbox,
                      r \notin inbox', version' # version,
                      r.op = "set", r.cfg.asOf = version
               PROVE  cfg'.rate = cfg.rate /\ cfg'.res \in {cfg.res, r.cfg.res}
    OBVIOUS
  <2>1. PICK q \in inbox : ServeSet(q)
    <3>1. ASSUME NEW c \in Clients, NEW x \in Resolutions, Begin(c, x)
          PROVE  version' = version
      BY <3>1 DEF Begin, device
    <3>2. ASSUME NEW c \in Clients, Proceed(c)
          PROVE  version' = version
      BY <3>2 DEF Proceed, RecvGet, SendSet, RecvSet, GiveUp, device
    <3>3. ASSUME NEW q \in inbox, ServeGet(q) \/ Refuse(q)
          PROVE  version' = version
      BY <3>3 DEF ServeGet, Refuse
    <3>4. CASE Edit \/ (\E c \in Clients : Hold(c)) \/ UNCHANGED vars
      BY <3>4 DEF Edit, Hold, vars
    <3> QED
      BY <3>1, <3>2, <3>3, <3>4 DEF Next, Finished
  <2>2. q = r
    BY <2>1 DEF ServeSet, Serve
  <2>3. cfg'.rate = r.cfg.rate /\ cfg'.res \in {cfg.res, r.cfg.res}
    BY <2>1, <2>2 DEF ServeSet
  <2>4. r.cfg.rate = cfg.rate
    BY DEF CopiesAgree, Agrees
  <2> QED
    BY <2>3, <2>4
<1>4. Spec => []CopiesAgree
  BY <1>1, <1>2, EncoderTypeCorrect, PTL DEF Spec
<1> QED
  BY <1>4, <1>3, EncoderTypeCorrect, PTL DEF Spec, SetKeepsTheRest
=============================================================================
