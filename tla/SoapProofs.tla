------------------------------ MODULE SoapProofs ------------------------------
(***************************************************************************)
(* Proofs about SoapCall, for every timeout, number of exchanges,          *)
(* segments and signals.                                                   *)
(***************************************************************************)
EXTENDS SoapCall, TLAPS

\* Nothing is counted in a new context, and every exchange is.
Begun == pc = "new" <=> calls = 0

\* Answers stay allocated until the context is deleted.
Kept ==
    pc # "deleted" =>
        /\ 1 .. calls - 1 \subseteq mem
        /\ reply.content # "none" => calls \in mem

\* What has been parsed at each stage, and what the error says before it is
\* returned.
Parsed ==
    /\ pc \in {"connect", "send", "status"} => reply = NoReply
    /\ pc = "body" => reply.content = "none" /\ reply.status \in {"ok", "error"}
    /\ pc = "tail" => reply.content = "response"
    /\ pc \in {"status", "body", "tail"} => error = "OK"

Answered ==
    \/ reply.content = "answered"
    \/ reply.content = "empty" /\ reply.status = "ok"

Verdict == pc \in {"rest", "returned"} => (error = "OK" <=> Answered)

\* The ticks of a wait are paid for with slices and forgiven interrupts.
Paid ==
    pc \in Waiting \ {"connect"} =>
        silent + retries + eintr <= Timeout - 1 + MaxEintr

Inv == TypeOK /\ Begun

-----------------------------------------------------------------------------

LEMMA InitInv == Init => Inv
  BY CallAssumption DEF Init, Inv, TypeOK, Begun, NoReply, Statuses, Contents, Errors, Waiting

LEMMA FailedWithErrors ==
  ASSUME Inv, pc \in Waiting
  PROVE  /\ FailedWith \subseteq Errors
         /\ pc # "rest" => "OK" \notin FailedWith
         /\ pc = "rest" => FailedWith = {error}
  <1>1. CASE pc = "connect"  BY <1>1 DEF FailedWith, Errors
  <1>2. CASE pc = "rest"  BY <1>2 DEF FailedWith, Inv, TypeOK
  <1>3. CASE pc = "body"
    <2>1. CASE reply.status = "error"  BY <1>3, <2>1 DEF FailedWith, Errors
    <2>2. CASE reply.status # "error"  BY <1>3, <2>2 DEF FailedWith, Errors
    <2> QED  BY <2>1, <2>2
  <1>4. CASE pc \in {"send", "status", "tail"}  BY <1>4 DEF FailedWith, Errors
  <1> QED  BY <1>1, <1>2, <1>3, <1>4 DEF Waiting

LEMMA NextInv == Inv /\ [Next]_vars => Inv'
  <1> SUFFICES ASSUME Inv, [Next]_vars PROVE Inv'
    OBVIOUS
  <1> USE CallAssumption DEF Inv, TypeOK, Begun, Waiting
  <1>b. ASSUME Begin PROVE calls' \in 1 .. MaxCalls /\ calls' = calls + 1
    BY <1>b DEF Begin, MayCall
  <1>1. CASE BeginFails
    BY <1>1, <1>b DEF BeginFails, Begin, GetsOn, NewWait, NoReply, Statuses, Contents, Errors
  <1>2. CASE Connect
    BY <1>2, <1>b DEF Connect, Begin, GetsOn, NewWait, NoReply, Statuses, Contents, Errors
  <1>3. CASE NoSocket
    BY <1>3, <1>b DEF NoSocket, CloseSock, Begin, GetsOn, NewWait, NoReply, Statuses, Contents, Errors
  <1>4. CASE Delete
    BY <1>4 DEF Delete, CloseSock, wait
  <1>g. ASSUME GiveUp, UNCHANGED <<reply, segments>>, pc \in Waiting,
               silent' \in Nat, signals' \in 0 .. MaxSignals
        PROVE  Inv'
    <2>1. error' \in Errors
      BY <1>g, FailedWithErrors DEF GiveUp, Close
    <2>2. /\ sock' = 0 /\ open' \subseteq open /\ UNCHANGED <<calls, mem, retries, eintr>>
          /\ pc' = "returned"
      BY <1>g DEF GiveUp, Close, CloseSock
    <2> QED
      BY <1>g, <2>1, <2>2
  <1>5. CASE Slice
    <2>1. CASE retries > 0
      <3>1. /\ retries' = retries - 1 /\ silent' = silent + 1
            /\ UNCHANGED <<pc, calls, sock, open, mem, eintr, error, reply, segments, signals>>
        BY <1>5, <2>1 DEF Slice, GoTo, resources
      <3>2. retries' \in 0 .. Timeout - 1 /\ silent' \in Nat
        BY <2>1, <3>1
      <3> QED
        BY <3>1, <3>2
    <2>2. CASE retries = 0
      BY <1>5, <1>g, <2>2 DEF Slice
    <2> QED
      BY <2>1, <2>2
  <1>6. CASE Interrupt
    <2>1. pc \in Waiting /\ silent' \in Nat /\ signals' \in 0 .. MaxSignals
          /\ UNCHANGED <<reply, segments>>
      BY <1>6 DEF Interrupt
    <2>2. CASE GoTo(pc) /\ UNCHANGED error /\ retries' \in 0 .. Timeout - 1 /\ eintr' \in 0 .. MaxEintr
      BY <2>1, <2>2 DEF GoTo, resources
    <2>3. CASE GiveUp
      BY <1>g, <2>1, <2>3
    <2> QED
      BY <1>6, <2>2, <2>3 DEF Interrupt, NewWait
  <1>7. CASE Lost
    BY <1>7, <1>g DEF Lost
  <1>8. CASE Connected
    BY <1>8 DEF Connected, GoTo, GetsOn, NewWait, resources
  <1>9. CASE Part
    BY <1>9 DEF Part, GoTo, GetsOn, NewWait, resources
  <1>10. CASE Sent
    BY <1>10 DEF Sent, GoTo, GetsOn, NewWait, resources, Errors
  <1>11. CASE RecvStatus
    BY <1>11 DEF RecvStatus, GoTo, Close, CloseSock, GetsOn, NewWait, resources, Errors, NoReply, Statuses, Contents
  <1>12. CASE RecvResponse
    BY <1>12 DEF RecvResponse, Reads, GetsOn, NewWait, Contents
  <1>13. CASE RecvFault
    BY <1>13 DEF RecvFault, Reads, GetsOn, NewWait, Contents, Errors
  <1>14. CASE RecvEmpty
    BY <1>14 DEF RecvEmpty, Reads, GetsOn, NewWait, Contents, Errors
  <1>15. CASE RecvBroken
    BY <1>15 DEF RecvBroken, Reads, CloseSock, GetsOn, NewWait, Contents, Errors
  <1>16. CASE RecvTail
    BY <1>16 DEF RecvTail, GoTo, Close, CloseSock, GetsOn, NewWait, resources, Contents, Errors
  <1>17. CASE RecvRest
    BY <1>17 DEF RecvRest, Close, CloseSock, GetsOn, NewWait
  <1>18. CASE UNCHANGED vars
    BY <1>18 DEF vars, resources, wait
  <1> QED
    BY <1>1, <1>2, <1>3, <1>4, <1>5, <1>6, <1>7, <1>8, <1>9, <1>10, <1>11,
       <1>12, <1>13, <1>14, <1>15, <1>16, <1>17, <1>18 DEF Next, Exchange

LEMMA CallInv == Spec => []Inv
  BY InitInv, NextInv, PTL DEF Spec

\* The ranges of the variables hold in every behaviour.
THEOREM CallTypeCorrect == Spec => []TypeOK
  <1>1. Inv => TypeOK
    BY DEF Inv
  <1> QED
    BY <1>1, CallInv, PTL

-----------------------------------------------------------------------------
(* Results *)

Judged == Parsed /\ Verdict

LEMMA JudgedStep == Inv /\ Judged /\ [Next]_vars => Judged'
  <1> SUFFICES ASSUME Inv, Judged, [Next]_vars PROVE Judged'
    OBVIOUS
  <1> USE DEF Inv, TypeOK, Judged, Parsed, Verdict, Answered, Waiting, NoReply
  <1>1. CASE BeginFails \/ Connect \/ NoSocket
    BY <1>1 DEF BeginFails, Connect, NoSocket, Begin
  <1>2. CASE Delete
    BY <1>2 DEF Delete
  <1>3. ASSUME GiveUp, UNCHANGED reply, pc \in Waiting PROVE Judged'
    <2>1. PICK e \in FailedWith : pc' = "returned" /\ error' = e
      BY <1>3 DEF GiveUp, Close
    <2>2. CASE pc = "rest"
      BY <1>3, <2>1, <2>2, FailedWithErrors
    <2>3. CASE pc # "rest"
      BY <1>3, <2>1, <2>3, FailedWithErrors
    <2> QED
      BY <2>2, <2>3
  <1>4. ASSUME GoTo(pc), UNCHANGED <<reply, error>> PROVE Judged'
    BY <1>4 DEF GoTo
  <1>5. CASE Slice \/ Interrupt \/ Lost
    BY <1>3, <1>4, <1>5 DEF Slice, Interrupt, Lost
  <1>6. CASE Part
    BY <1>4, <1>6 DEF Part
  <1>7. CASE Connected \/ Sent
    BY <1>7 DEF Connected, Sent, GoTo
  <1>8. CASE RecvStatus
    BY <1>8 DEF RecvStatus, GoTo, Close
  <1>9. CASE RecvResponse \/ RecvFault \/ RecvEmpty \/ RecvBroken
    BY <1>9 DEF RecvResponse, RecvFault, RecvEmpty, RecvBroken, Reads
  <1>10. CASE RecvTail \/ RecvRest
    BY <1>10 DEF RecvTail, RecvRest, GoTo, Close
  <1>11. CASE UNCHANGED vars
    BY <1>11 DEF vars
  <1> QED
    BY <1>1, <1>2, <1>5, <1>6, <1>7, <1>8, <1>9, <1>10, <1>11 DEF Next, Exchange

LEMMA CallJudged == Spec => []Judged
  <1>1. Init => Judged
    BY DEF Init, Judged, Parsed, Verdict
  <1> QED
    BY <1>1, JudgedStep, CallInv, PTL DEF Spec

\* 0 means an answer that was read, and an answer that was read means 0.
THEOREM CallSuccess == Spec => []SuccessMeansAnswered
  <1>1. Judged => SuccessMeansAnswered
    BY DEF Judged, Verdict, Answered, SuccessMeansAnswered
  <1> QED
    BY <1>1, CallJudged, PTL

-----------------------------------------------------------------------------
(* Resources *)

LEMMA KeptStep == Inv /\ Parsed /\ Kept /\ [Next]_vars => Kept'
  <1> SUFFICES ASSUME Inv, Parsed, Kept, [Next]_vars PROVE Kept'
    OBVIOUS
  <1> USE DEF Inv, TypeOK, Begun, Kept, Waiting
  <1>1. ASSUME Begin, pc' # "deleted" PROVE Kept'
    <2>1. pc # "deleted" /\ 1 .. calls \subseteq mem
      BY <1>1 DEF Begin, MayCall
    <2> QED
      BY <1>1, <2>1 DEF Begin, NoReply
  <1>2. CASE BeginFails \/ Connect \/ NoSocket
    BY <1>1, <1>2 DEF BeginFails, Connect, NoSocket
  <1>3. CASE Delete
    BY <1>3 DEF Delete
  <1>4. CASE Slice \/ Interrupt \/ Lost \/ Part \/ Connected \/ Sent \/ RecvRest
    <2>1. calls' = calls /\ mem' = mem /\ reply' = reply /\ pc # "deleted"
      BY <1>4 DEF Slice, Interrupt, Lost, Part, Connected, Sent, RecvRest, GiveUp,
                  Close, GoTo, resources
    <2> QED
      BY <2>1
  <1>5. CASE RecvStatus
    BY <1>5 DEF RecvStatus, GoTo, Close, resources, NoReply
  <1>6. CASE RecvResponse \/ RecvFault \/ RecvEmpty \/ RecvBroken
    <2>1. calls' = calls /\ mem' = mem \union {calls} /\ pc # "deleted"
      BY <1>6 DEF RecvResponse, RecvFault, RecvEmpty, RecvBroken, Reads
    <2> QED
      BY <2>1
  <1>7. CASE RecvTail
    BY <1>7 DEF RecvTail, GoTo, Close, resources, Parsed
  <1>8. CASE UNCHANGED vars
    BY <1>8 DEF vars, resources
  <1> QED
    BY <1>2, <1>3, <1>4, <1>5, <1>6, <1>7, <1>8 DEF Next, Exchange

Owned == ResourcesOwned /\ Kept /\ (pc = "new" => sock = 0)

LEMMA OwnedStep == Inv /\ Parsed /\ Owned /\ [Next]_vars => ResourcesOwned' /\ (pc' = "new" => sock' = 0)
  <1> SUFFICES ASSUME Inv, Parsed, Owned, [Next]_vars
               PROVE ResourcesOwned' /\ (pc' = "new" => sock' = 0)
    OBVIOUS
  <1>k. Kept'
    BY KeptStep DEF Owned
  <1> USE DEF Inv, TypeOK, Begun, Owned, ResourcesOwned, Waiting
  <1>1. CASE BeginFails
    BY <1>1 DEF BeginFails, Begin, MayCall
  <1>2. CASE Connect
    <2>1. open' = {calls'} /\ sock' = calls' /\ calls' # 0 /\ pc' = "connect"
      BY <1>2 DEF Connect, Begin
    <2> QED
      BY <2>1, <1>k DEF Kept
  <1>3. CASE NoSocket
    BY <1>3 DEF NoSocket, CloseSock
  <1>4. CASE Delete
    BY <1>4 DEF Delete, CloseSock
  <1>5. ASSUME UNCHANGED resources, pc \in Waiting, pc' \in Waiting
        PROVE ResourcesOwned' /\ (pc' = "new" => sock' = 0)
    BY <1>5 DEF resources
  <1>6. ASSUME CloseSock, pc' = "returned"
        PROVE ResourcesOwned' /\ (pc' = "new" => sock' = 0)
    BY <1>6 DEF CloseSock
  <1>7. CASE Slice \/ Interrupt \/ Lost
    BY <1>5, <1>6, <1>7 DEF Slice, Interrupt, Lost, GiveUp, Close, GoTo
  <1>8. CASE Part \/ Connected \/ Sent
    BY <1>5, <1>8 DEF Part, Connected, Sent, GoTo
  <1>9. CASE RecvStatus \/ RecvTail \/ RecvRest
    BY <1>5, <1>6, <1>9 DEF RecvStatus, RecvTail, RecvRest, GoTo, Close
  <1>10. CASE RecvResponse \/ RecvFault \/ RecvEmpty
    <2>1. pc = "body" /\ pc' \in Waiting \union {"returned"} /\ UNCHANGED <<sock, open, calls>>
      BY <1>10 DEF RecvResponse, RecvFault, RecvEmpty, Reads
    <2> QED
      BY <2>1, <1>k DEF Kept
  <1>11. CASE RecvBroken
    BY <1>6, <1>11 DEF RecvBroken
  <1>12. CASE UNCHANGED vars
    BY <1>12 DEF vars, resources
  <1> QED
    BY <1>1, <1>2, <1>3, <1>4, <1>7, <1>8, <1>9, <1>10, <1>11, <1>12 DEF Next, Exchange

\* No path through an exchange leaks a descriptor or uses a closed one, and a
\* deleted context leaves nothing, for any number of exchanges.
THEOREM CallResources == Spec => []ResourcesOwned
  <1>1. Init => Owned
    BY DEF Init, Owned, ResourcesOwned, Kept, Waiting, NoReply
  <1>2. Inv /\ Judged /\ Owned /\ [Next]_vars => Owned'
    BY KeptStep, OwnedStep DEF Owned, Judged
  <1>3. Owned => ResourcesOwned
    BY DEF Owned
  <1> QED
    BY <1>1, <1>2, <1>3, CallInv, CallJudged, PTL DEF Spec

-----------------------------------------------------------------------------
(* Time *)

LEMMA PaidStep == Inv /\ Paid /\ [Next]_vars => Paid'
  <1> SUFFICES ASSUME Inv, Paid, [Next]_vars, pc' \in Waiting \ {"connect"}
               PROVE (silent + retries + eintr <= Timeout - 1 + MaxEintr)'
    BY DEF Paid
  <1> USE CallAssumption DEF Inv, TypeOK, Paid
  <1>1. ASSUME GetsOn PROVE (silent + retries + eintr <= Timeout - 1 + MaxEintr)'
    BY <1>1 DEF GetsOn, NewWait
  <1>2. CASE Slice
    BY <1>2 DEF Slice, GiveUp, Close, GoTo, Waiting
  <1>3. CASE Interrupt
    BY <1>3 DEF Interrupt, GiveUp, Close, GoTo, Waiting
  <1>4. CASE Lost \/ Delete
    BY <1>4 DEF Lost, Delete, GiveUp, Close, Waiting
  <1>5. CASE \/ BeginFails \/ Connect \/ NoSocket \/ Connected \/ Part \/ Sent \/ RecvStatus
             \/ RecvResponse \/ RecvFault \/ RecvEmpty \/ RecvBroken \/ RecvTail \/ RecvRest
    BY <1>1, <1>5 DEF BeginFails, Connect, NoSocket, Begin, Connected, Part, Sent, RecvStatus,
       RecvResponse, RecvFault, RecvEmpty, RecvBroken, Reads, RecvTail, RecvRest
  <1>6. CASE UNCHANGED vars
    BY <1>6 DEF vars, wait
  <1> QED
    BY <1>2, <1>3, <1>4, <1>5, <1>6 DEF Next, Exchange

\* A silent peer is given up after the timeout and the forgiven interrupts, for
\* every timeout and whatever signals arrive.
THEOREM CallSilenceBounded == Spec => []SilenceBounded
  <1>1. Init => Paid
    BY DEF Init, Paid, Waiting
  <1>2. Inv /\ Paid => SilenceBounded
    BY CallAssumption DEF Inv, TypeOK, Paid, SilenceBounded
  <1> QED
    BY <1>1, <1>2, PaidStep, CallInv, PTL DEF Spec
-----------------------------------------------------------------------------
(* The budget of an exchange *)

\* A wait less is worth more than what a new one starts with.
LEMMA WaitIsWorth ==
  ASSUME NEW a \in Nat, NEW b \in Nat, NEW w \in Nat, NEW r \in 0 .. w, NEW s \in Nat, b < a
  PROVE  (b * w) + r \in 0 .. (a * w) + s
  <1>1. PICK d \in Nat : a = b + 1 + d
    <2>1. a - b - 1 \in Nat /\ a = b + 1 + (a - b - 1)
      OBVIOUS
    <2> QED
      BY <2>1
  <1>2. a * w = (b * w) + w + (d * w)
    BY <1>1
  <1>3. b * w \in Nat /\ d * w \in Nat
    OBVIOUS
  <1> QED
    BY <1>2, <1>3

\* What a wait has left is less than what it may take in all.
LEMMA CountersFit ==
  ASSUME NEW t \in Nat, NEW m \in Nat, NEW x \in 0 .. t - 1, NEW y \in 0 .. m
  PROVE  x + y \in Nat /\ x + y < t + m
  OBVIOUS

LEMMA LessIsLess ==
  ASSUME NEW p \in Nat, NEW x \in Nat, NEW y \in Nat, y < x
  PROVE  p + (y + 1) \in 0 .. (p + (x + 1)) - 1
  OBVIOUS

LEMMA WaitsType ==
  Inv /\ pc \in Waiting =>
      /\ WaitsToCome \in Nat /\ Timeout + MaxEintr \in Nat /\ retries + eintr \in Nat
      /\ Patience = (WaitsToCome * (Timeout + MaxEintr)) + (retries + eintr + 1)
  <1> SUFFICES ASSUME Inv, pc \in Waiting
               PROVE  /\ WaitsToCome \in Nat /\ Timeout + MaxEintr \in Nat /\ retries + eintr \in Nat
                      /\ Patience = (WaitsToCome * (Timeout + MaxEintr)) + (retries + eintr + 1)
    OBVIOUS
  <1> USE CallAssumption DEF Inv, TypeOK
  <1>1. StagesAfter[pc] \in Nat
    BY DEF StagesAfter, Waiting
  <1>2. WaitsToCome \in Nat /\ Timeout + MaxEintr \in Nat /\ retries + eintr \in Nat
    BY <1>1 DEF WaitsToCome
  <1>3. WaitsToCome * (Timeout + MaxEintr) \in Nat
    BY <1>2
  <1> QED
    BY <1>2, <1>3 DEF Patience

\* A step to a new wait, of fewer that may come.
LEMMA NewWaitCosts ==
  ASSUME Inv, Inv', pc \in Waiting, pc' \in Waiting, WaitsToCome' < WaitsToCome,
         retries' + eintr' < Timeout + MaxEintr
  PROVE  Patience' \in 0 .. Patience - 1
  <1> DEFINE w == Timeout + MaxEintr
             r == retries' + eintr' + 1
             s == retries + eintr
  <1>1. WaitsToCome \in Nat /\ w \in Nat /\ s \in Nat /\ Patience = (WaitsToCome * w) + (s + 1)
    BY WaitsType
  <1>2. WaitsToCome' \in Nat /\ retries' + eintr' \in Nat /\ Patience' = (WaitsToCome' * w) + r
    <2>1. (Inv /\ pc \in Waiting)'
      OBVIOUS
    <2>2. (/\ WaitsToCome \in Nat /\ Timeout + MaxEintr \in Nat /\ retries + eintr \in Nat
           /\ Patience = (WaitsToCome * (Timeout + MaxEintr)) + (retries + eintr + 1))'
      BY <2>1, WaitsType, PTL
    <2> QED
      BY <2>2
  <1>3. r \in 0 .. w
    BY <1>1, <1>2
  <1> HIDE DEF w, r, s
  <1>4. (WaitsToCome' * w) + r \in 0 .. (WaitsToCome * w) + s
    BY <1>1, <1>2, <1>3, WaitIsWorth
  <1>5. WaitsToCome * w \in Nat
    BY <1>1
  <1> QED
    BY <1>1, <1>2, <1>4, <1>5

LEMMA EndCosts ==
  ASSUME Inv, pc \in Waiting, pc' \notin Waiting
  PROVE  Patience' \in 0 .. Patience - 1
  <1>1. Patience' = 0
    BY DEF Patience
  <1>2. Patience \in Nat /\ Patience > 0
    <2>1. WaitsToCome \in Nat /\ Timeout + MaxEintr \in Nat /\ retries + eintr \in Nat
      BY WaitsType
    <2>2. WaitsToCome * (Timeout + MaxEintr) \in Nat
      BY <2>1
    <2> QED
      BY <2>1, <2>2, WaitsType
  <1> QED
    BY <1>1, <1>2

LEMMA BudgetStep ==
  ASSUME Inv, Inv', pc \in Waiting, Exchange
  PROVE  Patience' \in 0 .. Patience - 1
  <1> DEFINE w == Timeout + MaxEintr
  <1>a. /\ Timeout \in Nat /\ MaxEintr \in Nat /\ MaxSegments \in Nat /\ MaxSignals \in Nat
        /\ retries \in 0 .. Timeout - 1 /\ eintr \in 0 .. MaxEintr
        /\ segments \in 0 .. MaxSegments /\ signals \in 0 .. MaxSignals
    BY CallAssumption DEF Inv, TypeOK
  <1>b. /\ retries' \in 0 .. Timeout - 1 /\ eintr' \in 0 .. MaxEintr
        /\ segments' \in 0 .. MaxSegments /\ signals' \in 0 .. MaxSignals
    BY DEF Inv, TypeOK
  <1>c. \A stage \in Waiting : StagesAfter[stage] \in Nat
    BY DEF StagesAfter, Waiting
  <1>d. retries' + eintr' < Timeout + MaxEintr
    BY <1>a, <1>b, CountersFit
  <1>1. ASSUME pc' \in Waiting, GetsOn, WaitsToCome' < WaitsToCome
        PROVE  Patience' \in 0 .. Patience - 1
    BY <1>d, <1>1, NewWaitCosts
  <1>2. ASSUME pc' \in Waiting, UNCHANGED <<segments, signals>>, StagesAfter[pc'] < StagesAfter[pc]
        PROVE  WaitsToCome' < WaitsToCome
    BY <1>a, <1>c, <1>2 DEF WaitsToCome
  <1>3. ASSUME pc' = pc, WaitsToCome' = WaitsToCome, retries' + eintr' < retries + eintr
        PROVE  Patience' \in 0 .. Patience - 1
    <2>1. WaitsToCome * w \in Nat
      BY WaitsType
    <2>2. Patience = (WaitsToCome * w) + (retries + eintr + 1)
      BY WaitsType
    <2>3. Patience' = (WaitsToCome * w) + (retries' + eintr' + 1)
      BY <1>a, <1>b, <1>3, <2>1 DEF Patience
    <2>4. retries + eintr \in Nat /\ retries' + eintr' \in Nat
      BY <1>a, <1>b, CountersFit
    <2> HIDE DEF w
    <2>5. (WaitsToCome * w) + (retries' + eintr' + 1)
            \in 0 .. ((WaitsToCome * w) + (retries + eintr + 1)) - 1
      BY <1>3, <2>1, <2>4, LessIsLess
    <2> QED
      BY <2>2, <2>3, <2>5
  <1>4. CASE Slice
    <2>1. CASE retries > 0
      <3>1. pc' = pc /\ retries' = retries - 1 /\ eintr' = eintr /\ UNCHANGED <<segments, signals>>
        BY <1>4, <2>1 DEF Slice, GoTo
      <3> QED
        BY <1>a, <1>3, <3>1 DEF WaitsToCome
    <2>2. CASE retries = 0
      BY <1>4, <2>2, EndCosts DEF Slice, GiveUp, Close, Waiting
    <2> QED
      BY <1>a, <2>1, <2>2
  <1>5. CASE Interrupt
    <2>1. CASE pc' = pc
      <3>1. signals' = signals + 1 /\ segments' = segments
        BY <1>5 DEF Interrupt
      <3>2. WaitsToCome' < WaitsToCome
        BY <1>a, <1>c, <2>1, <3>1 DEF WaitsToCome
      <3> QED
        BY <1>d, <2>1, <3>2, NewWaitCosts
    <2>2. CASE pc' = "returned"
      BY <2>2, EndCosts DEF Waiting
    <2> QED
      BY <1>5, <2>1, <2>2 DEF Interrupt, GoTo, GiveUp, Close
  <1>6. CASE Part
    <2>1. pc' = pc /\ segments' = segments + 1 /\ signals' = signals /\ GetsOn
      BY <1>6 DEF Part, GoTo
    <2>2. WaitsToCome' < WaitsToCome
      BY <1>a, <1>c, <2>1 DEF WaitsToCome
    <2> QED
      BY <1>1, <2>1, <2>2
  <1>7. CASE pc' = "returned"
    BY <1>7, EndCosts DEF Waiting
  <1>8. CASE GetsOn /\ UNCHANGED <<segments, signals>>
               /\ <<pc, pc'>> \in {<<"connect", "send">>, <<"send", "status">>, <<"status", "body">>,
                                    <<"status", "rest">>, <<"body", "tail">>, <<"body", "rest">>,
                                    <<"tail", "rest">>}
    <2>1. pc' \in Waiting /\ StagesAfter[pc'] < StagesAfter[pc]
      BY <1>8 DEF StagesAfter, Waiting
    <2> QED
      BY <1>1, <1>2, <1>8, <2>1
  <1>9. CASE Lost
    BY <1>7, <1>9 DEF Lost, GiveUp, Close
  <1>10. CASE Connected \/ Sent
    BY <1>8, <1>10 DEF Connected, Sent, GoTo
  <1>11. CASE RecvStatus \/ RecvTail \/ RecvRest
    BY <1>7, <1>8, <1>11 DEF RecvStatus, RecvTail, RecvRest, GoTo, Close
  <1>12. CASE RecvResponse \/ RecvFault \/ RecvEmpty \/ RecvBroken
    BY <1>7, <1>8, <1>12 DEF RecvResponse, RecvFault, RecvEmpty, RecvBroken, Reads
  <1> QED
    BY <1>4, <1>5, <1>6, <1>9, <1>10, <1>11, <1>12 DEF Exchange

\* Whatever the peer and the signals do, an exchange costs at most the waits of its
\* stages, of the parts of its messages and of its signals, each no longer than
\* the timeout and the interrupts it forgives.
THEOREM CallAdvances == Spec => ExchangeAdvances
  <1>1. Inv /\ Inv' /\ [Next]_vars => [Patience > 0 => Patience' \in 0 .. Patience - 1]_vars
    <2> SUFFICES ASSUME Inv, Inv', Next, Patience > 0
                 PROVE  Patience' \in 0 .. Patience - 1
      OBVIOUS
    <2>1. pc \in Waiting
      BY DEF Patience
    <2>2. Exchange
      BY <2>1 DEF Next, BeginFails, Connect, NoSocket, Begin, MayCall, Delete, Waiting
    <2> QED
      BY <2>1, <2>2, BudgetStep
  <1> QED
    BY <1>1, CallInv, PTL DEF Spec, ExchangeAdvances
=============================================================================
