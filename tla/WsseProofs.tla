------------------------------ MODULE WsseProofs ------------------------------
(***************************************************************************)
(* Theorems about the digest session database, for any number of threads,  *)
(* of digests and any clock.                                               *)
(***************************************************************************)
EXTENDS WsseDigest, TLAPS

\* The mutex is held by the thread inside a walk and by no other.
Held == \A t \in Threads : pc[t] \in {"purging", "search"} <=> lock = t

\* Only a walk has entries left to visit.
WalkInside == \A t \in Threads : left[t] # {} => lock = t

\* The time of a cleanup is not ahead of the clock.
PastTime == \A t \in Threads : now[t] <= clock

\* A search has not stepped over the entry it looks for.
NotMissed ==
    \A t \in Threads : pc[t] = "search" /\ token[t] \in session => token[t] \in left[t]

IInv ==
    /\ TypeOK
    /\ Held
    /\ WalkInside
    /\ PastTime
    /\ NotMissed
    /\ WalkIsLive
    /\ Remembered

USE WindowAssumption, NobodyAssumption, TokensAssumption

-----------------------------------------------------------------------------
LEMMA WsseInit == Init => IInv
<1> SUFFICES ASSUME Init PROVE IInv
  OBVIOUS
<1>1. (CHOOSE k \in Tokens : TRUE) \in Tokens
  OBVIOUS
<1>2. TypeOK
  BY <1>1 DEF Init, TypeOK, Places, Outside
<1>3. Held /\ WalkInside /\ PastTime /\ NotMissed /\ WalkIsLive /\ Remembered
  BY DEF Init, Held, WalkInside, PastTime, NotMissed, WalkIsLive, Remembered
<1> QED
  BY <1>2, <1>3 DEF IInv

\* A thread that takes the mutex begins its walk with the whole list.
LEMMA EnterKeeps ==
  ASSUME IInv, NEW t \in Threads, NEW from \in {"verify", "purge"},
         NEW to \in {"search", "purging"}, Enter(t, from, to)
  PROVE  IInv'
<1> USE DEF IInv
<1>1. TypeOK'
  BY DEF TypeOK, Enter, Places, Outside, history
<1>2. Held'
  BY DEF TypeOK, Enter, Held
<1>3. WalkInside' /\ WalkIsLive'
  BY DEF TypeOK, Enter, WalkInside, WalkIsLive
<1>4. PastTime' /\ Remembered'
  BY DEF TypeOK, Enter, PastTime, Remembered, Expired, history
<1>5. NotMissed'
  BY DEF TypeOK, Enter, NotMissed
<1> QED
  BY <1>1, <1>2, <1>3, <1>4, <1>5

LEMMA LookKeeps ==
  ASSUME IInv, NEW t \in Threads, Look(t)
  PROVE  IInv'
<1> USE DEF IInv
<1>1. PICK e \in left[t] \ {token[t]} : left' = [left EXCEPT ![t] = @ \ {e}]
  BY DEF Look
<1>2. TypeOK'
  BY <1>1 DEF TypeOK, Look, history
<1>3. Held' /\ PastTime' /\ Remembered'
  BY DEF TypeOK, Look, Held, PastTime, Remembered, Expired, history
<1>4. WalkInside' /\ WalkIsLive'
  BY <1>1 DEF TypeOK, Look, WalkInside, WalkIsLive
<1>5. NotMissed'
  BY <1>1 DEF TypeOK, Look, NotMissed
<1> QED
  BY <1>2, <1>3, <1>4, <1>5

\* Whoever gives the mutex back leaves no walk behind.
LEMMA LeaveKeeps ==
  ASSUME IInv, NEW t \in Threads, NEW to \in {"granted", "refused", "verify"}, Leave(t, to),
         pc[t] \in {"search", "purging"}
  PROVE  /\ Held'
         /\ WalkInside'
         /\ PastTime'
         /\ \A u \in Threads : left'[u] = {}
         /\ \A u \in Threads : pc'[u] # "search"
<1> USE DEF IInv
<1>1. lock = t
  BY DEF Held
<1>2. Held'
  BY <1>1 DEF TypeOK, Leave, Held
<1>3. \A u \in Threads : left'[u] = {}
  BY <1>1 DEF TypeOK, Leave, WalkInside
<1>4. \A u \in Threads : pc'[u] # "search"
  BY <1>1 DEF TypeOK, Leave, Held
<1>5. PastTime'
  BY DEF TypeOK, Leave, PastTime
<1> QED
  BY <1>2, <1>3, <1>4, <1>5 DEF WalkInside

LEMMA EndKeeps ==
  ASSUME IInv, NEW t \in Threads, Replayed(t) \/ EndPurge(t)
  PROVE  IInv'
<1> USE DEF IInv
<1>1. PICK to \in {"refused", "verify"} : Leave(t, to)
  BY DEF Replayed, EndPurge
<1>2. pc[t] \in {"search", "purging"}
  BY DEF Replayed, EndPurge
<1>3. TypeOK'
  BY <1>1 DEF TypeOK, Replayed, EndPurge, Leave, Places, Outside, history
<1>4. Held' /\ WalkInside' /\ PastTime' /\ NotMissed' /\ WalkIsLive'
  BY <1>1, <1>2, LeaveKeeps DEF NotMissed, WalkIsLive
<1>5. Remembered'
  BY <1>1 DEF TypeOK, Replayed, EndPurge, Leave, Remembered, Expired, history
<1> QED
  BY <1>3, <1>4, <1>5

LEMMA AcceptKeeps ==
  ASSUME IInv, NEW t \in Threads, Accept(t)
  PROVE  IInv'
<1> USE DEF IInv
<1>1. Leave(t, "granted") /\ pc[t] = "search"
  BY DEF Accept
<1>2. TypeOK'
  BY <1>1 DEF TypeOK, Accept, Leave, Places, Outside
<1>3. Held' /\ WalkInside' /\ PastTime' /\ NotMissed' /\ WalkIsLive'
  BY <1>1, LeaveKeeps DEF NotMissed, WalkIsLive
<1>4. Remembered'
  BY <1>1 DEF TypeOK, Accept, Leave, Remembered, Expired
<1> QED
  BY <1>2, <1>3, <1>4

\* An entry is taken out by the holder of the mutex, whose time is past its end.
LEMMA PurgeKeeps ==
  ASSUME IInv, NEW t \in Threads, Purge(t)
  PROVE  IInv'
<1> USE DEF IInv
<1>1. PICK e \in left[t] :
          /\ left' = [left EXCEPT ![t] = @ \ {e}]
          /\ session' = IF Outdated(t, e) THEN session \ {e} ELSE session
  BY DEF Purge
<1>2. lock = t
  BY DEF Purge, Held
<1>3. TypeOK'
  BY <1>1 DEF TypeOK, Purge, history
<1>4. Held' /\ PastTime'
  BY DEF TypeOK, Purge, Held, PastTime
<1>5. WalkInside'
  BY <1>1 DEF TypeOK, Purge, WalkInside
<1>6. \A u \in Threads \ {t} : left'[u] = {} /\ pc'[u] # "search"
  BY <1>1, <1>2 DEF TypeOK, Purge, WalkInside, Held
<1>7. WalkIsLive'
  BY <1>1, <1>6 DEF TypeOK, WalkIsLive
<1>8. NotMissed'
  BY <1>6 DEF TypeOK, Purge, NotMissed
<1>9. Remembered'
  <2> SUFFICES ASSUME NEW k \in accepted \ forgotten, clock <= Expired(k)
               PROVE  k \in session'
    BY DEF Remembered, Purge, history, Expired
  <2>1. k \in session
    BY DEF Remembered
  <2>2. Expired(k) \in Int /\ now[t] \in Int /\ clock \in Int /\ now[t] <= clock
    BY DEF TypeOK, Expired, PastTime
  <2>3. ~ Outdated(t, k)
    BY <2>2 DEF Outdated
  <2> QED
    BY <1>1, <2>1, <2>3
<1> QED
  BY <1>3, <1>4, <1>5, <1>7, <1>8, <1>9

LEMMA VerifyKeeps ==
  ASSUME IInv, NEW t \in Threads, NEW k \in Tokens, Verify(t, k) \/ Refuse(t, k)
  PROVE  IInv'
<1> USE DEF IInv
<1>1. TypeOK'
  BY DEF TypeOK, Verify, Refuse, Places, Outside, history
<1>2. Held' /\ NotMissed'
  BY DEF TypeOK, Verify, Refuse, Outside, Held, NotMissed
<1>3. WalkInside' /\ WalkIsLive' /\ PastTime' /\ Remembered'
  BY DEF TypeOK, Verify, Refuse, WalkInside, WalkIsLive, PastTime, Remembered, Expired, history
<1> QED
  BY <1>1, <1>2, <1>3

LEMMA CleanupKeeps ==
  ASSUME IInv, NEW t \in Threads, Cleanup(t)
  PROVE  IInv'
<1> USE DEF IInv
<1>1. TypeOK'
  BY DEF TypeOK, Cleanup, Places, Outside, history
<1>2. Held' /\ NotMissed'
  BY DEF TypeOK, Cleanup, Held, NotMissed
<1>3. WalkInside' /\ WalkIsLive' /\ Remembered'
  BY DEF TypeOK, Cleanup, WalkInside, WalkIsLive, Remembered, Expired, history
<1>4. PastTime'
  BY DEF TypeOK, Cleanup, PastTime
<1> QED
  BY <1>1, <1>2, <1>3, <1>4

LEMMA TickKeeps ==
  ASSUME IInv, Tick
  PROVE  IInv'
<1> USE DEF IInv
<1>1. TypeOK'
  BY DEF TypeOK, Tick, local, history
<1>2. Held' /\ WalkInside' /\ WalkIsLive' /\ NotMissed'
  BY DEF Tick, Held, WalkInside, WalkIsLive, NotMissed, local
<1>3. PastTime'
  BY DEF TypeOK, Tick, PastTime, local
<1>4. Remembered'
  BY DEF TypeOK, Tick, Remembered, Expired, history
<1> QED
  BY <1>1, <1>2, <1>3, <1>4

LEMMA StutterKeeps ==
  ASSUME IInv, UNCHANGED vars
  PROVE  IInv'
BY DEF IInv, vars, TypeOK, Held, WalkInside, PastTime, NotMissed, WalkIsLive,
       Remembered, Expired

LEMMA WsseNext == IInv /\ [Next]_vars => IInv'
<1> SUFFICES ASSUME IInv, [Next]_vars PROVE IInv'
  OBVIOUS
<1>1. CASE Tick
  BY <1>1, TickKeeps
<1>2. ASSUME NEW t \in Threads, NEW k \in Tokens, Verify(t, k) \/ Refuse(t, k) PROVE IInv'
  BY <1>2, VerifyKeeps
<1>3. ASSUME NEW t \in Threads, Step(t) PROVE IInv'
  <2>1. CASE EnterSearch(t) \/ EnterPurge(t)
    BY <2>1, EnterKeeps DEF EnterSearch, EnterPurge
  <2>2. CASE Look(t)
    BY <2>2, LookKeeps
  <2>3. CASE Replayed(t) \/ EndPurge(t)
    BY <2>3, EndKeeps
  <2>4. CASE Accept(t)
    BY <2>4, AcceptKeeps
  <2>5. CASE Cleanup(t)
    BY <2>5, CleanupKeeps
  <2>6. CASE Purge(t)
    BY <2>6, PurgeKeeps
  <2> QED
    BY <1>3, <2>1, <2>2, <2>3, <2>4, <2>5, <2>6 DEF Step
<1>4. CASE UNCHANGED vars
  BY <1>4, StutterKeeps
<1> QED
  BY <1>1, <1>2, <1>3, <1>4 DEF Next

LEMMA WsseInvariant == Spec => []IInv
BY WsseInit, WsseNext, PTL DEF Spec

-----------------------------------------------------------------------------
\* Every variable keeps its range.
THEOREM WsseTypeCorrect == Spec => []TypeOK
<1>1. IInv => TypeOK
  BY DEF IInv
<1> QED
  BY <1>1, WsseInvariant, PTL

\* No entry is freed while another thread still has to visit it.
THEOREM WsseWalksAreLive == Spec => []WalkIsLive
<1>1. IInv => WalkIsLive
  BY DEF IInv
<1> QED
  BY <1>1, WsseInvariant, PTL

\* Every accepted digest is remembered until it has expired.
THEOREM WsseRemembers == Spec => []Remembered
<1>1. IInv => Remembered
  BY DEF IInv
<1> QED
  BY <1>1, WsseInvariant, PTL

\* A digest is accepted once while it is valid: the search of a thread holds
\* the mutex, so an entry that is in the list is still ahead of its walk, and
\* an entry that is not has been purged by a time that is past its end.
THEOREM WsseAcceptsOnce == Spec => AcceptedOnce
<1>1. ASSUME IInv, NEW t \in Threads, Accept(t)
      PROVE  token[t] \notin accepted \ forgotten \/ Expired(token[t]) < clock
  <2>1. token[t] \notin session
    BY <1>1 DEF IInv, NotMissed, Accept
  <2>2. Expired(token[t]) \in Int /\ clock \in Int
    BY <1>1 DEF IInv, TypeOK, Expired
  <2> QED
    BY <1>1, <2>1, <2>2 DEF IInv, Remembered
<1>2. IInv => \A t \in Threads :
                 Accept(t) => token[t] \notin accepted \ forgotten \/ Expired(token[t]) < clock
  BY <1>1
<1> QED
  BY <1>2, WsseInvariant, PTL DEF AcceptedOnce

-----------------------------------------------------------------------------
(* The end of a walk *)

\* Only the holder of the mutex is inside a walk.
LEMMA OneWalk ==
  ASSUME IInv, NEW t \in Threads, lock = t, NEW u \in Threads, u # t, Step(u)
  PROVE  Cleanup(u)
<1>1. pc[u] \notin {"purging", "search"} /\ lock # Nobody
  BY DEF IInv, Held
<1> QED
  BY <1>1 DEF Step, EnterSearch, EnterPurge, Enter, Look, Replayed, Accept, Purge, EndPurge

\* A walk has no step it could repeat, for any list: with the mutex held by a
\* thread that runs, verify and the cleanup give it back.
THEOREM WsseWalksEnd == Spec => WalkAdvances
<1>1. ASSUME IInv, [Next]_vars, NEW t \in Threads, lock = t
      PROVE  IF Step(t) THEN lock' = Nobody \/ (left'[t] \subseteq left[t] /\ left'[t] # left[t])
                        ELSE UNCHANGED <<lock, left>>
  <2> USE <1>1 DEF IInv
  <2>1. CASE Step(t)
    <3>1. pc[t] \in {"purging", "search"} /\ lock # Nobody
      BY DEF Held
    <3>2. CASE Replayed(t) \/ Accept(t) \/ EndPurge(t)
      BY <2>1, <3>2 DEF Replayed, Accept, EndPurge, Leave
    <3>3. CASE Look(t) \/ Purge(t)
      <4>1. PICK e \in left[t] : left' = [left EXCEPT ![t] = @ \ {e}]
        BY <3>3 DEF Look, Purge
      <4>2. left'[t] = left[t] \ {e}
        BY <4>1 DEF TypeOK
      <4> QED
        BY <2>1, <4>2
    <3> QED
      BY <2>1, <3>1, <3>2, <3>3 DEF Step, EnterSearch, EnterPurge, Enter, Cleanup
  <2>2. CASE ~ Step(t)
    <3>1. CASE Tick \/ UNCHANGED vars
      BY <2>2, <3>1 DEF Tick, vars, local
    <3>2. ASSUME NEW u \in Threads, NEW k \in Tokens, Verify(u, k) \/ Refuse(u, k)
          PROVE  UNCHANGED <<lock, left>>
      BY <3>2 DEF Verify, Refuse
    <3>3. ASSUME NEW u \in Threads, Step(u)
          PROVE  UNCHANGED <<lock, left>>
      BY <2>2, <3>3, OneWalk DEF Cleanup
    <3> QED
      BY <2>2, <3>1, <3>2, <3>3 DEF Next
  <2> QED
    BY <2>1, <2>2
<1>2. IInv /\ [Next]_vars
      => [\A t \in Threads :
            lock = t => IF Step(t)
                        THEN lock' = Nobody \/ (left'[t] \subseteq left[t] /\ left'[t] # left[t])
                        ELSE UNCHANGED <<lock, left>>]_vars
  BY <1>1
<1> QED
  BY <1>2, WsseInvariant, PTL DEF Spec, WalkAdvances

-----------------------------------------------------------------------------
(* Refinement *)

\* What a step does to the place of a thread it does to its verdict.
LEMMA VerdictOf ==
  ASSUME TypeOK, NEW t \in Threads, NEW to \in Places, pc' = [pc EXCEPT ![t] = to]
  PROVE  Verdict' = [Verdict EXCEPT ![t] = IF to \in Outside THEN to ELSE "asking"]
BY DEF TypeOK, Verdict

\* A step inside a call that leaves the list as it is.
LEMMA InsideRefines ==
  ASSUME TypeOK, NEW t \in Threads, NEW to \in Places \ Outside,
         pc[t] \notin Outside, pc' = [pc EXCEPT ![t] = to],
         UNCHANGED <<clock, created, session, token>>
  PROVE  UNCHANGED Replay!rvars
<1>1. Verdict' = [Verdict EXCEPT ![t] = "asking"]
  <2>1. to \in Places /\ to \notin Outside
    OBVIOUS
  <2>2. Verdict' = [Verdict EXCEPT ![t] = IF to \in Outside THEN to ELSE "asking"]
    BY <2>1, VerdictOf
  <2> QED
    BY <2>1, <2>2
<1>2. Verdict[t] = "asking" /\ Verdict = [u \in Threads |-> Verdict[u]]
  BY DEF Verdict
<1>3. Verdict' = Verdict
  BY <1>1, <1>2
<1> QED
  BY <1>3 DEF Replay!rvars

\* A call begins, or ends at once.
LEMMA VerifyRefines ==
  ASSUME TypeOK, NEW t \in Threads, NEW k \in Tokens, Verify(t, k) \/ Refuse(t, k)
  PROVE  Replay!Ask(t, k) \/ Replay!Dismiss(t, k)
<1>1. Verdict[t] # "asking"
  BY DEF Verify, Refuse, Verdict, Outside
<1>2. CASE Verify(t, k)
  <2>1. Verdict' = [Verdict EXCEPT ![t] = "asking"]
    <3>1. PICK to \in {"cleanup", "verify"} : pc' = [pc EXCEPT ![t] = to]
      BY <1>2 DEF Verify
    <3>2. to \in Places /\ to \notin Outside
      BY <3>1 DEF Places, Outside
    <3>3. Verdict' = [Verdict EXCEPT ![t] = IF to \in Outside THEN to ELSE "asking"]
      BY <3>1, <3>2, VerdictOf
    <3> QED
      BY <3>2, <3>3
  <2> QED
    BY <1>1, <1>2, <2>1 DEF Verify, Replay!Ask, Fresh, Expired, Replay!Fresh, Replay!Expired
<1>3. CASE Refuse(t, k)
  <2>1. Verdict' = [Verdict EXCEPT ![t] = "refused"]
    BY <1>3, VerdictOf DEF Refuse, Places, Outside
  <2> QED
    BY <1>1, <1>3, <2>1 DEF Refuse, Replay!Dismiss, Fresh, Expired, Replay!Fresh, Replay!Expired
<1> QED
  BY <1>2, <1>3

\* The walk that ends without the digest has looked at the whole list.
LEMMA VerdictRefines ==
  ASSUME IInv, NEW t \in Threads, Accept(t) \/ Replayed(t)
  PROVE  Replay!Grant(t) \/ Replay!Deny(t)
<1> USE DEF IInv
<1>1. pc[t] = "search" /\ token[t] \in Tokens /\ Verdict[t] = "asking"
  BY DEF Accept, Replayed, Verdict, Outside, TypeOK
<1>2. CASE Accept(t)
  <2>1. token[t] \notin session
    BY <1>1, <1>2 DEF Accept, NotMissed
  <2>2. Verdict' = [Verdict EXCEPT ![t] = "granted"]
    BY <1>2, VerdictOf DEF Accept, Leave, Places, Outside
  <2> QED
    BY <1>1, <1>2, <2>1, <2>2 DEF Accept, Leave, Replay!Grant
<1>3. CASE Replayed(t)
  <2>1. token[t] \in session
    BY <1>1, <1>3 DEF Replayed, WalkIsLive
  <2>2. Verdict' = [Verdict EXCEPT ![t] = "refused"]
    BY <1>3, VerdictOf DEF Replayed, Leave, Places, Outside
  <2> QED
    BY <1>1, <1>3, <2>1, <2>2 DEF Replayed, Leave, Replay!Deny
<1> QED
  BY <1>2, <1>3

\* The entry a cleaning takes out expired before a time it has read, and that is past.
LEMMA PurgeRefines ==
  ASSUME IInv, NEW t \in Threads, Purge(t)
  PROVE  (\E k \in Tokens : Replay!Forget(k)) \/ UNCHANGED Replay!rvars
<1> USE DEF IInv
<1>1. PICK e \in left[t] : session' = IF Outdated(t, e) THEN session \ {e} ELSE session
  BY DEF Purge
<1>2. e \in session /\ e \in Tokens
  BY DEF WalkIsLive, TypeOK
<1>3. UNCHANGED <<clock, created, token, Verdict>>
  BY DEF Purge, Verdict
<1>4. CASE Outdated(t, e)
  <2>1. Expired(e) \in Int /\ now[t] \in Int /\ clock \in Int /\ now[t] <= clock /\ Expired(e) < now[t]
    BY <1>2, <1>4 DEF TypeOK, Expired, PastTime, Outdated
  <2>2. Replay!Expired(e) < clock
    BY <2>1 DEF Expired, Replay!Expired
  <2> QED
    BY <1>1, <1>2, <1>3, <1>4, <2>2 DEF Replay!Forget
<1>5. CASE ~ Outdated(t, e)
  BY <1>1, <1>3, <1>5 DEF Replay!rvars
<1> QED
  BY <1>4, <1>5

\* The database implements ReplaySpec: for any number of threads and digests, and
\* whatever cleanings run in between, verify answers as if it were one step.
THEOREM WsseIsAtomic == Spec => VerdictsAreAtomic
<1>1. Init => Replay!Begin
  <2> SUFFICES ASSUME Init PROVE Replay!Begin
    OBVIOUS
  <2>1. (CHOOSE k \in Tokens : TRUE) \in Tokens
    OBVIOUS
  <2>2. created \in [Tokens -> Int]
    BY DEF Init
  <2> QED
    BY <2>1, <2>2 DEF Init, Replay!Begin, Verdict, Outside
<1>2. IInv /\ [Next]_vars => [Replay!Proceed]_(Replay!rvars)
  <2> SUFFICES ASSUME IInv, [Next]_vars PROVE [Replay!Proceed]_(Replay!rvars)
    OBVIOUS
  <2>1. CASE Tick
    BY <2>1 DEF Tick, local, Verdict, Replay!Pass, Replay!Proceed
  <2>2. ASSUME NEW t \in Threads, NEW k \in Tokens, Verify(t, k) \/ Refuse(t, k)
        PROVE  Replay!Proceed
    BY <2>2, VerifyRefines DEF IInv, Replay!Proceed
  <2>3. ASSUME NEW t \in Threads, Step(t)
        PROVE  [Replay!Proceed]_(Replay!rvars)
    <3>1. CASE Accept(t) \/ Replayed(t)
      BY <3>1, VerdictRefines DEF Replay!Proceed
    <3>2. CASE Purge(t)
      BY <3>2, PurgeRefines DEF Replay!Proceed
    <3>3. CASE EnterSearch(t) \/ EnterPurge(t) \/ Cleanup(t) \/ EndPurge(t)
      BY <3>3, InsideRefines DEF IInv, EnterSearch, EnterPurge, Enter, Cleanup, EndPurge, Leave,
         Places, Outside
    <3>4. CASE Look(t)
      BY <3>4 DEF Look, Verdict, Replay!rvars
    <3> QED
      BY <2>3, <3>1, <3>2, <3>3, <3>4 DEF Step
  <2>4. CASE UNCHANGED vars
    BY <2>4 DEF vars, Verdict, Replay!rvars
  <2> QED
    BY <2>1, <2>2, <2>3, <2>4 DEF Next
<1> QED
  BY <1>1, <1>2, WsseInvariant, PTL DEF Spec, VerdictsAreAtomic, Replay!ReplaySpecification
=============================================================================
