------------------------------ MODULE WsseDigest ------------------------------
(***************************************************************************)
(* The digest session database of wsseapi.c: a process-wide list of the    *)
(* digests accepted lately, under one mutex.  Threads, each with a context *)
(* of its own, verify the UsernameToken of the message they received; a    *)
(* digest must be accepted once although other threads clean the list at   *)
(* the same time.                                                          *)
(*                                                                         *)
(* A token stands for the pair of nonce and SHA1 digest the code compares; *)
(* tokens whose digest does not match the password are refused before the  *)
(* database is looked at and do not occur.  The order of the list decides  *)
(* nothing, so the list is a set; a walk over it is the set of the entries *)
(* not yet visited, and reads the list without a copy of its own, so what  *)
(* it still has to visit must not be freed under it.                       *)
(***************************************************************************)
EXTENDS Integers

CONSTANTS
    Threads,       \* threads that serve messages
    Tokens,        \* digests
    Clkskew,       \* SOAP_WSSE_CLKSKEW
    Noncetime,     \* SOAP_WSSE_NONCETIME
    PurgeEvery,    \* the 10 of now % 10
    Nobody,        \* the mutex is free
    MaxTime        \* bound on the clock

ASSUME WindowAssumption ==
    /\ Clkskew \in Nat
    /\ Noncetime \in Nat
    /\ PurgeEvery \in Nat \ {0}
    /\ MaxTime \in Nat
ASSUME NobodyAssumption == Nobody \notin Threads
ASSUME TokensAssumption == Tokens # {}

VARIABLES
    clock,      \* time(NULL)
    created,    \* wsu:Created of every token
    session,    \* soap_wsse_session: the tokens in the list
    lock,       \* soap_wsse_session_lock: its holder, or Nobody
    pc,         \* where each thread is
    token,      \* the token each thread verifies
    now,        \* now of the cleanup it calls
    left,       \* the entries its walk has not visited yet
    accepted,   \* history: tokens some thread has accepted
    forgotten   \* history: tokens accepted without an entry, for want of memory

vars == <<clock, created, session, lock, pc, token, now, left, accepted, forgotten>>
local == <<pc, token, now, left>>
history == <<accepted, forgotten>>

\* Outside a call: before the first, or with what the last one returned.
Outside == {"idle", "granted", "refused"}
Places == Outside \cup {"cleanup", "purge", "purging", "verify", "search"}

Expired(k) == created[k] + Noncetime

TypeOK ==
    /\ clock \in 0 .. MaxTime
    /\ created \in [Tokens -> Int]
    /\ session \in SUBSET Tokens
    /\ lock \in Threads \cup {Nobody}
    /\ pc \in [Threads -> Places]
    /\ token \in [Threads -> Tokens]
    /\ now \in [Threads -> 0 .. MaxTime]
    /\ left \in [Threads -> SUBSET Tokens]
    /\ accepted \in SUBSET Tokens
    /\ forgotten \in SUBSET accepted

Init ==
    /\ clock = 0
    /\ created \in [Tokens -> 0 .. MaxTime]
    /\ session = {}
    /\ lock = Nobody
    /\ pc = [t \in Threads |-> "idle"]
    /\ token = [t \in Threads |-> CHOOSE k \in Tokens : TRUE]
    /\ now = [t \in Threads |-> 0]
    /\ left = [t \in Threads |-> {}]
    /\ accepted = {}
    /\ forgotten = {}

-----------------------------------------------------------------------------
(* soap_wsse_session_verify *)

Fresh(k) == created[k] <= clock + Clkskew /\ Expired(k) > clock

\* The message is neither from the future nor too old; when the second
\* divides by ten the list is cleaned first.
Verify(t, k) ==
    /\ pc[t] \in Outside
    /\ Fresh(k)
    /\ token' = [token EXCEPT ![t] = k]
    /\ pc' = [pc EXCEPT ![t] = IF clock % PurgeEvery = 0 THEN "cleanup" ELSE "verify"]
    /\ UNCHANGED <<clock, created, session, lock, now, left, history>>

\* A message from the future or an old one gets its fault without a look at
\* the list.
Refuse(t, k) ==
    /\ pc[t] \in Outside
    /\ ~ Fresh(k)
    /\ pc' = [pc EXCEPT ![t] = "refused"]
    /\ UNCHANGED <<clock, created, session, lock, token, now, left, history>>

\* Faulty: the list is walked without the mutex.
EnterUnlocked(t, from, to) ==
    /\ pc[t] = from
    /\ pc' = [pc EXCEPT ![t] = to]
    /\ left' = [left EXCEPT ![t] = session]
    /\ UNCHANGED <<clock, created, session, lock, token, now, history>>

\* The mutex is taken and the walk begins at the head.
Enter(t, from, to) ==
    /\ pc[t] = from
    /\ lock = Nobody
    /\ lock' = t
    /\ pc' = [pc EXCEPT ![t] = to]
    /\ left' = [left EXCEPT ![t] = session]
    /\ UNCHANGED <<clock, created, session, token, now, history>>

EnterSearch(t) == Enter(t, "verify", "search")

\* An entry that is not the token's.
Look(t) ==
    /\ pc[t] = "search"
    /\ \E e \in left[t] \ {token[t]} : left' = [left EXCEPT ![t] = @ \ {e}]
    /\ UNCHANGED <<clock, created, session, lock, pc, token, now, history>>

Leave(t, to) ==
    /\ lock' = Nobody
    /\ pc' = [pc EXCEPT ![t] = to]
    /\ left' = [left EXCEPT ![t] = {}]
    /\ now' = [now EXCEPT ![t] = 0]
    /\ UNCHANGED <<clock, created, token>>

\* The token is in the list: a fault.
Replayed(t) ==
    /\ pc[t] = "search"
    /\ token[t] \in left[t]
    /\ Leave(t, "refused")
    /\ UNCHANGED <<session, history>>

\* The walk ended without it: a new entry, when malloc has memory for it, and
\* SOAP_OK in any case.
Accept(t) ==
    /\ pc[t] = "search"
    /\ left[t] = {}
    /\ Leave(t, "granted")
    /\ accepted' = accepted \cup {token[t]}
    /\ \/ /\ session' = session \cup {token[t]}
          /\ UNCHANGED forgotten
       \/ /\ forgotten' = forgotten \cup {token[t]}
          /\ UNCHANGED session

-----------------------------------------------------------------------------
(* soap_wsse_session_cleanup *)

\* Faulty: the skew between the clocks is added to the time.
CleanupSkewed(t) ==
    /\ pc[t] = "cleanup"
    /\ now' = [now EXCEPT ![t] = clock + Clkskew]
    /\ pc' = [pc EXCEPT ![t] = "purge"]
    /\ UNCHANGED <<clock, created, session, lock, token, left, history>>

\* It takes a time of its own before it takes the mutex.
Cleanup(t) ==
    /\ pc[t] = "cleanup"
    /\ now' = [now EXCEPT ![t] = clock]
    /\ pc' = [pc EXCEPT ![t] = "purge"]
    /\ UNCHANGED <<clock, created, session, lock, token, left, history>>

EnterPurge(t) == Enter(t, "purge", "purging")

\* Faulty: an entry is dropped in the second in which it expires.
OutdatedEarly(t, e) == Expired(e) <= now[t]

\* Faulty: the lifetime is counted from the creation of the message.
OutdatedByCreation(t, e) == created[e] < now[t]

Outdated(t, e) == Expired(e) < now[t]

\* Faulty: the walk does not step over an entry that it keeps.
PurgeStays(t) ==
    /\ pc[t] = "purging"
    /\ \E e \in left[t] :
          IF Outdated(t, e)
          THEN /\ left' = [left EXCEPT ![t] = @ \ {e}]
               /\ session' = session \ {e}
          ELSE UNCHANGED <<left, session>>
    /\ UNCHANGED <<clock, created, lock, pc, token, now, history>>

\* Faulty: begins again at the head after it took an entry out.
PurgeFromHead(t) ==
    /\ pc[t] = "purging"
    /\ \E e \in left[t] :
          IF Outdated(t, e)
          THEN /\ session' = session \ {e}
               /\ left' = [left EXCEPT ![t] = session \ {e}]
          ELSE /\ left' = [left EXCEPT ![t] = @ \ {e}]
               /\ UNCHANGED session
    /\ UNCHANGED <<clock, created, lock, pc, token, now, history>>

\* An outdated entry is taken out and freed, another one stepped over.
Purge(t) ==
    /\ pc[t] = "purging"
    /\ \E e \in left[t] :
          /\ left' = [left EXCEPT ![t] = @ \ {e}]
          /\ session' = IF Outdated(t, e) THEN session \ {e} ELSE session
    /\ UNCHANGED <<clock, created, lock, pc, token, now, history>>

EndPurge(t) ==
    /\ pc[t] = "purging"
    /\ left[t] = {}
    /\ Leave(t, "verify")
    /\ UNCHANGED <<session, history>>

-----------------------------------------------------------------------------
Tick ==
    /\ clock < MaxTime
    /\ clock' = clock + 1
    /\ UNCHANGED <<created, session, lock, local, history>>

Step(t) ==
    \/ EnterSearch(t)
    \/ Look(t)
    \/ Replayed(t)
    \/ Accept(t)
    \/ Cleanup(t)
    \/ EnterPurge(t)
    \/ Purge(t)
    \/ EndPurge(t)

Next ==
    \/ Tick
    \/ \E t \in Threads :
          \/ \E k \in Tokens : Verify(t, k) \/ Refuse(t, k)
          \/ Step(t)

Spec == Init /\ [][Next]_vars

\* A thread inside a call is scheduled; that says nothing of who gets the mutex.
FairSpec == Spec /\ \A t \in Threads : WF_vars(Step(t))

-----------------------------------------------------------------------------
\* What a walk still has to visit is in the list: no other thread frees an
\* entry under it.  (soap_wsse_session_lock around both walks.)
WalkIsLive ==
    \A t \in Threads : left[t] \subseteq session

\* Every digest that was accepted with memory for its entry stays in the list
\* until it has expired, whatever the cleanings of other threads.
Remembered ==
    \A k \in accepted \ forgotten : clock <= Expired(k) => k \in session

\* No digest is accepted a second time before it has expired, unless memory
\* ran out: soap_wsse_session_verify takes its time before it waits for the
\* mutex, and between the two the list may be cleaned by a later time.
AcceptedOnce ==
    [][\A t \in Threads :
          Accept(t) => token[t] \notin accepted \ forgotten \/ Expired(token[t]) < clock]_vars

\* A walk comes to its end: whoever holds the mutex either gives it back or has
\* fewer entries before it after each of its steps, and nobody else takes the
\* mutex from it or puts entries before it.
WalkAdvances ==
    [][\A t \in Threads :
          lock = t => IF Step(t)
                      THEN lock' = Nobody \/ (left'[t] \subseteq left[t] /\ left'[t] # left[t])
                      ELSE UNCHANGED <<lock, left>>]_vars

\* What ReplaySpec sees of the threads.
Verdict == [t \in Threads |-> IF pc[t] \in Outside THEN pc[t] ELSE "asking"]

Replay == INSTANCE ReplaySpec WITH asked <- token, verdict <- Verdict

\* Every digest is judged in one step: a thread is told SOAP_OK exactly when the
\* digest is not in the list at that moment, although verify and the cleanup walk
\* the list entry by entry while others do, and cleanings that happen before or
\* in between remove only what has expired.
VerdictsAreAtomic == Replay!ReplaySpecification

\* The mutex is given back, in verify and in the cleanup verify calls first.
MutexReleased ==
    \A t \in Threads : lock = t ~> lock # t
=============================================================================
