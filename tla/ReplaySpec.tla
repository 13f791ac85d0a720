------------------------------ MODULE ReplaySpec ------------------------------
(***************************************************************************)
(* What the digest session database promises the threads that ask it: a    *)
(* verdict is one step.  Whoever asks is granted the digest if at that     *)
(* moment it is not remembered, and refused if it is, as if nobody else    *)
(* walked the list; a digest is forgotten only after its lifetime.         *)
(***************************************************************************)
EXTENDS Integers

CONSTANTS
    Threads,      \* who asks
    Tokens,       \* digests
    Clkskew,      \* how far a message may be ahead of the clock
    Noncetime     \* how long it is valid

VARIABLES
    clock,
    created,      \* when each message was made
    session,      \* the digests that are remembered
    asked,        \* the digest each thread asks about
    verdict       \* and what it has been told

rvars == <<clock, created, session, asked, verdict>>

Verdicts == {"idle", "asking", "granted", "refused"}

Expired(k) == created[k] + Noncetime
Fresh(k) == created[k] <= clock + Clkskew /\ Expired(k) > clock

Begin ==
    /\ clock = 0
    /\ created \in [Tokens -> Int]
    /\ session = {}
    /\ asked \in [Threads -> Tokens]
    /\ verdict = [t \in Threads |-> "idle"]

Ask(t, k) ==
    /\ verdict[t] # "asking"
    /\ Fresh(k)
    /\ asked' = [asked EXCEPT ![t] = k]
    /\ verdict' = [verdict EXCEPT ![t] = "asking"]
    /\ UNCHANGED <<clock, created, session>>

Dismiss(t, k) ==
    /\ verdict[t] # "asking"
    /\ ~ Fresh(k)
    /\ verdict' = [verdict EXCEPT ![t] = "refused"]
    /\ UNCHANGED <<clock, created, session, asked>>

\* A digest for which there is no memory is granted all the same.
Grant(t) ==
    /\ verdict[t] = "asking"
    /\ asked[t] \notin session
    /\ verdict' = [verdict EXCEPT ![t] = "granted"]
    /\ session' \in {session, session \cup {asked[t]}}
    /\ UNCHANGED <<clock, created, asked>>

Deny(t) ==
    /\ verdict[t] = "asking"
    /\ asked[t] \in session
    /\ verdict' = [verdict EXCEPT ![t] = "refused"]
    /\ UNCHANGED <<clock, created, session, asked>>

Forget(k) ==
    /\ k \in session
    /\ Expired(k) < clock
    /\ session' = session \ {k}
    /\ UNCHANGED <<clock, created, asked, verdict>>

Pass ==
    /\ clock' = clock + 1
    /\ UNCHANGED <<created, session, asked, verdict>>

Proceed ==
    \/ Pass
    \/ \E k \in Tokens : Forget(k)
    \/ \E t \in Threads :
          \/ \E k \in Tokens : Ask(t, k) \/ Dismiss(t, k)
          \/ Grant(t)
          \/ Deny(t)

ReplaySpecification == Begin /\ [][Proceed]_rvars
=============================================================================
