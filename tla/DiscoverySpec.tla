---------------------------- MODULE DiscoverySpec ----------------------------
(***************************************************************************)
(* What ONVIF_DetectDevice promises its caller, without sockets, parsers   *)
(* or loops.  The answers that reached the host are used up in order of    *)
(* arrival, message by message: a whole answer is a message by itself; a   *)
(* torn one makes a message with as many of those behind it as the reader  *)
(* needs.  The matches of a message are handed over one at a time, in      *)
(* order, before the next message is looked at, and none twice.  The       *)
(* search stops early only where an answer is not whole.                   *)
(***************************************************************************)
EXTENDS Naturals, Sequences

CONSTANT MaxMatches   \* bound: matches in one message

VARIABLES
    answers,   \* the answers in order of arrival: [kind, size]
    used,      \* how many of them the messages so far have used up
    due,       \* the matches of the last message still to be handed over
    handled,   \* those handed over, as <<first answer of its message, position>>
    calls,     \* how many times the caller's function has been called
    listener,  \* whether the caller gave a function to call
    open       \* whether the search goes on

vars == <<answers, used, due, handled, calls, listener, open>>

Answer == [kind : {"whole", "torn", "unreadable"}, size : 0 .. MaxMatches]

Init ==
    /\ answers = << >>
    /\ used = 0
    /\ due = {}
    /\ handled = {}
    /\ calls = 0
    /\ listener \in BOOLEAN
    /\ open = TRUE

Arrive ==
    /\ \E a \in Answer : answers' = Append(answers, a)
    /\ UNCHANGED <<used, due, handled, calls, listener, open>>

\* The next n answers are a message with s matches.
Take(n, s) ==
    /\ open
    /\ due = {}
    /\ used + n <= Len(answers)
    /\ \/ answers[used + 1].kind = "whole" /\ n = 1 /\ s = answers[used + 1].size
       \/ answers[used + 1].kind = "torn"
    /\ used' = used + n
    /\ due' = {<<used + 1, j>> : j \in 1 .. s}
    /\ UNCHANGED <<answers, handled, calls, listener, open>>

\* The first match that is due is handed over.
HandOver ==
    /\ open
    /\ \E p \in due :
           /\ \A q \in due : p[2] <= q[2]
           /\ p \notin handled
           /\ handled' = handled \union {p}
           /\ due' = due \ {p}
    /\ calls' = IF listener THEN calls + 1 ELSE calls
    /\ UNCHANGED <<answers, used, listener, open>>

\* Nothing is left to hand over, and no answer is left or the next is not whole.
Stop ==
    /\ open
    /\ due = {}
    /\ used < Len(answers) => answers[used + 1].kind # "whole"
    /\ open' = FALSE
    /\ UNCHANGED <<answers, used, due, handled, calls, listener>>

Next ==
    \/ Arrive
    \/ \E n \in 1 .. Len(answers) : \E s \in 0 .. MaxMatches : Take(n, s)
    \/ HandOver
    \/ Stop

Spec == Init /\ [][Next]_vars
=============================================================================
