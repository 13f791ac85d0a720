------------------------------ MODULE Discovery ------------------------------
(***************************************************************************)
(* ONVIF_DetectDevice (src/src/onvif_discovery.c): one multicast Probe,    *)
(* then a loop that receives ProbeMatches datagrams on the same UDP socket *)
(* and calls the caller's function for every match, until a receive fails. *)
(*                                                                         *)
(* The client is one thread.  The network is the environment: a datagram   *)
(* may arrive at any moment the socket is open, any number of times and in *)
(* any order (loss, duplication and reordering by UDP, repetition by the   *)
(* devices), and the kernel drops it when the socket's buffer is full.     *)
(***************************************************************************)
EXTENDS Naturals, Sequences, FiniteSets

CONSTANTS
    Devices,      \* what can answer the Probe
    MaxMatches,   \* bound: ProbeMatch elements in one answer
    QueueCap,     \* datagrams the socket's receive buffer holds
    MaxArrivals   \* bound: datagrams that reach the host in one search

ASSUME DiscoveryAssumption ==
    /\ MaxMatches \in Nat
    /\ QueueCap \in Nat \ {0}
    /\ MaxArrivals \in Nat

(***************************************************************************)
(* What soap_recv___wsdd__ProbeMatches makes of a datagram it begins with: *)
(*   "matches"  an envelope whose Body holds ProbeMatches                  *)
(*   "other"    an envelope whose Body holds another element, a Fault      *)
(*              included: TAG_MISMATCH at level 2 is reset to SOAP_OK      *)
(*   "blank"    blanks only, which soap_begin_recv skips                   *)
(*   "bad"      the receive fails in it: no XML, an empty datagram         *)
(*   "cut"      it is used up and the receive wants more bytes: it ends    *)
(*              inside an element, or is an HTTP header without the body   *)
(***************************************************************************)
Kinds == {"matches", "other", "blank", "bad", "cut"}

Datagram ==
    {m \in [dev : Devices, kind : Kinds, size : 0 .. MaxMatches] :
        m.kind # "matches" => m.size = 0}

Whole(m) == m.kind \in {"matches", "other", "blank"}

VARIABLES
    pc,        \* where ONVIF_DetectDevice is
    cb,        \* whether the caller passed a function (cb # NULL)
    sock,      \* soap->socket
    udp,       \* SOAP_IO_UDP in soap->omode
    live,      \* what the context's memory (soap->alist) holds
    accepted,  \* every datagram the socket's buffer took, in order
    taken,     \* how many of them recvfrom() has returned
    arrived,   \* datagrams that reached the host, dropped ones included
    error,     \* soap->error, which is also result
    count,     \* count
    first,     \* the datagram that the current message begins with
    size,      \* rep.wsdd__ProbeMatches->__sizeProbeMatch
    i,         \* i, the matches of the current message already gone through
    joined,    \* the datagrams that were read as part of an earlier one's message
    handled,   \* the <<first, match>> pairs the for loop has gone through
    calls      \* how many times cb has been called

vars == <<pc, cb, sock, udp, live, accepted, taken, arrived,
          error, count, first, size, i, joined, handled, calls>>

Looping == {"recv", "more", "match"}

\* The datagrams still in the socket's buffer: accepted[taken + 1] onwards.
Waiting == Len(accepted) - taken

\* Faulty variant of CloseSock: it closes a UDP socket like any other.
CloseSockAlways(s, u) == IF s = "open" THEN "closed" ELSE s

\* soap_closesock with keep_alive = 0: tcp_disconnect spares a UDP socket.
CloseSock(s, u) == IF u THEN s ELSE (IF s = "open" THEN "closed" ELSE s)

Init ==
    /\ pc = "probe"
    /\ cb \in BOOLEAN
    /\ sock = "none"
    /\ udp = FALSE
    /\ live = {"header", "probe"}
    /\ accepted = << >>
    /\ taken = 0
    /\ arrived = 0
    /\ error = "ok"
    /\ count = 0
    /\ first = 1
    /\ size = 0
    /\ i = 0
    /\ joined = {}
    /\ handled = {}
    /\ calls = 0

(***************************************************************************)
(* The environment.                                                        *)
(***************************************************************************)

\* A datagram reaches the socket; the kernel keeps it if there is room.
Arrive ==
    /\ sock = "open"
    /\ arrived < MaxArrivals
    /\ arrived' = arrived + 1
    /\ \E m \in Datagram :
           accepted' = IF Waiting < QueueCap THEN Append(accepted, m) ELSE accepted
    /\ UNCHANGED <<pc, cb, sock, udp, live, taken, error,
                   count, first, size, i, joined, handled, calls>>

(***************************************************************************)
(* The client.  Each faulty variant is a bug the loop could have: the      *)
(* properties below must tell it from the real step.                       *)
(***************************************************************************)

SendProbe ==
    /\ pc = "probe"
    /\ udp' = TRUE
    /\ \/ /\ sock' = "open" /\ error' = "ok" /\ pc' = "recv"
       \/ /\ sock' \in {"none", "open"} /\ error' = "tcp" /\ pc' = "end"
    /\ UNCHANGED <<cb, live, accepted, taken, arrived,
                   count, first, size, i, joined, handled, calls>>

\* soap_recv___wsdd__ProbeMatches returns SOAP_OK with n matches.
Parsed(n) ==
    /\ size' = n
    /\ count' = count + n
    /\ i' = 0
    /\ sock' = CloseSock(sock, udp)
    /\ pc' = "match"
    /\ UNCHANGED error

\* It fails and the loop ends: "else if (soap->error) break".
Failed(e) ==
    /\ error' = e
    /\ sock' = CloseSock(sock, udp)
    /\ pc' = "end"
    /\ UNCHANGED <<count, size, i>>

\* soap_recv gives the parser the next datagram, at the start of a message.
Begins(kind) ==
    /\ pc = "recv" /\ Waiting > 0
    /\ accepted[taken + 1].kind = kind
    /\ taken' = taken + 1
    /\ UNCHANGED <<cb, udp, accepted, arrived, joined, handled, calls>>

\* Faulty variant of RecvMatches: count grows by one per answer instead of by its matches.
RecvMatchesCountsOne ==
    /\ Begins("matches")
    /\ live' = live \union {"answer"}
    /\ size' = accepted[taken + 1].size
    /\ count' = count + 1
    /\ i' = 0
    /\ pc' = "match"
    /\ UNCHANGED <<sock, error, first>>

RecvMatches ==
    /\ Begins("matches")
    /\ live' = live \union {"answer"}
    /\ Parsed(accepted[taken + 1].size)
    /\ UNCHANGED first

\* Faulty variant of RecvOther: the TAG_MISMATCH of a foreign Body is not reset
\* and ends the loop.
RecvOtherEnds ==
    /\ Begins("other")
    /\ live' = live \union {"answer"}
    /\ Failed("parse")
    /\ UNCHANGED first

\* Faulty variant of RecvOther: rep is not cleared, and the matches of the answer
\* before are gone through again.
RecvOtherStale ==
    /\ Begins("other")
    /\ live' = live \union {"answer"}
    /\ Parsed(size)
    /\ UNCHANGED first

\* It returns SOAP_OK with rep.wsdd__ProbeMatches still NULL.
RecvOther ==
    /\ Begins("other")
    /\ live' = live \union {"answer"}
    /\ sock' = CloseSock(sock, udp)
    /\ first' = taken' + 1
    /\ UNCHANGED <<pc, error, count, size, i>>

\* soap_begin_recv skips blanks; the message begins with the next datagram.
RecvBlank ==
    /\ Begins("blank")
    /\ first' = taken' + 1
    /\ UNCHANGED <<pc, sock, live, error, count, size, i>>

RecvBad ==
    /\ Begins("bad")
    /\ live' = live \union {"answer"}
    /\ Failed("parse")
    /\ UNCHANGED first

RecvCut ==
    /\ Begins("cut")
    /\ live' = live \union {"answer"}
    /\ pc' = "more"
    /\ UNCHANGED <<sock, error, count, first, size, i>>

\* The next datagram's bytes continue the unfinished message, whatever they are.
\* It is still unfinished (an envelope is skipped as an unknown nested element),
\* or the parser fails in it, or it is complete: the datagram closes what was
\* open, or is the body that a header announced.
RecvMore ==
    /\ pc = "more" /\ Waiting > 0
    /\ taken' = taken + 1
    /\ joined' = joined \union {taken + 1}
    /\ \/ UNCHANGED <<pc, sock, error, count, size, i>>
       \/ Failed("parse")
       \/ \E n \in 0 .. MaxMatches : Parsed(n)
    /\ UNCHANGED <<cb, udp, live, accepted, arrived, first, handled, calls>>

\* Faulty variants of Silence: the timeout fires although a datagram is waiting;
\* the loop does not leave on its error.
SilenceEarly ==
    /\ pc \in {"recv", "more"}
    /\ Failed("eof")
    /\ UNCHANGED <<cb, udp, live, accepted, taken, arrived, first, joined, handled, calls>>

SilenceRetried ==
    /\ pc \in {"recv", "more"} /\ Waiting = 0
    /\ error' = "eof"
    /\ UNCHANGED <<pc, cb, sock, udp, live, accepted, taken, arrived,
                   count, first, size, i, joined, handled, calls>>

\* Nothing readable for SOAP_SOCK_TIMEOUT seconds: frecv returns 0, SOAP_EOF.
\* That completes a message whose envelope was read and of which only the end of
\* HTTP chunks is awaited (soap_end_recv).  http_parse goes on after an EOF in a
\* header: another wait then follows, of which nothing shows here.
Silence ==
    /\ pc \in {"recv", "more"} /\ Waiting = 0
    /\ \/ Failed("eof")
       \/ pc = "more" /\ \E n \in 0 .. MaxMatches : Parsed(n)
    /\ UNCHANGED <<cb, udp, live, accepted, taken, arrived, first, joined, handled, calls>>

\* Faulty variant of NextMatch: the for loop runs to i <= __sizeProbeMatch.
NextMatchTooFar ==
    /\ pc = "match" /\ i <= size
    /\ handled' = handled \union {<<first, i + 1>>}
    /\ calls' = IF cb THEN calls + 1 ELSE calls
    /\ i' = i + 1
    /\ UNCHANGED <<pc, cb, sock, udp, live, accepted, taken, arrived,
                   error, count, first, size, joined>>

\* One turn of the for loop.
NextMatch ==
    /\ pc = "match" /\ i < size
    /\ handled' = handled \union {<<first, i + 1>>}
    /\ calls' = IF cb THEN calls + 1 ELSE calls
    /\ i' = i + 1
    /\ UNCHANGED <<pc, cb, sock, udp, live, accepted, taken, arrived,
                   error, count, first, size, joined>>

LastMatch ==
    /\ pc = "match" /\ i = size
    /\ first' = taken + 1
    /\ pc' = "recv"
    /\ UNCHANGED <<cb, sock, udp, live, accepted, taken, arrived,
                   error, count, size, i, joined, handled, calls>>

\* ONVIF_soap_delete: soap_end frees the memory, soap_done the socket.
Delete ==
    /\ pc = "end"
    /\ live' = {}
    /\ udp' = FALSE
    /\ sock' = CloseSock(CloseSock(sock, udp), udp')
    /\ pc' = "done"
    /\ UNCHANGED <<cb, accepted, taken, arrived, error,
                   count, first, size, i, joined, handled, calls>>

Client ==
    \/ SendProbe \/ RecvMatches \/ RecvOther \/ RecvBlank \/ RecvBad \/ RecvCut
    \/ RecvMore \/ Silence \/ NextMatch \/ LastMatch \/ Delete

\* The function has returned.
Returned == pc = "done" /\ UNCHANGED vars

Next == Arrive \/ Client \/ Returned

Spec == Init /\ [][Next]_vars

\* The client is a thread the scheduler keeps running; a callback returns.
FairSpec == Spec /\ WF_vars(Client)
-----------------------------------------------------------------------------
(***************************************************************************)
(* Properties.                                                             *)
(***************************************************************************)

TypeOK ==
    /\ pc \in {"probe", "recv", "more", "match", "end", "done"}
    /\ cb \in BOOLEAN
    /\ sock \in {"none", "open", "closed"}
    /\ udp \in BOOLEAN
    /\ live \subseteq {"header", "probe", "answer"}
    /\ accepted \in Seq(Datagram)
    /\ taken \in 0 .. Len(accepted)
    /\ arrived \in 0 .. MaxArrivals
    /\ error \in {"ok", "eof", "parse", "tcp"}
    /\ count \in Nat
    /\ first \in 1 .. taken + 1
    /\ size \in 0 .. MaxMatches
    /\ i \in 0 .. MaxMatches
    /\ pc \in {"more", "match"} => first <= taken
    /\ pc = "match" => i <= size
    /\ joined \subseteq 1 .. taken
    /\ handled \subseteq (Nat \X Nat)
    /\ calls \in Nat

\* soap_closesock ends every receive, yet the loop must go on listening on the
\* socket its Probe left from: gSOAP spares a UDP socket and soap_done alone
\* closes it.  From the first byte of an answer on and while the callback runs,
\* what was read of it is still allocated; when the function has returned nothing is.
ResourcesFollowSearch ==
    /\ pc \in Looping => sock = "open" /\ udp
    /\ pc \in {"more", "match"} => "answer" \in live
    /\ pc = "done" => sock # "open" /\ live = {}

\* count, which is printed as the result, is ahead of the callback only by the
\* matches of the answer being gone through: at the end the caller has been
\* called exactly count times, whatever ended the loop.
CountedIsTold ==
    LET ahead == IF pc = "match" THEN size - i ELSE 0
    IN  calls = IF cb THEN count - ahead ELSE 0

\* A datagram that was not read from its start hangs, without a gap, on one that
\* left a message unfinished.
JoinedFollowsCut ==
    \A k \in joined : k - 1 \in joined \/ (k > 1 /\ accepted[k - 1].kind = "cut")

\* Only messages are handed over, under the datagram they begin with, and
\* nothing ahead of the turn the for loop is at.
HandledWasRead ==
    \A p \in handled :
        /\ p[1] \in 1 .. first /\ p[1] \in 1 .. taken /\ p[1] \notin joined
        /\ accepted[p[1]].kind # "cut" => p[2] \in 1 .. accepted[p[1]].size
        /\ p[1] = first => pc = "match" /\ p[2] <= i

\* Everything before the current message that was read from its start could be
\* read, and all its matches have been handed over.
AllBefore ==
    \A k \in (1 .. first - 1) \ joined :
        /\ accepted[k].kind # "bad"
        /\ \A j \in 1 .. accepted[k].size : <<k, j>> \in handled

\* What has become of the current message.
CurrentMessage ==
    /\ pc = "probe" => accepted = << >> /\ sock = "none"
    /\ pc \in {"probe", "recv"} => first = taken + 1
    /\ pc \in {"more", "match"} => first \notin joined /\ first + 1 .. taken \subseteq joined
    /\ pc = "more" => accepted[first].kind = "cut"
    /\ pc = "match" =>
           /\ \/ accepted[first].kind = "cut"
              \/ first = taken /\ Whole(accepted[first]) /\ size = accepted[first].size
           /\ \A j \in 1 .. i : <<first, j>> \in handled
    /\ pc \in {"end", "done"} => first > taken \/ ~Whole(accepted[first])

\* A whole answer is handed over completely and before anything behind it, unless
\* a cut datagram before it left a message unfinished, of which it then becomes a
\* part.  The loop ends early only within a message that is not a whole answer.
HandledInOrder == JoinedFollowsCut /\ HandledWasRead /\ AllBefore /\ CurrentMessage

\* What DiscoverySpec sees of the datagrams the socket took.
Answers ==
    [k \in 1 .. Len(accepted) |->
        [kind |-> IF Whole(accepted[k]) THEN "whole"
                  ELSE IF accepted[k].kind = "cut" THEN "torn" ELSE "unreadable",
         size |-> accepted[k].size]]

\* The datagrams of complete messages, and what is left of the last of these.
Used == IF pc = "match" THEN taken ELSE first - 1
Due == IF pc = "match" THEN {<<first, j>> : j \in i + 1 .. size} ELSE {}

DS == INSTANCE DiscoverySpec
      WITH answers <- Answers, used <- Used, due <- Due,
           listener <- cb, open <- pc \notin {"end", "done"}

\* The loop uses up the answers in order of arrival, one message after another,
\* hands over each match once and in order, joins answers only behind one that was
\* cut, and gives up on waiting ones only where one could not be read.
Promise == DS!Spec

\* recv_timeout bounds the wait for each answer, so once devices are quiet the
\* function returns: "exit when there is no data for the given time".
Terminates == <>(pc = "done")

\* Datagrams that may still be received, those in the buffer included.
AnswersToCome == (MaxArrivals - arrived) + Waiting

\* Turns of the for loop over the current message, and its end; an unfinished
\* message may still turn out to have any number of matches.
TurnsLeft ==
    CASE pc = "match" -> (size - i) + 1 [] pc = "more" -> MaxMatches + 2 [] OTHER -> 0

StagesLeft ==
    CASE pc = "probe" -> 3 [] pc \in Looping -> 2 [] pc = "end" -> 1 [] pc = "done" -> 0

\* The steps the function can still take.
StepsLeft == (AnswersToCome * (MaxMatches + 3)) + (TurnsLeft + StagesLeft)

\* Every step of the loop is paid for by a datagram, a match or a stage that does
\* not come back, and an arrival only spends what the devices may still send: the
\* loop has no turn it could repeat, as it would if it went on after a timeout.
SearchAdvances ==
    [][StepsLeft' \in 0 .. StepsLeft /\ (Client => StepsLeft' < StepsLeft)]_vars

\* An answer the socket took while the loop was running, with nothing
\* unreadable or cut at or before it, is gone through completely.
AnswersAreHandled ==
    \A k \in 1 .. MaxArrivals :
        (/\ pc \in Looping
         /\ k <= Len(accepted)
         /\ \A b \in 1 .. k : Whole(accepted[b]))
        ~> (/\ k <= Len(accepted)
            /\ \A j \in 1 .. accepted[k].size : <<k, j>> \in handled)

\* What the comment on count says of it: the number of devices found.
CountIsDevices ==
    pc = "end" => count = Cardinality({accepted[p[1]].dev : p \in handled})
=============================================================================
