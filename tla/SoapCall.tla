------------------------------- MODULE SoapCall -------------------------------
(***************************************************************************)
(* One gSOAP context over its life, as every function of onvif_service.c   *)
(* uses it: ONVIF_soap_new, one SOAP exchange (two for the encoder), then  *)
(* ONVIF_soap_delete on every path.  An exchange is the generated          *)
(* soap_call: soap_send connects and writes the request, soap_recv reads   *)
(* the HTTP status, the Body and what follows it, and soap_recv_fault      *)
(* decides what an answer without the expected element means.              *)
(*                                                                         *)
(* Every read, write and connect waits in tcp_select, which counts slices  *)
(* of one second and forgives MaxEintr interrupts.  One tick is a second.  *)
(* The address has a host: a request without one is in MediaSession.       *)
(***************************************************************************)
EXTENDS Naturals

CONSTANTS
    Timeout,      \* recv_timeout = send_timeout = connect_timeout, in seconds
    MaxEintr,     \* SOAP_MAXEINTR
    MaxCalls,     \* exchanges of one context
    MaxSegments,  \* bound: waits of one exchange that end without ending a stage
    MaxSignals    \* bound: interrupts of system calls in one exchange

ASSUME CallAssumption ==
    /\ Timeout \in Nat \ {0}
    /\ MaxEintr \in Nat
    /\ MaxCalls \in Nat
    /\ MaxSegments \in Nat
    /\ MaxSignals \in Nat

VARIABLES
    pc,        \* what the context is doing
    calls,     \* exchanges begun
    sock,      \* soap->socket: the exchange that opened it, 0 when invalid
    open,      \* the descriptors that are open, by the exchange that opened them
    mem,       \* the exchanges whose answers are allocated in the context
    error,     \* soap->error
    reply,     \* what has been parsed of the answer to this exchange
    retries,   \* tcp_select: slices left
    eintr,     \* tcp_select: interrupts still forgiven
    silent,    \* ticks since this exchange last got on
    segments,
    signals

resources == <<calls, sock, open, mem>>
wait == <<retries, eintr, silent>>
vars == <<pc, resources, error, reply, wait, segments, signals>>

\* The stages of an exchange; in each of them the client waits for the peer.
Waiting == {"connect", "send", "status", "body", "tail", "rest"}
Errors == {"OK", "EOM", "TCP", "EOF", "HTTP", "SYNTAX", "FAULT"}
\* "ok" is 200 to 299, or no status at all (0): soap_recv_fault asks for either.
Statuses == {"none", "ok", "error", "other"}
Contents == {"none", "response", "answered", "fault", "empty", "unexpected", "broken"}
NoReply == [status |-> "none", content |-> "none"]

Init ==
    /\ pc = "new"
    /\ calls = 0
    /\ sock = 0
    /\ open = {}
    /\ mem = {}
    /\ error = "OK"
    /\ reply = NoReply
    /\ retries = Timeout - 1
    /\ eintr = MaxEintr
    /\ silent = 0
    /\ segments = 0
    /\ signals = 0

\* A call of tcp_select starts with fresh counters.
NewWait ==
    /\ retries' = Timeout - 1
    /\ eintr' = MaxEintr

GetsOn ==
    /\ NewWait
    /\ silent' = 0

\* soap_closesock without keep-alive
CloseSock ==
    /\ open' = open \ {sock}
    /\ sock' = 0

Close(e) ==
    /\ CloseSock
    /\ error' = e
    /\ pc' = "returned"
    /\ UNCHANGED <<calls, mem>>

GoTo(stage) ==
    /\ pc' = stage
    /\ UNCHANGED resources

-----------------------------------------------------------------------------
(* The owner of the context *)

\* The service functions make the one exchange; that of the encoder makes a
\* second when the first returned 0 with the element it asked for.
MayCall ==
    /\ calls < MaxCalls
    /\ \/ pc = "new"
       \/ pc = "returned" /\ error = "OK" /\ reply.content = "answered"

\* soap_begin, which frees nothing, and the serialisation
Begin ==
    /\ MayCall
    /\ calls' = calls + 1
    /\ reply' = NoReply
    /\ segments' = 0
    /\ signals' = 0
    /\ GetsOn
    /\ UNCHANGED mem

BeginFails ==
    /\ Begin
    /\ pc' = "returned"
    /\ error' = "EOM"
    /\ UNCHANGED <<sock, open>>

\* soap_connect closes what an earlier exchange left open, then opens a socket.
Connect ==
    /\ Begin
    /\ pc' = "connect"
    /\ error' = "OK"
    /\ open' = (open \ {sock}) \union {calls'}
    /\ sock' = calls'

NoSocket ==
    /\ Begin
    /\ pc' = "returned"
    /\ error' = "TCP"
    /\ CloseSock

\* Faulty: relies on the exchanges to have closed their sockets.
DeleteFreesOnly ==
    /\ pc = "returned"
    /\ pc' = "deleted"
    /\ mem' = {}
    /\ UNCHANGED <<calls, sock, open, error, reply, wait, segments, signals>>

\* soap_end frees the memory and closes the socket; soap_done and soap_free follow.
Delete ==
    /\ pc = "returned"
    /\ pc' = "deleted"
    /\ mem' = {}
    /\ CloseSock
    /\ UNCHANGED <<calls, error, reply, wait, segments, signals>>

-----------------------------------------------------------------------------
(* tcp_select and its callers: tcp_connect, fsend, frecv *)

\* What a read or write that fails means: in tcp_connect a TCP error, behind the
\* envelope nothing (soap_end_recv ignores it), elsewhere an EOF, for which
\* soap_recv_fault puts the HTTP status when that was an error.
FailedWith ==
    CASE pc = "connect" -> {"TCP"}
      [] pc = "rest" -> {error}
      [] pc = "body" /\ reply.status = "error" -> {"EOF", "HTTP"}
      [] OTHER -> {"EOF"}

GiveUp ==
    /\ \E e \in FailedWith : Close(e)
    /\ UNCHANGED <<retries, eintr>>

\* Faulty: the count of slices is compared one too late.
SliceOneMore ==
    /\ pc \in Waiting
    /\ silent' = silent + 1
    /\ \/ /\ retries >= 0
          /\ retries' = retries - 1
          /\ GoTo(pc)
          /\ UNCHANGED <<eintr, error>>
       \/ /\ retries < 0
          /\ GiveUp
    /\ UNCHANGED <<reply, segments, signals>>

\* Faulty: waits again after a wait in which nothing came.
SliceRepeats ==
    /\ pc \in Waiting
    /\ retries' = IF retries > 0 THEN retries - 1 ELSE Timeout - 1
    /\ GoTo(pc)
    /\ UNCHANGED <<silent, reply, segments, signals, eintr, error>>

\* A slice of a second passes in which nothing happens.
Slice ==
    /\ pc \in Waiting
    /\ silent' = silent + 1
    /\ \/ /\ retries > 0
          /\ retries' = retries - 1
          /\ GoTo(pc)
          /\ UNCHANGED <<eintr, error>>
       \/ /\ retries = 0
          /\ GiveUp
    /\ UNCHANGED <<reply, segments, signals>>

\* Faulty: every interrupt starts the wait again.
InterruptStartsOver ==
    /\ pc \in Waiting
    /\ signals < MaxSignals
    /\ signals' = signals + 1
    /\ silent' \in {silent, silent + 1}
    /\ NewWait
    /\ GoTo(pc)
    /\ UNCHANGED <<reply, segments, error>>

\* A signal interrupts a slice.  tcp_connect takes a wait that failed with EINTR
\* up again; fsend and frecv do not.
Interrupt ==
    /\ pc \in Waiting
    /\ signals < MaxSignals
    /\ signals' = signals + 1
    /\ silent' \in {silent, silent + 1}
    /\ \/ /\ eintr > 0
          /\ eintr' = eintr - 1
          /\ GoTo(pc)
          /\ UNCHANGED <<retries, error>>
       \/ /\ eintr = 0 /\ pc = "connect"
          /\ NewWait
          /\ GoTo(pc)
          /\ UNCHANGED error
       \/ /\ eintr = 0 /\ pc # "connect"
          /\ GiveUp
    /\ UNCHANGED <<reply, segments>>

\* The peer refuses, resets or closes the connection.
Lost ==
    /\ pc \in Waiting
    /\ GiveUp
    /\ UNCHANGED <<silent, reply, segments, signals>>

-----------------------------------------------------------------------------
(* The peer takes part of a request, or sends part of an answer *)

Connected ==
    /\ pc = "connect"
    /\ GoTo("send")
    /\ GetsOn
    /\ UNCHANGED <<error, reply, segments, signals>>

\* Some bytes, an interim status 100 among them: a new wait for the same stage.
Part ==
    /\ pc \in Waiting \ {"connect"}
    /\ segments < MaxSegments
    /\ segments' = segments + 1
    /\ GoTo(pc)
    /\ GetsOn
    /\ UNCHANGED <<error, reply, signals>>

\* The request is out: soap_begin_recv resets the error and drops the header.
Sent ==
    /\ pc = "send"
    /\ GoTo("status")
    /\ error' = "OK"
    /\ GetsOn
    /\ UNCHANGED <<reply, segments, signals>>

\* http_parse lets 200 to 299, 400 and 500 through to the parser.  Another status,
\* and any without a Body, is the error; the text of another is read first.
RecvStatus ==
    /\ pc = "status"
    /\ GetsOn
    /\ \/ /\ reply' \in {[NoReply EXCEPT !.status = s] : s \in {"ok", "error"}}
          /\ GoTo("body")
          /\ UNCHANGED error
       \/ /\ reply' = [NoReply EXCEPT !.status = "other"]
          /\ GoTo("rest")
          /\ error' = "HTTP"
       \/ /\ reply' \in {[NoReply EXCEPT !.status = s] : s \in {"ok", "error"}}
          /\ Close("HTTP")
       \/ /\ UNCHANGED reply
          /\ Close("SYNTAX")
    /\ UNCHANGED <<segments, signals>>

Reads(content) ==
    /\ pc = "body"
    /\ reply' = [reply EXCEPT !.content = content]
    /\ mem' = mem \union {calls}
    /\ GetsOn
    /\ UNCHANGED <<calls, segments, signals>>

RecvResponse ==
    /\ Reads("response")
    /\ pc' = "tail"
    /\ UNCHANGED <<sock, open, error>>

\* soap_recv_fault: a fault, or an element that is neither; an empty Body in an
\* envelope that sets encodingStyle is treated like the latter and counts as it.
RecvFault ==
    /\ pc' = "rest"
    /\ \/ Reads("fault") /\ error' = "FAULT"
       \/ Reads("unexpected") /\ error' = "HTTP"
    /\ UNCHANGED <<sock, open>>

\* Faulty: does not look at the HTTP status.
RecvEmptyUnchecked ==
    /\ Reads("empty")
    /\ pc' = "returned"
    /\ error' = "OK"
    /\ UNCHANGED <<sock, open>>

\* soap_recv_fault: an empty Body, with no encodingStyle set, is a success unless
\* the status says otherwise.
\* This path alone returns without soap_closesock.
RecvEmpty ==
    /\ Reads("empty")
    /\ \/ /\ reply.status = "ok"
          /\ pc' = "returned"
          /\ error' = "OK"
       \/ /\ reply.status = "error"
          /\ pc' = "rest"
          /\ error' = "HTTP"
    /\ UNCHANGED <<sock, open>>

RecvBroken ==
    /\ Reads("broken")
    /\ CloseSock
    /\ pc' = "returned"
    /\ error' = IF reply.status = "error" THEN "HTTP" ELSE "SYNTAX"

\* soap_body_end_in and soap_envelope_end_in.  Whether the references in the
\* answer resolve is only said at the end of soap_end_recv.
RecvTail ==
    /\ pc = "tail"
    /\ GetsOn
    /\ \/ /\ reply' = [reply EXCEPT !.content = "answered"]
          /\ GoTo("rest")
          /\ UNCHANGED error
       \/ /\ UNCHANGED reply
          /\ GoTo("rest")
          /\ error' = "SYNTAX"
       \/ /\ UNCHANGED reply
          /\ Close("SYNTAX")
    /\ UNCHANGED <<segments, signals>>

\* soap_end_recv has read what was left of the message.
RecvRest ==
    /\ pc = "rest"
    /\ Close(error)
    /\ GetsOn
    /\ UNCHANGED <<reply, segments, signals>>

Exchange ==
    \/ Slice \/ Interrupt \/ Lost
    \/ Connected \/ Part \/ Sent \/ RecvStatus
    \/ RecvResponse \/ RecvFault \/ RecvEmpty \/ RecvBroken \/ RecvTail \/ RecvRest

Next ==
    \/ BeginFails \/ Connect \/ NoSocket \/ Delete
    \/ Exchange

Spec == Init /\ [][Next]_vars

\* The thread runs: whatever it waits for, a slice at the latest, happens.
FairSpec == Spec /\ WF_vars(Exchange)

-----------------------------------------------------------------------------
(* Properties *)

\* Every variable has its range.
TypeOK ==
    /\ pc \in Waiting \union {"new", "returned", "deleted"}
    /\ calls \in 0 .. MaxCalls
    /\ sock \in 0 .. calls
    /\ open \subseteq 1 .. calls
    /\ mem \subseteq 1 .. calls
    /\ error \in Errors
    /\ reply \in [status : Statuses, content : Contents]
    /\ retries \in 0 .. Timeout - 1
    /\ eintr \in 0 .. MaxEintr
    /\ silent \in Nat
    /\ segments \in 0 .. MaxSegments
    /\ signals \in 0 .. MaxSignals

\* The context owns what it uses: soap->socket is the one descriptor that is
\* open (no other was left behind, and it is not a closed one), an exchange talks
\* over the connection it opened, the answers of earlier exchanges are still
\* allocated while the next is made of them, and after ONVIF_soap_delete nothing
\* is left, also of an answer with an empty Body, which closes nothing.
ResourcesOwned ==
    /\ open = {sock} \ {0}
    /\ pc \in Waiting => sock = calls
    /\ pc \in Waiting => 1 .. calls - 1 \subseteq mem
    /\ pc = "deleted" => open = {} /\ mem = {}

\* soap_call returns 0 exactly when the expected element and the end of its
\* envelope were read and resolve, or a Body was empty and the HTTP status no error.
SuccessMeansAnswered ==
    pc = "returned" =>
        (error = "OK" <=> \/ reply.content = "answered"
                          \/ reply.content = "empty" /\ reply.status = "ok")

\* Once connected, no wait outlasts the timeout by more than a second for each
\* interrupt that tcp_select forgives.
SilenceBounded ==
    pc \in Waiting \ {"connect"} => silent < Timeout + MaxEintr

\* Stages behind this one; connect, with its own counters, comes first.
StagesAfter ==
    [stage \in Waiting |->
        CASE stage = "connect" -> 5 [] stage = "send" -> 4 [] stage = "status" -> 3
          [] stage = "body" -> 2 [] stage = "tail" -> 1 [] stage = "rest" -> 0]

\* Waits that may still come after this one: one for each stage, one for each part
\* of a message, and in tcp_connect one for each signal.
WaitsToCome ==
    StagesAfter[pc] + (MaxSegments - segments) + (MaxSignals - signals)

\* The seconds this exchange can still take: each wait costs the timeout and the
\* interrupts it forgives.
Patience ==
    IF pc \in Waiting
    THEN WaitsToCome * (Timeout + MaxEintr) + retries + eintr + 1
    ELSE 0

\* Every step of an exchange costs some of a budget that its Begin has fixed: no
\* slice, interrupt, part of a message or stage gives back time, although
\* tcp_select starts with fresh counters each time.
ExchangeAdvances == [][Patience > 0 => Patience' \in 0 .. Patience - 1]_vars

\* An exchange returns, when the bytes of a message and the signals end.
ExchangeReturns == pc \in Waiting ~> pc = "returned"

\* What stdsoap2.h says of SOAP_MAXEINTR, for the wait in tcp_connect.
ConnectBounded ==
    pc = "connect" => silent < Timeout + MaxEintr

=============================================================================
