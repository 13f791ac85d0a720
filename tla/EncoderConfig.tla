---------------------------- MODULE EncoderConfig ----------------------------
(***************************************************************************)
(* ONVIF_SetVideoEncoderConfiguration (src/src/onvif_service.c): every     *)
(* caller reads the encoder's configuration, overwrites the resolution in  *)
(* the answer and sends the whole configuration back, in two SOAP calls.   *)
(*                                                                         *)
(* Several callers and other management programs share one device.  Each   *)
(* SOAP call has its own connection: a request reaches the device at most  *)
(* once, but a caller that gives up after recv_timeout leaves its request  *)
(* behind, and the device may still carry it out.                          *)
(***************************************************************************)
EXTENDS Naturals, Sequences, FiniteSets

CONSTANTS
    Clients,      \* the threads or processes that call the function
    Resolutions,
    Rates,        \* values of the fields the function does not mean to change
    Absent,       \* no Resolution element in a configuration
    MaxCalls,     \* bound: calls each client makes
    MaxTotal,     \* bound: calls all of them make
    MaxEdits      \* bound: changes made by other management programs

ASSUME EncoderAssumption ==
    /\ Absent \notin Resolutions
    /\ MaxCalls \in Nat
    /\ MaxTotal \in Nat
    /\ MaxEdits \in Nat

Call == Clients \X (1 .. MaxCalls)
Config == [res : Resolutions \union {Absent}, rate : Rates, asOf : Nat]

VARIABLES
    cfg,      \* the configuration the device has: [res, rate]
    version,  \* how often it has been written
    edits,    \* how often by another management program
    inbox,    \* requests sent and not served: [call, op, nonce, cfg]
    outbox,   \* answers not read: [call, kind, cfg]
    seen,     \* the nonces the device has met
    applied,  \* the calls whose Set the device carried out
    held,     \* the clients whose waits are cut short time after time
    pc,       \* where each client is
    calls,    \* how many calls each client has begun
    want,     \* venc: the resolution its current call asks for
    header,   \* soap->header: 0 none, k the token of the k-th ONVIF_SetAuthInfo
    snap,     \* gVECfg_rep.Configuration
    result,   \* what its last call returned: "none" yet, "ok" (0) or "error"
    heard     \* the kinds of answer its last call got

device == <<cfg, version, edits, seen, applied, held>>
vars == <<cfg, version, edits, inbox, outbox, seen, applied, held,
          pc, calls, want, header, snap, result, heard>>

This(c) == <<c, calls[c]>>
Made == {k \in Call : k[2] <= calls[k[1]]}
Blank == [res |-> Absent, rate |-> CHOOSE r \in Rates : TRUE, asOf |-> 0]

Init ==
    /\ cfg \in [res : Resolutions, rate : Rates]
    /\ version = 0
    /\ edits = 0
    /\ inbox = {}
    /\ outbox = {}
    /\ seen = {}
    /\ applied = {}
    /\ held = {}
    /\ pc = [c \in Clients |-> "idle"]
    /\ calls = [c \in Clients |-> 0]
    /\ want \in [Clients -> Resolutions]
    /\ header = [c \in Clients |-> 0]
    /\ snap = [c \in Clients |-> Blank]
    /\ result = [c \in Clients |-> "none"]
    /\ heard = [c \in Clients |-> << >>]

(***************************************************************************)
(* The client.                                                             *)
(***************************************************************************)

\* Faulty variant of Return: the connection, and an answer on it, outlives the
\* call.
ReturnStaysOpen(c, code) ==
    /\ pc' = [pc EXCEPT ![c] = "idle"]
    /\ result' = [result EXCEPT ![c] = code]
    /\ header' = [header EXCEPT ![c] = 0]
    /\ outbox' = outbox

\* EXIT: the context is deleted, and its connection closed, on every path.
Return(c, code) ==
    /\ pc' = [pc EXCEPT ![c] = "idle"]
    /\ result' = [result EXCEPT ![c] = code]
    /\ header' = [header EXCEPT ![c] = 0]
    /\ outbox' = {a \in outbox : a.call # This(c)}

\* soap_call up to soap_end_send: the request leaves with the header, or the
\* connection cannot be made and the call fails.
Send(c, call, op, config, next) ==
    \/ /\ inbox' = inbox \union
             {[call |-> call, op |-> op, nonce |-> header'[c], cfg |-> config]}
       /\ pc' = [pc EXCEPT ![c] = next]
       /\ UNCHANGED <<result, outbox>>
    \/ /\ pc' = [pc EXCEPT ![c] = "idle"]
       /\ result' = [result EXCEPT ![c] = "error"]
       /\ UNCHANGED <<inbox, outbox>>

\* A new context, ONVIF_SetAuthInfo, and the Get request.
Begin(c, r) ==
    /\ pc[c] = "idle" /\ calls[c] < MaxCalls
    /\ Cardinality(Made) < MaxTotal
    /\ calls' = [calls EXCEPT ![c] = @ + 1]
    /\ want' = [want EXCEPT ![c] = r]
    /\ header' = [header EXCEPT ![c] = 1]
    /\ heard' = [heard EXCEPT ![c] = << >>]
    /\ Send(c, <<c, calls[c] + 1>>, "get", Blank, "getting")
    /\ UNCHANGED <<device, snap>>

\* The answer to Get.  soap_begin_recv drops soap->header whatever it says.
\* An empty Body is SOAP_OK with Configuration NULL: "goto EXIT", result 0.
RecvGet(c) ==
    /\ pc[c] = "getting"
    /\ \E a \in outbox :
          /\ a.call = This(c)
          /\ heard' = [heard EXCEPT ![c] = Append(@, a.kind)]
          /\ \/ /\ a.kind \in {"full", "bare"}
                /\ snap' = [snap EXCEPT ![c] = a.cfg]
                /\ pc' = [pc EXCEPT ![c] = "got"]
                /\ header' = [header EXCEPT ![c] = 0]
                /\ outbox' = outbox \ {a}
                /\ UNCHANGED result
             \/ a.kind = "empty" /\ Return(c, "ok") /\ UNCHANGED snap
             \/ a.kind = "fault" /\ Return(c, "error") /\ UNCHANGED snap
    /\ UNCHANGED <<device, inbox, calls, want>>

\* Faulty variants of Request: a configuration with the resolution only, and
\* one whose other fields are not those of the answer.
RequestBare(c) == [res |-> want[c]]
RequestFresh(c) == [snap[c] EXCEPT !.res = want[c], !.rate = Blank.rate]

\* The resolution is written into the answer, if the answer has one.
Request(c) ==
    IF snap[c].res = Absent THEN snap[c] ELSE [snap[c] EXCEPT !.res = want[c]]

\* Faulty variant of SendSet: without the second ONVIF_SetAuthInfo.
SendSetNoAuth(c) ==
    /\ pc[c] = "got"
    /\ header' = header
    /\ Send(c, This(c), "set", Request(c), "setting")
    /\ UNCHANGED <<device, calls, want, snap, heard>>

\* The second ONVIF_SetAuthInfo, and the Set request on the same context.
SendSet(c) ==
    /\ pc[c] = "got"
    /\ header' = [header EXCEPT ![c] = 2]
    /\ Send(c, This(c), "set", Request(c), "setting")
    /\ UNCHANGED <<device, calls, want, snap, heard>>

\* Faulty variants of RecvSet and GiveUp: the result of the Set is not checked;
\* no timeout while waiting for its answer.
RecvSetUnchecked(c) ==
    /\ pc[c] = "setting"
    /\ \E a \in outbox :
          /\ a.call = This(c)
          /\ heard' = [heard EXCEPT ![c] = Append(@, a.kind)]
          /\ Return(c, "ok")
    /\ UNCHANGED <<device, inbox, calls, want, snap>>

GiveUpOnGet(c) ==
    /\ pc[c] = "getting"
    /\ Return(c, "error")
    /\ UNCHANGED <<device, inbox, calls, want, snap, heard>>

RecvSet(c) ==
    /\ pc[c] = "setting"
    /\ \E a \in outbox :
          /\ a.call = This(c)
          /\ heard' = [heard EXCEPT ![c] = Append(@, a.kind)]
          /\ Return(c, IF a.kind = "fault" THEN "error" ELSE "ok")
    /\ UNCHANGED <<device, inbox, calls, want, snap>>

\* recv_timeout, or the connection breaks: the answer, if any, is never read.
GiveUp(c) ==
    /\ pc[c] \in {"getting", "setting"}
    /\ Return(c, "error")
    /\ UNCHANGED <<device, inbox, calls, want, snap, heard>>

(***************************************************************************)
(* The device and the other programs that manage it.                       *)
(***************************************************************************)

Nonce(r) == <<r.call, r.nonce>>

\* WS-Security: the request carries a token whose nonce is new.
Authentic(r) == r.nonce # 0 /\ Nonce(r) \notin seen

\* An answer is read only by a caller still waiting on that connection.
Answer(r, kind, config) ==
    outbox' = IF This(r.call[1]) = r.call /\ pc[r.call[1]] \in {"getting", "setting"}
              THEN outbox \union {[call |-> r.call, kind |-> kind, cfg |-> config]}
              ELSE outbox

Serve(r) ==
    /\ r \in inbox
    /\ inbox' = inbox \ {r}
    /\ seen' = seen \union {Nonce(r)}
    /\ UNCHANGED <<edits, held, pc, calls, want, header, snap, result, heard>>

Now == [res |-> cfg.res, rate |-> cfg.rate, asOf |-> version]

ServeGet(r) ==
    /\ r.op = "get" /\ Authentic(r)
    /\ \/ Answer(r, "full", Now)
       \/ Answer(r, "bare", [Now EXCEPT !.res = Absent])
       \/ Answer(r, "empty", Blank)
    /\ Serve(r)
    /\ UNCHANGED <<cfg, version, applied>>

ServeSet(r) ==
    /\ r.op = "set" /\ Authentic(r)
    /\ cfg' = [res |-> IF r.cfg.res = Absent THEN cfg.res ELSE r.cfg.res,
               rate |-> r.cfg.rate]
    /\ version' = version + 1
    /\ applied' = applied \union {r.call}
    /\ Answer(r, "done", Blank) \/ Answer(r, "empty", Blank)
    /\ Serve(r)

\* Not authentic, a resolution that is not supported, an unknown token, ...
Refuse(r) ==
    /\ Answer(r, "fault", Blank)
    /\ Serve(r)
    /\ UNCHANGED <<cfg, version, applied>>

Edit ==
    /\ edits < MaxEdits
    /\ edits' = edits + 1
    /\ version' = version + 1
    /\ \E rate \in Rates \ {cfg.rate} : cfg' = [cfg EXCEPT !.rate = rate]
    /\ UNCHANGED <<inbox, outbox, seen, applied, held,
                   pc, calls, want, header, snap, result, heard>>

\* recv_timeout bounds a wait for bytes, not a message: a device that goes on
\* sending without completing its answer holds the call, and so do signals that
\* never stop.  Either may begin and end at any time.
Hold(c) ==
    /\ held' = IF c \in held THEN held \ {c} ELSE held \union {c}
    /\ UNCHANGED <<cfg, version, edits, inbox, outbox, seen, applied,
                   pc, calls, want, header, snap, result, heard>>

\* The steps of a call that has begun.
Proceed(c) == RecvGet(c) \/ SendSet(c) \/ RecvSet(c) \/ GiveUp(c)

Finished ==
    /\ \A c \in Clients : pc[c] = "idle"
    /\ Cardinality(Made) = MaxTotal \/ \A c \in Clients : calls[c] = MaxCalls
    /\ UNCHANGED vars

Next ==
    \/ \E c \in Clients : (\E r \in Resolutions : Begin(c, r)) \/ Proceed(c) \/ Hold(c)
    \/ \E r \in inbox : ServeGet(r) \/ ServeSet(r) \/ Refuse(r)
    \/ Edit
    \/ Finished

Spec == Init /\ [][Next]_vars

\* A call that has begun is a thread that keeps running, and a wait of it that
\* nobody cuts short ends with the answer or with the timeout.  Nothing is assumed
\* of the device: it need not answer, and it may hold a call for ever.
FairSpec == Spec /\ \A c \in Clients : WF_vars(c \notin held /\ Proceed(c))
-----------------------------------------------------------------------------
TypeOK ==
    /\ cfg \in [res : Resolutions, rate : Rates]
    /\ version \in Nat /\ edits \in 0 .. MaxEdits
    /\ inbox \subseteq [call : Call, op : {"get", "set"}, nonce : 0 .. 2, cfg : Config]
    /\ outbox \subseteq [call : Call, kind : {"full", "bare", "empty", "done", "fault"},
                         cfg : Config]
    /\ seen \subseteq (Call \X (0 .. 2))
    /\ applied \subseteq Call
    /\ held \subseteq Clients
    /\ pc \in [Clients -> {"idle", "getting", "got", "setting"}]
    /\ calls \in [Clients -> 0 .. MaxCalls]
    /\ \A c \in Clients : pc[c] # "idle" => calls[c] > 0
    /\ want \in [Clients -> Resolutions]
    /\ header \in [Clients -> 0 .. 2]
    /\ snap \in [Clients -> Config]
    /\ result \in [Clients -> {"none", "ok", "error"}]
    /\ heard \in [Clients -> Seq({"full", "bare", "empty", "done", "fault"})]

Awaiting(c) == pc[c] \in {"getting", "setting"}

\* Requests and answers belong to calls that have begun, answers to the call
\* their client is in, and a call never has two messages under way.
MessagesBelong ==
    /\ \A r \in inbox : r.call[2] <= calls[r.call[1]]
    /\ \A a \in outbox : a.call = This(a.call[1]) /\ Awaiting(a.call[1])
    /\ \A r, q \in inbox : r.call = q.call => r = q
    /\ \A a, b \in outbox : a.call = b.call => a = b
    /\ \A r \in inbox, a \in outbox : r.call # a.call

\* What is under way for a call fits the step its client is at.
MessagesFit ==
    /\ \A r \in inbox : r.call = This(r.call[1]) =>
           /\ pc[r.call[1]] # "got"
           /\ pc[r.call[1]] = "getting" => r.op = "get"
           /\ pc[r.call[1]] = "setting" => r.op = "set"
    /\ \A a \in outbox :
           /\ pc[a.call[1]] = "getting" => a.kind # "done"
           /\ pc[a.call[1]] = "setting" =>
                  a.kind = "fault" \/ (a.kind \in {"done", "empty"} /\ a.call \in applied)

\* The two SOAP calls of every Set stay in step although a caller may leave
\* at any time and the device may serve what was left behind much later: no
\* answer to an abandoned request is ever taken for the answer awaited.
InStep == MessagesBelong /\ MessagesFit

\* A call that returned 0 after a configuration with a Resolution was read has
\* been carried out by the device: no lost request, refused token, timeout or
\* answer to another call is ever reported as success.
SuccessMeansApplied ==
    \A c \in Clients :
        (pc[c] = "idle" /\ result[c] = "ok" /\ heard[c] # <<"empty">>)
            => This(c) \in applied

\* The device never meets a request without a token, nor a token twice: the
\* first answer has wiped soap->header, so Set needs the second SetAuthInfo.
RequestsAreAuthentic == \A r \in inbox : Authentic(r)

\* If nobody else wrote since the configuration was read, the Set changes
\* the resolution and nothing but the resolution.
SetKeepsTheRest ==
    [][\A r \in inbox :
          (r \notin inbox' /\ version' # version /\ r.op = "set" /\ r.cfg.asOf = version)
              => /\ cfg'.rate = cfg.rate
                 /\ cfg'.res \in {cfg.res, r.cfg.res}]_vars

\* A caller whom nobody holds for ever gets back from each of its calls, whether
\* the device answers or falls silent in either of the two exchanges, and whatever
\* it does to the other callers.  recv_timeout promises no more: it bounds every
\* wait, not the call.
CallsReturn ==
    \A c \in Clients :
        <>[](c \notin held) => (pc[c] = "getting" ~> pc[c] = "idle")

\* What the comment on the function says: 0 means success, so the resolution
\* that was asked for has been set.
ZeroMeansSet ==
    \A c \in Clients : (pc[c] = "idle" /\ result[c] = "ok") => This(c) \in applied
=============================================================================
