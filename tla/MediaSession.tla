----------------------------- MODULE MediaSession -----------------------------
(***************************************************************************)
(* cb_discovery of the programs in src/examples, with the service calls of *)
(* src/src/onvif_service.c it is made of: ask a device for its media       *)
(* address and its profiles, then for an address (avstream, snapshot) or   *)
(* for a change of resolution (changeResolution).  The programs look at no *)
(* result but the number of profiles.                                      *)
(*                                                                         *)
(* One thread runs the callback for one device after another, as the       *)
(* discovery loop does; the local variables of one run lie on the stack    *)
(* where those of the run before did.                                      *)
(***************************************************************************)
EXTENDS Naturals, Sequences

CONSTANTS
    Devices,
    Empty,        \* the empty text
    Junk,         \* bytes that are no address of any device
    Null,         \* no list
    MaxProfiles,  \* bound: profiles of one device
    MaxRuns       \* bound: how many times the callback runs

Flows == {"stream", "snapshot", "resolution"}

\* Addresses: of the device's two services, that of the media service without
\* the end that strncpy cut off, and that of a stream or picture, with the
\* credentials in it.
Address == [kind : {"device", "media", "cut", "auth"}, dev : Devices]
At(kind, d) == [kind |-> kind, dev |-> d]

\* An allocated profile list, and whether the device named the token used.
List == [dev : Devices, len : 1 .. MaxProfiles, named : BOOLEAN]

ASSUME SessionAssumption ==
    /\ MaxProfiles \in Nat /\ MaxRuns \in Nat
    /\ Null \notin List
    /\ Empty \notin Address /\ Junk \notin Address /\ Empty # Junk

VARIABLES
    runs,     \* how many times the callback has been started
    flow,     \* which of the three programs it is
    dev,      \* DeviceXAddr
    pc,       \* where the callback is
    todo,     \* the service calls it still makes
    capa,     \* capa.MediaXAddr, set or not
    known,    \* what ONVIF_GetCapabilities returned was 0
    profiles, \* profiles
    heap,     \* how many lists are allocated
    cnt,      \* profile_cnt
    sent,     \* the request of the service call under way: where to, for whom
    shown     \* uri_auth, printed or given to wget

vars == <<runs, flow, dev, pc, todo, capa, known, profiles, heap, cnt, sent, shown>>

NoRequest == [to |-> Empty, token |-> Empty]

Init ==
    /\ runs = 0
    /\ flow \in Flows
    /\ dev \in Devices
    /\ pc = "idle"
    /\ todo = << >>
    /\ capa = Junk
    /\ known = FALSE
    /\ profiles = Null
    /\ heap = 0
    /\ cnt = 0
    /\ sent = NoRequest
    /\ shown = Empty

\* The next device.  capa is not initialised: it holds whatever the stack holds,
\* the value of the run before among others.
Start ==
    /\ pc = "idle" /\ runs < MaxRuns
    /\ runs' = runs + 1
    /\ dev' \in Devices
    /\ capa' \in {capa, Junk, Empty}
    /\ profiles' = Null /\ cnt' = 0 /\ shown' = Empty
    /\ known' = FALSE
    /\ sent' = [to |-> At("device", dev'), token |-> Empty]
    /\ pc' = "capabilities"
    /\ UNCHANGED <<flow, todo, heap>>

(***************************************************************************)
(* ONVIF_GetCapabilities: capa is written only when the call succeeded.    *)
(***************************************************************************)

\* Faulty variant: without the memset, an answer without a media service
\* leaves the address of the device before.
CapabilitiesOver ==
    /\ pc = "capabilities"
    /\ \/ /\ known' = TRUE
          /\ capa' \in {At("media", dev), At("cut", dev), capa}
       \/ UNCHANGED <<known, capa>>
    /\ sent' = [to |-> At("device", dev), token |-> Empty]
    /\ pc' = "profiles"
    /\ UNCHANGED <<runs, flow, dev, todo, profiles, heap, cnt, shown>>

RecvCapabilities ==
    /\ pc = "capabilities"
    /\ \/ /\ known' = TRUE
          /\ capa' \in {At("media", dev), At("cut", dev), Empty}
       \/ UNCHANGED <<known, capa>>
    /\ sent' = [to |-> At("device", dev), token |-> Empty]
    /\ pc' = "profiles"
    /\ UNCHANGED <<runs, flow, dev, todo, profiles, heap, cnt, shown>>

(***************************************************************************)
(* ONVIF_GetProfiles.  Its result is rep.__sizeProfiles, which an answer   *)
(* leaves behind that fails after some of its profiles were parsed.        *)
(***************************************************************************)
RecvProfiles ==
    /\ pc = "profiles"
    /\ cnt' \in 0 .. MaxProfiles
    /\ \/ IF cnt' > 0
          THEN /\ profiles' \in [dev : {dev}, len : {cnt'}, named : BOOLEAN]
               /\ heap' = heap + 1
          ELSE UNCHANGED <<profiles, heap>>
       \/ UNCHANGED <<profiles, heap>>
    /\ sent' = NoRequest
    /\ pc' = "counted"
    /\ UNCHANGED <<runs, flow, dev, todo, capa, known, shown>>

\* "profile_cnt > stmno", with stmno 0
HasProfile == cnt > 0

Calls ==
    IF flow = "resolution"
    THEN <<"GetOptions", "GetConfiguration", "SetConfiguration", "GetConfiguration">>
    ELSE <<"GetUri">>

\* profiles[0].token, the first bytes of the list, which is NULL if the list is,
\* or profiles[0].venc.token, which lies behind it and cannot be read then.
Token ==
    IF profiles # Null /\ profiles.named THEN At("device", profiles.dev) ELSE Empty

Choose ==
    /\ pc = "counted"
    /\ \/ HasProfile /\ (flow # "resolution" \/ profiles # Null)
          /\ todo' = Calls /\ pc' = "next"
       \/ HasProfile /\ flow = "resolution" /\ profiles = Null
          /\ pc' = "crashed" /\ UNCHANGED todo
       \/ ~HasProfile /\ pc' = "release" /\ UNCHANGED todo
    /\ UNCHANGED <<runs, flow, dev, capa, known, profiles, heap, cnt, sent, shown>>

(***************************************************************************)
(* The service calls on capa.MediaXAddr.  For an address without a host    *)
(* gSOAP makes no connection: the request goes to stdout and the answer is *)
(* read from stdin, where recv_timeout does not apply.                     *)
(***************************************************************************)

\* Faulty variant of Ask: a connection is tried without an address.
AskAnywhere ==
    /\ pc = "next" /\ todo # << >>
    /\ sent' = [to |-> capa, token |-> Token]
    /\ pc' = "waiting"
    /\ UNCHANGED <<runs, flow, dev, todo, capa, known, profiles, heap, cnt, shown>>

Ask ==
    /\ pc = "next" /\ todo # << >>
    /\ sent' = [to |-> capa, token |-> Token]
    /\ \/ capa # Empty /\ pc' = "waiting"
       \/ capa \in {Empty, Junk} /\ pc' = "stdin"
    /\ UNCHANGED <<runs, flow, dev, todo, capa, known, profiles, heap, cnt, shown>>

\* The call has returned; its result is not looked at.  ONVIF_GetStreamUri and
\* ONVIF_GetSnapshotUri clear uri first, so on failure it is empty;
\* ONVIF_MakeUriWithAuth makes the empty text of what has no "//".
Answered(addresses) ==
    /\ todo' = Tail(todo)
    /\ shown' \in IF Head(todo) = "GetUri" THEN addresses \union {Empty} ELSE {shown}
    /\ sent' = NoRequest
    /\ pc' = "next"
    /\ UNCHANGED <<runs, flow, dev, capa, known, profiles, heap, cnt>>

\* Faulty variant of Receive: a call that failed is made again.
ReceiveRetried ==
    /\ pc = "waiting"
    /\ \/ sent.to # Junk /\ Answered({At("auth", sent.to.dev)})
       \/ /\ sent' = NoRequest /\ pc' = "next"
          /\ UNCHANGED <<runs, flow, dev, todo, capa, known, profiles, heap, cnt, shown>>

\* An answer, a fault, a failure or the timeout.
Receive ==
    /\ pc = "waiting"
    /\ Answered(IF sent.to = Junk THEN {} ELSE {At("auth", sent.to.dev)})

\* Somebody types, or stdin ends: no SOAP answer.
Typed == pc = "stdin" /\ Answered({})

Finish ==
    /\ pc = "next" /\ todo = << >>
    /\ pc' = "release"
    /\ UNCHANGED <<runs, flow, dev, todo, capa, known, profiles, heap, cnt, sent, shown>>

\* Faulty variant of Release: only after the stream was used.
ReleaseShown ==
    /\ pc = "release"
    /\ IF profiles # Null /\ shown # Empty
       THEN heap' = heap - 1 /\ profiles' = Null
       ELSE UNCHANGED <<heap, profiles>>
    /\ pc' = "idle"
    /\ UNCHANGED <<runs, flow, dev, todo, capa, known, cnt, sent, shown>>

\* ONVIF_ReleaseProfiles, and profiles = NULL.
Release ==
    /\ pc = "release"
    /\ IF profiles # Null
       THEN heap' = heap - 1 /\ profiles' = Null
       ELSE UNCHANGED <<heap, profiles>>
    /\ pc' = "idle"
    /\ UNCHANGED <<runs, flow, dev, todo, capa, known, cnt, sent, shown>>

\* Nothing more to do, or the process is gone.
Over ==
    /\ pc = "crashed" \/ (pc = "idle" /\ runs = MaxRuns)
    /\ UNCHANGED vars

Callback ==
    \/ RecvCapabilities \/ RecvProfiles \/ Choose \/ Ask \/ Receive
    \/ Finish \/ Release

Next == Start \/ Callback \/ Typed \/ Over

Spec == Init /\ [][Next]_vars

\* A callback that runs goes on, with a timeout on every socket; whether anyone
\* ever types is not assumed.
FairSpec == Spec /\ WF_vars(Callback)
-----------------------------------------------------------------------------
TypeOK ==
    /\ runs \in 0 .. MaxRuns
    /\ flow \in Flows
    /\ dev \in Devices
    /\ pc \in {"idle", "capabilities", "profiles", "counted", "next", "waiting",
               "stdin", "release", "crashed"}
    /\ todo \in Seq({"GetUri", "GetOptions", "GetConfiguration", "SetConfiguration"})
    /\ pc \in {"waiting", "stdin"} => todo # << >>
    /\ capa \in Address \union {Empty, Junk}
    /\ known \in BOOLEAN
    /\ profiles \in List \union {Null}
    /\ heap \in Nat
    /\ cnt \in 0 .. MaxProfiles
    /\ sent \in [to : Address \union {Empty, Junk}, token : Address \union {Empty}]
    /\ pc = "waiting" => sent.to # Empty
    /\ shown \in Address \union {Empty}

\* Every list is freed exactly once, on every way through the callback: it is
\* there while a token read from it is under way, and gone with the callback.
ListLifetime ==
    /\ heap = IF profiles = Null THEN 0 ELSE 1
    /\ sent.token # Empty => profiles # Null
    /\ pc = "idle" => heap = 0

\* No device is asked with the address or the token of another, and none is
\* shown for another, however the answers to the runs before have ended, as
\* long as GetCapabilities has succeeded.
OwnDevice ==
    known => /\ sent.to \in {Empty} \union [kind : {"device", "media", "cut"}, dev : {dev}]
             /\ sent.token \in {Empty, At("device", dev)}
             /\ shown \in {Empty, At("auth", dev)}

\* A callback that was given a media address comes to its end.
MediaCallbackReturns ==
    (pc = "profiles" /\ capa \in Address) ~> (pc \in {"idle", "crashed"})

\* The steps a callback can still take: two for each service call it has to make,
\* of which there are at most four.
StepsLeft ==
    CASE pc = "capabilities" -> 13
      [] pc = "profiles" -> 12
      [] pc = "counted" -> 11
      [] pc = "next" -> 2 * Len(todo) + 2
      [] pc \in {"waiting", "stdin"} -> 2 * Len(todo) + 1
      [] pc = "release" -> 1
      [] pc \in {"idle", "crashed"} -> 0

\* No failure, of whatever call and for whatever device, makes a callback do
\* anything again: each of its steps leaves it fewer, also those on stdin.
CallbackAdvances ==
    [][Callback \/ Typed => StepsLeft' \in 0 .. StepsLeft - 1]_vars

\* What the comment on ONVIF_GetProfiles says: the result is the length of the
\* list.
CountIsLength ==
    pc = "counted" => cnt = (IF profiles = Null THEN 0 ELSE profiles.len)

\* What the comment on recv_timeout says: a call ends when nothing has come for
\* that long, so the callback ends.
CallbackReturns == (pc = "profiles") ~> (pc \in {"idle", "crashed"})
=============================================================================
