# onvif_sdk in TLA+

A verification project for `onvif_sdk`, a C client library for ONVIF cameras on
top of gSOAP: TLA+ modules translated from the code, TLC runs on small
instances, and TLAPS proofs for every value of the constants. Paths below are
relative to the repository.

## 1. The system

| component | code | state it keeps | operations |
|---|---|---|---|
| WS-Discovery search | `src/onvif_discovery.c` | one gSOAP context with a UDP socket, the answer last parsed, `count` | `ONVIF_DetectDevice(cb)` |
| Service calls | `src/onvif_service.c` | a context per call, the caller's output buffers | `GetCapabilities`, `GetProfiles`, `ReleaseProfiles`, `GetStreamUri`, `GetSnapshotUri`, `GetVideoEncoderConfiguration(Options)` |
| Encoder configuration | `src/onvif_service.c` | a context over two SOAP calls, the configuration read by the first | `SetVideoEncoderConfiguration` |
| Context and helpers | `src/onvif_comm.c` | gSOAP's allocation lists, timeouts, header | `ONVIF_soap_new/delete/malloc`, `ONVIF_SetAuthInfo`, `ONVIF_MakeUriWithAuth` |
| Programs | `examples/*` | `capa`, `profiles`, `uri` on the stack of `cb_discovery` | one callback per device found |
| gSOAP runtime | `soap_framework/src/stdsoap2.c`, `soapClient.c` | socket, buffers, error, header, timeouts | connect, send, receive, fault, close |
| WS-Security, WS-Addressing | `wsseapi.c`, `wsaapi.c` | nonce counter, process-wide digest database | tokens, message ids |
| vendored | `third_party`, `include/openssl`, `dom.c`, `smdevp.c`, `mecevp.c`, `lib`, `bin`, `doc` | | not modelled |

How they interact. A program calls `ONVIF_DetectDevice`, which multicasts one
Probe and then, on the same socket, receives answers until a receive fails; for
every match it calls the program's callback synchronously. The callback makes
service calls. Each makes a context, adds a security header, makes one SOAP
exchange over a connection of its own (two for the encoder) and deletes the
context, on every path through `EXIT`. Nothing in the SDK is shared between
threads; what *is* concurrent is the network, the device, and other programs
that manage it.

What is hard: answers lost, repeated, cut or unreadable while the search waits
with a timeout per receive; requests abandoned by a timeout and served later; a
read-modify-write over two calls; buffers and pointers that must outlive a call
or a loop turn; results that no caller looks at; calls with an empty address.

## 2. Modules

| module | models | role |
|---|---|---|
| `DiscoverySpec` | the promise of a search | abstract specification |
| `Discovery` | `ONVIF_DetectDevice` | implements `DiscoverySpec` (property `Promise`) |
| `DiscoveryProofs` | | proofs about `Discovery` |
| `EncoderConfig` | `ONVIF_SetVideoEncoderConfiguration` with device and other writers | component |
| `EncoderProofs` | | proofs about `EncoderConfig` |
| `MakeUri` | `ONVIF_MakeUriWithAuth` | pure function, one step per C library call |
| `MakeUriProofs` | | proofs about `MakeUri` |
| `MediaSession` | `cb_discovery` of three example programs and the results of the service calls | component |
| `MediaProofs` | | proofs about `MediaSession` |
| `SoapCall` | one gSOAP context over its exchanges: the generated call, connect, send, receive, fault, close, delete, and the waits of `tcp_select` | component under every service call |
| `SoapProofs` | | proofs about `SoapCall` |
| `ChunkSpec` | reading a chunked body byte by byte | abstract specification |
| `ChunkedRecv` | the chunk branch of `soap_recv_raw`, its buffer and its callers | implements `ChunkSpec` (property `Segmentation`) |
| `MessageProofs` | | lemmas about chunked messages: digits, size lines, where each chunk lies |
| `ChunkProofs` | | proofs about `ChunkedRecv` |
| `ReplaySpec` | a digest judged in one step | abstract specification |
| `WsseDigest` | the digest session database of `wsseapi.c`, its mutex and its cleanup | component, several threads; implements `ReplaySpec` (property `VerdictsAreAtomic`) |
| `WsseProofs` | | proofs about `WsseDigest` |

Each modelling module also defines *faulty variants* of some of its operators,
marked so in a comment: plausible bugs which the properties must tell from the
real code. They are not part of any specification.

### Discovery

`pc` is the place in the function: `probe` before the Probe is sent, `recv` in
`soap_recv___wsdd__ProbeMatches` with nothing of a message read, `more` in the same
call when a datagram was used up before its message was complete, `match` in the
`for` loop, `end` after the `while` loop, `done`. `sock`, `udp` and `live` are the
parts of the context that the search relies on: the socket, `SOAP_IO_UDP` in
`omode`, and what its memory holds. `accepted` is every datagram the kernel took
and `taken` how many of them were read; their difference is the socket's buffer.
`first` is the datagram that the current message begins with and `size` its number
of matches. `joined` (the datagrams that were read as part of an earlier one's
message) and `handled` (which matches the loop went through) are only for stating
properties.

A datagram is one of five kinds, by what the parser does when a message begins
with it: matches; another Body (`SOAP_TAG_MISMATCH` at level 2 is reset, so the
receive succeeds with nothing); blanks, which `soap_begin_recv` skips, so that the
message begins with the next datagram; unreadable; or cut, when it is used up and
the receive wants more bytes. A cut one ends inside an element, or is an HTTP
header (anything that starts with a letter goes to `http_parse`) whose body is
still to come. What follows a cut datagram is read as its continuation, whatever it
is (`RecvMore`), and there are three outcomes: the message is still unfinished, as when
an envelope is skipped as an unknown nested element; the receive fails, and the loop
ends; or the message is complete, as with a fragment that closes what was open or
the body behind a header, and its matches, of any number, are handed over. What
bytes decide between the three is the parser's business and left open.

`Silence` is the timeout: it can only fire when nothing is waiting, because
`tcp_select` reports a readable socket first. It ends the receive with `SOAP_EOF`,
with two exceptions in the code: `soap_end_recv` does not look at the error when it
drains HTTP chunks, so the message is then complete; and `http_parse` goes on after
an end of data in a header, to another wait. MessageIDs and `RelatesTo` are left out:
the code does not compare them. So are receive errors other than silence and
unreadable data (the interface going down, say).

Actions and code: `SendProbe` is `soap_send___wsdd__Probe`; `RecvMatches`,
`RecvOther`, `RecvBlank`, `RecvBad`, `RecvCut`, `RecvMore` and `Silence` are the ways one
`soap_recv___wsdd__ProbeMatches` can go, with `Parsed` and `Failed` for its two results; `NextMatch` and `LastMatch` are the
`for` loop; `Delete` is `ONVIF_soap_delete`. `CloseSock` stands for the
`soap_closesock` at the end of each receive.

### EncoderConfig

Several clients each make up to `MaxCalls` calls. A request that was sent is in
`inbox`, with a call name `<<client, n>>` that stands for its TCP connection, so
an answer cannot reach another call; that the code itself keeps it so (by
closing the connection on every path) is `InStep`, and the variant
`ReturnStaysOpen` shows what it would mean otherwise. `held` is the clients whose waits
never last the whole timeout, because the device goes on sending or signals keep
coming; `Hold` begins and ends that at any time. A timeout is `GiveUp`, and so is a broken
connection, which may come to anybody. `header[c]` is
`soap->header`: the number of the `ONVIF_SetAuthInfo` whose token it holds, or 0
after `soap_begin_recv` has dropped it. The device refuses, serves late or never
serves; `Edit` is a write of another program. Resolution and the other fields
(`rate`) are kept apart, since the function means to change only the first.
`asOf` and `version` are for stating `SetKeepsTheRest` only.

### MakeUri

The buffer is the sequence `dest`. A write past its end makes the sequence
longer, which is what `StaysInBuffer` excludes. `strlen` and `strstr` are defined
by what they find (`IsStrLen`, `DoubleSlash`). `Wrap` is 2^w of `unsigned int`,
in which `needBufSize` is computed.

### MediaSession

One thread runs the callback for one device after another, as the search would.
`capa` starts each run with whatever the stack holds: junk, nothing, or the
value of the run before. An address is modelled by the device it names and by
what it is for. One that `strncpy` cut counts as the device's own, so `OwnDevice` says
nothing of which host the rest of the text names. The address of the device service
itself (the `XAddrs` of its match) is taken to name a host. `heap` counts allocated
profile lists. The service calls of the encoder program are single steps here
(their insides are `EncoderConfig`). `stdin` is where a request without a host
waits: gSOAP makes no connection and reads file descriptor 0. `crashed` is the
read of a token behind a NULL list; the process ends there.

### SoapCall

One context from `ONVIF_soap_new` to `ONVIF_soap_delete`. `pc` is the stage of
the exchange: `connect` (`tcp_connect`), `send` (`fsend`), `status`
(`soap_begin_recv` up to the HTTP header), `body` (envelope, header and the
element asked for), `tail` (`soap_body_end_in`, `soap_envelope_end_in`), `rest`
(`soap_end_recv`, whose read errors nobody looks at). `Begin` is `soap_begin` and
the serialisation; `Connect` is `soap_connect` with the `soap_closesock` it starts
with; `Close(e)` is every `return soap_closesock(soap)`; `RecvFault`, `RecvEmpty`
and `RecvBroken` are the ways through `soap_recv_fault`. `MayCall` is what the SDK
does between two exchanges: only `ONVIF_SetVideoEncoderConfiguration` makes a
second, after a first that returned the configuration.

Descriptors are named by the exchange that opened them, so that one left behind
(`open`) or used after it was closed is told from the one in `soap->socket`
(`sock`). `mem` is the exchanges whose answers are still allocated. `retries` and
`eintr` are the variables of `tcp_select`; `silent` is the real time since the
exchange last got on, which the code does not know and the properties are about.
An interrupted slice takes between nothing and a second.

Errors are kept apart as far as the code treats them differently: `HTTP` stands
for `soap->error = status` (and for an element, or an empty Body under an
`encodingStyle`, where an answer was due), status `ok` for 200 to 299 and for an
answer without a status line, `FAULT` for the code of a SOAP fault, `SYNTAX` for
every error of the parser. `connect_retry` and keep-alive are off in the SDK, and
name resolution is left out.

### ChunkedRecv

`wire` is what the peer sends after the HTTP header, `got` how much of it `frecv`
has returned, any number of bytes at a time, and `buf` the context's buffer, which
holds *positions* of the wire, so that two equal bytes are never confused.
`bufidx`, `buflen`, `chunkbuflen`, `chunksize` and `ahead` are the fields of the
context, changed where the code changes them. `pc` is the place in
`soap_recv_raw`: `recv` at its top, `skip`, `digits` and `line` in the size line,
`full` after it returned data. `Direct` reads data past the buffered chunk,
`Resume` goes on behind the chunk just delivered, `Refill` and `GetChar` are
`soap_getchunkchar`. `Read` is the parser, which may stop anywhere; `Drain` is
`soap_end_recv`. The header and the beginning of the body may have come in one
segment: `Init` starts with any number of bytes behind `bufidx`. The base of sizes
is a parameter (16 in the code), like the length of `tmp`; extensions of a size
line and trailers are covered by the byte `Other`. Sizes fit `size_t`, and in as many
digits as `tmp` holds (`SizesFit`). `chunks` is the data the peer means to send, in
chunks, with the empty one that ends a message; `wire` is `Message(chunks)`, and
`DataOf(chunks)` says at which places of it the data lies. `dropping` in `ChunkSpec`
is `draining`, the moment from which `soap_end_recv` reads instead of the parser. When `frecv` returns 0
at the top of `soap_recv_raw` the old `buflen` stays, as in the code.

### WsseDigest

Any number of threads run `soap_wsse_session_verify`, and from it
`soap_wsse_session_cleanup`. The steps are what runs between two moments at which
another thread can interfere: `time`, the mutex, each entry of a walk. Walks are
split entry by entry although they hold the mutex, so that what the mutex is for
(`WalkIsLive`) is a property and not built in. `now` in `cleanup` is a later time than that in
`verify`. Failing `malloc` is in `Accept`: the digest is accepted without an entry
(`forgotten`). Only a receiver of digests uses this code: a device, or a test
server built from the framework in the repository. The place of a thread outside a
call is the result of its last one, `granted` (`SOAP_OK`) or `refused` (a fault), so
that `ReplaySpec` can speak of verdicts.

## 3. Runs

| run | checks | shows |
|---|---|---|
| `DiscoverySafety` | `TypeOK`, `ResourcesFollowSearch`, `CountedIsTold`, `HandledInOrder`, `Promise`, `SearchAdvances`, `Terminates`, `AnswersAreHandled` | answers are used up message by message and their matches handed over once, in order; answers are joined only behind one that was cut; socket and memory last as long as the search; the search implements `DiscoverySpec`, spends a budget, ends, and forgets no timely, whole answer with only whole ones before it |
| `EncoderSafety` | `TypeOK`, `InStep`, `SuccessMeansApplied`, `RequestsAreAuthentic`, `SetKeepsTheRest`, `CallsReturn` | two calls, of one caller or of two, and another program; a caller whom the device does not hold for ever gets back from each call |
| `MakeUri` | `StaysInBuffer`, `TextIsWholeOrEmpty` | every input up to the bounds |
| `MediaSafety` | `TypeOK`, `ListLifetime`, `OwnDevice`, `CallbackAdvances`, `MediaCallbackReturns` | two callbacks in a row; none does anything again after a failure, one with a media address ends |
| `SoapCall` | `TypeOK`, `ResourcesOwned`, `SuccessMeansAnswered`, `SilenceBounded`, `ExchangeAdvances`, `ExchangeReturns` | a context over two exchanges: nothing leaks, 0 means an answer, a silent peer is given up, no step gives back time |
| `ChunkedRecv` | `TypeOK`, `PayloadDelivered`, `Segmentation`, `ReadingAdvances`, `ReadingEnds` | every cutting of every small message gives the parser the data of its chunks; no turn of the loop leaves reading where it was |
| `WsseDigest` | `TypeOK`, `WalkIsLive`, `Remembered`, `AcceptedOnce`, `WalkAdvances`, `VerdictsAreAtomic`, `MutexReleased` | no digest twice in its lifetime, under concurrent cleanup; the database implements `ReplaySpec` |
| `DiscoveryCount` | `CountIsDevices` is **violated** | finding 1 |
| `EncoderZero` | `ZeroMeansSet` is **violated** | finding 2 |
| `MediaCount` | `CountIsLength` is **violated** | finding 3 |
| `MediaStdin` | `CallbackReturns` is **violated** | finding 4 |
| `SoapConnect` | `ConnectBounded` is **violated** | finding 5 |

Bounds, and why they are enough to see the interesting cases:

- `DiscoverySafety`: 4 arrivals into a buffer of 2, answers of up to 2 matches.
  The buffer overflows, a blank, unreadable or cut datagram can stand before, between
  and after good ones, a cut one can be followed by up to three more that continue it,
  complete it or make it fail, and a whole answer can follow the message so made. Devices are not compared
  by any property of this run, so there is one; `DiscoveryCount` has two.
- `EncoderSafety`: two clients, two calls in all, one edit: a write between
  another's Get and Set, in every order, and a caller that calls again while the
  requests of the call it gave up are still under way.
- `MakeUri`: addresses up to 4 characters (a scheme mark at each place, twice,
  or none), names and passwords up to 1, buffers up to 9 bytes, which is the
  largest need, and `Wrap = 10`, so that every sum is representable.
- `MediaSafety`: two runs over two devices, up to two profiles: the second run
  meets what the first left, of the same or of the other device.
- `SoapCall`: a timeout of 3 slices, 2 forgiven interrupts and 4 signals, so that
  a wait can end by its slices, by one interrupt too many, or be taken up again in
  `tcp_connect`; 2 waits that bring something without ending a stage; two
  exchanges, the most the SDK makes.
- `ChunkedRecv`: base 2 and 3 digits, so that a size has one to three digits and
  leaves `tmp` full; up to two chunks (`MaxChunks`) with 4 bytes of data in all, each a
  digit or a line end (`DataBytes`); a buffer of 3 bytes, which is shorter than a size line with its
  line end, than a chunk, and than the two line ends between chunks.
- `WsseDigest`: a skew of 1 and a life of 2 in a clock that runs to 4, with a
  cleanup every second tick: digests from the future, old ones, and ones that
  expire while a thread waits for the mutex; two threads and two digests, so that
  both can hold the same one while an entry of the other is being freed.

Fairness. `Discovery` assumes weak fairness of the client's steps taken
together: one thread that the scheduler keeps running, with a callback that
returns. Nothing is assumed of the network; the number of arrivals in a search
is finite (`MaxArrivals`), and it must be, for a device that never stops
answering keeps the search running: `recv_timeout` bounds a wait and not the
search. `EncoderConfig` assumes weak fairness of each client's own steps, of
which `GiveUp`, the timeout on every socket wait, is one, and only while the client
is not `held`: `recv_timeout` bounds a wait for bytes, so a device that trickles an answer
for ever, or signals that never stop, can hold a call, and nothing says that they do
not. `CallsReturn` therefore speaks of callers whom nobody holds for ever; the device
need not do anything, and may hold the others. `MediaSession` assumes weak fairness of the callback's steps, and
none of `Typed`: nobody need ever type. `SoapCall` assumes weak fairness of the
exchange's steps taken together: at the latest a slice of the wait passes.
Signals and segments are finite in number; with an endless stream of either an
exchange need not return, since the timeout bounds a wait and not a message.
`ChunkedRecv` assumes that reading goes on, and that the parser reads on or stops
(`soap_end_recv`); not that the connection breaks. `WsseDigest` assumes weak
fairness of the steps of each thread inside a call, which says nothing of who
gets the mutex: `MutexReleased` is about its holder only.

### Findings

1. `count` in `ONVIF_DetectDevice` counts matches, not devices: a repeated answer
   is counted again, though the comment calls it the number of devices found.
2. `ONVIF_SetVideoEncoderConfiguration` returns 0 and prints success, without
   sending a Set, when the answer to Get has an empty Body.
3. `ONVIF_GetProfiles` returns the number of profiles that were parsed also when
   the answer then failed and no list was allocated; the callers then read
   through NULL.
4. With an empty media address (a device that names none) a service call reads
   standard input, where `recv_timeout` does not apply.
5. `tcp_connect` takes up a wait that `tcp_select` left for too many interrupts,
   with a full timeout; `SOAP_MAXEINTR` therefore does not limit the interrupts
   that a connect ignores, nor the time they add.

`SuccessMeansApplied` and `OwnDevice` therefore state what does hold: success
after an answer to Get that was not empty, and isolation for callbacks whose
`GetCapabilities` succeeded. `StaysInBuffer` and `TextIsWholeOrEmpty` assume
that the lengths' sum fits the width of `needBufSize`. `SilenceBounded` leaves out
the connect, and `SuccessMeansAnswered` says nothing of the HTTP status of an
answer with the expected element: with status 400 or 500 it is a success.
`AcceptedOnce` and `Remembered` leave out digests accepted when `malloc` failed.

## 4. Proofs

All theorems hold for every value of the constants allowed by the `ASSUME`s
(named in the modules): any number of devices, arrivals, matches, clients,
calls, characters, profiles, chunks, bytes, segments, signals, threads and digests.
The bounds appear in them as arbitrary naturals.

**Discovery.** `TypeCorrect`, `ResourcesSafe`, `CountSafe`, `OrderSafe`,
`KeepsPromise` and `SearchSpends`. `TypeOK` and `ResourcesFollowSearch` are inductive, and `CountedIsTold`
is together with `TypeOK`.
`HandledInOrder` is four conjuncts that carry each other. `JoinedFollowsCut`: datagrams
that were read as part of a message hang, without a gap, on one that was cut.
`HandledWasRead`: what was handed over are matches of messages, each under the
datagram its message begins with, and none ahead of the position `i`. `AllBefore`:
everything before the current message that was read from its start was readable and
is handed over completely. `CurrentMessage`: whether the current message is a whole
answer or begins with a cut one, and how far it has got; when the loop ended, the
message it ended in was not a whole answer. Nothing is assumed of how the parser
goes on behind a cut datagram.

For the refinement, `Used` and `Due` say how many datagrams the complete messages are
made of and which matches of the last are still to be handed over. `NextMatch` is
`HandOver`; `RecvMatches`, `RecvOther` and `RecvBlank` are `Take` of one whole answer;
`RecvMore` and `Silence` are `Take` of all the datagrams of an unfinished message when they
complete it, `Stop` when they fail and otherwise stutters; every other step to `end`
is `Stop`, whose condition comes from `CurrentMessage` and, for `Silence`, from
`taken = Len(accepted)`; every other step of the client leaves the mapped state
alone. `SearchSpends` is in *Budgets* below.

**EncoderConfig.** `EncoderTypeCorrect`, `EncoderStaysInStep`, `EncoderSuccess`,
`EncoderAuthentic`, `EncoderKeepsTheRest`. The inductive invariant adds two
facts. `TokensFresh`: the device has only seen nonces of calls that have begun,
and has not seen the one that the next request of a call will carry. `HeardNothing`:
a call that waits for its first answer has heard none, and one that has read a
configuration has heard it. Without `InStep` a late answer to an earlier call
could report success, so success is proved from it. The action property needs one more
fact, `CopiesAgree`: a configuration that a caller or a message holds is of no version
to come, and if it is of the version the device still has, its other fields are
the device's.

**MakeUri.** `UriStaysInBuffer`, `UriIsWholeOrEmpty`. The invariant says, for every
place between two library calls, what the buffer holds: the text written so far,
then only terminators, in a buffer as long as at the start. The terminators
are what makes `strlen(dest_uri)` the length of the text after the `memcpy`, which
writes none. That a first "//" exists among those found is the one place where
well-foundedness of the naturals is used.

**MediaSession.** `SessionTypeCorrect`, `SessionListLifetime`, `SessionOwnDevice`,
`SessionAdvances`.
`ListLifetime` and `OwnDevice` are not inductive: `Owned` adds that no list is
held before `GetProfiles`, that a list belongs to the current device, that a
request for a known device goes to the address just found, and that `uri_auth`
is empty when a callback starts.

**SoapCall.** `CallTypeCorrect`, `CallResources`, `CallSuccess`,
`CallSilenceBounded`, `CallAdvances`. `Parsed` and `Verdict` say what has been parsed at each stage
and that the error which waits behind the rest of the message is already the right
one; `Kept` that answers stay allocated, which needs `Parsed` for the answer that
the second exchange is made of. `Paid` is the argument about time: every tick of a
wait is paid for with a slice or a forgiven interrupt, so `silent + retries +
eintr` never exceeds what `tcp_select` started with. It fails in `tcp_connect`, where
the counters start over while the time does not (finding 5).

**ChunkedRecv.** `ChunkTypeCorrect`, `ChunkSegmentation`, `ChunkPayload`,
`ChunkReadingAdvances`. The refinement maps the
bytes behind the buffer and those in it to one number, how many the reader of
single bytes has taken (`At`). The invariant says that the buffer holds the bytes
of the wire next to each other up to what was received, where the current chunk
ends relative to `buflen` and `chunkbuflen`, and that a size line always begins right
behind the chunk before. None of this uses that the wire is a message.

`ChunkPayload` does: what the parser has is a beginning of `DataOf(chunks)`, and all
of it at the end. It is proved on the reader of single bytes, to which
`ChunkSegmentation` reduces the buffered one. `Progress` says for every mode of that
reader in which chunk it is, how many digits of its size it has read and what they
are worth, or how many of its bytes are left, and that `out` is the data of the
chunks before with the part of this one; `Layout` (in `MessageProofs`) says which
bytes of the wire that chunk occupies. `Hex`, `Upto` and `DataUpto` are recursive
functions: what they compute is proved by induction stated for *sets* of naturals
(`SetInduction`, from the well-foundedness of the naturals), which takes no operator
as a parameter; `HexIsRead` is the round trip from a size to its digits and back.
The assumptions are that sizes fit `tmp` (`SizesFit`) and that data bytes are bytes
(`DataAssumption`).

**WsseDigest.** `WsseTypeCorrect`, `WsseWalksAreLive`, `WsseRemembers`,
`WsseAcceptsOnce`, `WsseWalksEnd`, `WsseIsAtomic`. The invariant says who holds the mutex at which place, that
only its holder walks, and that the time a cleanup took is not in the future.
`AcceptedOnce` follows from `Remembered`: a digest that has not expired is in the
list, so a walk that did not find it has not ended. In the refinement of `ReplaySpec`
the last step of a search is the verdict: a walk that ended without the digest has not
missed it (`NotMissed`), one that found it stands on an entry of the list
(`WalkIsLive`); a freed entry is one that has expired, since a cleaning's time is past;
every other step of a call is a stutter.

**Budgets.** That something ends needs fairness and is left to TLC. What can be proved
of it for every value of the constants is the rest of the argument: each step costs
something of a natural number that nothing ever enlarges, so the only way not to end
is not to run. `SearchSpends`: a datagram still to come is worth more than going
through an answer, an unfinished message as much as one with all the matches it may
turn out to have. `CallAdvances`: a wait still to come is worth the timeout and the
interrupts it forgives, so the budget is also a bound in seconds on an exchange whose
segments and signals are given. `ChunkReadingAdvances`: a byte to receive and a byte to
read. `SessionAdvances`: the service calls of a callback, at most four. `WsseWalksEnd`:
the entries a walk has before it; that is per holder of the mutex, and says nothing of
who gets it next.

Only model-checked: the liveness properties (`Terminates`, `AnswersAreHandled`,
`CallsReturn`, `MediaCallbackReturns`, `ExchangeReturns`, `ReadingEnds`,
`MutexReleased`), which need fairness and are out of the prover's reach; and the five
violations, which are counterexamples. Every invariant and action property of a passing
run, and each of the three refinements, is a theorem.

## 5. Not modelled, and the plan

- XML parsing and printing: an answer is modelled by what the parser makes of it.
- Generated code: `soapClient.c` is one template instantiated for every operation of
  the WSDLs; `SoapCall` is that template. `soapStub.h`, and the headers of gSOAP and
  OpenSSL, are declarations.
- What the SDK switches off or never calls: keep-alive, `connect_retry`, TLS,
  compression, attachments, the server side of gSOAP, NTLM, signatures and
  encryption (`smdevp.c`, `mecevp.c`), DOM, WS-Addressing replies, `threads.c`.
  `WsseDigest` is the exception: it is the one part of the framework with state
  that threads share.
- Name resolution, dumps and logs; the prebuilt library and documents.
- `SOAP_ASSERT` on a NULL argument ends the process (a match without `XAddrs` in a
  search, for one): there is no state behind it to speak about.
- The result of `ONVIF_GetCapabilities` is ignored by the programs. What the calls
  then use is in `MediaSession`, but nothing in the repository promises isolation.

This is why the definitions map to a small share of the repository's lines: nearly
all of them are generated, vendored or declarations. The hand-written SDK under
`src/src` and the callbacks of the example programs are covered, and of the runtime
what they run through.

Left in the plan: `Discovery` with `MediaSession` as its callback in one module; the length arithmetic of `MakeUri` without
`Representable`.
