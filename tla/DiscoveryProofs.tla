--------------------------- MODULE DiscoveryProofs ---------------------------
(***************************************************************************)
(* Discovery for every set of devices, buffer size and number of           *)
(* datagrams: the invariants of the loop, and that it keeps the promise of *)
(* DiscoverySpec.                                                          *)
(***************************************************************************)
EXTENDS Discovery, Integers, TLAPS

\* A datagram is a record with the three fields, and only an answer with
\* ProbeMatches carries matches.
LEMMA DatagramFields ==
    ASSUME NEW m \in Datagram
    PROVE  /\ m.kind \in Kinds
           /\ m.size \in 0 .. MaxMatches
           /\ m.kind # "matches" => m.size = 0
           /\ Whole(m) \in BOOLEAN
           /\ ~Whole(m) <=> m.kind \in {"bad", "cut"}
  BY DEF Datagram, Whole, Kinds

\* The datagram that recvfrom() returns next.
LEMMA NextDatagram ==
    ASSUME TypeOK, Waiting > 0
    PROVE  /\ taken + 1 \in 1 .. Len(accepted)
           /\ accepted[taken + 1] \in Datagram
  BY DEF TypeOK, Waiting

\* The kernel only ever adds behind what it has already taken.
LEMMA ArriveAppends ==
    ASSUME TypeOK, Arrive
    PROVE  /\ accepted' \in Seq(Datagram)
           /\ Len(accepted) <= Len(accepted')
           /\ \A k \in 1 .. Len(accepted) : accepted'[k] = accepted[k]
  <1> SUFFICES ASSUME NEW m \in Datagram,
                      accepted' = IF Waiting < QueueCap
                                  THEN Append(accepted, m) ELSE accepted
               PROVE  /\ accepted' \in Seq(Datagram)
                      /\ Len(accepted) <= Len(accepted')
                      /\ \A k \in 1 .. Len(accepted) : accepted'[k] = accepted[k]
    BY DEF Arrive
  <1> QED
    BY DEF TypeOK

-----------------------------------------------------------------------------
\* Every variable keeps its range, for every value of the constants.
THEOREM TypeCorrect == Spec => []TypeOK
<1>1. Init => TypeOK
  <2> SUFFICES ASSUME Init PROVE TypeOK
    OBVIOUS
  <2>1. accepted \in Seq(Datagram) /\ taken \in 0 .. Len(accepted)
    BY DEF Init
  <2>2. /\ arrived \in 0 .. MaxArrivals /\ count \in Nat /\ calls \in Nat
        /\ i \in 0 .. MaxMatches /\ size \in 0 .. MaxMatches
    BY DiscoveryAssumption DEF Init
  <2>3. handled \subseteq (Nat \X Nat) /\ joined \subseteq 1 .. taken /\ first \in 1 .. taken + 1
    BY DEF Init
  <2>4. /\ pc = "probe" /\ cb \in BOOLEAN /\ sock = "none" /\ udp = FALSE /\ error = "ok"
        /\ live \subseteq {"header", "probe", "answer"}
    BY DEF Init
  <2> QED
    BY <2>1, <2>2, <2>3, <2>4 DEF TypeOK
<1>2. TypeOK /\ [Next]_vars => TypeOK'
  <2> SUFFICES ASSUME TypeOK, [Next]_vars
               PROVE  TypeOK'
    OBVIOUS
  <2> USE DiscoveryAssumption DEF TypeOK
  <2>1. CASE Arrive
    BY <2>1, ArriveAppends DEF Arrive
  <2>2. CASE SendProbe
    BY <2>2 DEF SendProbe
  <2>3. CASE RecvMatches
    <3>1. taken + 1 \in 0 .. Len(accepted) /\ accepted[taken + 1].size \in 0 .. MaxMatches
      BY <2>3, NextDatagram, DatagramFields DEF RecvMatches, Begins
    <3>2. first \in 1 .. (taken + 1) + 1 /\ joined \subseteq 1 .. taken + 1
      OBVIOUS
    <3>3. first <= taken'
      BY <2>3 DEF RecvMatches, Begins
    <3> QED
      BY <2>3, <3>1, <3>2, <3>3 DEF RecvMatches, Begins, Parsed, CloseSock
  <2>4. CASE RecvOther \/ RecvBlank
    <3>1. /\ taken + 1 \in 0 .. Len(accepted) /\ joined \subseteq 1 .. taken + 1
          /\ (taken + 1) + 1 \in 1 .. (taken + 1) + 1
      BY <2>4, NextDatagram DEF RecvOther, RecvBlank, Begins
    <3>2. /\ pc' = "recv" /\ taken' = taken + 1 /\ first' = (taken + 1) + 1
          /\ sock' \in {"none", "open", "closed"} /\ live' \subseteq {"header", "probe", "answer"}
          /\ UNCHANGED <<cb, udp, accepted, arrived, error, count, size, i, joined, handled, calls>>
      BY <2>4 DEF RecvOther, RecvBlank, Begins, CloseSock
    <3> QED
      BY <3>1, <3>2
  <2>5. CASE RecvBad \/ RecvCut
    <3>1. /\ taken + 1 \in 0 .. Len(accepted) /\ joined \subseteq 1 .. taken + 1
          /\ first \in 1 .. (taken + 1) + 1 /\ first <= taken + 1
      BY <2>5, NextDatagram DEF RecvBad, RecvCut, Begins
    <3>2. /\ pc' \in {"more", "end"} /\ taken' = taken + 1
          /\ sock' \in {"none", "open", "closed"} /\ live' \subseteq {"header", "probe", "answer"}
          /\ error' \in {"ok", "eof", "parse", "tcp"}
          /\ UNCHANGED <<cb, udp, accepted, arrived, count, first, size, i, joined, handled, calls>>
      BY <2>5 DEF RecvBad, RecvCut, Begins, Failed, CloseSock
    <3> QED
      BY <3>1, <3>2
  <2>6. CASE RecvMore
    <3>1. /\ taken + 1 \in 0 .. Len(accepted) /\ joined' \subseteq 1 .. taken + 1
          /\ first \in 1 .. (taken + 1) + 1 /\ first <= taken + 1
      BY <2>6, NextDatagram DEF RecvMore
    <3>2. CASE UNCHANGED <<pc, sock, error, count, size, i>>
      BY <2>6, <3>1, <3>2 DEF RecvMore
    <3>3. CASE Failed("parse")
      BY <2>6, <3>1, <3>3 DEF RecvMore, Failed, CloseSock
    <3>4. ASSUME NEW n \in 0 .. MaxMatches, Parsed(n)
          PROVE  TypeOK'
      BY <2>6, <3>1, <3>4 DEF RecvMore, Parsed, CloseSock
    <3> QED
      BY <2>6, <3>2, <3>3, <3>4 DEF RecvMore
  <2>7. CASE Silence
    <3>1. CASE Failed("eof")
      BY <2>7, <3>1 DEF Silence, Failed, CloseSock
    <3>2. ASSUME NEW n \in 0 .. MaxMatches, Parsed(n), pc = "more"
          PROVE  TypeOK'
      BY <2>7, <3>2 DEF Silence, Parsed, CloseSock
    <3> QED
      BY <2>7, <3>1, <3>2 DEF Silence
  <2>9. CASE NextMatch
    <3>1. i + 1 \in 0 .. MaxMatches /\ i + 1 <= size
      BY <2>9 DEF NextMatch
    <3>2. handled' \subseteq (Nat \X Nat)
      BY <2>9 DEF NextMatch
    <3>3. calls' \in Nat
      BY <2>9 DEF NextMatch
    <3> QED
      BY <2>9, <3>1, <3>2, <3>3 DEF NextMatch
  <2>10. CASE LastMatch
    BY <2>10 DEF LastMatch
  <2>11. CASE Delete
    BY <2>11 DEF Delete, CloseSock
  <2>12. CASE Returned \/ UNCHANGED vars
    BY <2>12 DEF Returned, vars
  <2> QED
    BY <2>1, <2>2, <2>3, <2>4, <2>5, <2>6, <2>7, <2>9, <2>10, <2>11, <2>12
       DEF Next, Client
<1> QED
  BY <1>1, <1>2, PTL DEF Spec

-----------------------------------------------------------------------------
\* The loop always listens on the Probe's own open socket, the callback's
\* argument is always allocated, and nothing is held once the function returned.
THEOREM ResourcesSafe == Spec => []ResourcesFollowSearch
<1>1. Init => ResourcesFollowSearch
  BY DEF Init, ResourcesFollowSearch, Looping
<1>2. ResourcesFollowSearch /\ [Next]_vars => ResourcesFollowSearch'
  <2> SUFFICES ASSUME ResourcesFollowSearch, [Next]_vars
               PROVE  ResourcesFollowSearch'
    OBVIOUS
  <2> USE DEF ResourcesFollowSearch, Looping
  <2>1. CASE Arrive
    BY <2>1 DEF Arrive
  <2>2. CASE SendProbe
    BY <2>2 DEF SendProbe
  <2>3. CASE RecvMatches \/ RecvOther \/ RecvBlank \/ RecvBad \/ RecvCut
    BY <2>3 DEF RecvMatches, RecvOther, RecvBlank, RecvBad, RecvCut,
                Begins, Parsed, Failed, CloseSock
  <2>4. CASE RecvMore \/ Silence
    <3>1. udp' = udp /\ live' = live
      BY <2>4 DEF RecvMore, Silence
    <3>2. sock' = sock /\ pc' # "done"
      BY <2>4 DEF RecvMore, Silence, Parsed, Failed, CloseSock
    <3> QED
      BY <2>4, <3>1, <3>2 DEF RecvMore, Silence, Parsed, Failed
  <2>5. CASE NextMatch \/ LastMatch
    BY <2>5 DEF NextMatch, LastMatch
  <2>6. CASE Delete
    BY <2>6 DEF Delete, CloseSock
  <2>7. CASE Returned \/ UNCHANGED vars
    BY <2>7 DEF Returned, vars
  <2> QED
    BY <2>1, <2>2, <2>3, <2>4, <2>5, <2>6, <2>7 DEF Next, Client
<1> QED
  BY <1>1, <1>2, PTL DEF Spec

-----------------------------------------------------------------------------
\* The caller is called exactly as often as the printed count says.
THEOREM CountSafe == Spec => []CountedIsTold
<1>1. Init => CountedIsTold
  BY DEF Init, CountedIsTold
<1>2. TypeOK /\ CountedIsTold /\ [Next]_vars => CountedIsTold'
  <2> SUFFICES ASSUME TypeOK, CountedIsTold, [Next]_vars
               PROVE  CountedIsTold'
    OBVIOUS
  <2> USE DEF CountedIsTold
  <2>1. CASE Arrive
    BY <2>1 DEF Arrive
  <2>2. CASE SendProbe
    BY <2>2 DEF SendProbe
  <2>3. ASSUME NEW n \in Nat, Parsed(n), pc # "match", UNCHANGED <<calls, cb>>
        PROVE  CountedIsTold'
    BY <2>3 DEF Parsed, TypeOK
  <2>4. CASE RecvMatches
    <3>1. accepted[taken + 1].size \in Nat
      BY <2>4, NextDatagram, DatagramFields DEF RecvMatches, Begins
    <3> QED
      BY <2>3, <2>4, <3>1 DEF RecvMatches, Begins
  <2>9. CASE RecvOther \/ RecvBlank \/ RecvBad \/ RecvCut
    BY <2>9 DEF RecvOther, RecvBlank, RecvBad, RecvCut, Begins, Failed
  <2>10. CASE RecvMore \/ Silence
    <3>1. CASE \E n \in 0 .. MaxMatches : Parsed(n)
      BY <2>3, <2>10, <3>1 DEF RecvMore, Silence
    <3>2. CASE ~ \E n \in 0 .. MaxMatches : Parsed(n)
      BY <2>10, <3>2 DEF RecvMore, Silence, Failed
    <3> QED
      BY <3>1, <3>2
  <2>5. CASE NextMatch
    <3>1. size \in Nat /\ i \in Nat /\ count \in Nat /\ calls \in Nat /\ cb \in BOOLEAN
      BY DEF TypeOK
    <3>2. size' - i' = (size - i) - 1
      BY <2>5, <3>1 DEF NextMatch
    <3>3. calls' = IF cb THEN calls + 1 ELSE calls
      BY <2>5 DEF NextMatch
    <3>4. pc = "match" /\ pc' = "match" /\ count' = count /\ cb' = cb
      BY <2>5 DEF NextMatch
    <3> QED
      BY <3>1, <3>2, <3>3, <3>4
  <2>6. CASE LastMatch
    BY <2>6 DEF LastMatch, TypeOK
  <2>7. CASE Delete
    BY <2>7 DEF Delete
  <2>8. CASE Returned \/ UNCHANGED vars
    BY <2>8 DEF Returned, vars
  <2> QED
    BY <2>1, <2>2, <2>4, <2>9, <2>10, <2>5, <2>6, <2>7, <2>8 DEF Next, Client
<1> QED
  BY <1>1, <1>2, TypeCorrect, PTL DEF Spec

-----------------------------------------------------------------------------
\* A step that reads nothing and hands nothing over keeps what was done in order.
LEMMA StillInOrder ==
    ASSUME TypeOK, HandledInOrder,
           UNCHANGED <<taken, first, joined, handled>>,
           \A k \in 1 .. taken : accepted'[k] = accepted[k],
           pc = "match" => pc' = "match" /\ i' = i
    PROVE  JoinedFollowsCut' /\ HandledWasRead' /\ AllBefore'
  <1> USE DEF HandledInOrder
  <1>1. JoinedFollowsCut'
    <2> SUFFICES ASSUME NEW k \in joined
                 PROVE  k - 1 \in joined \/ (k > 1 /\ accepted'[k - 1].kind = "cut")
      BY DEF JoinedFollowsCut
    <2>1. k \in 1 .. taken /\ (k > 1 => k - 1 \in 1 .. taken)
      BY DEF TypeOK
    <2> QED
      BY <2>1 DEF JoinedFollowsCut
  <1>2. HandledWasRead'
    BY DEF HandledWasRead
  <1>3. AllBefore'
    <2>1. \A k \in 1 .. first - 1 : accepted'[k] = accepted[k]
      BY DEF TypeOK
    <2> QED
      BY <2>1 DEF AllBefore
  <1> QED
    BY <1>1, <1>2, <1>3

\* A datagram with which a message begins adds nothing to what was done, and is
\* done with if it is whole and has no matches.
LEMMA BeginsInOrder ==
    ASSUME TypeOK, HandledInOrder, NEW kind \in Kinds, Begins(kind),
           \/ first' = first
           \/ first' = taken' + 1 /\ kind \in {"other", "blank"}
    PROVE  /\ JoinedFollowsCut' /\ HandledWasRead' /\ AllBefore'
           /\ first = taken + 1 /\ first \in 1 .. Len(accepted)
           /\ accepted[first].kind = kind
           /\ first \notin joined
  <1> USE DEF HandledInOrder
  <1>1. /\ taken + 1 \in 1 .. Len(accepted)
        /\ accepted[taken + 1] \in Datagram
        /\ accepted[taken + 1].kind = kind
    BY NextDatagram DEF Begins
  <1>2. first = taken + 1 /\ first \notin joined
    BY DEF Begins, CurrentMessage, TypeOK
  <1>3. taken' = taken + 1 /\ UNCHANGED <<accepted, joined, handled>>
    BY DEF Begins
  <1>4. JoinedFollowsCut'
    BY <1>3 DEF JoinedFollowsCut
  <1>5. HandledWasRead'
    <2> SUFFICES ASSUME NEW p \in handled
                 PROVE  /\ p[1] \in 1 .. first' /\ p[1] \in 1 .. taken' /\ p[1] \notin joined
                        /\ accepted[p[1]].kind # "cut" => p[2] \in 1 .. accepted[p[1]].size
                        /\ p[1] # first'
      BY <1>3 DEF HandledWasRead
    <2>1. p[1] \in 1 .. taken
      BY DEF HandledWasRead
    <2>2. first' \in {taken + 1, (taken + 1) + 1}
      BY <1>2, <1>3
    <2> QED
      BY <1>3, <2>1, <2>2 DEF HandledWasRead, TypeOK
  <1>6. AllBefore'
    <2>1. CASE first' = first
      BY <1>3, <2>1 DEF AllBefore
    <2>2. CASE first' = taken' + 1 /\ kind \in {"other", "blank"}
      <3> SUFFICES ASSUME NEW k \in 1 .. first' - 1, k \notin joined
                   PROVE  /\ accepted[k].kind # "bad"
                          /\ \A j \in 1 .. accepted[k].size : <<k, j>> \in handled
        BY <1>3 DEF AllBefore
      <3>1. CASE k = taken + 1
        <4>1. accepted[k].size = 0
          BY <1>1, <2>2, <3>1, DatagramFields
        <4> QED
          BY <1>1, <2>2, <3>1, <4>1
      <3>2. CASE k \in 1 .. first - 1
        BY <3>2 DEF AllBefore
      <3> QED
        BY <1>2, <1>3, <2>2, <3>1, <3>2 DEF TypeOK
    <2> QED
      BY <2>1, <2>2
  <1> QED
    BY <1>1, <1>2, <1>4, <1>5, <1>6

\* Whole answers are handed over in order and completely, unless the unfinished
\* message of an answer that was cut before them made them a part of itself
\* (HandledInOrder).
THEOREM OrderSafe == Spec => []HandledInOrder
<1>1. Init => HandledInOrder
  BY DEF Init, HandledInOrder, JoinedFollowsCut, HandledWasRead, AllBefore, CurrentMessage
<1>2. TypeOK /\ HandledInOrder /\ [Next]_vars => HandledInOrder'
  <2> SUFFICES ASSUME TypeOK, HandledInOrder, [Next]_vars
               PROVE  HandledInOrder'
    OBVIOUS
  <2>0. CurrentMessage
    BY DEF HandledInOrder
  <2>1. CASE Arrive
    <3>1. sock = "open" /\ \A k \in 1 .. taken : accepted'[k] = accepted[k]
      BY <2>1, ArriveAppends DEF Arrive, TypeOK
    <3>2. JoinedFollowsCut' /\ HandledWasRead' /\ AllBefore'
      BY <2>1, <3>1, StillInOrder DEF Arrive
    <3>3. first \in 1 .. taken => accepted'[first] = accepted[first]
      BY <3>1
    <3>4. CurrentMessage'
      BY <2>0, <2>1, <3>1, <3>3 DEF Arrive, CurrentMessage, TypeOK
    <3> QED
      BY <3>2, <3>4 DEF HandledInOrder
  <2>2. CASE SendProbe
    <3>1. JoinedFollowsCut' /\ HandledWasRead' /\ AllBefore'
      BY <2>2, StillInOrder DEF SendProbe
    <3>2. CurrentMessage'
      BY <2>0, <2>2 DEF SendProbe, CurrentMessage, TypeOK
    <3> QED
      BY <3>1, <3>2 DEF HandledInOrder
  <2>3. CASE RecvMatches
    <3>1. /\ JoinedFollowsCut' /\ HandledWasRead' /\ AllBefore'
          /\ first = taken + 1 /\ accepted[first].kind = "matches" /\ first \notin joined
      BY <2>3, BeginsInOrder DEF RecvMatches, Kinds
    <3>2. CurrentMessage'
      BY <2>3, <3>1 DEF RecvMatches, Begins, Parsed, CurrentMessage, Whole, TypeOK
    <3> QED
      BY <3>1, <3>2 DEF HandledInOrder
  <2>4. CASE RecvOther \/ RecvBlank
    <3>1. JoinedFollowsCut' /\ HandledWasRead' /\ AllBefore'
      BY <2>4, BeginsInOrder DEF RecvOther, RecvBlank, Kinds
    <3>2. CurrentMessage'
      BY <2>4 DEF RecvOther, RecvBlank, Begins, CurrentMessage
    <3> QED
      BY <3>1, <3>2 DEF HandledInOrder
  <2>5. CASE RecvBad
    <3>1. /\ JoinedFollowsCut' /\ HandledWasRead' /\ AllBefore'
          /\ first = taken + 1 /\ accepted[first].kind = "bad"
      BY <2>5, BeginsInOrder DEF RecvBad, Kinds
    <3>2. CurrentMessage'
      BY <2>5, <3>1 DEF RecvBad, Begins, Failed, CurrentMessage, Whole
    <3> QED
      BY <3>1, <3>2 DEF HandledInOrder
  <2>6. CASE RecvCut
    <3>1. /\ JoinedFollowsCut' /\ HandledWasRead' /\ AllBefore'
          /\ first = taken + 1 /\ accepted[first].kind = "cut" /\ first \notin joined
      BY <2>6, BeginsInOrder DEF RecvCut, Kinds
    <3>2. first + 1 .. taken' = {}
      BY <2>6, <3>1 DEF RecvCut, Begins, TypeOK
    <3>3. CurrentMessage'
      BY <2>6, <3>1, <3>2 DEF RecvCut, Begins, CurrentMessage
    <3> QED
      BY <3>1, <3>3 DEF HandledInOrder
  <2>7. CASE RecvMore
    <3>1. /\ pc = "more" /\ first \in 1 .. taken /\ first \notin joined
          /\ first + 1 .. taken \subseteq joined
          /\ accepted[first].kind = "cut"
          /\ taken' = taken + 1 /\ joined' = joined \union {taken + 1}
          /\ UNCHANGED <<accepted, first, handled>>
      BY <2>0, <2>7 DEF RecvMore, CurrentMessage, TypeOK
    <3>2. taken = first \/ taken \in joined
      BY <3>1 DEF TypeOK
    <3>3. JoinedFollowsCut'
      <4> SUFFICES ASSUME NEW k \in joined'
                   PROVE  k - 1 \in joined' \/ (k > 1 /\ accepted[k - 1].kind = "cut")
        BY <3>1 DEF JoinedFollowsCut
      <4>1. CASE k = taken + 1
        <5>1. k - 1 = taken /\ k > 1
          BY <3>1, <4>1 DEF TypeOK
        <5> QED
          BY <3>1, <3>2, <5>1
      <4>2. CASE k \in joined
        BY <3>1, <4>2 DEF HandledInOrder, JoinedFollowsCut
      <4> QED
        BY <3>1, <4>1, <4>2
    <3>4. HandledWasRead'
      BY <3>1 DEF HandledInOrder, HandledWasRead, TypeOK
    <3>5. AllBefore'
      BY <3>1 DEF HandledInOrder, AllBefore
    <3>6. first \notin joined' /\ first + 1 .. taken' \subseteq joined'
      BY <3>1 DEF TypeOK
    <3>7. CurrentMessage'
      <4>1. pc' = "more" \/ (pc' = "match" /\ i' = 0) \/ pc' = "end"
        BY <2>7 DEF RecvMore, Parsed, Failed
      <4> QED
        BY <3>1, <3>6, <4>1 DEF CurrentMessage, Whole
    <3> QED
      BY <3>3, <3>4, <3>5, <3>7 DEF HandledInOrder
  <2>8. CASE Silence
    <3>1. JoinedFollowsCut' /\ HandledWasRead' /\ AllBefore'
      BY <2>8, StillInOrder DEF Silence
    <3>2. CASE Failed("eof")
      BY <2>0, <2>8, <3>1, <3>2 DEF Silence, Failed, CurrentMessage, Whole, HandledInOrder, TypeOK
    <3>3. CASE pc = "more" /\ \E n \in 0 .. MaxMatches : Parsed(n)
      BY <2>0, <2>8, <3>1, <3>3 DEF Silence, Parsed, CurrentMessage, HandledInOrder
    <3> QED
      BY <2>8, <3>2, <3>3 DEF Silence
  <2>9. CASE NextMatch
    <3>1. /\ pc = "match" /\ pc' = "match" /\ first \in 1 .. taken
          /\ i \in Nat /\ i' = i + 1 /\ i + 1 \in 1 .. size
          /\ handled' = handled \union {<<first, i + 1>>}
          /\ UNCHANGED <<accepted, taken, first, size, joined>>
      BY <2>9 DEF NextMatch, TypeOK
    <3>2. /\ first \notin joined /\ first + 1 .. taken \subseteq joined
          /\ \/ accepted[first].kind = "cut"
             \/ first = taken /\ Whole(accepted[first]) /\ size = accepted[first].size
          /\ \A j \in 1 .. i : <<first, j>> \in handled
      BY <2>0, <3>1 DEF CurrentMessage
    <3>3. JoinedFollowsCut'
      BY <3>1 DEF HandledInOrder, JoinedFollowsCut
    <3>4. HandledWasRead'
      <4> SUFFICES ASSUME NEW p \in handled'
                   PROVE  /\ p[1] \in 1 .. first /\ p[1] \in 1 .. taken /\ p[1] \notin joined
                          /\ accepted[p[1]].kind # "cut" => p[2] \in 1 .. accepted[p[1]].size
                          /\ p[1] = first => p[2] <= i + 1
        BY <3>1 DEF HandledWasRead
      <4>1. CASE p = <<first, i + 1>>
        BY <3>1, <3>2, <4>1
      <4>2. CASE p \in handled
        <5>1. p[2] \in Nat
          BY <4>2 DEF TypeOK
        <5> QED
          BY <3>1, <4>2, <5>1 DEF HandledInOrder, HandledWasRead
      <4> QED
        BY <3>1, <4>1, <4>2
    <3>5. AllBefore'
      BY <3>1 DEF HandledInOrder, AllBefore
    <3>6. \A j \in 1 .. i + 1 : <<first, j>> \in handled'
      BY <3>1, <3>2
    <3>7. CurrentMessage'
      BY <3>1, <3>2, <3>6 DEF CurrentMessage
    <3> QED
      BY <3>3, <3>4, <3>5, <3>7 DEF HandledInOrder
  <2>10. CASE LastMatch
    <3>1. /\ pc = "match" /\ pc' = "recv" /\ i = size /\ first' = taken + 1
          /\ first \in 1 .. taken
          /\ UNCHANGED <<accepted, taken, size, joined, handled>>
      BY <2>10 DEF LastMatch, TypeOK
    <3>2. JoinedFollowsCut'
      BY <3>1 DEF HandledInOrder, JoinedFollowsCut
    <3>3. HandledWasRead'
      BY <3>1 DEF HandledInOrder, HandledWasRead, TypeOK
    <3>4. AllBefore'
      <4> SUFFICES ASSUME NEW k \in 1 .. taken, k \notin joined
                   PROVE  /\ accepted[k].kind # "bad"
                          /\ \A j \in 1 .. accepted[k].size : <<k, j>> \in handled
        BY <3>1 DEF AllBefore, TypeOK
      <4>1. CASE k \in 1 .. first - 1
        BY <4>1 DEF HandledInOrder, AllBefore
      <4>2. CASE k = first
        <5>1. accepted[first] \in Datagram
          BY <3>1 DEF TypeOK
        <5>2. \/ accepted[first].kind = "cut" /\ accepted[first].size = 0
              \/ Whole(accepted[first]) /\ accepted[first].size = size
          BY <2>0, <3>1, <5>1, DatagramFields DEF CurrentMessage
        <5>3. \A j \in 1 .. size : <<first, j>> \in handled
          BY <2>0, <3>1 DEF CurrentMessage
        <5> QED
          BY <4>2, <5>2, <5>3 DEF Whole
      <4>3. CASE k \in first + 1 .. taken
        BY <2>0, <3>1, <4>3 DEF CurrentMessage
      <4> QED
        BY <3>1, <4>1, <4>2, <4>3 DEF TypeOK
    <3>5. CurrentMessage'
      BY <3>1 DEF CurrentMessage
    <3> QED
      BY <3>2, <3>3, <3>4, <3>5 DEF HandledInOrder
  <2>11. CASE Delete \/ Returned \/ UNCHANGED vars
    <3>1. JoinedFollowsCut' /\ HandledWasRead' /\ AllBefore'
      BY <2>11, StillInOrder DEF Delete, Returned, vars
    <3>2. CurrentMessage'
      BY <2>0, <2>11 DEF Delete, Returned, vars, CurrentMessage
    <3> QED
      BY <3>1, <3>2 DEF HandledInOrder
  <2> QED
    BY <2>1, <2>2, <2>3, <2>4, <2>5, <2>6, <2>7, <2>8, <2>9, <2>10, <2>11 DEF Next, Client
<1> QED
  BY <1>1, <1>2, TypeCorrect, PTL DEF Spec

-----------------------------------------------------------------------------
\* What the mapping makes of the datagrams, one by one.
LEMMA AnswersFields ==
    ASSUME TypeOK
    PROVE  /\ Len(Answers) = Len(accepted)
           /\ \A k \in 1 .. Len(accepted) :
                  /\ Answers[k].kind = "whole" <=> Whole(accepted[k])
                  /\ Answers[k].kind = "torn" <=> accepted[k].kind = "cut"
                  /\ Answers[k].size = accepted[k].size
  <1>1. /\ Len(accepted) \in Nat
        /\ Answers = [k \in 1 .. Len(accepted) |-> Answers[k]]
    BY DEF Answers, TypeOK
  <1>2. Len(Answers) = Len(accepted)
    BY <1>1
  <1>3. ASSUME NEW k \in 1 .. Len(accepted)
        PROVE  /\ Answers[k].kind = "whole" <=> Whole(accepted[k])
               /\ Answers[k].kind = "torn" <=> accepted[k].kind = "cut"
               /\ Answers[k].size = accepted[k].size
    BY DEF Answers, Whole
  <1> QED
    BY <1>2, <1>3

\* An arrival adds one answer, or none when the kernel dropped it.
LEMMA ArriveRefines ==
    ASSUME TypeOK, Arrive
    PROVE  DS!Next \/ UNCHANGED DS!vars
  <1>0. Used' = Used /\ Due' = Due
    BY DEF Arrive, Used, Due
  <1>1. PICK m \in Datagram :
            accepted' = IF Waiting < QueueCap THEN Append(accepted, m) ELSE accepted
    BY DEF Arrive
  <1>2. CASE accepted' = accepted
    BY <1>0, <1>2 DEF Arrive, DS!vars, Answers
  <1>3. CASE accepted' = Append(accepted, m)
    <2> DEFINE a == [kind |-> IF Whole(m) THEN "whole"
                              ELSE IF m.kind = "cut" THEN "torn" ELSE "unreadable",
                     size |-> m.size]
    <2>1. a \in DS!Answer
      BY DatagramFields DEF DS!Answer
    <2>2. Answers' = Append(Answers, a)
      BY <1>3 DEF Answers, TypeOK
    <2> QED
      BY <1>0, <2>1, <2>2 DEF Arrive, DS!Next, DS!Arrive
  <1> QED
    BY <1>1, <1>2, <1>3

\* A turn of the for loop hands over the first match that is due.
LEMMA NextMatchRefines ==
    ASSUME TypeOK, HandledInOrder, NextMatch
    PROVE  DS!Next
  <1>1. /\ pc = "match" /\ pc' = "match" /\ i' = i + 1
        /\ i \in Nat /\ size \in Nat /\ i < size /\ first \in Nat
        /\ UNCHANGED <<accepted, taken, first, size, cb>>
    BY DEF NextMatch, TypeOK
  <1> DEFINE p == <<first, i + 1>>
  <1>2. Due = {<<first, j>> : j \in i + 1 .. size} /\ Due' = {<<first, j>> : j \in i + 2 .. size}
    BY <1>1 DEF Due
  <1>3. p \in Due /\ (\A q \in Due : p[2] <= q[2])
    BY <1>1, <1>2
  <1>4. Due' = Due \ {p}
    BY <1>1, <1>2
  <1>5. p \notin handled
    BY <1>1 DEF HandledInOrder, HandledWasRead
  <1>6. handled' = handled \union {p} /\ calls' = IF cb THEN calls + 1 ELSE calls
    BY DEF NextMatch
  <1>7. Answers' = Answers /\ Used' = Used
    BY <1>1 DEF Answers, Used
  <1> QED
    BY <1>1, <1>3, <1>4, <1>5, <1>6, <1>7 DEF DS!Next, DS!HandOver

LEMMA SpanFits ==
    ASSUME NEW a \in Nat, NEW b \in Nat, a <= b
    PROVE  (b - a) + 1 \in Nat \ {0} /\ (a - 1) + ((b - a) + 1) = b
  OBVIOUS

\* A message is complete: the answers from its first on are used up, and its s
\* matches are due.
LEMMA TakeRefines ==
    ASSUME TypeOK, pc \in {"recv", "more"}, pc' \in {"recv", "match"},
           UNCHANGED <<accepted, cb, handled, calls>>,
           NEW n \in Nat \ {0}, NEW s \in 0 .. MaxMatches,
           (first - 1) + n <= Len(accepted), Used' = (first - 1) + n,
           Due' = {<<first, j>> : j \in 1 .. s},
           \/ accepted[first].kind = "cut"
           \/ Whole(accepted[first]) /\ n = 1 /\ s = accepted[first].size
    PROVE  DS!Next
  <1>1. /\ first \in 1 .. Len(accepted) /\ n \in 1 .. Len(Answers)
        /\ Used = first - 1 /\ Used + 1 = first /\ Due = {}
    BY AnswersFields DEF TypeOK, Used, Due
  <1>2. /\ Answers[first].kind = "whole" <=> Whole(accepted[first])
        /\ Answers[first].kind = "torn" <=> accepted[first].kind = "cut"
        /\ Answers[first].size = accepted[first].size
        /\ Len(Answers) = Len(accepted)
    BY <1>1, AnswersFields
  <1>3. Answers' = Answers
    BY DEF Answers
  <1>4. DS!Take(n, s)
    BY <1>1, <1>2, <1>3 DEF DS!Take
  <1> QED
    BY <1>1, <1>4 DEF DS!Next

\* Leaving the loop: nothing the socket took is left, or the message it stopped
\* in is not a whole answer.
LEMMA StopRefines ==
    ASSUME TypeOK, pc \notin {"match", "end", "done"}, pc' = "end",
           UNCHANGED <<accepted, cb, first, handled, calls>>,
           first > Len(accepted) \/ ~Whole(accepted[first])
    PROVE  DS!Next
  <1>1. Answers' = Answers /\ Used' = Used /\ Due' = Due /\ Due = {} /\ Used = first - 1
    BY DEF Answers, Used, Due
  <1>2. Used < Len(Answers) => Answers[Used + 1].kind # "whole"
    <2> SUFFICES ASSUME Used < Len(Answers)
                 PROVE  Answers[Used + 1].kind # "whole"
      OBVIOUS
    <2>1. Used + 1 = first /\ first \in 1 .. Len(accepted)
      BY <1>1, AnswersFields DEF TypeOK
    <2> QED
      BY <2>1, AnswersFields
  <1> QED
    BY <1>1, <1>2 DEF DS!Next, DS!Stop

\* ONVIF_DetectDevice implements DiscoverySpec: message by message the answers
\* are used up in order, their matches handed over once each, and the search is
\* given up early only on account of an answer that is not whole.
THEOREM KeepsPromise == Spec => Promise
<1>1. Init => DS!Init
  BY DEF Init, DS!Init, Answers, Used, Due
<1>2. TypeOK /\ TypeOK' /\ HandledInOrder /\ [Next]_vars => [DS!Next]_(DS!vars)
  <2> SUFFICES ASSUME TypeOK, TypeOK', HandledInOrder, [Next]_vars
               PROVE  [DS!Next]_(DS!vars)
    OBVIOUS
  <2>0. CurrentMessage
    BY DEF HandledInOrder
  <2>1. CASE Arrive
    BY <2>1, ArriveRefines
  <2>2. CASE SendProbe
    <3>1. CASE pc' = "recv"
      BY <2>2, <3>1 DEF SendProbe, DS!vars, Answers, Used, Due
    <3>2. CASE pc' = "end"
      <4>1. first > Len(accepted)
        BY <2>0, <2>2 DEF SendProbe, CurrentMessage, TypeOK
      <4> QED
        BY <2>2, <3>2, <4>1, StopRefines DEF SendProbe
    <3> QED
      BY <2>2, <3>1, <3>2 DEF SendProbe
  <2>3. ASSUME NEW kind \in Kinds, Begins(kind)
        PROVE  /\ first = taken + 1 /\ first \in 1 .. Len(accepted)
               /\ accepted[first] \in Datagram
               /\ accepted[first].kind = kind
    <3>1. taken + 1 \in 1 .. Len(accepted) /\ accepted[taken + 1] \in Datagram
      BY <2>3, NextDatagram DEF Begins
    <3> QED
      BY <2>0, <2>3, <3>1 DEF Begins, CurrentMessage
  <2>4. CASE RecvMatches
    <3> DEFINE s == accepted[first].size
    <3>1. /\ first = taken + 1 /\ first \in 1 .. Len(accepted)
          /\ accepted[first].kind = "matches" /\ s \in 0 .. MaxMatches
      BY <2>3, <2>4, DatagramFields DEF RecvMatches, Kinds
    <3>2. /\ pc = "recv" /\ pc' = "match" /\ taken' = taken + 1
          /\ size' = s /\ i' = 0
          /\ UNCHANGED <<accepted, cb, handled, calls, first>>
      BY <2>4, <3>1 DEF RecvMatches, Begins, Parsed
    <3>3. Used' = (first - 1) + 1 /\ Due' = {<<first, j>> : j \in 1 .. s}
      BY <3>1, <3>2 DEF Used, Due
    <3>4. Whole(accepted[first])
      BY <3>1 DEF Whole
    <3> QED
      BY <3>1, <3>2, <3>3, <3>4, TakeRefines
  <2>5. CASE RecvOther \/ RecvBlank
    <3>1. /\ first = taken + 1 /\ first \in 1 .. Len(accepted)
          /\ accepted[first].kind \in {"other", "blank"} /\ accepted[first].size = 0
      BY <2>3, <2>5, DatagramFields DEF RecvOther, RecvBlank, Kinds
    <3>2. /\ pc = "recv" /\ pc' = "recv" /\ first' = first + 1
          /\ UNCHANGED <<accepted, cb, handled, calls>>
      BY <2>5, <3>1 DEF RecvOther, RecvBlank, Begins
    <3>3. Used' = (first - 1) + 1 /\ Due' = {<<first, j>> : j \in 1 .. 0}
      BY <3>1, <3>2 DEF Used, Due
    <3>4. Whole(accepted[first]) /\ 0 \in 0 .. MaxMatches
      BY <3>1, DiscoveryAssumption DEF Whole
    <3> QED
      BY <3>1, <3>2, <3>3, <3>4, TakeRefines
  <2>6. CASE RecvBad
    <3>1. ~Whole(accepted[first])
      BY <2>3, <2>6 DEF RecvBad, Kinds, Whole
    <3> QED
      BY <2>6, <3>1, StopRefines DEF RecvBad, Begins, Failed
  <2>7. CASE RecvCut
    BY <2>7 DEF RecvCut, Begins, DS!vars, Answers, Used, Due
  <2>8. CASE RecvMore \/ Silence
    <3>1. UNCHANGED <<accepted, cb, first, handled, calls>>
      BY <2>8 DEF RecvMore, Silence
    <3>2. CASE UNCHANGED <<pc, size, i>>
      <4>1. pc # "match"
        BY <2>8 DEF RecvMore, Silence
      <4> QED
        BY <3>1, <3>2, <4>1 DEF DS!vars, Answers, Used, Due
    <3>3. CASE pc' = "end"
      <4>1. pc = "more" \/ (pc = "recv" /\ taken = Len(accepted))
        BY <2>8 DEF RecvMore, Silence, Waiting, TypeOK, Failed, Parsed
      <4>2. first > Len(accepted) \/ ~Whole(accepted[first])
        <5>1. CASE pc = "more"
          BY <2>0, <5>1 DEF CurrentMessage, Whole
        <5>2. CASE pc = "recv" /\ taken = Len(accepted)
          BY <2>0, <5>2 DEF CurrentMessage, TypeOK
        <5> QED
          BY <4>1, <5>1, <5>2
      <4> QED
        BY <3>1, <3>3, <4>1, <4>2, StopRefines
    <3>4. ASSUME NEW s \in 0 .. MaxMatches, Parsed(s), pc = "more"
          PROVE  DS!Next
      <4> DEFINE n == (taken' - first) + 1
      <4>1. n \in Nat \ {0} /\ (first - 1) + n = taken' /\ taken' <= Len(accepted)
        <5>1. /\ first \in Nat /\ taken \in Nat /\ taken' \in Nat
              /\ first <= taken /\ taken <= taken' /\ taken' <= Len(accepted)
          BY <2>8, <3>1, <3>4 DEF RecvMore, Silence, TypeOK
        <5>2. first <= taken'
          BY <5>1
        <5> QED
          BY <5>1, <5>2, SpanFits
      <4>2. accepted[first].kind = "cut"
        BY <2>0, <3>4 DEF CurrentMessage
      <4>3. /\ pc' = "match" /\ Used' = taken'
            /\ Due' = {<<first, j>> : j \in 1 .. s}
        BY <3>1, <3>4 DEF Parsed, Used, Due
      <4> HIDE DEF n
      <4> QED
        BY <3>1, <3>4, <4>1, <4>2, <4>3, TakeRefines
    <3> QED
      BY <2>8, <3>2, <3>3, <3>4 DEF RecvMore, Silence, Failed
  <2>9. CASE NextMatch
    BY <2>9, NextMatchRefines
  <2>10. CASE LastMatch
    <3>1. Due = {} /\ Due' = {} /\ Used' = Used
      BY <2>10 DEF LastMatch, Due, Used, TypeOK
    <3> QED
      BY <2>10, <3>1 DEF LastMatch, DS!vars, Answers
  <2>11. CASE Delete \/ Returned \/ UNCHANGED vars
    BY <2>11 DEF Delete, Returned, vars, DS!vars, Answers, Used, Due
  <2> QED
    BY <2>1, <2>2, <2>4, <2>5, <2>6, <2>7, <2>8, <2>9, <2>10, <2>11 DEF Next, Client
<1> QED
  BY <1>1, <1>2, TypeCorrect, OrderSafe, PTL DEF Spec, Promise, DS!Spec
-----------------------------------------------------------------------------
(* The budget of a search *)

\* A datagram less is worth more than going through an answer.
LEMMA AnswerIsWorth ==
    ASSUME NEW a \in Nat, NEW b \in Nat, NEW w \in Nat, b < a,
           NEW c \in Nat, NEW t \in 0 .. w - 1, NEW s \in Nat, NEW r \in 0 .. s
    PROVE  (b * w) + (t + r) \in 0 .. ((a * w) + (c + s)) - 1
  <1>1. PICK d \in Nat : a = b + 1 + d
    <2>1. (a - b) - 1 \in Nat /\ a = b + 1 + ((a - b) - 1)
      OBVIOUS
    <2> QED
      BY <2>1
  <1>2. a * w = (b * w) + w + (d * w)
    BY <1>1
  <1>3. b * w \in Nat /\ d * w \in Nat
    OBVIOUS
  <1> QED
    BY <1>2, <1>3

LEMMA TurnIsWorth ==
    ASSUME NEW p \in Nat, NEW t \in Nat, NEW s \in Nat, NEW u \in Nat, NEW v \in Nat,
           u + v < t + s
    PROVE  p + (u + v) \in 0 .. (p + (t + s)) - 1
  OBVIOUS

LEMMA SumIsLess ==
    ASSUME NEW t \in Nat, NEW s \in Nat, NEW u \in Nat, NEW v \in Nat,
           (u < t /\ v = s) \/ (u = t /\ v < s)
    PROVE  u + v < t + s
  OBVIOUS

LEMMA FewerAreLess ==
    ASSUME NEW a \in Nat, NEW b \in Nat, NEW w \in Nat, b <= a, NEW t \in Nat, NEW s \in Nat
    PROVE  (b * w) + (t + s) \in 0 .. (a * w) + (t + s)
  <1>1. PICK d \in Nat : a = b + d
    <2>1. a - b \in Nat /\ a = b + (a - b)
      OBVIOUS
    <2> QED
      BY <2>1
  <1>2. a * w = (b * w) + (d * w)
    BY <1>1
  <1>3. b * w \in Nat /\ d * w \in Nat
    OBVIOUS
  <1> QED
    BY <1>2, <1>3

\* The parts of the budget are natural numbers, and going through an answer
\* takes less than a datagram is worth.
BudgetFits ==
    /\ AnswersToCome \in Nat
    /\ AnswersToCome * (MaxMatches + 3) \in Nat
    /\ TurnsLeft \in 0 .. MaxMatches + 2
    /\ StagesLeft \in 0 .. 3
    /\ StepsLeft = (AnswersToCome * (MaxMatches + 3)) + (TurnsLeft + StagesLeft)

LEMMA BudgetType == TypeOK => BudgetFits
  <1> SUFFICES ASSUME TypeOK PROVE BudgetFits
    OBVIOUS
  <1> USE DiscoveryAssumption DEF TypeOK
  <1>1. AnswersToCome \in Nat /\ MaxMatches + 3 \in Nat
    BY DEF AnswersToCome, Waiting
  <1>2. AnswersToCome * (MaxMatches + 3) \in Nat
    BY <1>1
  <1>3. TurnsLeft \in 0 .. MaxMatches + 2
    <2>1. CASE pc = "match"
      BY <2>1 DEF TurnsLeft
    <2>2. CASE pc = "more"
      BY <2>2 DEF TurnsLeft
    <2>3. CASE pc \notin {"match", "more"}
      BY <2>3 DEF TurnsLeft
    <2> QED
      BY <2>1, <2>2, <2>3
  <1>4. StagesLeft \in 0 .. 3
    BY DEF StagesLeft, Looping
  <1> QED
    BY <1>1, <1>2, <1>3, <1>4 DEF StepsLeft, BudgetFits

\* A datagram that was received or dropped pays for all that follows from it.
LEMMA AnswerPays ==
    ASSUME TypeOK, TypeOK', AnswersToCome' < AnswersToCome, StagesLeft' <= StagesLeft
    PROVE  StepsLeft' \in 0 .. StepsLeft - 1
  <1> DEFINE w == MaxMatches + 3
  <1>1. /\ AnswersToCome \in Nat /\ w \in Nat /\ TurnsLeft \in Nat /\ StagesLeft \in 0 .. 3
        /\ StepsLeft = (AnswersToCome * w) + (TurnsLeft + StagesLeft)
    BY BudgetType, DiscoveryAssumption DEF BudgetFits
  <1>2. /\ AnswersToCome' \in Nat /\ TurnsLeft' \in 0 .. w - 1 /\ StagesLeft' \in 0 .. 3
        /\ StepsLeft' = (AnswersToCome' * w) + (TurnsLeft' + StagesLeft')
    <2>1. BudgetFits'
      BY BudgetType, PTL
    <2> QED
      BY <2>1, DiscoveryAssumption DEF BudgetFits
  <1>3. StagesLeft' \in 0 .. StagesLeft /\ StagesLeft \in Nat
    BY <1>1, <1>2
  <1> HIDE DEF w
  <1>4. (AnswersToCome' * w) + (TurnsLeft' + StagesLeft')
          \in 0 .. ((AnswersToCome * w) + (TurnsLeft + StagesLeft)) - 1
    BY <1>1, <1>2, <1>3, AnswerIsWorth
  <1> QED
    BY <1>1, <1>2, <1>4

\* A step that receives nothing pays with a turn or a stage.
LEMMA TurnPays ==
    ASSUME TypeOK, TypeOK', AnswersToCome' = AnswersToCome,
           TurnsLeft' + StagesLeft' < TurnsLeft + StagesLeft
    PROVE  StepsLeft' \in 0 .. StepsLeft - 1
  <1> DEFINE p == AnswersToCome * (MaxMatches + 3)
  <1>1. /\ p \in Nat /\ TurnsLeft \in Nat /\ StagesLeft \in Nat
        /\ StepsLeft = p + (TurnsLeft + StagesLeft)
    BY BudgetType, DiscoveryAssumption DEF BudgetFits
  <1>2. /\ TurnsLeft' \in Nat /\ StagesLeft' \in Nat
        /\ StepsLeft' = p + (TurnsLeft' + StagesLeft')
    <2>1. BudgetFits'
      BY BudgetType, PTL
    <2> QED
      BY <2>1, DiscoveryAssumption DEF BudgetFits
  <1> HIDE DEF p
  <1>3. p + (TurnsLeft' + StagesLeft') \in 0 .. (p + (TurnsLeft + StagesLeft)) - 1
    BY <1>1, <1>2, TurnIsWorth
  <1> QED
    BY <1>1, <1>2, <1>3

\* Every step of the function spends some of its budget.
LEMMA ClientPays ==
    ASSUME TypeOK, TypeOK', Client
    PROVE  StepsLeft' \in 0 .. StepsLeft - 1
  <1> USE DiscoveryAssumption
  <1>1. ASSUME pc \in {"recv", "more"}, pc' \in {"recv", "more", "match", "end"},
               taken' = taken + 1, UNCHANGED <<accepted, arrived>>
        PROVE  StepsLeft' \in 0 .. StepsLeft - 1
    <2>1. AnswersToCome' < AnswersToCome
      BY <1>1 DEF AnswersToCome, Waiting, TypeOK
    <2>2. StagesLeft' <= StagesLeft
      BY <1>1 DEF StagesLeft, Looping
    <2> QED
      BY <2>1, <2>2, AnswerPays
  <1>2. ASSUME pc \notin {"match", "more"}, pc' \notin {"match", "more"},
               StagesLeft' < StagesLeft, UNCHANGED <<accepted, arrived, taken>>
        PROVE  StepsLeft' \in 0 .. StepsLeft - 1
    <2>1. AnswersToCome' = AnswersToCome
      BY <1>2 DEF AnswersToCome, Waiting
    <2>2. TurnsLeft = 0 /\ TurnsLeft' = 0 /\ StagesLeft \in Nat /\ StagesLeft' \in Nat
      BY <1>2 DEF TurnsLeft, StagesLeft, TypeOK, Looping
    <2>3. TurnsLeft' + StagesLeft' < TurnsLeft + StagesLeft
      BY <1>2, <2>2, SumIsLess
    <2> QED
      BY <2>1, <2>3, TurnPays
  <1>3. CASE RecvMatches \/ RecvOther \/ RecvBlank \/ RecvBad \/ RecvCut
    <2>1. /\ pc = "recv" /\ pc' \in {"recv", "more", "match", "end"}
          /\ taken' = taken + 1 /\ UNCHANGED <<accepted, arrived>>
      BY <1>3 DEF RecvMatches, RecvOther, RecvBlank, RecvBad, RecvCut, Begins, Parsed, Failed
    <2> QED
      BY <1>1, <2>1
  <1>4. CASE RecvMore
    BY <1>1, <1>4 DEF RecvMore, Parsed, Failed
  <1>5. CASE SendProbe \/ Delete \/ (Silence /\ pc = "recv")
    BY <1>2, <1>5 DEF SendProbe, Silence, Failed, Delete, StagesLeft, Looping
  <1>6. CASE Silence /\ pc = "more"
    <2>1. AnswersToCome' = AnswersToCome
      BY <1>6 DEF Silence, AnswersToCome, Waiting
    <2>2. TurnsLeft = MaxMatches + 2 /\ StagesLeft = 2
      BY <1>6 DEF TurnsLeft, StagesLeft, Looping
    <2>3. CASE Failed("eof")
      <3>1. TurnsLeft' = 0 /\ StagesLeft' = 1
        BY <2>3 DEF Failed, TurnsLeft, StagesLeft, Looping
      <3> QED
        BY <2>1, <2>2, <3>1, TurnPays
    <2>4. ASSUME NEW n \in 0 .. MaxMatches, Parsed(n)
          PROVE  StepsLeft' \in 0 .. StepsLeft - 1
      <3>1. TurnsLeft' = n + 1 /\ StagesLeft' = 2
        BY <2>4 DEF Parsed, TurnsLeft, StagesLeft, Looping
      <3> QED
        BY <2>1, <2>2, <3>1, TurnPays
    <2> QED
      BY <1>6, <2>3, <2>4 DEF Silence
  <1>7. CASE NextMatch \/ LastMatch
    <2>1. AnswersToCome' = AnswersToCome
      BY <1>7 DEF NextMatch, LastMatch, AnswersToCome, Waiting
    <2>2. StagesLeft' = 2 /\ StagesLeft = 2
      BY <1>7 DEF NextMatch, LastMatch, StagesLeft, Looping
    <2>3. TurnsLeft \in Nat /\ TurnsLeft' \in Nat /\ TurnsLeft' < TurnsLeft
      <3>1. size \in Nat /\ i \in Nat
        BY DEF TypeOK
      <3>2. CASE NextMatch
        BY <3>1, <3>2 DEF NextMatch, TurnsLeft
      <3>3. CASE LastMatch
        BY <3>1, <3>3 DEF LastMatch, TurnsLeft
      <3> QED
        BY <1>7, <3>2, <3>3
    <2>4. TurnsLeft' + StagesLeft' < TurnsLeft + StagesLeft
      BY <2>2, <2>3, SumIsLess
    <2> QED
      BY <2>1, <2>4, TurnPays
  <1> QED
    BY <1>3, <1>4, <1>5, <1>6, <1>7 DEF Client, Silence

\* A datagram that arrives is one less that may still come.
LEMMA ArrivePays ==
    ASSUME TypeOK, TypeOK', Arrive
    PROVE  StepsLeft' \in 0 .. StepsLeft
  <1> DEFINE w == MaxMatches + 3
  <1>1. Len(accepted') \in {Len(accepted), Len(accepted) + 1}
    BY DEF Arrive, TypeOK
  <1>2. AnswersToCome' = AnswersToCome \/ AnswersToCome' < AnswersToCome
    BY <1>1, DiscoveryAssumption DEF Arrive, AnswersToCome, Waiting, TypeOK
  <1>3. UNCHANGED <<TurnsLeft, StagesLeft>>
    BY ArriveAppends DEF Arrive, TurnsLeft, StagesLeft, TypeOK
  <1>4. /\ AnswersToCome \in Nat /\ w \in Nat /\ TurnsLeft \in Nat /\ StagesLeft \in Nat
        /\ StepsLeft = (AnswersToCome * w) + (TurnsLeft + StagesLeft)
    BY BudgetType, DiscoveryAssumption DEF BudgetFits
  <1>5. AnswersToCome' \in Nat /\ StepsLeft' = (AnswersToCome' * w) + (TurnsLeft + StagesLeft)
    <2>1. BudgetFits'
      BY BudgetType, PTL
    <2> QED
      BY <2>1, <1>3, DiscoveryAssumption DEF BudgetFits
  <1>6. AnswersToCome' <= AnswersToCome
    BY <1>2, <1>4, <1>5
  <1> HIDE DEF w
  <1>7. (AnswersToCome' * w) + (TurnsLeft + StagesLeft)
          \in 0 .. (AnswersToCome * w) + (TurnsLeft + StagesLeft)
    BY <1>4, <1>5, <1>6, FewerAreLess
  <1> QED
    BY <1>4, <1>5, <1>7

\* ONVIF_DetectDevice has no step that it could repeat for ever, whatever
\* arrives: it takes at most the steps its budget says.
THEOREM SearchSpends == Spec => SearchAdvances
<1>1. TypeOK /\ TypeOK' /\ [Next]_vars
      => [StepsLeft' \in 0 .. StepsLeft /\ (Client => StepsLeft' < StepsLeft)]_vars
  <2> SUFFICES ASSUME TypeOK, TypeOK', Next, vars' # vars
               PROVE  StepsLeft' \in 0 .. StepsLeft /\ (Client => StepsLeft' < StepsLeft)
    BY DEF vars
  <2>1. StepsLeft \in Nat
    BY BudgetType DEF BudgetFits
  <2>2. CASE Client
    BY <2>1, <2>2, ClientPays
  <2>3. CASE Arrive /\ ~ Client
    BY <2>3, ArrivePays
  <2> QED
    BY <2>2, <2>3 DEF Next, Returned
<1> QED
  BY <1>1, TypeCorrect, PTL DEF Spec, SearchAdvances
=============================================================================
