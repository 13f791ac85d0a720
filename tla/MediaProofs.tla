----------------------------- MODULE MediaProofs -----------------------------
(***************************************************************************)
(* MediaSession for every set of devices and any number of callbacks: what *)
(* a callback has of its device is its own.                                *)
(***************************************************************************)
EXTENDS MediaSession, TLAPS

Locations == {"idle", "capabilities", "profiles", "counted", "next", "waiting",
              "stdin", "release", "crashed"}
CallNames == {"GetUri", "GetOptions", "GetConfiguration", "SetConfiguration"}

\* The calls of a callback are a sequence of service calls, and not an empty one.
LEMMA CallsType == Calls \in Seq(CallNames) /\ Calls # << >>
<1>1. CASE flow = "resolution"
  <2>1. <<"GetOptions", "GetConfiguration", "SetConfiguration", "GetConfiguration">>
            \in Seq(CallNames)
    BY DEF CallNames
  <2> QED
    BY <1>1, <2>1 DEF Calls
<1>2. CASE flow # "resolution"
  <2>1. <<"GetUri">> \in Seq(CallNames)
    BY DEF CallNames
  <2> QED
    BY <1>2, <2>1 DEF Calls
<1> QED
  BY <1>1, <1>2

\* Addresses are addresses.
LEMMA AtAddress ==
    ASSUME NEW k \in {"device", "media", "cut", "auth"}, NEW d \in Devices
    PROVE  At(k, d) \in Address /\ At(k, d).kind = k /\ At(k, d).dev = d
  BY DEF At, Address

\* The end of a service call leaves every variable in its range.
LEMMA AnsweredTypes ==
    ASSUME TypeOK, pc \in {"waiting", "stdin"},
           NEW A, A \subseteq Address, Answered(A)
    PROVE  TypeOK'
  <1>1. todo' \in Seq(CallNames)
    BY DEF Answered, TypeOK, CallNames
  <1>2. shown' \in Address \union {Empty} /\ sent' = NoRequest
    BY DEF Answered, TypeOK
  <1> QED
    BY <1>1, <1>2 DEF Answered, TypeOK, NoRequest, CallNames

\* What a run of the callback holds at each point of it.
Owned ==
    /\ pc \in {"idle", "capabilities", "profiles"} => profiles = Null
    /\ profiles # Null => profiles.dev = dev
    /\ pc \notin {"waiting", "stdin"} =>
           sent.token = Empty /\ sent.to \in {Empty, At("device", dev)}
    /\ pc \in {"waiting", "stdin"} /\ known => sent.to = capa
    /\ pc \in {"capabilities", "profiles"} => shown = Empty
    /\ known => capa \in {Empty, At("media", dev), At("cut", dev)}

\* ListLifetime and OwnDevice are not inductive: what is asked for next comes
\* from capa and profiles, which Owned ties to the device.
IInv == TypeOK /\ ListLifetime /\ OwnDevice /\ Owned

\* A callback starts with nothing but the uninitialised capa.
LEMMA IInvInit == Init => IInv
<1> SUFFICES ASSUME Init PROVE IInv
  OBVIOUS
<1>1. todo \in Seq(CallNames)
  BY DEF Init
<1>2. runs \in 0 .. MaxRuns /\ cnt \in 0 .. MaxProfiles /\ heap \in Nat
  BY SessionAssumption DEF Init
<1>3. sent \in [to : Address \union {Empty, Junk}, token : Address \union {Empty}]
  BY DEF Init, NoRequest
<1>4. TypeOK
  BY <1>1, <1>2, <1>3 DEF Init, TypeOK, CallNames
<1>5. ListLifetime
  BY DEF Init, ListLifetime, NoRequest
<1>6. OwnDevice /\ Owned
  BY DEF Init, OwnDevice, Owned, NoRequest
<1> QED
  BY <1>4, <1>5, <1>6 DEF IInv

\* Every step keeps every variable in its range.
LEMMA TypeStep == IInv /\ [Next]_vars => TypeOK'
<1> SUFFICES ASSUME IInv, [Next]_vars PROVE TypeOK'
  OBVIOUS
<1> USE DEF IInv
<1>1. CASE Start
  <2>1. dev' \in Devices /\ At("device", dev') \in Address
    BY <1>1, AtAddress DEF Start
  <2>2. sent' \in [to : Address \union {Empty, Junk}, token : Address \union {Empty}]
    BY <1>1, <2>1 DEF Start
  <2>3. runs' \in 0 .. MaxRuns /\ cnt' \in 0 .. MaxProfiles
    BY <1>1, SessionAssumption DEF Start, TypeOK
  <2> QED
    BY <1>1, <2>1, <2>2, <2>3 DEF Start, TypeOK
<1>2. CASE RecvCapabilities
  <2>1. /\ At("device", dev) \in Address
        /\ At("media", dev) \in Address /\ At("cut", dev) \in Address
    BY AtAddress DEF TypeOK
  <2>2. sent' \in [to : Address \union {Empty, Junk}, token : Address \union {Empty}]
    BY <1>2, <2>1 DEF RecvCapabilities
  <2> QED
    BY <1>2, <2>1, <2>2 DEF RecvCapabilities, TypeOK
<1>3. CASE RecvProfiles
  <2>1. cnt' \in 0 .. MaxProfiles /\ heap' \in Nat
    BY <1>3 DEF RecvProfiles, TypeOK
  <2>2. profiles' \in List \union {Null}
    <3>1. CASE cnt' > 0 /\ profiles' \in [dev : {dev}, len : {cnt'}, named : BOOLEAN]
      BY <2>1, <3>1, SessionAssumption DEF List, TypeOK
    <3>2. CASE profiles' = profiles
      BY <3>2 DEF TypeOK
    <3> QED
      BY <1>3, <3>1, <3>2 DEF RecvProfiles
  <2> QED
    BY <1>3, <2>1, <2>2 DEF RecvProfiles, TypeOK, NoRequest
<1>4. CASE Choose
  <2>1. todo' \in Seq(CallNames)
    BY <1>4, CallsType DEF Choose, TypeOK, CallNames
  <2> QED
    BY <1>4, <2>1 DEF Choose, TypeOK, CallNames
<1>5. CASE Ask
  <2>1. Token \in Address \union {Empty}
    BY AtAddress DEF Token, TypeOK, List
  <2>2. sent' \in [to : Address \union {Empty, Junk}, token : Address \union {Empty}]
        /\ (pc' = "waiting" => sent'.to # Empty)
    BY <1>5, <2>1, SessionAssumption DEF Ask, TypeOK
  <2> QED
    BY <1>5, <2>2 DEF Ask, TypeOK
<1>6. CASE Receive
  <2>1. sent.to # Junk => sent.to.dev \in Devices
    BY <1>6 DEF Receive, TypeOK, Address
  <2>2. sent.to # Junk => At("auth", sent.to.dev) \in Address
    BY <2>1, AtAddress
  <2> DEFINE A == IF sent.to = Junk THEN {} ELSE {At("auth", sent.to.dev)}
  <2>3. A \subseteq Address
    BY <2>2
  <2>4. pc = "waiting" /\ Answered(A)
    BY <1>6 DEF Receive
  <2> HIDE DEF A
  <2> QED
    BY <2>3, <2>4, AnsweredTypes
<1>7. CASE Typed
  BY <1>7, AnsweredTypes DEF Typed
<1>8. CASE Finish
  BY <1>8 DEF Finish, TypeOK
<1>9. CASE Release
  <2>1. heap' \in Nat
    BY <1>9 DEF Release, TypeOK, ListLifetime
  <2> QED
    BY <1>9, <2>1 DEF Release, TypeOK
<1>10. CASE UNCHANGED vars
  BY <1>10 DEF vars, TypeOK
<1> QED
  BY <1>1, <1>2, <1>3, <1>4, <1>5, <1>6, <1>7, <1>8, <1>9, <1>10
  DEF Next, Callback, Over

\* A list lives from GetProfiles to ReleaseProfiles, and a token no longer.
LEMMA LifetimeStep == IInv /\ [Next]_vars => ListLifetime'
<1> SUFFICES ASSUME IInv, [Next]_vars PROVE ListLifetime'
  OBVIOUS
<1> USE DEF IInv
<1>1. CASE Start
  BY <1>1 DEF Start, ListLifetime, Owned
<1>2. CASE RecvCapabilities
  BY <1>2 DEF RecvCapabilities, ListLifetime
<1>3. CASE RecvProfiles
  <2>1. profiles = Null /\ heap = 0
    BY <1>3 DEF RecvProfiles, Owned, ListLifetime
  <2>2. CASE cnt' > 0 /\ profiles' \in [dev : {dev}, len : {cnt'}, named : BOOLEAN]
             /\ heap' = heap + 1
    <3>1. cnt' \in 1 .. MaxProfiles
      BY <1>3, <2>2, SessionAssumption DEF RecvProfiles
    <3>2. profiles' \in List
      BY <2>2, <3>1 DEF List, TypeOK
    <3> QED
      BY <1>3, <2>1, <2>2, <3>2, SessionAssumption
      DEF RecvProfiles, ListLifetime, NoRequest
  <2>3. CASE profiles' = profiles /\ heap' = heap
    BY <1>3, <2>1, <2>3 DEF RecvProfiles, ListLifetime, NoRequest
  <2> QED
    BY <1>3, <2>2, <2>3 DEF RecvProfiles
<1>4. CASE Choose
  BY <1>4 DEF Choose, ListLifetime
<1>5. CASE Ask
  BY <1>5 DEF Ask, ListLifetime, Token
<1>6. CASE Receive \/ Typed
  BY <1>6 DEF Receive, Typed, Answered, ListLifetime, NoRequest
<1>7. CASE Finish
  BY <1>7 DEF Finish, ListLifetime
<1>8. CASE Release
  BY <1>8 DEF Release, ListLifetime, Owned
<1>9. CASE UNCHANGED vars
  BY <1>9 DEF vars, ListLifetime
<1> QED
  BY <1>1, <1>2, <1>3, <1>4, <1>5, <1>6, <1>7, <1>8, <1>9
  DEF Next, Callback, Over

\* Every step keeps the parts of a run together.
LEMMA OwnedStep == IInv /\ [Next]_vars => Owned' /\ OwnDevice'
<1> SUFFICES ASSUME IInv, [Next]_vars PROVE Owned' /\ OwnDevice'
  OBVIOUS
<1> USE DEF IInv
<1>1. CASE Start
  BY <1>1 DEF Start, Owned, OwnDevice
<1>2. CASE RecvCapabilities
  <2>1. At("device", dev) \in [kind : {"device", "media", "cut"}, dev : {dev}]
    BY DEF At
  <2> QED
    BY <1>2, <2>1 DEF RecvCapabilities, Owned, OwnDevice
<1>3. CASE RecvProfiles
  BY <1>3 DEF RecvProfiles, Owned, OwnDevice, NoRequest
<1>4. CASE Choose
  BY <1>4 DEF Choose, Owned, OwnDevice
<1>5. CASE Ask
  <2>1. Token \in {Empty, At("device", dev)}
    BY DEF Token, Owned
  <2>2. known => capa \in {Empty} \union [kind : {"device", "media", "cut"}, dev : {dev}]
    BY DEF Owned, At
  <2> QED
    BY <1>5, <2>1, <2>2 DEF Ask, Owned, OwnDevice
<1>6. CASE Receive \/ Typed
  <2>1. known /\ sent.to # Junk /\ sent.to # Empty => sent.to.dev = dev
    BY DEF OwnDevice
  <2>2. pc = "waiting" => sent.to # Empty
    BY DEF TypeOK
  <2>3. known' => shown' \in {Empty, At("auth", dev)}
    BY <1>6, <2>1, <2>2 DEF Receive, Typed, Answered, OwnDevice
  <2> QED
    BY <1>6, <2>3 DEF Receive, Typed, Answered, Owned, OwnDevice, NoRequest
<1>7. CASE Finish
  BY <1>7 DEF Finish, Owned, OwnDevice
<1>8. CASE Release
  BY <1>8 DEF Release, Owned, OwnDevice
<1>9. CASE UNCHANGED vars
  BY <1>9 DEF vars, Owned, OwnDevice
<1> QED
  BY <1>1, <1>2, <1>3, <1>4, <1>5, <1>6, <1>7, <1>8, <1>9
  DEF Next, Callback, Over

\* The strengthened invariant holds in every state.
LEMMA SessionInvariant == Spec => []IInv
<1>1. IInv /\ [Next]_vars => IInv'
  BY TypeStep, LifetimeStep, OwnedStep DEF IInv
<1> QED
  BY IInvInit, <1>1, PTL DEF Spec

\* Every variable keeps its range, for every value of the constants.
THEOREM SessionTypeCorrect == Spec => []TypeOK
<1>1. IInv => TypeOK
  BY DEF IInv
<1> QED
  BY SessionInvariant, <1>1, PTL

\* No profile list leaks, none is freed twice, and no token is used from a list
\* that is gone, for any number of devices, profiles and runs.
THEOREM SessionListLifetime == Spec => []ListLifetime
<1>1. IInv => ListLifetime
  BY DEF IInv
<1> QED
  BY SessionInvariant, <1>1, PTL

\* A callback whose GetCapabilities succeeded never asks a device with, or shows
\* for it, what belongs to another, however the runs before it ended.
THEOREM SessionOwnDevice == Spec => []OwnDevice
<1>1. IInv => OwnDevice
  BY DEF IInv
<1> QED
  BY SessionInvariant, <1>1, PTL

-----------------------------------------------------------------------------
\* The calls of a callback are four at most.
LEMMA CallsLength == Len(Calls) \in 1 .. 4
<1>1. CASE flow = "resolution"
  <2>1. Len(<<"GetOptions", "GetConfiguration", "SetConfiguration", "GetConfiguration">>) = 4
    OBVIOUS
  <2> QED
    BY <1>1, <2>1 DEF Calls
<1>2. CASE flow # "resolution"
  <2>1. Len(<<"GetUri">>) = 1
    OBVIOUS
  <2> QED
    BY <1>2, <2>1 DEF Calls
<1> QED
  BY <1>1, <1>2

\* A callback has no step it could repeat: whatever fails, and whichever device is
\* asked, it takes at most the steps it has left.
THEOREM SessionAdvances == Spec => CallbackAdvances
<1>1. ASSUME TypeOK, Callback \/ Typed
      PROVE  StepsLeft' \in 0 .. StepsLeft - 1
  <2> USE <1>1
  <2>1. CASE RecvCapabilities \/ RecvProfiles
    BY <2>1 DEF RecvCapabilities, RecvProfiles, StepsLeft
  <2>2. CASE Choose
    <3>1. pc = "counted" /\ StepsLeft = 11
      BY <2>2 DEF Choose, StepsLeft
    <3>2. CASE pc' = "next"
      <4>1. Len(todo') \in 1 .. 4
        BY <2>2, <3>2, CallsLength DEF Choose
      <4>2. StepsLeft' = 2 * Len(todo') + 2
        BY <3>2 DEF StepsLeft
      <4>3. \A n \in 1 .. 4 : 2 * n + 2 \in 0 .. 11 - 1
        OBVIOUS
      <4>4. 2 * Len(todo') + 2 \in 0 .. 11 - 1
        BY <4>1, <4>3
      <4> QED
        BY <3>1, <4>2, <4>4
    <3>3. CASE pc' \in {"crashed", "release"}
      <4>1. StepsLeft' \in {0, 1}
        BY <3>3 DEF StepsLeft
      <4> QED
        BY <3>1, <4>1
    <3> QED
      BY <2>2, <3>2, <3>3 DEF Choose
  <2>3. CASE Ask
    <3>1. Len(todo) \in Nat
      BY DEF TypeOK
    <3> QED
      BY <2>3, <3>1 DEF Ask, StepsLeft
  <2>4. CASE Receive \/ Typed
    <3>1. pc \in {"waiting", "stdin"} /\ pc' = "next" /\ todo' = Tail(todo)
      BY <2>4 DEF Receive, Typed, Answered
    <3>2. Len(todo) \in Nat \ {0} /\ Len(todo') = Len(todo) - 1
      BY <3>1 DEF TypeOK
    <3> QED
      BY <3>1, <3>2 DEF StepsLeft
  <2>5. CASE Finish
    <3>1. Len(todo) = 0
      BY <2>5 DEF Finish
    <3> QED
      BY <2>5, <3>1 DEF Finish, StepsLeft
  <2>6. CASE Release
    BY <2>6 DEF Release, StepsLeft
  <2> QED
    BY <2>1, <2>2, <2>3, <2>4, <2>5, <2>6 DEF Callback
<1>2. TypeOK => [Callback \/ Typed => StepsLeft' \in 0 .. StepsLeft - 1]_vars
  BY <1>1
<1> QED
  BY <1>2, SessionTypeCorrect, PTL DEF CallbackAdvances
=============================================================================
