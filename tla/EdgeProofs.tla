----------------------------- MODULE EdgeProofs -----------------------------
(***************************************************************************)
(* What holds of the edge for any clients, any versions of services.json   *)
(* and any number of PUTs that fail and of INCRs that are run again.       *)
(***************************************************************************)
EXTENDS Edge, SequenceTheorems, TLAPS

(* The order of the PUTs is that of the file. *)
LEMMA Joined ==
    ASSUME NEW S, NEW s \in Seq(S), NEW t \in Seq(S)
    PROVE  /\ s \o t \in Seq(S)
           /\ Len(s \o t) = Len(s) + Len(t)
           /\ \A i \in 1 .. Len(s) + Len(t) :
                  (s \o t)[i] = IF i <= Len(s) THEN s[i] ELSE t[i - Len(s)]
  BY ConcatProperties, Zenon

LEMMA PutOrderIs ==
    /\ Len(PutOrder) = 6 /\ DOMAIN PutOrder = 1 .. 6
    /\ PutOrder[1] = Live /\ PutOrder[2] = Mock
    /\ PutOrder[3] = ProdService /\ PutOrder[4] = TestService
    /\ PutOrder[5] = TestRoute /\ PutOrder[6] = ProdRoute
  <1> DEFINE Ids == {Live, Mock, ProdService, TestService, TestRoute, ProdRoute}
  <1>1. /\ Upstreams \in Seq(Ids) /\ Len(Upstreams) = 2
        /\ Upstreams[1] = Live /\ Upstreams[2] = Mock
    BY DEF Upstreams
  <1>2. /\ Services \in Seq(Ids) /\ Len(Services) = 2
        /\ Services[1] = ProdService /\ Services[2] = TestService
    BY DEF Services
  <1>3. /\ Routes \in Seq(Ids) /\ Len(Routes) = 2
        /\ Routes[1] = TestRoute /\ Routes[2] = ProdRoute
    BY DEF Routes
  <1> HIDE DEF Ids
  <1> DEFINE v == Upstreams \o Services
             w == v \o Routes
  <1>4. /\ v \in Seq(Ids) /\ Len(v) = Len(Upstreams) + Len(Services)
        /\ \A i \in 1 .. Len(Upstreams) + Len(Services) :
              v[i] = IF i <= Len(Upstreams) THEN Upstreams[i] ELSE Services[i - Len(Upstreams)]
    BY <1>1, <1>2, Joined, Zenon
  <1>5. PutOrder = w
    BY DEF PutOrder
  <1> HIDE DEF v
  <1>6. /\ v \in Seq(Ids) /\ Len(v) = 4
        /\ v[1] = Live /\ v[2] = Mock /\ v[3] = ProdService /\ v[4] = TestService
    BY <1>1, <1>2, <1>4
  <1>7. /\ w \in Seq(Ids) /\ Len(w) = Len(v) + Len(Routes)
        /\ \A i \in 1 .. Len(v) + Len(Routes) :
              w[i] = IF i <= Len(v) THEN v[i] ELSE Routes[i - Len(v)]
    BY <1>3, <1>6, Joined, Zenon
  <1> HIDE DEF w
  <1>8. /\ w \in Seq(Ids) /\ Len(w) = 6
        /\ w[1] = Live /\ w[2] = Mock /\ w[3] = ProdService /\ w[4] = TestService
        /\ w[5] = TestRoute /\ w[6] = ProdRoute
    BY <1>3, <1>6, <1>7
  <1>9. DOMAIN w = 1 .. 6
    BY <1>8, LenProperties
  <1> QED
    BY <1>5, <1>8, <1>9, Zenon

LEMMA ObjectsAre ==
    Objects = {Live, Mock, ProdService, TestService, TestRoute, ProdRoute}
  BY PutOrderIs DEF Objects
(* Whatever is on the server, all that is put before it is there as well;  *)
(* a run has put what comes before its next PUT.                           *)
InOrder ==
    /\ server[ProdRoute] # 0 => server[TestRoute] # 0
    /\ server[TestRoute] # 0 => server[TestService] # 0
    /\ server[TestService] # 0 => server[ProdService] # 0
    /\ server[ProdService] # 0 => server[Mock] # 0
    /\ server[Mock] # 0 => server[Live] # 0
    /\ next = 2 => server[Live] # 0
    /\ next = 3 => server[Mock] # 0
    /\ next = 4 => server[ProdService] # 0
    /\ next = 5 => server[TestService] # 0
    /\ next = 6 => server[TestRoute] # 0

(* Of one call: set out with all objects there, it finds them there; how   *)
(* far it has come, and what it was charged; the route a key was given is  *)
(* one of its environment.                                                 *)
NotEarly(k) == k.pc # "idle" /\ ~k.early => Complete
Uncharged(k) ==
    k.pc \in {"idle", "preflight", "arrive", "auth"} => k.units = 0 /\ k.reached = None
Charged(k) == k.pc = "upstream" => Genuine(k.headers) /\ k.units > 0 /\ k.reached = None
WellRouted(k) ==
    k.pc \in {"auth", "upstream"} /\ Unambiguous(k.headers) /\ Genuine(k.headers) =>
        EnvironmentOf(UpstreamOf(k.service)) = KeyOf(k.headers).env
WellReached(k) ==
    k.reached # None =>
        /\ Genuine(k.headers) /\ k.units > 0
        /\ Unambiguous(k.headers) => k.reached = KeyOf(k.headers).env
WellBlocked(k) == k.pc = "blocked" => k.early

Sound(k) ==
    NotEarly(k) /\ Uncharged(k) /\ Charged(k) /\ WellRouted(k) /\ WellReached(k) /\ WellBlocked(k)

EdgeInv == EdgeTypeOK /\ InOrder /\ \A c \in Clients : Sound(call[c])
-----------------------------------------------------------------------------
LEMMA Typed == EdgeInv => EdgeTypeOK
  BY DEF EdgeInv

LEMMA InitEdge == EdgeInit => EdgeInv
  <1> SUFFICES ASSUME EdgeInit PROVE EdgeInv
    OBVIOUS
  <1>1. 1 \in Versions
    BY EdgeAssumption DEF Versions
  <1>2. NoCall \in Calls
    BY DEF NoCall, Calls, Keyless, Headers
  <1>3. EdgeTypeOK
    BY <1>1, <1>2, PutOrderIs DEF EdgeInit, EdgeTypeOK
  <1>4. InOrder
    BY ObjectsAre DEF EdgeInit, InOrder
  <1>5. \A c \in Clients : Sound(call[c])
    BY DEF EdgeInit, Sound, NotEarly, Uncharged, Charged, WellRouted, WellReached, WellBlocked,
           NoCall
  <1> QED
    BY <1>3, <1>4, <1>5 DEF EdgeInv
-----------------------------------------------------------------------------
(* Steps of the synchronisation: calls stay as they are, and what is there *)
(* stays there.                                                            *)
LEMMA SyncSteps ==
    ASSUME EdgeInv, EditFile \/ Sync PROVE EdgeInv'
  <1> DEFINE Kept == \A o \in Objects : server[o] # 0 => server'[o] # 0
  <1>0. EdgeTypeOK
    BY DEF EdgeInv
  <1>1. EdgeTypeOK' /\ InOrder' /\ Kept /\ UNCHANGED call
    <2>1. CASE EditFile
      <3>1. declared' \in Versions
        BY <1>0, <2>1, EdgeAssumption DEF EditFile, EdgeTypeOK, Versions
      <3> QED
        BY <1>0, <2>1, <3>1 DEF EditFile, EdgeInv, EdgeTypeOK, InOrder
    <2>2. CASE StartSync
      <3>1. next' \in 0 .. Len(PutOrder)
        BY <2>2, PutOrderIs DEF StartSync
      <3>2. EdgeTypeOK'
        BY <1>0, <2>2, <3>1 DEF StartSync, EdgeTypeOK
      <3>3. InOrder'
        BY <2>2 DEF StartSync, EdgeInv, InOrder
      <3> QED
        BY <2>2, <3>2, <3>3 DEF StartSync
    <2>3. ASSUME next # 0, server' = Written
          PROVE  /\ server' \in [Objects -> Versions \cup {0}]
                 /\ server'[PutOrder[next]] # 0
                 /\ \A o \in Objects : server[o] # 0 => server'[o] # 0
                 /\ \A o \in Objects \ {PutOrder[next]} : server'[o] = server[o]
      <3>1. next \in 1 .. 6
        BY <1>0, <2>3, PutOrderIs DEF EdgeTypeOK
      <3>2. PutOrder[next] \in Objects
        BY <3>1, PutOrderIs DEF Objects
      <3>3. config \in Versions /\ config # 0
        BY <1>0, EdgeAssumption DEF EdgeTypeOK, Versions
      <3> QED
        BY <1>0, <2>3, <3>2, <3>3 DEF EdgeTypeOK, Written
    <2>4. ASSUME next # 0, server' = Written, next' = 0 \/ (next' = next + 1 /\ next # 6)
          PROVE  InOrder'
      <3>1. next \in 1 .. 6
        BY <1>0, <2>4, PutOrderIs DEF EdgeTypeOK
      <3>2. InOrder
        BY DEF EdgeInv
      <3> HIDE DEF Written
      <3>3. next = 1 => InOrder'
        BY <2>3, <2>4, <3>1, <3>2, PutOrderIs, ObjectsAre
           DEF InOrder, Live, Mock, ProdService, TestService, TestRoute, ProdRoute
      <3>4. next = 2 => InOrder'
        BY <2>3, <2>4, <3>1, <3>2, PutOrderIs, ObjectsAre
           DEF InOrder, Live, Mock, ProdService, TestService, TestRoute, ProdRoute
      <3>5. next = 3 => InOrder'
        BY <2>3, <2>4, <3>1, <3>2, PutOrderIs, ObjectsAre
           DEF InOrder, Live, Mock, ProdService, TestService, TestRoute, ProdRoute
      <3>6. next = 4 => InOrder'
        BY <2>3, <2>4, <3>1, <3>2, PutOrderIs, ObjectsAre
           DEF InOrder, Live, Mock, ProdService, TestService, TestRoute, ProdRoute
      <3>7. next = 5 => InOrder'
        BY <2>3, <2>4, <3>1, <3>2, PutOrderIs, ObjectsAre
           DEF InOrder, Live, Mock, ProdService, TestService, TestRoute, ProdRoute
      <3>8. next = 6 => InOrder'
        BY <2>3, <2>4, <3>1, <3>2, PutOrderIs, ObjectsAre
           DEF InOrder, Live, Mock, ProdService, TestService, TestRoute, ProdRoute
      <3> QED
        BY <3>1, <3>3, <3>4, <3>5, <3>6, <3>7, <3>8
    <2>5. CASE Put
      <3>1. next' \in 0 .. Len(PutOrder)
        BY <1>0, <2>5, PutOrderIs DEF Put, EdgeTypeOK
      <3>2. InOrder' /\ Kept /\ server' \in [Objects -> Versions \cup {0}]
        <4>1. next # 0 /\ server' = Written
          BY <2>5 DEF Put
        <4>2. next' = 0 \/ (next' = next + 1 /\ next # 6)
          BY <2>5, PutOrderIs DEF Put
        <4>3. InOrder'
          BY <2>4, <4>1, <4>2
        <4> QED
          BY <2>3, <4>1, <4>3
      <3>3. UNCHANGED <<declared, config, due, failures, call>>
        BY <2>5 DEF Put, syncVars
      <3>4. EdgeTypeOK'
        BY <1>0, <3>1, <3>2, <3>3 DEF EdgeTypeOK
      <3> QED
        BY <3>2, <3>3, <3>4
    <2>6. ASSUME NEW applied \in BOOLEAN, PutFails(applied)
          PROVE  EdgeTypeOK' /\ InOrder' /\ Kept /\ UNCHANGED call
      <3>1. next' = 0 /\ next' \in 0 .. Len(PutOrder)
        BY <2>6, PutOrderIs DEF PutFails
      <3>2. InOrder' /\ Kept /\ server' \in [Objects -> Versions \cup {0}]
        <4>1. CASE applied
          <5>1. next # 0 /\ server' = Written
            BY <2>6, <4>1 DEF PutFails
          <5>2. InOrder'
            BY <2>4, <3>1, <5>1
          <5> QED
            BY <2>3, <5>1, <5>2
        <4>2. CASE ~applied
          <5>1. server' = server
            BY <2>6, <4>2 DEF PutFails
          <5>2. InOrder'
            BY <3>1, <5>1 DEF EdgeInv, InOrder
          <5> QED
            BY <1>0, <5>1, <5>2 DEF EdgeTypeOK
        <4> QED
          BY <4>1, <4>2
      <3>3. UNCHANGED <<declared, config, call>> /\ due' = TRUE /\ failures' = failures + 1
        BY <2>6 DEF PutFails
      <3>4. EdgeTypeOK'
        BY <1>0, <3>1, <3>2, <3>3 DEF EdgeTypeOK
      <3> QED
        BY <3>2, <3>3, <3>4
    <2> QED
      BY <2>1, <2>2, <2>5, <2>6 DEF Sync
  <1>2. Complete => Complete'
    BY <1>1 DEF Complete, Installed
  <1>3. \A c \in Clients : Sound(call[c])'
    BY <1>1, <1>2 DEF EdgeInv, Sound, NotEarly, Uncharged, Charged, WellRouted, WellReached,
                      WellBlocked
  <1> QED
    BY <1>1, <1>3 DEF EdgeInv
-----------------------------------------------------------------------------
(* Steps of a call: it is enough that what it becomes is sound.            *)
LEMMA OneCall ==
    ASSUME EdgeInv, EdgeOnly, NEW c \in Clients, NEW k \in Calls, Sound(k),
           call' = [call EXCEPT ![c] = k]
    PROVE  EdgeInv'
  <1>1. EdgeTypeOK'
    BY DEF EdgeInv, EdgeTypeOK, EdgeOnly
  <1>2. InOrder'
    BY DEF EdgeInv, InOrder, EdgeOnly
  <1>3. Complete' <=> Complete
    BY DEF Complete, Installed, EdgeOnly
  <1>4. ASSUME NEW d \in Clients PROVE Sound(call[d])'
    <2>1. call'[d] = IF d = c THEN k ELSE call[d]
      BY DEF EdgeInv, EdgeTypeOK
    <2>2. Sound(call'[d])
      BY <2>1 DEF EdgeInv
    <2> QED
      BY <1>3, <2>2 DEF Sound, NotEarly, Uncharged, Charged, WellRouted, WellReached, WellBlocked
  <1> QED
    BY <1>1, <1>2, <1>4 DEF EdgeInv

LEMMA OfOne ==
    ASSUME EdgeInv, NEW c \in Clients
    PROVE  call[c] \in Calls /\ Sound(call[c])
  BY DEF EdgeInv, EdgeTypeOK

LEMMA NoCallSound == NoCall \in Calls /\ Sound(NoCall)
  BY DEF NoCall, Calls, Keyless, Headers, Sound, NotEarly, Uncharged, Charged, WellRouted,
         WellReached, WellBlocked

LEMMA SendStep ==
    ASSUME EdgeInv, NEW c \in Clients, NEW h \in Headers, NEW asks \in BOOLEAN, Send(c, h, asks)
    PROVE  EdgeInv'
  <1> DEFINE k == [NoCall EXCEPT !.pc = IF asks THEN "preflight" ELSE "arrive",
                                 !.headers = h, !.early = ~Complete]
  <1>1. k \in Calls
    BY NoCallSound DEF Calls, Complete
  <1>2. /\ k.pc \in {"preflight", "arrive"} /\ k.early = ~Complete
        /\ k.units = 0 /\ k.reached = None
    BY DEF NoCall
  <1> HIDE DEF k
  <1>3. Sound(k)
    BY <1>2 DEF Sound, NotEarly, Uncharged, Charged, WellRouted, WellReached, WellBlocked
  <1>4. call' = [call EXCEPT ![c] = k] /\ EdgeOnly
    BY DEF Send, k
  <1> QED
    BY <1>1, <1>3, <1>4, OneCall

LEMMA EndStep ==
    ASSUME EdgeInv, NEW c \in Clients, Leave(c) \/ GiveUp(c)
    PROVE  EdgeInv'
  <1>1. call' = [call EXCEPT ![c] = NoCall] /\ EdgeOnly
    BY DEF Leave, GiveUp
  <1> QED
    BY <1>1, NoCallSound, OneCall

(* With every object there, a call finds a route, and cors on its service. *)
LEMMA RoutedWhenComplete ==
    ASSUME Complete, NEW h
    PROVE  /\ RouteFor(Installed, h) \in {TestRoute, ProdRoute}
           /\ AllowsPortal(ServiceOf(RouteFor(Installed, h)))
  <1>1. TestRoute \in Installed /\ ProdRoute \in Installed
    BY ObjectsAre DEF Complete
  <1>2. RouteFor(Installed, h) \in {TestRoute, ProdRoute}
    BY <1>1 DEF RouteFor
  <1>3. \A r : AllowsPortal(ServiceOf(r))
    BY DEF AllowsPortal, ServiceOf
  <1> QED
    BY <1>2, <1>3

LEMMA PreflightStep ==
    ASSUME EdgeInv, NEW c \in Clients, Preflight(c)
    PROVE  EdgeInv'
  <1> DEFINE pc == IF /\ RouteFor(Installed, Keyless) # None
                      /\ AllowsPortal(ServiceOf(RouteFor(Installed, Keyless)))
                   THEN "arrive" ELSE "blocked"
             k == [call[c] EXCEPT !.pc = pc]
  <1>1. call[c].pc = "preflight" /\ call' = [call EXCEPT ![c].pc = pc] /\ EdgeOnly
    BY DEF Preflight, Goes
  <1>2. pc \in {"arrive", "blocked"}
    OBVIOUS
  <1>3. Complete => pc = "arrive"
    BY RoutedWhenComplete DEF None, TestRoute, ProdRoute
  <1> HIDE DEF pc
  <1>4. k \in Calls /\ k = [call[c] EXCEPT !.pc = pc]
    BY <1>2, OfOne DEF Calls
  <1>5. /\ k.pc = pc /\ k.early = call[c].early
        /\ k.units = call[c].units /\ k.reached = call[c].reached
    BY OfOne DEF Calls
  <1>6. call' = [call EXCEPT ![c] = k]
    BY <1>1 DEF EdgeInv, EdgeTypeOK
  <1> HIDE DEF k
  <1>7. Sound(k)
    BY <1>1, <1>2, <1>3, <1>5, OfOne
       DEF Sound, NotEarly, Uncharged, Charged, WellRouted, WellReached, WellBlocked
  <1> QED
    BY <1>1, <1>4, <1>6, <1>7, OneCall

(* A key both sides read alike is sent down the route of its environment:  *)
(* the catch-all is not there without the test route.                      *)
LEMMA RoutedRight ==
    ASSUME EdgeInv, NEW h \in Headers, Unambiguous(h), Genuine(h),
           RouteFor(Installed, h) # None
    PROVE  EnvironmentOf(UpstreamOf(ServiceOf(RouteFor(Installed, h)))) = KeyOf(h).env
  <1>1. KeyOf(h) \in Texts \cup {NoText} /\ KeyOf(h).genuine
    BY DEF Genuine, KeyOf, Headers, Bearers, NoBearer
  <1>2. KeyOf(h).env \in {"live", "test"}
    BY <1>1 DEF Texts, NoText
  <1>3. LooksLikeTest(h) <=> KeyOf(h).env = "test"
    BY DEF LooksLikeTest, KeyOf, Unambiguous, Headers, Bearers, NoBearer, NoText, None
  <1>4. ProdRoute \in Installed => TestRoute \in Installed
    BY ObjectsAre DEF EdgeInv, InOrder, Installed
  <1>5. RouteFor(Installed, h) = IF KeyOf(h).env = "test" THEN TestRoute ELSE ProdRoute
    BY <1>3, <1>4 DEF RouteFor
  <1> QED
    BY <1>2, <1>5 DEF EnvironmentOf, UpstreamOf, ServiceOf, TestRoute, ProdRoute, TestService,
                      ProdService, Live, Mock

LEMMA ArriveStep ==
    ASSUME EdgeInv, NEW c \in Clients, Arrive(c)
    PROVE  EdgeInv'
  <1> DEFINE route == RouteFor(Installed, call[c].headers)
             k == [call[c] EXCEPT !.pc = IF route = None THEN "blocked" ELSE "auth",
                                  !.service = IF route = None THEN None ELSE ServiceOf(route)]
  <1>1. call[c].pc = "arrive" /\ EdgeOnly /\ call[c] \in Calls
    BY OfOne DEF Arrive
  <1>2. ServiceOf(route) \in {ProdService, TestService}
    BY DEF ServiceOf
  <1>3. k \in Calls
    BY <1>1, <1>2 DEF Calls
  <1>4. call' = [call EXCEPT ![c] = k]
    BY <1>1 DEF Arrive, EdgeInv, EdgeTypeOK
  <1>5. /\ k.pc = IF route = None THEN "blocked" ELSE "auth"
        /\ k.service = IF route = None THEN None ELSE ServiceOf(route)
        /\ k.early = call[c].early /\ k.headers = call[c].headers
        /\ k.units = call[c].units /\ k.reached = call[c].reached
    BY <1>1 DEF Calls
  <1>6. Complete => route # None
    BY RoutedWhenComplete DEF None, TestRoute, ProdRoute
  <1>7. call[c].headers \in Headers
    BY <1>1 DEF Calls
  <1>8. WellRouted(k)
    BY <1>5, <1>7, RoutedRight DEF WellRouted
  <1> HIDE DEF k, route
  <1>9. Sound(k)
    BY <1>1, <1>5, <1>6, <1>8, OfOne
       DEF Sound, NotEarly, Uncharged, Charged, WellReached, WellBlocked
  <1> QED
    BY <1>1, <1>3, <1>4, <1>9, OneCall

(* What the gateway has answered: the call goes on charged, or is refused. *)
LEMMA AuthStep ==
    ASSUME EdgeInv, NEW c \in Clients, EdgeOnly,
           NEW pc \in {"upstream", "refused"}, NEW units \in Nat,
           call[c].pc = "auth",
           call' = [call EXCEPT ![c].pc = pc, ![c].units = units],
           pc = "upstream" => Genuine(call[c].headers) /\ units > 0
    PROVE  EdgeInv'
  <1> DEFINE k == [call[c] EXCEPT !.pc = pc, !.units = units]
  <1>1. call[c] \in Calls
    BY OfOne
  <1>2. k \in Calls
    BY <1>1 DEF Calls
  <1>3. call' = [call EXCEPT ![c] = k]
    BY <1>1 DEF EdgeInv, EdgeTypeOK
  <1>4. /\ k.pc = pc /\ k.units = units /\ k.service = call[c].service
        /\ k.early = call[c].early /\ k.headers = call[c].headers
        /\ k.reached = call[c].reached
    BY <1>1 DEF Calls
  <1> HIDE DEF k
  <1>5. Sound(k)
    BY <1>4, OfOne
       DEF Sound, NotEarly, Uncharged, Charged, WellRouted, WellReached, WellBlocked
  <1> QED
    BY <1>2, <1>3, <1>5, OneCall

LEMMA UnchargedAtAuth ==
    ASSUME EdgeInv, NEW c \in Clients, call[c].pc = "auth"
    PROVE  call[c].units = 0 /\ call \in [Clients -> Calls]
  BY DEF EdgeInv, EdgeTypeOK, Sound, Uncharged

LEMMA AllowStep ==
    ASSUME EdgeInv, NEW c \in Clients, NEW units \in Nat, NEW limited \in BOOLEAN,
           Allow(c, units, limited)
    PROVE  EdgeInv'
  <1> DEFINE pc == IF limited THEN "refused" ELSE "upstream"
  <1>1. /\ call[c].pc = "auth" /\ EdgeOnly
        /\ Genuine(call[c].headers) /\ units > 0
        /\ call' = [call EXCEPT ![c].pc = pc, ![c].units = units]
    BY DEF Allow
  <1> QED
    BY <1>1, AuthStep

LEMMA DenyStep ==
    ASSUME EdgeInv, NEW c \in Clients, Deny(c)
    PROVE  EdgeInv'
  <1>1. call[c].pc = "auth" /\ EdgeOnly /\ call' = [call EXCEPT ![c].pc = "refused"]
    BY DEF Deny, Goes
  <1>2. call' = [call EXCEPT ![c].pc = "refused", ![c].units = 0]
    BY <1>1, UnchargedAtAuth DEF Calls
  <1> QED
    BY <1>1, <1>2, AuthStep

LEMMA AuthTimesOutStep ==
    ASSUME EdgeInv, NEW c \in Clients, NEW units \in Nat, AuthTimesOut(c, units)
    PROVE  EdgeInv'
  <1>1. /\ call[c].pc = "auth" /\ EdgeOnly
        /\ call' = [call EXCEPT ![c].pc = "refused", ![c].units = units]
    BY DEF AuthTimesOut
  <1> QED
    BY <1>1, AuthStep

LEMMA AskGatewayStep ==
    ASSUME EdgeInv, NEW c \in Clients, AskGateway(c)
    PROVE  EdgeInv'
  <1>1. 0 .. MaxCharges \subseteq Nat
    BY EdgeAssumption
  <1> QED
    BY <1>1, DenyStep, AllowStep, AuthTimesOutStep DEF AskGateway

(* The call gets to the upstream of its service, or not.                   *)
LEMMA UpstreamStep ==
    ASSUME EdgeInv, NEW c \in Clients, EdgeOnly,
           NEW pc \in {"answered", "refused"},
           NEW reached \in {EnvironmentOf(UpstreamOf(call[c].service)), None},
           call[c].pc = "upstream",
           call' = [call EXCEPT ![c].pc = pc, ![c].reached = reached]
    PROVE  EdgeInv'
  <1> DEFINE k == [call[c] EXCEPT !.pc = pc, !.reached = reached]
  <1>1. call[c] \in Calls /\ Sound(call[c])
    BY OfOne
  <1>2. reached \in {"live", "test", None}
    BY DEF EnvironmentOf
  <1>3. k \in Calls
    BY <1>1, <1>2 DEF Calls
  <1>4. call' = [call EXCEPT ![c] = k]
    BY <1>1 DEF EdgeInv, EdgeTypeOK
  <1>5. /\ k.pc = pc /\ k.reached = reached /\ k.service = call[c].service
        /\ k.early = call[c].early /\ k.headers = call[c].headers
        /\ k.units = call[c].units
    BY <1>1 DEF Calls
  <1> HIDE DEF k
  <1>6. /\ Genuine(k.headers) /\ k.units > 0
        /\ reached # None /\ Unambiguous(k.headers) => k.reached = KeyOf(k.headers).env
    BY <1>1, <1>5 DEF Sound, Charged, WellRouted
  <1>7. Sound(k)
    BY <1>1, <1>5, <1>6
       DEF Sound, NotEarly, Uncharged, Charged, WellRouted, WellReached, WellBlocked
  <1> QED
    BY <1>3, <1>4, <1>7, OneCall

LEMMA ForwardStep ==
    ASSUME EdgeInv, NEW c \in Clients, Forward(c)
    PROVE  EdgeInv'
  BY UpstreamStep DEF Forward

LEMMA UpstreamFailsStep ==
    ASSUME EdgeInv, NEW c \in Clients, NEW there \in BOOLEAN, UpstreamFails(c, there)
    PROVE  EdgeInv'
  <1> DEFINE reached == IF there THEN EnvironmentOf(UpstreamOf(call[c].service)) ELSE None
  <1>1. /\ call[c].pc = "upstream" /\ EdgeOnly
        /\ call' = [call EXCEPT ![c].pc = "refused", ![c].reached = reached]
    BY DEF UpstreamFails
  <1> QED
    BY <1>1, UpstreamStep
-----------------------------------------------------------------------------
LEMMA EdgeSteps == EdgeInv /\ [EdgeNext]_edgeVars => EdgeInv'
  <1> SUFFICES ASSUME EdgeInv, [EdgeNext]_edgeVars PROVE EdgeInv'
    OBVIOUS
  <1>1. CASE EditFile \/ Sync
    BY <1>1, SyncSteps
  <1>2. ASSUME NEW c \in Clients, \E h \in Headers, asks \in BOOLEAN : Send(c, h, asks)
        PROVE  EdgeInv'
    BY <1>2, SendStep
  <1>3. ASSUME NEW c \in Clients, Proxied(c) PROVE EdgeInv'
    BY <1>3, PreflightStep, ArriveStep, AskGatewayStep, ForwardStep, UpstreamFailsStep
       DEF Proxied
  <1>4. ASSUME NEW c \in Clients, Leave(c) \/ GiveUp(c) PROVE EdgeInv'
    BY <1>4, EndStep
  <1>5. CASE UNCHANGED edgeVars
    BY <1>5 DEF edgeVars, EdgeInv, EdgeTypeOK, InOrder, Sound, NotEarly, Uncharged, Charged,
                WellRouted, WellReached, WellBlocked, Complete, Installed
  <1> QED
    BY <1>1, <1>2, <1>3, <1>4, <1>5 DEF EdgeNext

LEMMA EdgeInvariant == EdgeSpec => []EdgeInv
  BY InitEdge, EdgeSteps, PTL DEF EdgeSpec

(* The state of the edge keeps its type, PUTs that fail or not.            *)
THEOREM EdgeTyped == EdgeSpec => []EdgeTypeOK
  <1>1. EdgeInv => EdgeTypeOK
    BY DEF EdgeInv
  <1> QED
    BY <1>1, EdgeInvariant, PTL

(* A synchronisation that stops at any PUT, and is run again for any later *)
(* version of the file, leaves no route without its service and no service *)
(* without its upstream.                                                   *)
THEOREM RoutesLeadSomewhere == EdgeSpec => []NothingDangles
  <1>1. EdgeInv => NothingDangles
    BY ObjectsAre
       DEF EdgeInv, InOrder, NothingDangles, Installed, ServiceOf, UpstreamOf, TestRoute,
           ProdRoute, TestService, ProdService, Live, Mock
  <1> QED
    BY <1>1, EdgeInvariant, PTL

(* A key reaches the upstream of its own environment, however many calls,  *)
(* edits and failed synchronisations there are.                            *)
THEOREM EnvironmentsApart == EdgeSpec => []KeysStayInTheirEnvironment
  <1>1. EdgeInv => KeysStayInTheirEnvironment
    BY DEF EdgeInv, Sound, WellReached, KeysStayInTheirEnvironment
  <1> QED
    BY <1>1, EdgeInvariant, PTL

(* Nothing reaches an upstream without an issued key, charged before it    *)
(* goes on: once, or as often as Redis runs the INCR.                      *)
THEOREM FailsClosed == EdgeSpec => []ReachedOnlyCharged
  <1>1. EdgeInv => ReachedOnlyCharged
    BY DEF EdgeInv, Sound, WellReached, ReachedOnlyCharged
  <1> QED
    BY <1>1, EdgeInvariant, PTL

(* A page's call with a sandbox key is not blocked once all the objects    *)
(* have been put.                                                          *)
THEOREM PortalGetsThrough == EdgeSpec => []SandboxCallsGetThrough
  <1>1. EdgeInv => SandboxCallsGetThrough
    BY DEF EdgeInv, Sound, WellBlocked, SandboxCallsGetThrough
  <1> QED
    BY <1>1, EdgeInvariant, PTL
=============================================================================
