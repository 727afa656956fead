-------------------------------- MODULE Edge --------------------------------
(***************************************************************************)
(* APISIX between the clients, the gateway and the two Mustang upstreams,  *)
(* while sync-apisix.mjs writes the topology of services.json into it.     *)
(*                                                                         *)
(* An object is in use once its PUT has been made.  One synchronisation    *)
(* runs at a time; whoever edits the file, or sees a run fail, runs it     *)
(* (again).  A call is routed once, by what is on the server as it         *)
(* arrives, and goes on from there.                                        *)
(***************************************************************************)
EXTENDS Topology

CONSTANTS
    Clients,                \* who may have a call under way
    MaxCharges,             \* bound: how often the INCR of one call is run
    MaxVersion,             \* bound: versions of the file
    MaxPutFailures          \* bound: PUTs that fail, or whose answer is lost

ASSUME EdgeAssumption ==
    /\ MaxCharges \in Nat \ {0} /\ MaxVersion \in Nat \ {0}
    /\ MaxPutFailures \in Nat

Versions == 1 .. MaxVersion         \* the file as it is edited

VARIABLES
    declared,               \* the version of services.json on disk
    server,                 \* server[o]: the version of object o APISIX has, or 0
    config,                 \* the version the running synchronisation read
    next,                   \* the PUT it makes next, or 0: none runs
    due,                    \* a run is due
    failures,
    call                    \* call[c]: the call c has under way

syncVars == <<declared, config, due, failures>>
edgeVars == <<declared, server, config, next, due, failures, call>>

(* main(): upstreams, then services, then routes.                          *)
RoutesFirst == Routes \o Services \o Upstreams             \* mutant: references before their objects
PutOrder == Upstreams \o Services \o Routes
Objects == {PutOrder[i] : i \in DOMAIN PutOrder}

Installed == {o \in Objects : server[o] # 0}
Complete == Installed = Objects

NoCall == [pc |-> "idle", headers |-> Keyless, service |-> None,
           units |-> 0, reached |-> None, early |-> FALSE]
-----------------------------------------------------------------------------
(* Nothing is deployed yet, or all of it.                                  *)
EdgeInit ==
    /\ declared = 1 /\ config = 1 /\ next = 0 /\ failures = 0
    /\ due \in BOOLEAN
    /\ server = [o \in Objects |-> IF due THEN 0 ELSE 1]
    /\ call = [c \in Clients |-> NoCall]

EditFile ==
    /\ declared < MaxVersion
    /\ declared' = declared + 1
    /\ due' = TRUE
    /\ UNCHANGED <<server, config, next, failures, call>>

(* node sync-apisix.mjs: the file is read once.                            *)
StartSync ==
    /\ next = 0 /\ due
    /\ next' = 1
    /\ config' = declared
    /\ due' = FALSE
    /\ UNCHANGED <<declared, server, failures, call>>

WrittenIfNew ==                                            \* mutant: POST, not PUT
    [server EXCEPT ![PutOrder[next]] = IF @ = 0 THEN config ELSE @]
Written == [server EXCEPT ![PutOrder[next]] = config]

PutBeyond ==                                               \* mutant: one step too many
    /\ next # 0
    /\ server' = Written
    /\ next' = IF next > Len(PutOrder) THEN 0 ELSE next + 1
    /\ UNCHANGED <<syncVars, call>>
Put ==
    /\ next # 0
    /\ server' = Written
    /\ next' = IF next = Len(PutOrder) THEN 0 ELSE next + 1
    /\ UNCHANGED <<syncVars, call>>

(* put() throws and the run ends there, the object written or not.         *)
PutFails(applied) ==
    /\ next # 0 /\ failures < MaxPutFailures
    /\ failures' = failures + 1
    /\ server' = IF applied THEN Written ELSE server
    /\ next' = 0
    /\ due' = TRUE
    /\ UNCHANGED <<declared, config, call>>
-----------------------------------------------------------------------------
Goes(c, pc) == call' = [call EXCEPT ![c].pc = pc]
EdgeOnly == UNCHANGED <<declared, server, config, next, due, failures>>

(* A browser asks leave first; curl does not.                              *)
Send(c, headers, asks) ==
    /\ call[c].pc = "idle"
    /\ call' = [call EXCEPT ![c] = [NoCall EXCEPT
                    !.pc = IF asks THEN "preflight" ELSE "arrive",
                    !.headers = headers, !.early = ~Complete]]
    /\ EdgeOnly

(* OPTIONS carries no key, so the catch-all gets it; cors answers it.      *)
Preflight(c) ==
    LET route == RouteFor(Installed, Keyless) IN
    /\ call[c].pc = "preflight"
    /\ Goes(c, IF route # None /\ AllowsPortal(ServiceOf(route)) THEN "arrive" ELSE "blocked")
    /\ EdgeOnly

(* Without a route: 404, with nothing on it that lets a page read it.      *)
Arrive(c) ==
    LET route == RouteFor(Installed, call[c].headers) IN
    /\ call[c].pc = "arrive"
    /\ call' = [call EXCEPT
                    ![c].pc = IF route = None THEN "blocked" ELSE "auth",
                    ![c].service = IF route = None THEN None ELSE ServiceOf(route)]
    /\ EdgeOnly

(* forward-auth: the gateway charges the call (auth.service.ts:166) and    *)
(* lets it on, the INCR run again where Redis' answer to it was lost       *)
(* (redis.module.ts:21); limit-count, which comes after, may still refuse. *)
Allow(c, units, limited) ==
    /\ call[c].pc = "auth"
    /\ Genuine(call[c].headers) /\ units > 0
    /\ limited => LimitedByIp(call[c].service)
    /\ call' = [call EXCEPT ![c].pc = IF limited THEN "refused" ELSE "upstream",
                            ![c].units = units]
    /\ EdgeOnly

(* 401, 403 or 429 of the gateway, relayed: any call may meet a limit.     *)
Deny(c) ==
    /\ call[c].pc = "auth"
    /\ Goes(c, "refused")
    /\ EdgeOnly

(* No answer within 3 s, or none at all: 503.  What the gateway was asked  *)
(* it may do all the same, wholly, in part or not.                         *)
AuthTimesOutOpen(c, units) ==                              \* mutant: allow_degradation
    /\ call[c].pc = "auth"
    /\ units > 0 => Genuine(call[c].headers)
    /\ call' = [call EXCEPT ![c].pc = "upstream", ![c].units = units]
    /\ EdgeOnly
AuthTimesOut(c, units) ==
    /\ call[c].pc = "auth"
    /\ units > 0 => Genuine(call[c].headers)
    /\ call' = [call EXCEPT ![c].pc = "refused", ![c].units = units]
    /\ EdgeOnly

(* The upstream of the service answers, or 502 or 504 stands for its       *)
(* answer, whether or not the call got there.                              *)
Forward(c) ==
    /\ call[c].pc = "upstream"
    /\ call' = [call EXCEPT ![c].pc = "answered",
                            ![c].reached = EnvironmentOf(UpstreamOf(call[c].service))]
    /\ EdgeOnly
UpstreamFails(c, there) ==
    /\ call[c].pc = "upstream"
    /\ call' = [call EXCEPT ![c].pc = "refused",
                            ![c].reached = IF there
                                           THEN EnvironmentOf(UpstreamOf(call[c].service))
                                           ELSE None]
    /\ EdgeOnly

(* The client has what there is to have.                                   *)
Leave(c) ==
    /\ call[c].pc \in {"answered", "refused", "blocked"}
    /\ call' = [call EXCEPT ![c] = NoCall]
    /\ EdgeOnly

(* The connection breaks before the call arrives or with its answer under  *)
(* way; one that breaks in between has its answer lost.                    *)
GiveUp(c) ==
    /\ call[c].pc \in {"preflight", "arrive", "answered", "refused"}
    /\ call' = [call EXCEPT ![c] = NoCall]
    /\ EdgeOnly
-----------------------------------------------------------------------------
Sync == StartSync \/ Put \/ \E applied \in BOOLEAN : PutFails(applied)

AskGateway(c) ==
    \/ Deny(c)
    \/ \E units \in 0 .. MaxCharges :
          AuthTimesOut(c, units) \/ \E limited \in BOOLEAN : Allow(c, units, limited)

Proxied(c) ==
    \/ Preflight(c) \/ Arrive(c) \/ AskGateway(c)
    \/ Forward(c) \/ \E there \in BOOLEAN : UpstreamFails(c, there)

EdgeNext ==
    \/ EditFile \/ Sync
    \/ \E c \in Clients :
          \/ \E h \in Headers, asks \in BOOLEAN : Send(c, h, asks)
          \/ Proxied(c)
          \/ Leave(c) \/ GiveUp(c)

EdgeSpec == EdgeInit /\ [][EdgeNext]_edgeVars
-----------------------------------------------------------------------------
Calls ==
    [pc : {"idle", "preflight", "arrive", "auth", "upstream", "answered", "refused", "blocked"},
     headers : Headers, service : {ProdService, TestService, None},
     units : Nat, reached : {"live", "test", None}, early : BOOLEAN]

EdgeTypeOK ==
    /\ declared \in Versions /\ config \in Versions
    /\ server \in [Objects -> Versions \cup {0}]
    /\ next \in 0 .. Len(PutOrder)
    /\ due \in BOOLEAN /\ failures \in Nat
    /\ call \in [Clients -> Calls]

(* Whatever PUT failed and wherever a run stopped, a route APISIX has      *)
(* leads to a service it has, and that to an upstream it has: there is no  *)
(* moment of a synchronisation at which a call runs into nothing.          *)
NothingDangles ==
    /\ \A r \in {TestRoute, ProdRoute} : r \in Installed => ServiceOf(r) \in Installed
    /\ \A s \in {ProdService, TestService} : s \in Installed => UpstreamOf(s) \in Installed

(* "gw_live_* keys only", "gw_test_* keys only" (services.json): a call    *)
(* whose key both sides read alike reaches the upstream of that key's      *)
(* environment or none - during the first synchronisation too, when one    *)
(* route is there and the other is not.                                    *)
KeysStayInTheirEnvironment ==
    \A c \in Clients :
        call[c].reached # None /\ Unambiguous(call[c].headers) =>
            call[c].reached = KeyOf(call[c].headers).env

(* forward-auth fails closed: what reaches an upstream carries a key that  *)
(* was issued and has been charged - once, or oftener where Redis ran the  *)
(* INCR again -, whichever route the edge chose by the look of it and      *)
(* whatever timed out on the way.  The converse does not hold: a call that *)
(* is charged may time out, meet limit-count or find its upstream broken.  *)
ReachedOnlyCharged ==
    \A c \in Clients :
        call[c].reached # None => Genuine(call[c].headers) /\ call[c].units > 0

(* A sandbox key gets the portal's calls through the browser's checks,     *)
(* although the preflight, which carries no key, is for the live service   *)
(* to answer ("//cors-priority", services.json), but for calls begun       *)
(* before a first synchronisation had put all of the objects there.  Of    *)
(* live keys, which the documents say are blocked, nothing is claimed.     *)
SandboxCallsGetThrough ==
    \A c \in Clients :
        call[c].pc = "blocked" /\ KeyOf(call[c].headers).env = "test" => call[c].early

(* "re-running after editing services.json converges the server to match   *)
(* the file" (sync-apisix.mjs:4): for objects that are added or changed.   *)
ServerConverges == <>[](\A o \in Objects : server[o] = declared)
=============================================================================
