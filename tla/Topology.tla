------------------------------ MODULE Topology ------------------------------
(***************************************************************************)
(* What infra/apisix/services.json declares, and how APISIX reads it: two  *)
(* upstreams, a service in front of each, and two routes on the same path, *)
(* of which the key that a call carries picks one.  Constants only.        *)
(*                                                                         *)
(* Of a key the edge and the gateway look at its gw_{env}_ prefix; whether *)
(* the rest of it is a key that was issued is `genuine`.                   *)
(***************************************************************************)
EXTENDS Integers, Sequences, FiniteSets

None == "none"              \* a header that is not sent, an object that is not there

Live == "mustang-prod-upstream"
Mock == "mustang-mock-upstream"
ProdService == "mustang-mock-prod"
TestService == "mustang-mock-test"
TestRoute == "mustang-test-route"
ProdRoute == "mustang-prod-route"

\* In the order of the file.
RoutesSwapped == <<ProdRoute, TestRoute>>                  \* mutant: the catch-all first
Upstreams == <<Live, Mock>>
Services == <<ProdService, TestService>>
Routes == <<TestRoute, ProdRoute>>

UpstreamOf(service) == IF service = TestService THEN Mock ELSE Live
ServiceOf(route) == IF route = TestRoute THEN TestService ELSE ProdService

(* Where a call that reaches an upstream has arrived.                      *)
EnvironmentOf(upstream) == IF upstream = Mock THEN "test" ELSE "live"

(* cors stands before forward-auth (priority 10000) on either service and  *)
(* allows the portal's origin; only the sandbox is limited by IP.          *)
AllowsPortal(service) == service \in {ProdService, TestService}
LimitedByIp(service) == service = TestService
-----------------------------------------------------------------------------
Texts == {[env |-> "live", genuine |-> TRUE], [env |-> "live", genuine |-> FALSE],
          [env |-> "test", genuine |-> TRUE], [env |-> "test", genuine |-> FALSE],
          [env |-> "other", genuine |-> FALSE]}
NoText == [env |-> None, genuine |-> FALSE]

(* The scheme of Authorization as the route's pattern and as the gateway's *)
(* tell it apart; None where there is no header, or none of the kind.      *)
NoBearer == [scheme |-> None, key |-> NoText]
Bearers == [scheme : {"Bearer", "bearer"}, key : Texts]
Headers == [authorization : Bearers \cup {NoBearer}, apikey : Texts \cup {NoText}]
Keyless == [authorization |-> NoBearer, apikey |-> NoText]

(* The vars of the test route: `^gw_test_` in apikey, `^Bearer\s+gw_test_` *)
(* in Authorization, both of them case-sensitive.                          *)
LooksLikeTest(h) ==
    \/ h.apikey.env = "test"
    \/ h.authorization.scheme = "Bearer" /\ h.authorization.key.env = "test"

(* The test route has priority 10, the catch-all 0.                        *)
RouteByApikeyAlone(installed, h) ==                        \* mutant: no test of Authorization
    IF TestRoute \in installed /\ h.apikey.env = "test" THEN TestRoute
    ELSE IF ProdRoute \in installed THEN ProdRoute ELSE None
RouteByKeyAlone(installed, h) ==                           \* mutant: "gw_live_* keys only"
    IF TestRoute \in installed /\ LooksLikeTest(h) THEN TestRoute
    ELSE IF ProdRoute \in installed /\ h # Keyless THEN ProdRoute ELSE None
RouteFor(installed, h) ==
    IF TestRoute \in installed /\ LooksLikeTest(h) THEN TestRoute
    ELSE IF ProdRoute \in installed THEN ProdRoute ELSE None

(* AuthService.extractKey: Authorization first, whatever the case of its   *)
(* scheme, then apikey.                                                    *)
KeyOf(h) ==
    IF h.authorization.scheme \in {"Bearer", "bearer"} THEN h.authorization.key ELSE h.apikey
Genuine(h) == KeyOf(h).genuine

(* One key, in a header both sides read alike.                             *)
Unambiguous(h) ==
    \/ h.authorization.scheme = "Bearer" /\ h.apikey = NoText
    \/ h.authorization = NoBearer /\ h.apikey # NoText
=============================================================================
