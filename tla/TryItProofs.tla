---------------------------- MODULE TryItProofs ----------------------------
(***************************************************************************)
(* What holds of the page, the edge and the sandbox together for any       *)
(* panels, clients, files and instances: the page is a use of the edge,    *)
(* and what the panels show and the sandbox stores stays accounted for.    *)
(***************************************************************************)
EXTENDS TryIt, EdgeProofs

(* What is pasted is a text that may be pasted.                            *)
Pasted == instance \in Instances /\ apiKey \in instance.pasted \cup {NoText}

LEMMA PastedInvariant == Spec => []Pasted
  <1>1. Init => Pasted
    BY DEF Init, Pasted
  <1>2. Pasted /\ [Next]_vars => Pasted'
    <2> SUFFICES ASSUME Pasted, [Next]_vars PROVE Pasted'
      OBVIOUS
    <2>1. ASSUME NEW text \in instance.pasted, Paste(text) PROVE Pasted'
      BY <2>1 DEF Paste, Pasted
    <2>2. ASSUME NEW p \in Panels, PanelStep(p) PROVE UNCHANGED <<instance, apiKey>>
      BY <2>2 DEF PanelStep, AtTheEdge, pageVars, Upstream, HeadersCome, BodyRead, FetchBlocked
    <2>3. ASSUME NEW p \in Panels, SubmitNoKey(p) \/ Submit(p) \/ ConnectionCut(p)
                                   \/ \E there \in BOOLEAN : UpstreamBreaks(p, there)
          PROVE  UNCHANGED <<instance, apiKey>>
      BY <2>3 DEF SubmitNoKey, Submit, ConnectionCut, UpstreamBreaks
    <2>4. ASSUME NEW c \in Others, Curl(c) \/ AtTheEdge(c) \/ CurlAnswered(c)
          PROVE  UNCHANGED <<instance, apiKey>>
      BY <2>4 DEF Curl, AtTheEdge, CurlAnswered, pageVars
    <2>5. CASE Deploy \/ RestartSandbox \/ LeavePage
      BY <2>5 DEF Deploy, RestartSandbox, LeavePage, pageVars, Pasted
    <2>6. CASE UNCHANGED vars
      BY <2>6 DEF vars, pageVars, Pasted
    <2>7. CASE UNCHANGED <<instance, apiKey>>
      BY <2>7 DEF Pasted
    <2> QED
      BY <2>1, <2>2, <2>3, <2>4, <2>5, <2>6, <2>7 DEF Next
  <1> QED
    BY <1>1, <1>2, PTL DEF Spec
-----------------------------------------------------------------------------
(* Whatever the page does, the edge takes one of its own steps or none.    *)

LEMMA SubmitAtEdge ==
    ASSUME Pasted, NEW p \in Panels, Submit(p) PROVE EdgeNext
  <1> DEFINE h == [authorization |-> [scheme |-> "Bearer", key |-> apiKey], apikey |-> NoText]
  <1>1. apiKey \in Texts
    BY TryItAssumption DEF Pasted, Submit
  <1>2. h \in Headers
    BY <1>1 DEF Headers, Bearers
  <1>3. Send(p, h, TRUE)
    BY DEF Submit
  <1> QED
    BY <1>2, <1>3, TryItAssumption DEF EdgeNext

LEMMA PanelAtEdge ==
    ASSUME NEW p \in Panels, PanelStep(p) PROVE [EdgeNext]_edgeVars
  <1>0. p \in Clients
    BY TryItAssumption
  <1>1. CASE AtTheEdge(p)
    BY <1>0, <1>1 DEF AtTheEdge, AskGateway, EdgeNext, Proxied
  <1>2. CASE Upstream(p)
    BY <1>0, <1>2 DEF Upstream, EdgeNext, Proxied
  <1>3. CASE HeadersCome(p)
    BY <1>0, <1>3 DEF HeadersCome, EdgeNext
  <1>4. CASE BodyRead(p)
    BY <1>4 DEF BodyRead
  <1>5. CASE FetchBlocked(p)
    BY <1>0, <1>5 DEF FetchBlocked, EdgeNext
  <1> QED
    BY <1>1, <1>2, <1>3, <1>4, <1>5 DEF PanelStep

LEMMA BreakAtEdge ==
    ASSUME NEW p \in Panels, ConnectionCut(p) \/ \E there \in BOOLEAN : UpstreamBreaks(p, there)
    PROVE  [EdgeNext]_edgeVars
  <1>0. p \in Clients
    BY TryItAssumption
  <1>1. CASE ConnectionCut(p)
    BY <1>0, <1>1 DEF ConnectionCut, EdgeNext
  <1>2. ASSUME NEW there \in BOOLEAN, UpstreamBreaks(p, there) PROVE EdgeNext
    BY <1>0, <1>2 DEF UpstreamBreaks, EdgeNext, Proxied
  <1> QED
    BY <1>1, <1>2

LEMMA CurlAtEdge ==
    ASSUME Pasted, NEW c \in Others, Curl(c) \/ AtTheEdge(c) \/ CurlAnswered(c)
    PROVE  EdgeNext
  <1>0. c \in Clients
    BY TryItAssumption
  <1>1. CASE Curl(c)
    <2>1. instance.curled \subseteq Headers
      BY TryItAssumption DEF Pasted
    <2> QED
      BY <1>0, <1>1, <2>1 DEF Curl, EdgeNext
  <1>2. CASE AtTheEdge(c)
    BY <1>0, <1>2 DEF AtTheEdge, AskGateway, EdgeNext, Proxied
  <1>3. CASE CurlAnswered(c)
    BY <1>0, <1>3 DEF CurlAnswered, EdgeNext, Proxied
  <1> QED
    BY <1>1, <1>2, <1>3

LEMMA StepAtEdge == Pasted /\ [Next]_vars => [EdgeNext]_edgeVars
  <1> SUFFICES ASSUME Pasted, [Next]_vars PROVE [EdgeNext]_edgeVars
    OBVIOUS
  <1>1. CASE Deploy
    BY <1>1 DEF Deploy, EdgeNext
  <1>2. CASE RestartSandbox \/ LeavePage \/ \E text \in instance.pasted : Paste(text)
    BY <1>2 DEF RestartSandbox, LeavePage, Paste
  <1>3. ASSUME NEW p \in Panels, SubmitNoKey(p) PROVE UNCHANGED edgeVars
    BY <1>3 DEF SubmitNoKey
  <1>4. CASE UNCHANGED vars
    BY <1>4 DEF vars
  <1> QED
    BY <1>1, <1>2, <1>3, <1>4, SubmitAtEdge, PanelAtEdge, BreakAtEdge, CurlAtEdge DEF Next

(* The page, curl and the deployment use the edge as any client may: what  *)
(* EdgeProofs shows of EdgeSpec holds of the composition.                  *)
THEOREM PageUsesEdge == Spec => EdgeSpec
  <1>1. Init => EdgeInit
    BY DEF Init
  <1> QED
    BY <1>1, StepAtEdge, PastedInvariant, PTL DEF Spec, EdgeSpec

(* So with the page in use, too, no route dangles, keys stay in their      *)
(* environment, nothing reaches an upstream uncharged and no call with a   *)
(* sandbox key is blocked once all is deployed.                            *)
THEOREM PageKeepsEdgeSafe ==
    Spec => [](NothingDangles /\ KeysStayInTheirEnvironment
               /\ ReachedOnlyCharged /\ SandboxCallsGetThrough)
  BY PageUsesEdge, RoutesLeadSomewhere, EnvironmentsApart, FailsClosed, PortalGetsThrough, PTL
-----------------------------------------------------------------------------
(* Of one panel: it is a record of its fields; its URLs are its own; while *)
(* a fetch is under way it shows none, the one it made last goes when the  *)
(* headers come, and it was made while the page was there.                 *)
Shaped(k) ==
    /\ DOMAIN k = DOMAIN Fresh
    /\ DOMAIN k.result = DOMAIN NoResult /\ DOMAIN k.response = DOMAIN NoResult
Owned(p, k) == k.last # NoUrl => k.last[1] = p
Pending(k) ==
    /\ k.step = "body" => k.last = NoUrl
    /\ k.step = "fetch" => k.last \notin late
Shown(k) == mounted /\ k.result.url # NoUrl => k.step = "idle" /\ k.result.url = k.last

Tidy(p, k) == Shaped(k) /\ Owned(p, k) /\ Pending(k) /\ Shown(k)

PageInv ==
    /\ DOMAIN panel = Panels
    /\ \A p \in Panels : Tidy(p, panel[p])
    /\ NoUrl \notin late /\ (mounted => late = {})
    /\ UrlsReleased

LEMMA Fields ==
    /\ DOMAIN Fresh = {"loading", "error", "result", "last", "made", "step", "response", "file",
                       "key", "wellFormed"}
    /\ DOMAIN NoResult = {"status", "type", "content", "filename", "kind", "file", "url"}
    /\ NoResult.url = NoUrl
  BY DEF Fresh, NoResult

LEMMA UrlsDiffer ==
    \A p, n : <<p, n>> # NoUrl /\ <<p, n>>[1] = p
  BY DEF NoUrl

LEMMA InitPage == Init => PageInv
  <1> SUFFICES ASSUME Init PROVE PageInv
    OBVIOUS
  <1> QED
    BY Fields DEF Init, PageInv, Tidy, Shaped, Owned, Pending, Shown, UrlsReleased, Fresh, NoResult

(* A panel that takes a step without touching the URLs.                    *)
LEMMA OnePanel ==
    ASSUME PageInv, NEW p \in Panels, NEW k, Tidy(p, k), k.last = panel[p].last,
           panel' = [panel EXCEPT ![p] = k], UNCHANGED <<mounted, urls, late>>
    PROVE  PageInv'
  <1>1. \A q \in Panels : panel'[q] = IF q = p THEN k ELSE panel[q]
    BY DEF PageInv
  <1>2. DOMAIN panel' = Panels
    BY DEF PageInv
  <1>3. \A q \in Panels : Tidy(q, panel[q])'
    BY <1>1 DEF PageInv, Tidy, Shaped, Owned, Pending, Shown
  <1>4. \A q \in Panels : panel'[q].last = panel[q].last
    BY <1>1
  <1>5. UrlsReleased'
    BY <1>4 DEF PageInv, UrlsReleased
  <1> QED
    BY <1>2, <1>3, <1>5 DEF PageInv

LEMMA OfPanel ==
    ASSUME PageInv, NEW p \in Panels
    PROVE  Tidy(p, panel[p]) /\ p \in DOMAIN panel
  BY DEF PageInv

LEMMA SubmitNoKeyStep ==
    ASSUME PageInv, NEW p \in Panels, SubmitNoKey(p) PROVE PageInv'
  <1> DEFINE k == [panel[p] EXCEPT !.error = "no key"]
  <1>1. Tidy(p, k) /\ k.last = panel[p].last
    BY OfPanel, Fields DEF Tidy, Shaped, Owned, Pending, Shown
  <1>2. panel' = [panel EXCEPT ![p] = k] /\ UNCHANGED <<mounted, urls, late>>
    BY OfPanel DEF SubmitNoKey
  <1> HIDE DEF k
  <1> QED
    BY <1>1, <1>2, OnePanel

LEMMA SubmitStep ==
    ASSUME PageInv, NEW p \in Panels, Submit(p) PROVE PageInv'
  <1>1. PICK f, key, wf : panel' = [panel EXCEPT ![p] = Sending(p, f, key, wf)]
    BY DEF Submit
  <1> DEFINE k == Sending(p, f, key, wf)
  <1>2. mounted /\ UNCHANGED <<mounted, urls, late>>
    BY DEF Submit
  <1>3. Tidy(p, k) /\ k.last = panel[p].last
    BY <1>2, OfPanel, Fields DEF PageInv, Sending, Tidy, Shaped, Owned, Pending, Shown
  <1> HIDE DEF k
  <1> QED
    BY <1>1, <1>2, <1>3, OnePanel DEF k

(* What is answered to a panel is none of what it shows.                   *)
LEMMA AnswerStep ==
    ASSUME PageInv, NEW p \in Panels, NEW r, DOMAIN r = DOMAIN NoResult,
           panel' = [panel EXCEPT ![p].response = r], UNCHANGED <<mounted, urls, late>>
    PROVE  PageInv'
  <1> DEFINE k == [panel[p] EXCEPT !.response = r]
  <1>1. Tidy(p, k) /\ k.last = panel[p].last
    BY OfPanel, Fields DEF Tidy, Shaped, Owned, Pending, Shown
  <1>2. panel' = [panel EXCEPT ![p] = k]
    BY OfPanel
  <1> HIDE DEF k
  <1> QED
    BY <1>1, <1>2, OnePanel

LEMMA RespondStep ==
    ASSUME PageInv, NEW p \in Panels, NEW s, NEW t, NEW content, NEW name, NEW f,
           Respond(p, s, t, content, name, f), UNCHANGED <<mounted, urls, late>>
    PROVE  PageInv'
  <1> DEFINE r == [NoResult EXCEPT !.status = s, !.type = t, !.content = content,
                                   !.filename = name, !.file = f]
  <1>1. DOMAIN r = DOMAIN NoResult
    OBVIOUS
  <1>2. panel' = [panel EXCEPT ![p].response = r]
    BY DEF Respond
  <1> HIDE DEF r
  <1> QED
    BY <1>1, <1>2, AnswerStep

LEMMA ServeCases ==
    ASSUME NEW p \in Panels, Serve(p)
    PROVE  \/ StoreFile(p) \/ ReadFile(p) \/ DeleteFile(p)
           \/ UNCHANGED mockVars /\ (Succeed(p) \/ Reject(p, 404) \/ Reject(p, 400))
  <1>1. CASE ~IsServed(endpoint[p])
    BY <1>1 DEF Serve
  <1>2. CASE endpoint[p] = S3Upload
    BY <1>1, <1>2 DEF Serve
  <1> QED
    BY <1>1, <1>2, Zenon DEF Serve

LEMMA ServeStep ==
    ASSUME PageInv, NEW p \in Panels, Serve(p) \/ ServeLive(p), UNCHANGED <<mounted, urls, late>>
    PROVE  PageInv'
  <1>1. CASE ServeLive(p)
    BY <1>1, RespondStep DEF ServeLive
  <1>2. ASSUME Succeed(p) PROVE PageInv'
    BY <1>2, RespondStep DEF Succeed
  <1>3. ASSUME NEW status, Reject(p, status) PROVE PageInv'
    BY <1>3, RespondStep DEF Reject
  <1>4. ASSUME ReadFile(p) PROVE PageInv'
    <2>1. CASE \E o \in store : o.key = panel[p].key
      BY <1>4, <2>1, RespondStep DEF ReadFile
    <2>2. CASE ~ \E o \in store : o.key = panel[p].key
      BY <1>3, <1>4, <2>2 DEF ReadFile
    <2> QED
      BY <2>1, <2>2
  <1>5. ASSUME StoreFile(p) PROVE PageInv'
    BY <1>2, <1>5 DEF StoreFile
  <1>6. ASSUME DeleteFile(p) PROVE PageInv'
    BY <1>2, <1>3, <1>6 DEF DeleteFile
  <1> QED
    BY <1>1, <1>2, <1>3, <1>4, <1>5, <1>6, ServeCases

LEMMA UpstreamPage ==
    ASSUME PageInv, NEW p \in Panels,
           Upstream(p) \/ \E there \in BOOLEAN : UpstreamBreaks(p, there)
    PROVE  PageInv'
  <1>1. UNCHANGED <<mounted, urls, late>>
    BY DEF Upstream, UpstreamBreaks
  <1>2. Serve(p) \/ ServeLive(p) \/ UNCHANGED panel
    BY DEF Upstream, UpstreamBreaks
  <1>3. CASE UNCHANGED panel
    BY <1>1, <1>3 DEF PageInv, Tidy, Shaped, Owned, Pending, Shown, UrlsReleased
  <1> QED
    BY <1>1, <1>2, <1>3, ServeStep

LEMMA FailStep ==
    ASSUME PageInv, NEW p \in Panels, NEW why, Fail(p, why), UNCHANGED <<mounted, urls, late>>
    PROVE  PageInv'
  <1> DEFINE changed == [panel[p] EXCEPT !.error = why, !.loading = FALSE, !.step = "idle",
                                         !.response = NoResult]
             k == IF mounted THEN changed
                  ELSE [changed EXCEPT !.loading = panel[p].loading, !.error = panel[p].error,
                                       !.result = panel[p].result]
  <1>1. Tidy(p, changed) /\ changed.last = panel[p].last
    BY OfPanel, Fields DEF Tidy, Shaped, Owned, Pending, Shown
  <1>2. panel' = [panel EXCEPT ![p] = k]
    BY DEF Fail, Show
  <1>3. CASE mounted
    BY <1>1, <1>2, <1>3, OnePanel
  <1>4. CASE ~mounted
    <2>1. Tidy(p, k) /\ k.last = panel[p].last
      BY <1>4, OfPanel, Fields DEF Tidy, Shaped, Owned, Pending, Shown
    <2> HIDE DEF k
    <2> QED
      BY <1>2, <2>1, OnePanel
  <1> QED
    BY <1>3, <1>4

LEMMA BrokenStep ==
    ASSUME PageInv, NEW p \in Panels, FetchBlocked(p) \/ ConnectionCut(p)
    PROVE  PageInv'
  BY FailStep DEF FetchBlocked, ConnectionCut

(* The URL that goes is of this panel alone, and was made by a panel that  *)
(* was there.                                                              *)
LEMMA HeadersComeStep ==
    ASSUME PageInv, NEW p \in Panels, HeadersCome(p) PROVE PageInv'
  <1>1. /\ panel[p].step = "fetch" /\ urls' = urls \ {panel[p].last}
        /\ UNCHANGED <<mounted, late>>
    BY DEF HeadersCome
  <1>2. PICK r : /\ r \in IF call[p].pc = "answered" THEN {panel[p].response} ELSE Refusals
                 /\ panel' = [panel EXCEPT ![p].step = "body", ![p].last = NoUrl,
                                           ![p].response = r]
    BY DEF HeadersCome
  <1>3. DOMAIN r = DOMAIN NoResult
    <2> DEFINE R(s, t) == [NoResult EXCEPT !.status = s, !.type = t, !.content = "refusal"]
    <2>0. \A s, t : DOMAIN R(s, t) = DOMAIN NoResult
      OBVIOUS
    <2>1. Refusals = {R(s, t) : s \in {401, 503}, t \in {Json, Plain}}
      BY DEF Refusals
    <2> HIDE DEF R
    <2>2. \A x \in Refusals : DOMAIN x = DOMAIN NoResult
      BY <2>0, <2>1
    <2> QED
      BY <1>2, <2>2, OfPanel DEF Tidy, Shaped
  <1> DEFINE k == [panel[p] EXCEPT !.step = "body", !.last = NoUrl, !.response = r]
  <1>4. Tidy(p, k) /\ k.last = NoUrl
    BY <1>1, <1>3, OfPanel, Fields DEF Tidy, Shaped, Owned, Pending, Shown
  <1>5. panel' = [panel EXCEPT ![p] = k]
    BY <1>2, OfPanel
  <1> HIDE DEF k
  <1>6. \A q \in Panels : panel'[q] = IF q = p THEN k ELSE panel[q]
    BY <1>5 DEF PageInv
  <1>7. DOMAIN panel' = Panels
    BY <1>5 DEF PageInv
  <1>8. \A q \in Panels : Tidy(q, panel[q])'
    BY <1>1, <1>4, <1>6 DEF PageInv, Tidy, Shaped, Owned, Pending, Shown
  <1>9. UrlsReleased'
    <2>1. \A q \in Panels : panel[q].last # NoUrl => panel[q].last[1] = q
      BY DEF PageInv, Tidy, Owned
    <2>2. panel[p].last \notin late
      BY <1>1, OfPanel DEF Tidy, Pending
    <2>3. \A q \in Panels : panel'[q].last = IF q = p THEN NoUrl ELSE panel[q].last
      BY <1>4, <1>6
    <2>4. {panel'[q].last : q \in Panels} \ {NoUrl}
             = ({panel[q].last : q \in Panels} \ {NoUrl}) \ {panel[p].last}
      BY <2>1, <2>3
    <2> QED
      BY <1>1, <2>2, <2>4 DEF PageInv, UrlsReleased
  <1> QED
    BY <1>1, <1>7, <1>8, <1>9 DEF PageInv

LEMMA LeavePageStep == PageInv /\ LeavePage => PageInv'
  <1> SUFFICES ASSUME PageInv, LeavePage PROVE PageInv'
    OBVIOUS
  <1>1. /\ mounted /\ mounted' = FALSE /\ urls' = urls \ {panel[p].last : p \in Panels}
        /\ UNCHANGED <<panel, late>>
    BY DEF LeavePage
  <1>2. \A p \in Panels : Tidy(p, panel[p])'
    BY <1>1 DEF PageInv, Tidy, Shaped, Owned, Pending, Shown
  <1>3. UrlsReleased'
    BY <1>1 DEF PageInv, UrlsReleased
  <1> QED
    BY <1>1, <1>2, <1>3 DEF PageInv

(* The URL made of a body is not one of another panel's.                   *)
LEMMA BodyReadStep ==
    ASSUME PageInv, NEW p \in Panels, BodyRead(p) PROVE PageInv'
  <1> DEFINE r == panel[p].response
             url == IF KindOf(r.type) = "binary" /\ ~r.file.empty
                    THEN <<p, panel[p].made + 1>> ELSE NoUrl
             made == IF url # NoUrl THEN panel[p].made + 1 ELSE panel[p].made
             result == [r EXCEPT !.kind = KindOf(r.type), !.url = url]
             changed == [panel[p] EXCEPT !.result = result, !.last = url, !.made = made,
                                         !.loading = FALSE, !.step = "idle",
                                         !.response = NoResult]
             k == IF mounted THEN changed
                  ELSE [changed EXCEPT !.loading = panel[p].loading, !.error = panel[p].error,
                                       !.result = panel[p].result]
  <1>1. /\ panel[p].step = "body" /\ panel[p].last = NoUrl
        /\ urls' = urls \cup ({url} \ {NoUrl})
        /\ late' = IF mounted THEN late ELSE late \cup ({url} \ {NoUrl})
        /\ mounted' = mounted
    BY OfPanel DEF BodyRead, Tidy, Pending
  <1>2. panel' = [panel EXCEPT ![p] = k]
    BY OfPanel DEF BodyRead, Show
  <1>3. url # NoUrl => url[1] = p
    BY UrlsDiffer
  <1> HIDE DEF url, made
  <1>4. DOMAIN result = DOMAIN NoResult /\ result.url = url
    BY OfPanel, Fields DEF Tidy, Shaped
  <1> HIDE DEF result
  <1>5. Shaped(k) /\ k.last = url /\ k.step = "idle" /\ (mounted => k.result = result)
    BY <1>4, OfPanel, Fields DEF Tidy, Shaped
  <1> HIDE DEF k
  <1>6. \A q \in Panels : panel'[q] = IF q = p THEN k ELSE panel[q]
    BY <1>2 DEF PageInv
  <1>7. DOMAIN panel' = Panels
    BY <1>2 DEF PageInv
  <1>8. Tidy(p, panel[p])'
    BY <1>1, <1>3, <1>4, <1>5, <1>6 DEF Tidy, Shaped, Owned, Pending, Shown
  <1>9. ASSUME NEW q \in Panels, q # p PROVE Tidy(q, panel[q])'
    <2>1. Tidy(q, panel[q]) /\ panel'[q] = panel[q]
      BY <1>6, <1>9 DEF PageInv
    <2>2. panel[q].step = "fetch" => panel[q].last \notin late'
      BY <1>1, <1>3, <1>9, <2>1 DEF Tidy, Owned, Pending
    <2> QED
      BY <1>1, <2>1, <2>2 DEF Tidy, Shaped, Owned, Pending, Shown
  <1>10. UrlsReleased'
    <2>1. \A q \in Panels : panel'[q].last = IF q = p THEN url ELSE panel[q].last
      BY <1>5, <1>6
    <2>2. {panel'[q].last : q \in Panels} \ {NoUrl}
             = ({panel[q].last : q \in Panels} \ {NoUrl}) \cup ({url} \ {NoUrl})
      BY <1>1, <2>1
    <2> QED
      BY <1>1, <2>2 DEF PageInv, UrlsReleased
  <1>11. \A q \in Panels : Tidy(q, panel[q])'
    BY <1>6, <1>8, <1>9
  <1>12. NoUrl \notin late' /\ (mounted' => late' = {})
    BY <1>1 DEF PageInv
  <1> QED
    BY <1>7, <1>10, <1>11, <1>12 DEF PageInv

LEMMA PageSteps == PageInv /\ [Next]_vars => PageInv'
  <1> SUFFICES ASSUME PageInv, [Next]_vars PROVE PageInv'
    OBVIOUS
  <1>1. CASE UNCHANGED <<mounted, panel, urls, late>>
    BY <1>1 DEF PageInv, Tidy, Shaped, Owned, Pending, Shown, UrlsReleased
  <1>2. ASSUME NEW p \in Panels, PanelStep(p) PROVE PageInv'
    <2>1. CASE AtTheEdge(p)
      BY <1>1, <2>1 DEF AtTheEdge, pageVars
    <2> QED
      BY <1>2, <2>1, UpstreamPage, HeadersComeStep, BodyReadStep, BrokenStep DEF PanelStep
  <1>3. ASSUME NEW c \in Others, Curl(c) \/ AtTheEdge(c) \/ CurlAnswered(c) PROVE PageInv'
    BY <1>1, <1>3 DEF Curl, AtTheEdge, CurlAnswered, pageVars
  <1>4. CASE Deploy \/ RestartSandbox
    BY <1>1, <1>4 DEF Deploy, RestartSandbox, pageVars
  <1>5. CASE \E text \in instance.pasted : Paste(text)
    BY <1>1, <1>5 DEF Paste
  <1>6. CASE UNCHANGED vars
    BY <1>1, <1>6 DEF vars, pageVars
  <1> QED
    BY <1>2, <1>3, <1>4, <1>5, <1>6, SubmitNoKeyStep, SubmitStep, UpstreamPage, BrokenStep,
       LeavePageStep DEF Next

LEMMA PageInvariant == Spec => []PageInv
  BY InitPage, PageSteps, PTL DEF Spec

(* The object URLs of the page are those its panels made last, and none    *)
(* once it is gone, but for what a fetch under way makes afterwards.       *)
THEOREM UrlsAccountedFor == Spec => []UrlsReleased
  <1>1. PageInv => UrlsReleased
    BY DEF PageInv
  <1> QED
    BY <1>1, PageInvariant, PTL

(* A panel shows no link whose object URL has been revoked.                *)
THEOREM LinksAlive == Spec => []ShownLinkAlive
  <1>1. PageInv => ShownLinkAlive
    BY DEF PageInv, Tidy, Shown, ShownLinkAlive, UrlsReleased
  <1> QED
    BY <1>1, PageInvariant, PTL
-----------------------------------------------------------------------------
(* The sandbox has numbered what it was given in this life up to `seq`,    *)
(* and has seen no later life.                                             *)
StoreInv ==
    /\ seq \in Nat /\ life \in Nat
    /\ \A g \in given : g.life \in Nat /\ g.life <= life
    /\ \A g \in given : g.life = life => g.key[1] \in 1 .. seq
    /\ StorageKeysUnique

LEMMA StoreFileStep ==
    ASSUME StoreInv, NEW p \in Panels, StoreFile(p) PROVE StoreInv'
  <1> DEFINE file == panel[p].file
             key == KeyFor(seq + 1, file.name)
             new == [key |-> key, file |-> file, life |-> life]
  <1>1. seq' = seq + 1 /\ given' = given \cup {new} /\ life' = life
    BY DEF StoreFile, NextSeq
  <1>2. key[1] = seq + 1
    BY DEF KeyFor
  <1>3. new.key = key /\ new.life = life
    OBVIOUS
  <1> HIDE DEF new, key
  <1>4. \A g \in given : g.life = life => g.key # key
    BY <1>2 DEF StoreInv
  <1>5. StorageKeysUnique'
    BY <1>1, <1>3, <1>4 DEF StoreInv, StorageKeysUnique
  <1> QED
    BY <1>1, <1>2, <1>3, <1>5 DEF StoreInv

LEMMA StoreSteps == StoreInv /\ [Next]_vars => StoreInv'
  <1> SUFFICES ASSUME StoreInv, [Next]_vars PROVE StoreInv'
    OBVIOUS
  <1>1. CASE UNCHANGED <<seq, given, life>>
    BY <1>1 DEF StoreInv, StorageKeysUnique
  <1>2. CASE RestartSandbox
    <2>1. life' = life + 1 /\ seq' = 0 /\ given' = given
      BY <1>2 DEF RestartSandbox
    <2> QED
      BY <2>1 DEF StoreInv, StorageKeysUnique
  <1>3. ASSUME NEW p \in Panels, Serve(p) PROVE StoreInv'
    <2>1. StoreFile(p) \/ UNCHANGED <<seq, given, life>>
      <3>1. UNCHANGED mockVars => UNCHANGED <<seq, given, life>>
        BY DEF mockVars
      <3>2. ReadFile(p) \/ DeleteFile(p) => UNCHANGED <<seq, given, life>>
        BY DEF ReadFile, DeleteFile, mockVars
      <3> QED
        BY <1>3, <3>1, <3>2, ServeCases
    <2> QED
      BY <1>1, <2>1, StoreFileStep
  <1>4. ASSUME NEW p \in Panels, PanelStep(p) PROVE StoreInv'
    <2>1. CASE Upstream(p)
      BY <1>1, <1>3, <2>1 DEF Upstream, ServeLive, mockVars
    <2>2. CASE AtTheEdge(p)
      BY <1>1, <2>2 DEF AtTheEdge, mockVars
    <2> QED
      BY <1>1, <1>4, <2>1, <2>2 DEF PanelStep, HeadersCome, BodyRead, FetchBlocked, mockVars
  <1>5. ASSUME NEW p \in Panels,
               SubmitNoKey(p) \/ Submit(p) \/ ConnectionCut(p)
               \/ \E there \in BOOLEAN : UpstreamBreaks(p, there)
        PROVE  StoreInv'
    BY <1>1, <1>3, <1>5 DEF SubmitNoKey, Submit, ConnectionCut, UpstreamBreaks, mockVars
  <1>6. ASSUME NEW c \in Others, Curl(c) \/ AtTheEdge(c) \/ CurlAnswered(c) PROVE StoreInv'
    BY <1>1, <1>6 DEF Curl, AtTheEdge, CurlAnswered, mockVars
  <1>7. CASE Deploy \/ LeavePage \/ \E text \in instance.pasted : Paste(text)
    BY <1>1, <1>7 DEF Deploy, LeavePage, Paste, mockVars
  <1>8. CASE UNCHANGED vars
    BY <1>1, <1>8 DEF vars, mockVars
  <1> QED
    BY <1>2, <1>4, <1>5, <1>6, <1>7, <1>8 DEF Next

LEMMA StoreInvariant == Spec => []StoreInv
  <1>1. Init => StoreInv
    BY DEF Init, StoreInv, StorageKeysUnique
  <1> QED
    BY <1>1, StoreSteps, PTL DEF Spec

(* No two uploads to one life of the sandbox are given the same key,       *)
(* whatever is deleted in between.                                         *)
THEOREM KeysOfStoreUnique == Spec => []StorageKeysUnique
  <1>1. StoreInv => StorageKeysUnique
    BY DEF StoreInv
  <1> QED
    BY <1>1, StoreInvariant, PTL
-----------------------------------------------------------------------------
(* A route that does for an endpoint what the page says: it lets the       *)
(* request in and reads all of it, and its answer has the type, the name   *)
(* and the bytes that are documented; a body that is no JSON where JSON is *)
(* asked for is answered with a status that is listed.                     *)
Reaches(r, e) == r.method = e.method /\ r.path = e.path
Fulfils(r, e) ==
    /\ Understands(r, e)
    /\ r.type = e.type \/ e.type = Original
    /\ r.filename = e.filename /\ Payload(r.path) = e.content
    /\ e.takes = Json => 400 \in e.errors
WellServed(e) == IsServed(e) /\ \A r \in Served : Reaches(r, e) => Fulfils(r, e)

(* Endpoint by endpoint: each has its routes, and those keep its promise.  *)
LEMMA AllWellServed == \A e \in Endpoints : WellServed(e)
  <1> USE DEF WellServed, IsServed, Reaches, Fulfils, Served, RoutesToReports, RoutesToInvoices,
              RoutesToFiles, Serves, SendsBinary, Understands, Payload, Profiled, Json, NoBody, Xml,
              Plain, Octets, Multipart, Inline, Original
  <1>1. WellServed(Ping)
    BY DEF Ping, Get
  <1>2. WellServed(Notice)
    BY DEF Notice, Get
  <1>3. WellServed(XmlToPdf)
    BY DEF XmlToPdf, Upload
  <1>4. WellServed(XmlToHtml)
    BY DEF XmlToHtml, Upload
  <1>5. WellServed(ReportToPdf)
    BY DEF ReportToPdf, Upload
  <1>6. WellServed(Validate)
    BY DEF Validate, Upload
  <1>7. WellServed(StyledInvoice)
    BY DEF StyledInvoice, Raw, Named
  <1>8. WellServed(Phive)
    BY DEF Phive, Upload
  <1>9. WellServed(PdfToPdfA)
    BY DEF PdfToPdfA, Upload
  <1>10. WellServed(Parse)
    BY DEF Parse, Upload
  <1>11. WellServed(InvoiceToXml)
    BY DEF InvoiceToXml, Raw
  <1>12. WellServed(Extract)
    BY DEF Extract, Upload
  <1>13. WellServed(Detach)
    BY DEF Detach, Upload
  <1>14. WellServed(Combine)
    BY DEF Combine, Upload
  <1>15. WellServed(CombineXml)
    BY DEF CombineXml, Upload
  <1>16. WellServed(CiiToUbl)
    BY DEF CiiToUbl, Raw
  <1>17. WellServed(CiiToUblAlias)
    BY DEF CiiToUblAlias, Raw
  <1>18. WellServed(Calculate)
    BY DEF Calculate, Raw
  <1>19. WellServed(S3Upload)
    BY DEF S3Upload, Upload
  <1>20. WellServed(S3List)
    BY DEF S3List, Get
  <1>21. WellServed(S3Download)
    BY DEF S3Download, Get, Named, ByKey
  <1>22. WellServed(S3Delete)
    BY DEF S3Delete, Get, ByKey
  <1> HIDE DEF WellServed
  <1> QED
    BY <1>1, <1>2, <1>3, <1>4, <1>5, <1>6, <1>7, <1>8, <1>9, <1>10, <1>11, <1>12, <1>13, <1>14, <1>15, <1>16, <1>17, <1>18, <1>19, <1>20, <1>21, <1>22 DEF Endpoints

LEMMA RouteServes ==
    ASSUME NEW e \in Endpoints
    PROVE  IsServed(e) /\ Reaches(RouteOf(e), e) /\ Fulfils(RouteOf(e), e)
  <1>1. WellServed(e)
    BY AllWellServed
  <1>2. PICK r \in Served : r.method = e.method /\ r.path = e.path
    BY <1>1 DEF WellServed, IsServed
  <1>3. RouteOf(e) \in Served /\ Reaches(RouteOf(e), e)
    BY <1>2 DEF RouteOf, Reaches
  <1> QED
    BY <1>1, <1>3 DEF WellServed

LEMMA SuccessIs == \A m : Success(m) \in {200, 201}
  BY DEF Success

(* The three endpoints with a handler of their own are three, and what     *)
(* they answer is documented.                                              *)
LEMMA StorageEndpoints ==
    /\ S3Upload # S3Download /\ S3Upload # S3Delete /\ S3Download # S3Delete
    /\ S3Download.type = Original /\ S3Download.content = "file"
    /\ S3Download.filename = "original filename" /\ S3Download.errors = {404}
    /\ S3Delete.errors = {404}
  <1>1. S3Upload.path = "/s3/upload"
    BY DEF S3Upload, Upload
  <1>2. S3Download.path = "/s3/download"
    BY DEF S3Download, Named, ByKey, Get
  <1>3. S3Delete.path = "/s3/delete"
    BY DEF S3Delete, ByKey, Get
  <1>4. S3Download.type = Original /\ S3Download.content = "file"
        /\ S3Download.filename = "original filename" /\ S3Download.errors = {404}
    BY DEF S3Download, Named, ByKey, Get
  <1>5. S3Delete.errors = {404}
    BY DEF S3Delete, ByKey, Get
  <1> QED
    BY <1>1, <1>2, <1>3, <1>4, <1>5

(* Of one panel that documents e: where its fetch is, that it sends a body *)
(* of the form asked for, and that neither what has come nor what is shown *)
(* is anything but documented.                                             *)
Documented(e, r) ==
    r.content \notin {None, "refusal"} =>
        /\ IsServed(e) /\ Understands(RouteOf(e), e)
        /\ IF r.status \in {200, 201}
           THEN /\ r.type = e.type \/ e.type = Original
                /\ r.content = e.content /\ r.filename = e.filename
           ELSE r.status \in e.errors

Kept(e, k) ==
    /\ k.step \in {"idle", "fetch", "body"} /\ k.made \in Nat
    /\ e.takes # Json => k.wellFormed
    /\ Documented(e, k.result) /\ Documented(e, k.response)

PanelsInv == \A p \in Panels : Kept(endpoint[p], panel[p])

LEMMA EndpointsOfPage ==
    ASSUME Pasted, NEW p \in Panels PROVE endpoint[p] \in Endpoints
  BY TryItAssumption DEF Pasted, endpoint

LEMMA NothingDocumented == \A e : Documented(e, NoResult)
  BY DEF Documented, NoResult

LEMMA InitPanels == Init => PanelsInv
  <1> SUFFICES ASSUME Init, NEW p \in Panels PROVE Kept(endpoint[p], panel[p])
    BY DEF PanelsInv
  <1>1. panel[p] = Fresh
    BY DEF Init
  <1>2. Fresh.step = "idle" /\ Fresh.made = 0 /\ Fresh.wellFormed
        /\ Fresh.result = NoResult /\ Fresh.response = NoResult
    BY DEF Fresh
  <1> QED
    BY <1>1, <1>2, NothingDocumented DEF Kept

(* A panel that takes a step, and one that has something answered to it.   *)
LEMMA OneKept ==
    ASSUME PageInv, PanelsInv, UNCHANGED instance, NEW p \in Panels, NEW k,
           Kept(endpoint[p], k), panel' = [panel EXCEPT ![p] = k]
    PROVE  PanelsInv'
  <1>1. \A q \in Panels : panel'[q] = IF q = p THEN k ELSE panel[q]
    BY DEF PageInv
  <1>2. endpoint' = endpoint
    BY DEF endpoint
  <1> QED
    BY <1>1, <1>2 DEF PanelsInv, Kept, Documented

LEMMA OfKept ==
    ASSUME PageInv, PanelsInv, NEW p \in Panels
    PROVE  /\ Shaped(panel[p]) /\ p \in DOMAIN panel
           /\ Kept(endpoint[p], panel[p])
  BY DEF PageInv, Tidy, PanelsInv

LEMMA RespondKeeps ==
    ASSUME PageInv, PanelsInv, UNCHANGED instance, NEW p \in Panels,
           NEW s, NEW t, NEW content, NEW name, NEW f,
           Respond(p, s, t, content, name, f),
           /\ IsServed(endpoint[p]) /\ Understands(RouteOf(endpoint[p]), endpoint[p])
           /\ IF s \in {200, 201}
              THEN /\ t = endpoint[p].type \/ endpoint[p].type = Original
                   /\ content = endpoint[p].content /\ name = endpoint[p].filename
              ELSE s \in endpoint[p].errors
    PROVE  PanelsInv'
  <1> DEFINE r == [NoResult EXCEPT !.status = s, !.type = t, !.content = content,
                                   !.filename = name, !.file = f]
             k == [panel[p] EXCEPT !.response = r]
  <1>1. /\ DOMAIN r = DOMAIN NoResult /\ r.status = s /\ r.type = t
        /\ r.content = content /\ r.filename = name
    BY DEF NoResult
  <1>2. panel' = [panel EXCEPT ![p] = k]
    BY OfKept DEF Respond
  <1> HIDE DEF r
  <1>3. Documented(endpoint[p], r)
    BY <1>1 DEF Documented
  <1>4. Kept(endpoint[p], k)
    BY <1>3, OfKept, Fields DEF Shaped, Kept
  <1> HIDE DEF k
  <1> QED
    BY <1>2, <1>4, OneKept

LEMMA SucceedKeeps ==
    ASSUME Pasted, PageInv, PanelsInv, UNCHANGED instance, NEW p \in Panels, Succeed(p)
    PROVE  PanelsInv'
  <1> DEFINE e == endpoint[p]
             r == RouteOf(e)
  <1>1. e \in Endpoints
    BY EndpointsOfPage
  <1>2. IsServed(e) /\ Fulfils(r, e)
    BY <1>1, RouteServes
  <1>3. Respond(p, Success(r.method), r.type, Payload(r.path), r.filename, NoFile)
    BY DEF Succeed
  <1> QED
    BY <1>2, <1>3, SuccessIs, RespondKeeps DEF Fulfils

LEMMA RejectKeeps ==
    ASSUME Pasted, PageInv, PanelsInv, UNCHANGED instance, NEW p \in Panels,
           NEW s \in {400, 404}, s \in endpoint[p].errors, Reject(p, s)
    PROVE  PanelsInv'
  <1>1. IsServed(endpoint[p]) /\ Understands(RouteOf(endpoint[p]), endpoint[p])
    BY EndpointsOfPage, RouteServes DEF Fulfils
  <1>2. ~(s < 300)
    OBVIOUS
  <1>3. Respond(p, s, Json, "json", Inline, NoFile)
    BY DEF Reject
  <1> QED
    BY <1>1, <1>2, <1>3, RespondKeeps

(* What the sandbox does is one of four things, by the endpoint.           *)
LEMMA ServeByEndpoint ==
    ASSUME Pasted, NEW p \in Panels, Serve(p)
    PROVE  \/ Succeed(p)
           \/ endpoint[p] = S3Download /\ ReadFile(p)
           \/ endpoint[p] = S3Delete /\ Reject(p, 404)
           \/ ~panel[p].wellFormed /\ Reject(p, 400)
  <1>1. IsServed(endpoint[p])
    BY EndpointsOfPage, RouteServes
  <1>2. CASE endpoint[p] = S3Upload
    BY <1>1, <1>2, StorageEndpoints, Zenon DEF Serve, StoreFile
  <1>3. CASE endpoint[p] = S3Download
    BY <1>1, <1>3, StorageEndpoints, Zenon DEF Serve
  <1>4. CASE endpoint[p] = S3Delete
    <2>1. DeleteFile(p)
      BY <1>1, <1>4, StorageEndpoints, Zenon DEF Serve
    <2> QED
      BY <1>4, <2>1 DEF DeleteFile
  <1>5. CASE endpoint[p] \notin {S3Upload, S3Download, S3Delete}
    BY <1>1, <1>5, Zenon DEF Serve
  <1> QED
    BY <1>2, <1>3, <1>4, <1>5

LEMMA ServeKeeps ==
    ASSUME Pasted, PageInv, PanelsInv, UNCHANGED instance, NEW p \in Panels,
           Serve(p) \/ ServeLive(p)
    PROVE  PanelsInv'
  <1> DEFINE e == endpoint[p]
  <1>1. e \in Endpoints /\ IsServed(e) /\ Fulfils(RouteOf(e), e)
    BY EndpointsOfPage, RouteServes
  <1>2. CASE ServeLive(p)
    BY <1>1, <1>2, RespondKeeps DEF ServeLive, Fulfils
  <1>3. ASSUME e = S3Download, ReadFile(p) PROVE PanelsInv'
    <2>1. CASE \E o \in store : o.key = panel[p].key
      <3> DEFINE o == CHOOSE o \in store : o.key = panel[p].key
      <3>1. Respond(p, 200, o.file.type, "file", "original filename", o.file)
        BY <1>3, <2>1 DEF ReadFile
      <3> HIDE DEF o
      <3>2. Understands(RouteOf(e), e)
        BY <1>1 DEF Fulfils
      <3>3. e.type = Original /\ e.content = "file" /\ e.filename = "original filename"
        BY <1>3, StorageEndpoints, Zenon
      <3>4. 200 < 300
        OBVIOUS
      <3> HIDE DEF e, o
      <3> QED
        BY <1>1, <3>1, <3>2, <3>3, <3>4, RespondKeeps DEF e
    <2>2. CASE ~ \E o \in store : o.key = panel[p].key
      BY <1>3, <2>2, StorageEndpoints, RejectKeeps DEF ReadFile
    <2> QED
      BY <2>1, <2>2
  <1>4. ASSUME e = S3Delete, Reject(p, 404) PROVE PanelsInv'
    <2>1. 404 \in e.errors
      BY <1>4, StorageEndpoints
    <2> QED
      BY <1>4, <2>1, RejectKeeps
  <1>5. ASSUME ~panel[p].wellFormed, Reject(p, 400) PROVE PanelsInv'
    <2>1. e.takes = Json
      BY <1>5, OfKept DEF Kept
    <2> QED
      BY <1>1, <1>5, <2>1, RejectKeeps DEF Fulfils
  <1> QED
    BY <1>2, <1>3, <1>4, <1>5, SucceedKeeps, ServeByEndpoint

LEMMA UpstreamKeeps ==
    ASSUME Pasted, PageInv, PanelsInv, NEW p \in Panels,
           Upstream(p) \/ \E there \in BOOLEAN : UpstreamBreaks(p, there)
    PROVE  PanelsInv'
  <1>1. UNCHANGED instance /\ (Serve(p) \/ ServeLive(p) \/ UNCHANGED panel)
    BY DEF Upstream, UpstreamBreaks
  <1>2. CASE UNCHANGED panel
    BY <1>1, <1>2 DEF PanelsInv, Kept, Documented, endpoint
  <1> QED
    BY <1>1, <1>2, ServeKeeps

LEMMA SubmitKeeps ==
    ASSUME PageInv, PanelsInv, NEW p \in Panels, SubmitNoKey(p) \/ Submit(p)
    PROVE  PanelsInv'
  <1>1. CASE SubmitNoKey(p)
    <2> DEFINE k == [panel[p] EXCEPT !.error = "no key"]
    <2>1. Kept(endpoint[p], k)
      BY OfKept, Fields DEF Shaped, Kept
    <2>2. panel' = [panel EXCEPT ![p] = k] /\ UNCHANGED instance
      BY <1>1, OfKept DEF SubmitNoKey
    <2> HIDE DEF k
    <2> QED
      BY <2>1, <2>2, OneKept
  <1>2. CASE Submit(p)
    <2>1. PICK f \in FilesFor(endpoint[p]), key \in KeysFor(endpoint[p]),
               wf \in BodiesFor(endpoint[p]) :
              panel' = [panel EXCEPT ![p] = Sending(p, f, key, wf)]
      BY <1>2 DEF Submit
    <2> DEFINE k == Sending(p, f, key, wf)
    <2>2. endpoint[p].takes # Json => wf
      BY DEF BodiesFor
    <2>3. /\ k.step = "fetch" /\ k.made = panel[p].made /\ k.wellFormed = wf
          /\ k.result = NoResult /\ k.response = panel[p].response
      BY OfKept, Fields DEF Sending, Shaped
    <2> HIDE DEF k
    <2>4. Kept(endpoint[p], k)
      BY <2>2, <2>3, OfKept, NothingDocumented DEF Kept
    <2>5. panel' = [panel EXCEPT ![p] = k] /\ UNCHANGED instance
      BY <1>2, <2>1 DEF Submit, k
    <2> QED
      BY <2>4, <2>5, OneKept
  <1> QED
    BY <1>1, <1>2

LEMMA HeadersKeep ==
    ASSUME PageInv, PanelsInv, NEW p \in Panels, HeadersCome(p) PROVE PanelsInv'
  <1>1. PICK r : /\ r \in IF call[p].pc = "answered" THEN {panel[p].response} ELSE Refusals
                 /\ panel' = [panel EXCEPT ![p].step = "body", ![p].last = NoUrl,
                                           ![p].response = r]
    BY DEF HeadersCome
  <1>2. Documented(endpoint[p], r)
    <2> DEFINE R(s, t) == [NoResult EXCEPT !.status = s, !.type = t, !.content = "refusal"]
    <2>1. \A s, t : R(s, t).content = "refusal"
      BY DEF NoResult
    <2>2. Refusals = {R(s, t) : s \in {401, 503}, t \in {Json, Plain}}
      BY DEF Refusals
    <2> HIDE DEF R
    <2>3. \A x \in Refusals : x.content = "refusal"
      BY <2>1, <2>2
    <2> QED
      BY <1>1, <2>3, OfKept DEF Kept, Documented
  <1> DEFINE k == [panel[p] EXCEPT !.step = "body", !.last = NoUrl, !.response = r]
  <1>3. Kept(endpoint[p], k)
    BY <1>2, OfKept, Fields DEF Shaped, Kept
  <1>4. panel' = [panel EXCEPT ![p] = k] /\ UNCHANGED instance
    BY <1>1, OfKept DEF HeadersCome
  <1> HIDE DEF k
  <1> QED
    BY <1>3, <1>4, OneKept

LEMMA BodyKeeps ==
    ASSUME PageInv, PanelsInv, NEW p \in Panels, BodyRead(p) PROVE PanelsInv'
  <1> DEFINE r == panel[p].response
             url == IF KindOf(r.type) = "binary" /\ ~r.file.empty
                    THEN <<p, panel[p].made + 1>> ELSE NoUrl
             made == IF url # NoUrl THEN panel[p].made + 1 ELSE panel[p].made
             result == [r EXCEPT !.kind = KindOf(r.type), !.url = url]
             changed == [panel[p] EXCEPT !.result = result, !.last = url, !.made = made,
                                         !.loading = FALSE, !.step = "idle",
                                         !.response = NoResult]
             k == IF mounted THEN changed
                  ELSE [changed EXCEPT !.loading = panel[p].loading, !.error = panel[p].error,
                                       !.result = panel[p].result]
  <1>1. panel' = [panel EXCEPT ![p] = k] /\ UNCHANGED instance
    BY OfKept DEF BodyRead, Show
  <1>2. made \in Nat
    BY OfKept DEF Kept
  <1> HIDE DEF url, made
  <1>3. /\ result.content = r.content /\ result.status = r.status
        /\ result.type = r.type /\ result.filename = r.filename
    BY OfKept, Fields DEF Shaped
  <1> HIDE DEF result
  <1>4. Documented(endpoint[p], result)
    BY <1>3, OfKept DEF Kept, Documented
  <1>5. /\ k.step = "idle" /\ k.made = made /\ k.wellFormed = panel[p].wellFormed
        /\ k.response = NoResult
        /\ k.result = result \/ k.result = panel[p].result
    BY OfKept, Fields DEF Shaped
  <1> HIDE DEF k
  <1>6. Kept(endpoint[p], k)
    BY <1>2, <1>4, <1>5, OfKept, NothingDocumented DEF Kept
  <1> QED
    BY <1>1, <1>6, OneKept

LEMMA FailKeeps ==
    ASSUME PageInv, PanelsInv, UNCHANGED instance, NEW p \in Panels, NEW why, Fail(p, why)
    PROVE  PanelsInv'
  <1> DEFINE changed == [panel[p] EXCEPT !.error = why, !.loading = FALSE, !.step = "idle",
                                         !.response = NoResult]
             k == IF mounted THEN changed
                  ELSE [changed EXCEPT !.loading = panel[p].loading, !.error = panel[p].error,
                                       !.result = panel[p].result]
  <1>1. panel' = [panel EXCEPT ![p] = k]
    BY DEF Fail, Show
  <1>2. /\ k.step = "idle" /\ k.made = panel[p].made /\ k.wellFormed = panel[p].wellFormed
        /\ k.response = NoResult /\ k.result = panel[p].result
    BY OfKept, Fields DEF Shaped
  <1> HIDE DEF k
  <1>3. Kept(endpoint[p], k)
    BY <1>2, OfKept, NothingDocumented DEF Kept
  <1> QED
    BY <1>1, <1>3, OneKept

LEMMA PanelsSteps == Pasted /\ PageInv /\ PanelsInv /\ [Next]_vars => PanelsInv'
  <1> SUFFICES ASSUME Pasted, PageInv, PanelsInv, [Next]_vars PROVE PanelsInv'
    OBVIOUS
  <1>1. CASE UNCHANGED <<instance, panel>>
    BY <1>1 DEF PanelsInv, Kept, Documented, endpoint
  <1>2. ASSUME NEW p \in Panels, FetchBlocked(p) \/ ConnectionCut(p) PROVE PanelsInv'
    BY <1>2, FailKeeps DEF FetchBlocked, ConnectionCut
  <1>3. ASSUME NEW p \in Panels, PanelStep(p) PROVE PanelsInv'
    <2>1. CASE AtTheEdge(p)
      BY <1>1, <2>1 DEF AtTheEdge, pageVars
    <2> QED
      BY <1>2, <1>3, <2>1, UpstreamKeeps, HeadersKeep, BodyKeeps DEF PanelStep
  <1>4. ASSUME NEW c \in Others, Curl(c) \/ AtTheEdge(c) \/ CurlAnswered(c) PROVE PanelsInv'
    BY <1>1, <1>4 DEF Curl, AtTheEdge, CurlAnswered, pageVars
  <1>5. CASE Deploy \/ RestartSandbox \/ LeavePage
    BY <1>1, <1>5 DEF Deploy, RestartSandbox, LeavePage, pageVars
  <1>6. CASE \E text \in instance.pasted : Paste(text)
    BY <1>1, <1>6 DEF Paste
  <1>7. CASE UNCHANGED vars
    BY <1>1, <1>7 DEF vars, pageVars
  <1> QED
    BY <1>2, <1>3, <1>4, <1>5, <1>6, <1>7, SubmitKeeps, UpstreamKeeps DEF Next

LEMMA PanelsInvariant == Spec => []PanelsInv
  BY InitPanels, PanelsSteps, PastedInvariant, PageInvariant, PTL DEF Spec

(* Whatever page of documented endpoints, whatever keys, files and bodies: *)
(* what a panel shows of an upstream's answer has, if it is a success, the *)
(* type, bytes and file name the page gives for the endpoint, and else a   *)
(* status it lists, and a route that reads all the request stands behind   *)
(* it.  Which of 200 and 201 a success is the theorem does not say.        *)
THEOREM ContentShownAsDocumented == Spec => []ContentAsDocumented
  <1>1. PanelsInv => ContentAsDocumented
    BY DEF PanelsInv, Kept, Documented, ContentAsDocumented
  <1> QED
    BY <1>1, PanelsInvariant, PTL
-----------------------------------------------------------------------------
(* What is in the store was numbered in this life of the sandbox, and the  *)
(* calls, cuts and restarts stay within what the instance allows.          *)
Bounded ==
    /\ mounted \in BOOLEAN
    /\ \A o \in store : o.key[1] \in 1 .. seq
    /\ sends \in 0 .. instance.sends /\ cuts \in 0 .. instance.cuts
    /\ life \in 0 .. instance.restarts

LEMMA BoundsOfInstance ==
    ASSUME Pasted
    PROVE  instance.sends \in Nat /\ instance.cuts \in Nat /\ instance.restarts \in Nat
  BY TryItAssumption DEF Pasted

LEMMA CountUp == \A n, m \in Nat : n < m => n + 1 \in 0 .. m
  OBVIOUS

LEMMA ServeBounded ==
    ASSUME StoreInv, Bounded, NEW p \in Panels, Serve(p)
    PROVE  /\ \A o \in store' : o.key[1] \in 1 .. seq'
           /\ UNCHANGED life
  <1>1. CASE StoreFile(p)
    <2> DEFINE object == [key |-> KeyFor(NextSeq, panel[p].file.name), file |-> panel[p].file]
    <2>1. /\ seq' = seq + 1 /\ UNCHANGED life
          /\ store' = {o \in store : o.key # object.key} \cup {object}
      BY <1>1 DEF StoreFile, NextSeq
    <2>2. object.key[1] = seq + 1
      BY DEF KeyFor, NextSeq
    <2> HIDE DEF object
    <2>3. \A n \in 1 .. seq : n \in 1 .. (seq + 1)
      BY DEF StoreInv
    <2>4. seq + 1 \in 1 .. (seq + 1)
      BY DEF StoreInv
    <2> QED
      BY <2>1, <2>2, <2>3, <2>4 DEF Bounded
  <1>2. CASE ReadFile(p) \/ UNCHANGED mockVars
    BY <1>2 DEF ReadFile, mockVars, Bounded
  <1>3. CASE DeleteFile(p)
    BY <1>3 DEF DeleteFile, Bounded
  <1> QED
    BY <1>1, <1>2, <1>3, ServeCases

LEMMA BoundedSteps == Pasted /\ StoreInv /\ Bounded /\ [Next]_vars => Bounded'
  <1> SUFFICES ASSUME Pasted, StoreInv, Bounded, [Next]_vars PROVE Bounded'
    OBVIOUS
  <1>0. /\ instance.sends \in Nat /\ instance.cuts \in Nat /\ instance.restarts \in Nat
        /\ sends \in Nat /\ cuts \in Nat /\ life \in Nat
    BY BoundsOfInstance DEF Bounded
  <1>1. CASE UNCHANGED <<instance, mounted, store, seq, life, sends, cuts>>
    BY <1>1 DEF Bounded
  <1>2. ASSUME sends < instance.sends, sends' = sends + 1,
               UNCHANGED <<instance, mounted, store, seq, life, cuts>>
        PROVE  Bounded'
    BY <1>0, <1>2, CountUp DEF Bounded
  <1>3. ASSUME NEW p \in Panels, Serve(p), UNCHANGED <<instance, mounted, sends>>,
               cuts' \in 0 .. instance.cuts
        PROVE  Bounded'
    BY <1>3, ServeBounded DEF Bounded
  <1>4. ASSUME NEW p \in Panels, PanelStep(p) PROVE Bounded'
    <2>1. CASE Upstream(p)
      <3>1. UNCHANGED <<instance, mounted, sends, cuts>>
            /\ (Serve(p) \/ UNCHANGED mockVars)
        BY <2>1 DEF Upstream, ServeLive
      <3> QED
        BY <1>1, <1>3, <3>1 DEF mockVars, Bounded
    <2>2. CASE AtTheEdge(p)
      BY <1>1, <2>2 DEF AtTheEdge, pageVars, mockVars
    <2>3. CASE HeadersCome(p) \/ BodyRead(p) \/ FetchBlocked(p)
      BY <1>1, <2>3 DEF HeadersCome, BodyRead, FetchBlocked, mockVars
    <2> QED
      BY <1>4, <2>1, <2>2, <2>3 DEF PanelStep
  <1>5. ASSUME NEW p \in Panels,
               ConnectionCut(p) \/ \E there \in BOOLEAN : UpstreamBreaks(p, there)
        PROVE  Bounded'
    <2>1. cuts' \in 0 .. instance.cuts
      BY <1>0, <1>5, CountUp DEF ConnectionCut, UpstreamBreaks
    <2>2. UNCHANGED <<instance, mounted, sends>> /\ (Serve(p) \/ UNCHANGED mockVars)
      BY <1>5 DEF ConnectionCut, UpstreamBreaks
    <2> QED
      BY <1>3, <2>1, <2>2 DEF mockVars, Bounded
  <1>6. ASSUME NEW p \in Panels, SubmitNoKey(p) \/ Submit(p) PROVE Bounded'
    BY <1>1, <1>2, <1>6 DEF SubmitNoKey, Submit, mockVars
  <1>7. ASSUME NEW c \in Others, Curl(c) \/ AtTheEdge(c) \/ CurlAnswered(c) PROVE Bounded'
    BY <1>1, <1>2, <1>7 DEF Curl, AtTheEdge, CurlAnswered, pageVars, mockVars
  <1>8. CASE RestartSandbox
    <2>1. /\ life < instance.restarts /\ life' = life + 1 /\ store' = {}
          /\ UNCHANGED <<instance, mounted, sends, cuts>>
      BY <1>8 DEF RestartSandbox, pageVars
    <2> QED
      BY <1>0, <2>1, CountUp DEF Bounded
  <1>9. CASE LeavePage
    BY <1>9 DEF LeavePage, mockVars, Bounded
  <1>10. CASE Deploy \/ \E text \in instance.pasted : Paste(text)
    BY <1>1, <1>10 DEF Deploy, Paste, pageVars, mockVars
  <1>11. CASE UNCHANGED vars
    BY <1>1, <1>11 DEF vars, pageVars, mockVars
  <1> QED
    BY <1>4, <1>5, <1>6, <1>7, <1>8, <1>9, <1>10, <1>11 DEF Next

LEMMA BoundedInvariant == Spec => []Bounded
  <1>1. Init => Bounded
    <2> SUFFICES ASSUME Init PROVE Bounded
      OBVIOUS
    <2>1. Pasted
      BY DEF Init, Pasted
    <2> QED
      BY <2>1, BoundsOfInstance DEF Init, Bounded
  <1> QED
    BY <1>1, BoundedSteps, PastedInvariant, StoreInvariant, PTL DEF Spec

(* Every variable of page, edge and sandbox keeps its type, whatever the   *)
(* instance.                                                               *)
THEOREM PageTyped == Spec => []TypeOK
  <1>1. EdgeTypeOK /\ Pasted /\ PanelsInv /\ Bounded => TypeOK
    BY DEF Pasted, PanelsInv, Kept, Bounded, TypeOK
  <1> QED
    BY <1>1, PageUsesEdge, EdgeTyped, PastedInvariant, PanelsInvariant, BoundedInvariant, PTL
-----------------------------------------------------------------------------
(* What is left of a fetch: the hops of its call, then its body; nothing   *)
(* of an idle panel.                                                       *)
Hops(pc) ==
    IF pc = "preflight" THEN 6 ELSE IF pc = "arrive" THEN 5 ELSE IF pc = "auth" THEN 4
    ELSE IF pc = "upstream" THEN 3 ELSE IF pc = "idle" THEN 0 ELSE 2
Left(p) ==
    IF panel[p].step = "body" THEN 1
    ELSE IF panel[p].step = "fetch" THEN Hops(call[p].pc) ELSE 0

(* A panel that says it loads, on a page that is there, has its fetch      *)
(* under way: a call at the edge, or the body of its answer.               *)
LoadsOnlyUnderWay == \A p \in Panels : mounted /\ panel[p].loading => Left(p) > 0

(* Each of a panel's own steps brings its fetch nearer to its end, and     *)
(* only the button sets it back.                                           *)
NearerToTheEnd ==
    \A p \in Panels :
        /\ PanelStep(p) => Left(p)' < Left(p)
        /\ Left(p)' > Left(p) => Submit(p)

Busy(p) ==
    /\ panel[p].step = "fetch" <=> call[p].pc # "idle"
    /\ mounted /\ panel[p].loading => panel[p].step # "idle"
BusyInv == \A p \in Panels : Busy(p)

LEMMA HopsLeft == \A pc : Hops(pc) \in 0 .. 6 /\ (pc # "idle" => Hops(pc) >= 2)
  BY DEF Hops

LEMMA BusyMeans == PanelsInv /\ BusyInv => LoadsOnlyUnderWay
  BY HopsLeft DEF PanelsInv, Kept, BusyInv, Busy, LoadsOnlyUnderWay, Left

(* The calls that a step of one client leaves alone, and how far its own   *)
(* comes.                                                                  *)
LEMMA OneCallMoves ==
    ASSUME EdgeTypeOK, NEW c \in Clients, NEW k, call' = [call EXCEPT ![c] = k]
    PROVE  call'[c] = k /\ \A q \in Clients : q # c => call'[q] = call[q]
  BY DEF EdgeTypeOK

LEMMA CallShaped ==
    ASSUME EdgeTypeOK, NEW c \in Clients
    PROVE  /\ c \in DOMAIN call
           /\ \A pc : [call[c] EXCEPT !.pc = pc].pc = pc
  BY DEF EdgeTypeOK, Calls

LEMMA HopTaken ==
    ASSUME EdgeTypeOK, NEW c \in Clients,
           AtTheEdge(c) \/ Forward(c) \/ \E there \in BOOLEAN : UpstreamFails(c, there)
    PROVE  /\ call[c].pc # "idle" /\ call'[c].pc # "idle"
           /\ Hops(call'[c].pc) < Hops(call[c].pc)
           /\ \A q \in Clients : q # c => call'[q] = call[q]
  <1>0. c \in DOMAIN call /\ DOMAIN call[c] = {"pc", "headers", "service", "units", "reached", "early"}
    BY DEF EdgeTypeOK, Calls
  <1>1. CASE Preflight(c)
    <2>1. PICK pc \in {"arrive", "blocked"} : call' = [call EXCEPT ![c].pc = pc]
      BY <1>1 DEF Preflight, Goes
    <2>2. call' = [call EXCEPT ![c] = [call[c] EXCEPT !.pc = pc]]
      BY <1>0, <2>1
    <2>3. call[c].pc = "preflight"
      BY <1>1 DEF Preflight
    <2> QED
      BY <1>0, <2>2, <2>3, OneCallMoves, CallShaped DEF Hops
  <1>2. CASE Arrive(c)
    <2>0. PICK pc \in {"auth", "blocked"} :
              \E s : call' = [call EXCEPT ![c].pc = pc, ![c].service = s]
      BY <1>2 DEF Arrive
    <2>1. PICK s : call' = [call EXCEPT ![c].pc = pc, ![c].service = s]
      BY <2>0
    <2> DEFINE k == [call[c] EXCEPT !.pc = pc, !.service = s]
    <2>2. call' = [call EXCEPT ![c] = k] /\ k.pc = pc
      BY <1>0, <2>1
    <2>3. call[c].pc = "arrive"
      BY <1>2 DEF Arrive
    <2> HIDE DEF k
    <2>4. call'[c] = k /\ \A q \in Clients : q # c => call'[q] = call[q]
      BY <2>2, OneCallMoves, Zenon
    <2> QED
      BY <2>2, <2>3, <2>4 DEF Hops
  <1>3. CASE Deny(c)
    <2>1. call' = [call EXCEPT ![c].pc = "refused"] /\ call[c].pc = "auth"
      BY <1>3 DEF Deny, Goes
    <2>2. call' = [call EXCEPT ![c] = [call[c] EXCEPT !.pc = "refused"]]
      BY <1>0, <2>1
    <2> QED
      BY <2>1, <2>2, OneCallMoves, CallShaped DEF Hops
  <1>4. ASSUME NEW units \in 0 .. MaxCharges, NEW limited \in BOOLEAN,
               AuthTimesOut(c, units) \/ Allow(c, units, limited)
        PROVE  /\ call[c].pc # "idle" /\ call'[c].pc # "idle"
               /\ Hops(call'[c].pc) < Hops(call[c].pc)
               /\ \A q \in Clients : q # c => call'[q] = call[q]
    <2>0. PICK pc \in {"upstream", "refused"} :
              \E u : call' = [call EXCEPT ![c].pc = pc, ![c].units = u]
      BY <1>4 DEF Allow, AuthTimesOut
    <2>1. PICK u : call' = [call EXCEPT ![c].pc = pc, ![c].units = u]
      BY <2>0
    <2> DEFINE k == [call[c] EXCEPT !.pc = pc, !.units = u]
    <2>2. call' = [call EXCEPT ![c] = k] /\ k.pc = pc
      BY <1>0, <2>1
    <2>3. call[c].pc = "auth"
      BY <1>4 DEF Allow, AuthTimesOut
    <2> HIDE DEF k
    <2>4. call'[c] = k /\ \A q \in Clients : q # c => call'[q] = call[q]
      BY <2>2, OneCallMoves, Zenon
    <2> QED
      BY <2>2, <2>3, <2>4 DEF Hops
  <1>5. CASE Forward(c) \/ \E there \in BOOLEAN : UpstreamFails(c, there)
    <2>0. PICK pc \in {"answered", "refused"} :
              \E r : call' = [call EXCEPT ![c].pc = pc, ![c].reached = r]
      BY <1>5 DEF Forward, UpstreamFails
    <2>1. PICK r : call' = [call EXCEPT ![c].pc = pc, ![c].reached = r]
      BY <2>0
    <2> DEFINE k == [call[c] EXCEPT !.pc = pc, !.reached = r]
    <2>2. call' = [call EXCEPT ![c] = k] /\ k.pc = pc
      BY <1>0, <2>1
    <2>3. call[c].pc = "upstream"
      BY <1>5 DEF Forward, UpstreamFails
    <2> HIDE DEF k
    <2>4. call'[c] = k /\ \A q \in Clients : q # c => call'[q] = call[q]
      BY <2>2, OneCallMoves, Zenon
    <2> QED
      BY <2>2, <2>3, <2>4 DEF Hops
  <1> QED
    BY <1>1, <1>2, <1>3, <1>4, <1>5 DEF AtTheEdge, AskGateway

(* A call that ends, or one that is sent.                                  *)
LEMMA CallEnds ==
    ASSUME EdgeTypeOK, NEW c \in Clients, Leave(c) \/ GiveUp(c)
    PROVE  /\ call[c].pc # "idle" /\ call'[c].pc = "idle"
           /\ \A q \in Clients : q # c => call'[q] = call[q]
  <1>1. call' = [call EXCEPT ![c] = NoCall] /\ call[c].pc # "idle"
    BY DEF Leave, GiveUp
  <1>2. NoCall.pc = "idle"
    BY DEF NoCall
  <1>3. call'[c] = NoCall /\ \A q \in Clients : q # c => call'[q] = call[q]
    BY <1>1, OneCallMoves, Zenon
  <1> QED
    BY <1>1, <1>2, <1>3

LEMMA CallSent ==
    ASSUME EdgeTypeOK, NEW c \in Clients, NEW h, NEW asks, Send(c, h, asks)
    PROVE  /\ call'[c].pc # "idle"
           /\ \A q \in Clients : q # c => call'[q] = call[q]
  <1> DEFINE k == [NoCall EXCEPT !.pc = IF asks THEN "preflight" ELSE "arrive",
                                 !.headers = h, !.early = ~Complete]
  <1>1. call' = [call EXCEPT ![c] = k]
    BY DEF Send
  <1>2. k.pc # "idle"
    BY DEF NoCall
  <1> HIDE DEF k
  <1> QED
    BY <1>1, <1>2, OneCallMoves

(* What a step of panel p does to its fetch; the others are not concerned. *)
Elsewhere(p) ==
    \A q \in Panels : q # p => panel'[q] = panel[q] /\ call'[q] = call[q]
Idles(p) == panel'[p].step = "idle" /\ (mounted' => ~panel'[p].loading)

LEMMA PanelAlone ==
    ASSUME PageInv, NEW p \in Panels, NEW k, panel' = [panel EXCEPT ![p] = k],
           \A q \in Clients : q # p => call'[q] = call[q]
    PROVE  panel'[p] = k /\ Elsewhere(p)
  <1>1. \A q \in Panels : q \in Clients
    BY TryItAssumption
  <1> QED
    BY <1>1 DEF PageInv, Elsewhere

LEMMA FailIdles ==
    ASSUME PageInv, NEW p \in Panels, NEW why, Fail(p, why), UNCHANGED mounted,
           \A q \in Clients : q # p => call'[q] = call[q]
    PROVE  Idles(p) /\ Elsewhere(p)
  <1> DEFINE changed == [panel[p] EXCEPT !.error = why, !.loading = FALSE, !.step = "idle",
                                         !.response = NoResult]
             k == IF mounted THEN changed
                  ELSE [changed EXCEPT !.loading = panel[p].loading, !.error = panel[p].error,
                                       !.result = panel[p].result]
  <1>1. panel' = [panel EXCEPT ![p] = k]
    BY DEF Fail, Show
  <1>2. k.step = "idle" /\ (mounted => ~k.loading)
    BY OfPanel, Fields DEF Tidy, Shaped
  <1> HIDE DEF k
  <1> QED
    BY <1>1, <1>2, PanelAlone DEF Idles

LEMMA BodyIdles ==
    ASSUME PageInv, NEW p \in Panels, BodyRead(p) PROVE Idles(p) /\ Elsewhere(p)
  <1> DEFINE r == panel[p].response
             url == IF KindOf(r.type) = "binary" /\ ~r.file.empty
                    THEN <<p, panel[p].made + 1>> ELSE NoUrl
             made == IF url # NoUrl THEN panel[p].made + 1 ELSE panel[p].made
             result == [r EXCEPT !.kind = KindOf(r.type), !.url = url]
             changed == [panel[p] EXCEPT !.result = result, !.last = url, !.made = made,
                                         !.loading = FALSE, !.step = "idle",
                                         !.response = NoResult]
             k == IF mounted THEN changed
                  ELSE [changed EXCEPT !.loading = panel[p].loading, !.error = panel[p].error,
                                       !.result = panel[p].result]
  <1>1. panel' = [panel EXCEPT ![p] = k]
    BY OfPanel DEF BodyRead, Show
  <1>2. UNCHANGED <<mounted, call>>
    BY DEF BodyRead, edgeVars
  <1> HIDE DEF result, url, made
  <1>3. k.step = "idle" /\ (mounted => ~k.loading)
    BY OfPanel, Fields DEF Tidy, Shaped
  <1> HIDE DEF k
  <1> QED
    BY <1>1, <1>2, <1>3, PanelAlone DEF Idles

LEMMA AnsweredElsewhere ==
    ASSUME PageInv, NEW p \in Panels, NEW r, panel' = [panel EXCEPT ![p].response = r],
           \A q \in Clients : q # p => call'[q] = call[q]
    PROVE  /\ panel'[p].step = panel[p].step /\ panel'[p].loading = panel[p].loading
           /\ Elsewhere(p)
  <1> DEFINE k == [panel[p] EXCEPT !.response = r]
  <1>1. panel' = [panel EXCEPT ![p] = k]
    BY OfPanel
  <1>2. k.step = panel[p].step /\ k.loading = panel[p].loading
    BY OfPanel, Fields DEF Tidy, Shaped
  <1> HIDE DEF k
  <1> QED
    BY <1>1, <1>2, PanelAlone

LEMMA ServeResponds ==
    ASSUME NEW p \in Panels, Serve(p) \/ ServeLive(p)
    PROVE  \E r : panel' = [panel EXCEPT ![p].response = r]
  <1>1. ASSUME NEW s, NEW t, NEW content, NEW name, NEW f, Respond(p, s, t, content, name, f)
        PROVE  \E r : panel' = [panel EXCEPT ![p].response = r]
    BY <1>1, Zenon DEF Respond
  <1>2. CASE ServeLive(p)
    BY <1>1, <1>2, Zenon DEF ServeLive
  <1>3. ASSUME Succeed(p) \/ Reject(p, 404) \/ Reject(p, 400)
        PROVE  \E r : panel' = [panel EXCEPT ![p].response = r]
    BY <1>1, <1>3, Zenon DEF Succeed, Reject
  <1>4. CASE ReadFile(p)
    <2>1. CASE \E o \in store : o.key = panel[p].key
      BY <1>1, <1>4, <2>1, Zenon DEF ReadFile
    <2>2. CASE ~ \E o \in store : o.key = panel[p].key
      BY <1>3, <1>4, <2>2 DEF ReadFile
    <2> QED
      BY <2>1, <2>2
  <1>5. CASE StoreFile(p) \/ DeleteFile(p)
    BY <1>3, <1>5 DEF StoreFile, DeleteFile
  <1> QED
    BY <1>2, <1>3, <1>4, <1>5, ServeCases

(* What a hop of its call does to a panel whose fetch it is.               *)
LEMMA HopNearer ==
    ASSUME EdgeTypeOK, PageInv, NEW p \in Panels, Busy(p), UNCHANGED mounted,
           AtTheEdge(p) \/ Forward(p) \/ \E there \in BOOLEAN : UpstreamFails(p, there),
           panel'[p].step = panel[p].step /\ panel'[p].loading = panel[p].loading
    PROVE  Left(p)' < Left(p) /\ Busy(p)'
  <1>1. /\ call[p].pc # "idle" /\ call'[p].pc # "idle"
        /\ Hops(call'[p].pc) < Hops(call[p].pc)
    BY HopTaken, TryItAssumption
  <1> QED
    BY <1>1 DEF Busy, Left

LEMMA UpstreamNearer ==
    ASSUME EdgeTypeOK, PageInv, NEW p \in Panels, Busy(p),
           Upstream(p) \/ \E there \in BOOLEAN : UpstreamBreaks(p, there)
    PROVE  Left(p)' < Left(p) /\ Busy(p)' /\ Elsewhere(p)
  <1>1. /\ Forward(p) \/ \E there \in BOOLEAN : UpstreamFails(p, there)
        /\ UNCHANGED mounted
        /\ Serve(p) \/ ServeLive(p) \/ UNCHANGED panel
    BY DEF Upstream, UpstreamBreaks
  <1>2. \A q \in Clients : q # p => call'[q] = call[q]
    BY <1>1, HopTaken, TryItAssumption
  <1>3. /\ panel'[p].step = panel[p].step /\ panel'[p].loading = panel[p].loading
        /\ Elsewhere(p)
    <2>1. CASE UNCHANGED panel
      BY <1>2, <2>1, TryItAssumption DEF Elsewhere
    <2>2. CASE Serve(p) \/ ServeLive(p)
      BY <1>2, <2>2, ServeResponds, AnsweredElsewhere
    <2> QED
      BY <1>1, <2>1, <2>2
  <1> QED
    BY <1>1, <1>3, HopNearer

LEMMA EndNearer ==
    ASSUME NEW p \in Panels, Idles(p), UNCHANGED mounted, call'[p].pc = "idle"
    PROVE  Left(p)' = 0 /\ Busy(p)'
  BY DEF Idles, Left, Busy

LEMMA StepNearer ==
    ASSUME EdgeTypeOK, PageInv, NEW p \in Panels, Busy(p), PanelStep(p)
    PROVE  Left(p)' < Left(p) /\ Busy(p)' /\ Elsewhere(p)
  <1>0. p \in Clients
    BY TryItAssumption
  <1>1. CASE AtTheEdge(p)
    <2>1. UNCHANGED <<mounted, panel>>
      BY <1>1 DEF AtTheEdge, pageVars
    <2>2. Elsewhere(p)
      BY <1>1, <2>1, HopTaken, TryItAssumption DEF Elsewhere
    <2> QED
      BY <1>1, <2>1, <2>2, HopNearer
  <1>2. CASE HeadersCome(p)
    <2>1. /\ panel[p].step = "fetch" /\ call[p].pc \in {"answered", "refused"}
          /\ UNCHANGED mounted /\ Leave(p)
      BY <1>2 DEF HeadersCome
    <2>2. call'[p].pc = "idle" /\ \A q \in Clients : q # p => call'[q] = call[q]
      BY <1>0, <2>1, CallEnds
    <2>3. PICK r : panel' = [panel EXCEPT ![p].step = "body", ![p].last = NoUrl,
                                          ![p].response = r]
      BY <1>2 DEF HeadersCome
    <2> DEFINE k == [panel[p] EXCEPT !.step = "body", !.last = NoUrl, !.response = r]
    <2>4. panel' = [panel EXCEPT ![p] = k]
      BY <2>3, OfPanel
    <2>5. k.step = "body"
      BY OfPanel, Fields DEF Tidy, Shaped
    <2> HIDE DEF k
    <2>6. panel'[p].step = "body" /\ Elsewhere(p)
      BY <2>2, <2>4, <2>5, PanelAlone
    <2> QED
      BY <2>1, <2>2, <2>6 DEF Busy, Left, Hops
  <1>3. CASE BodyRead(p)
    <2>1. panel[p].step = "body" /\ UNCHANGED <<mounted, call>>
      BY <1>3 DEF BodyRead, edgeVars
    <2> QED
      BY <1>3, <2>1, BodyIdles, EndNearer DEF Busy, Left
  <1>4. CASE FetchBlocked(p)
    <2>1. /\ panel[p].step = "fetch" /\ call[p].pc = "blocked" /\ UNCHANGED mounted
          /\ Leave(p) /\ Fail(p, "blocked")
      BY <1>4 DEF FetchBlocked
    <2>2. call'[p].pc = "idle" /\ \A q \in Clients : q # p => call'[q] = call[q]
      BY <1>0, <2>1, CallEnds
    <2>3. Idles(p) /\ Elsewhere(p)
      BY <2>1, <2>2, FailIdles
    <2> QED
      BY <2>1, <2>2, <2>3, EndNearer DEF Left, Hops
  <1> QED
    BY <1>1, <1>2, <1>3, <1>4, UpstreamNearer DEF PanelStep

LEMMA CutIdles ==
    ASSUME EdgeTypeOK, PageInv, NEW p \in Panels, Busy(p), ConnectionCut(p)
    PROVE  Left(p)' = 0 /\ Busy(p)' /\ Elsewhere(p)
  <1>1. /\ UNCHANGED mounted /\ Fail(p, "cut")
        /\ \/ GiveUp(p)
           \/ panel[p].step = "body" /\ UNCHANGED call
    BY DEF ConnectionCut, edgeVars
  <1>2. call'[p].pc = "idle" /\ \A q \in Clients : q # p => call'[q] = call[q]
    <2>1. p \in Clients
      BY TryItAssumption
    <2>2. CASE GiveUp(p)
      BY <2>1, <2>2, CallEnds
    <2>3. CASE panel[p].step = "body" /\ UNCHANGED call
      BY <2>3 DEF Busy
    <2> QED
      BY <1>1, <2>2, <2>3
  <1> QED
    BY <1>1, <1>2, FailIdles, EndNearer

LEMMA PressedNearer ==
    ASSUME EdgeTypeOK, PageInv, NEW p \in Panels, Busy(p), SubmitNoKey(p) \/ Submit(p)
    PROVE  Busy(p)' /\ Elsewhere(p) /\ (SubmitNoKey(p) => Left(p)' = Left(p))
  <1>1. CASE SubmitNoKey(p)
    <2> DEFINE k == [panel[p] EXCEPT !.error = "no key"]
    <2>1. panel' = [panel EXCEPT ![p] = k] /\ UNCHANGED <<mounted, call>>
      BY <1>1, OfPanel DEF SubmitNoKey, edgeVars
    <2>2. k.step = panel[p].step /\ k.loading = panel[p].loading
      BY OfPanel, Fields DEF Tidy, Shaped
    <2> HIDE DEF k
    <2>3. panel'[p] = k /\ Elsewhere(p)
      BY <2>1, PanelAlone
    <2> QED
      BY <2>1, <2>2, <2>3 DEF Busy, Left
  <1>2. CASE Submit(p)
    <2>1. PICK f, key, wf : panel' = [panel EXCEPT ![p] = Sending(p, f, key, wf)]
      BY <1>2 DEF Submit
    <2>2. call'[p].pc # "idle" /\ \A q \in Clients : q # p => call'[q] = call[q]
      BY <1>2, CallSent, TryItAssumption DEF Submit
    <2>3. Sending(p, f, key, wf).step = "fetch"
      BY OfPanel, Fields DEF Sending, Tidy, Shaped
    <2>4. panel'[p].step = "fetch" /\ Elsewhere(p)
      BY <2>1, <2>2, <2>3, PanelAlone
    <2>5. ~SubmitNoKey(p)
      BY <1>2 DEF Submit, SubmitNoKey
    <2> QED
      BY <2>2, <2>4, <2>5 DEF Busy
  <1> QED
    BY <1>1, <1>2

LEMMA CurlLeavesPanels ==
    ASSUME EdgeTypeOK, NEW c \in Others, Curl(c) \/ AtTheEdge(c) \/ CurlAnswered(c)
    PROVE  UNCHANGED <<mounted, panel>> /\ \A q \in Panels : call'[q] = call[q]
  <1>0. c \in Clients /\ \A q \in Panels : q \in Clients /\ q # c
    BY TryItAssumption
  <1>1. UNCHANGED <<mounted, panel>>
    BY DEF Curl, AtTheEdge, CurlAnswered, pageVars
  <1>2. \A q \in Clients : q # c => call'[q] = call[q]
    BY <1>0, HopTaken, CallSent, CallEnds DEF Curl, CurlAnswered
  <1> QED
    BY <1>0, <1>1, <1>2

(* A step leaves the fetches of all panels sound, and all but those it     *)
(* sends no further from their end.                                        *)
LEMMA BusySteps ==
    ASSUME EdgeTypeOK, PageInv, BusyInv, [Next]_vars
    PROVE  BusyInv' /\ NearerToTheEnd
  <1>0. \A q \in Panels : Left(q) >= 0
    BY HopsLeft DEF Left
  <1>1. ASSUME NEW q \in Panels, panel'[q] = panel[q], call'[q] = call[q],
               mounted' => mounted
        PROVE  Busy(q)' /\ Left(q)' = Left(q)
    BY <1>1 DEF BusyInv, Busy, Left
  <1>2. ASSUME NEW p \in Panels, Elsewhere(p), Busy(p)', mounted' => mounted,
               Left(p)' <= Left(p) \/ Submit(p)
        PROVE  BusyInv' /\ \A q \in Panels : Left(q)' > Left(q) => Submit(q)
    <2>1. \A q \in Panels : q # p => Busy(q)' /\ Left(q)' = Left(q)
      BY <1>1, <1>2 DEF Elsewhere
    <2>2. BusyInv'
      BY <1>2, <2>1 DEF BusyInv
    <2>3. \A q \in Panels : Left(q) \in Int /\ Left(q)' \in Int
      BY HopsLeft DEF Left
    <2> QED
      BY <1>2, <2>1, <2>2, <2>3
  <1>3. ASSUME mounted' => mounted, \A q \in Panels : panel'[q] = panel[q] /\ call'[q] = call[q]
        PROVE  BusyInv' /\ \A q \in Panels : Left(q)' > Left(q) => Submit(q)
    <2>1. \A q \in Panels : Busy(q)' /\ Left(q)' = Left(q)
      BY <1>1, <1>3
    <2>2. \A q \in Panels : Left(q) \in Int
      BY HopsLeft DEF Left
    <2> QED
      BY <2>1, <2>2 DEF BusyInv
  <1>4. ASSUME NEW p \in Panels, PanelStep(p) PROVE Left(p)' < Left(p)
    BY <1>4, StepNearer DEF BusyInv
  <1>5. BusyInv' /\ \A q \in Panels : Left(q)' > Left(q) => Submit(q)
    <2>1. ASSUME NEW p \in Panels,
                 PanelStep(p) \/ \E there \in BOOLEAN : UpstreamBreaks(p, there)
          PROVE  BusyInv' /\ \A q \in Panels : Left(q)' > Left(q) => Submit(q)
      <3>1. Left(p)' < Left(p) /\ Busy(p)' /\ Elsewhere(p)
        BY <2>1, StepNearer, UpstreamNearer DEF BusyInv
      <3>2. Left(p) \in Int /\ Left(p)' \in Int
        BY HopsLeft DEF Left
      <3>3. mounted' => mounted
        BY <2>1 DEF PanelStep, AtTheEdge, pageVars, Upstream, HeadersCome, BodyRead,
                    FetchBlocked, UpstreamBreaks
      <3>4. Left(p)' <= Left(p)
        BY <3>1, <3>2
      <3> QED
        BY <1>2, <3>1, <3>3, <3>4
    <2>2. ASSUME NEW p \in Panels, SubmitNoKey(p) \/ Submit(p) \/ ConnectionCut(p)
          PROVE  BusyInv' /\ \A q \in Panels : Left(q)' > Left(q) => Submit(q)
      <3>1. Busy(p)' /\ Elsewhere(p)
            /\ (Left(p)' = Left(p) \/ Left(p)' = 0 \/ Submit(p))
        BY <2>2, PressedNearer, CutIdles DEF BusyInv
      <3>2. Left(p) \in Nat
        BY HopsLeft DEF Left
      <3>3. mounted' => mounted
        BY <2>2 DEF SubmitNoKey, Submit, ConnectionCut
      <3>4. Left(p)' <= Left(p) \/ Submit(p)
        BY <3>1, <3>2
      <3> QED
        BY <1>2, <3>1, <3>3, <3>4
    <2>3. ASSUME NEW c \in Others, Curl(c) \/ AtTheEdge(c) \/ CurlAnswered(c)
          PROVE  BusyInv' /\ \A q \in Panels : Left(q)' > Left(q) => Submit(q)
      BY <1>3, <2>3, CurlLeavesPanels
    <2>4. CASE Deploy
      <3>1. UNCHANGED <<mounted, panel, call>>
        BY <2>4 DEF Deploy, pageVars, EditFile, Sync, StartSync, Put, PutFails
      <3> QED
        BY <1>3, <3>1
    <2>5. CASE \/ RestartSandbox \/ LeavePage \/ UNCHANGED vars
               \/ \E text \in instance.pasted : Paste(text)
      <3>1. (mounted' => mounted) /\ UNCHANGED <<panel, call>>
        BY <2>5 DEF RestartSandbox, LeavePage, Paste, vars, pageVars, edgeVars
      <3> QED
        BY <1>3, <3>1
    <2> QED
      BY <2>1, <2>2, <2>3, <2>4, <2>5 DEF Next
  <1> QED
    BY <1>4, <1>5 DEF NearerToTheEnd

LEMMA InitBusy == Init => BusyInv
  <1> SUFFICES ASSUME Init, NEW p \in Panels PROVE Busy(p)
    BY DEF BusyInv
  <1>1. panel[p] = Fresh /\ call[p] = NoCall
    BY TryItAssumption DEF Init, EdgeInit
  <1>2. Fresh.step = "idle" /\ Fresh.loading = FALSE /\ NoCall.pc = "idle"
    BY DEF Fresh, NoCall
  <1> QED
    BY <1>1, <1>2 DEF Busy

LEMMA BusyInvariant == Spec => []BusyInv
  BY InitBusy, BusySteps, PageUsesEdge, EdgeTyped, PageInvariant, PTL DEF Spec

(* The button is disabled only while a fetch is under way.                 *)
THEOREM DisabledOnlyUnderWay == Spec => []LoadsOnlyUnderWay
  BY BusyMeans, BusyInvariant, PanelsInvariant, PTL

(* Whatever happens to a call - it is refused, blocked, cut, broken off -  *)
(* each step of the panel shortens what is left of its fetch, and nothing  *)
(* but its button lengthens it: a fetch has at most six of those steps.    *)
THEOREM FetchAdvances == Spec => [][NearerToTheEnd]_vars
  BY BusySteps, BusyInvariant, PageUsesEdge, EdgeTyped, PageInvariant, PTL DEF Spec
=============================================================================
