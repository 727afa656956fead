------------------------------- MODULE TryIt -------------------------------
(***************************************************************************)
(* The documentation page of the portal: its Try it panels send what they  *)
(* document from the browser to APISIX (Edge), with the key pasted above   *)
(* them, and show what comes back - from the sandbox, whose store of files *)
(* is modelled, or from the live service.                                  *)
(*                                                                         *)
(* A panel that is gone from the page goes on with the fetch it began.     *)
(* The panels of a later visit share nothing with these and are not shown. *)
(***************************************************************************)
EXTENDS Edge, Catalogue

CONSTANTS
    Panels,
    Others,                 \* clients with curl
    Files,                  \* files one may upload: [name, type, empty]
    Instances               \* the small instances a run looks at side by side

(* An instance: what each panel documents, the keys that may be pasted and *)
(* the headers curl sends, whether the topology is deployed and its file   *)
(* edited, and the bounds on calls, broken connections and restarts of the *)
(* sandbox.                                                                *)
ASSUME TryItAssumption ==
    /\ Clients = Panels \cup Others /\ Panels \cap Others = {}
    /\ \A i \in Instances :
          /\ i.page \in [Panels -> Endpoints]
          /\ i.pasted \subseteq Texts /\ i.curled \subseteq Headers
          /\ i.deployed \in BOOLEAN /\ i.edited \in BOOLEAN
          /\ i.sends \in Nat /\ i.cuts \in Nat /\ i.restarts \in Nat

VARIABLES                   \* the page
    instance,
    apiKey,                 \* TryItContext
    mounted,                \* is the page still there?
    panel,                  \* panel[p]: the state of TryItPanel
    urls                    \* object URLs not revoked

VARIABLES                   \* the sandbox
    store, seq

VARIABLES                   \* history
    late,                   \* URLs made by panels no longer there
    given,                  \* keys given for uploads, by each life of the sandbox
    life, sends, cuts

pageVars == <<instance, apiKey, mounted, panel, urls, late>>
mockVars == <<store, seq, given, life>>
vars == <<edgeVars, pageVars, mockVars, sends, cuts>>

NoUrl == <<>>
NoFile == [name |-> None, type |-> Octets, empty |-> FALSE]
NoKey == <<0, None>>
NoResult == [status |-> 0, type |-> None, content |-> None, filename |-> None,
             kind |-> None, file |-> NoFile, url |-> NoUrl]
Fresh == [loading |-> FALSE, error |-> None, result |-> NoResult, last |-> NoUrl, made |-> 0,
          step |-> "idle", response |-> NoResult, file |-> NoFile, key |-> NoKey,
          wellFormed |-> TRUE]

endpoint == instance.page
KeysGiven == {g.key : g \in given}

(* What the form of an endpoint lets one send: a file where one is asked   *)
(* for, a key that was shown or a made-up one, any text as a raw body.     *)
FilesFor(e) == IF e.path = "/s3/upload" THEN Files ELSE {NoFile}
KeysFor(e) == IF e.keyed THEN KeysGiven \cup {NoKey} ELSE {NoKey}
BodiesFor(e) == IF e.takes = Json THEN BOOLEAN ELSE {TRUE}
-----------------------------------------------------------------------------
Init ==
    /\ EdgeInit
    /\ instance \in Instances
    /\ due # instance.deployed
    /\ apiKey = NoText /\ mounted = TRUE
    /\ panel = [p \in Panels |-> Fresh]
    /\ urls = {} /\ late = {}
    /\ store = {} /\ seq = 0 /\ given = {} /\ life = 0
    /\ sends = 0 /\ cuts = 0

Paste(text) ==
    /\ mounted /\ text # apiKey
    /\ apiKey' = text
    /\ UNCHANGED <<edgeVars, mockVars, instance, mounted, panel, urls, late, sends, cuts>>

(* submit() without a key: what was shown before stays.                    *)
SubmitNoKey(p) ==
    /\ mounted /\ ~panel[p].loading
    /\ apiKey = NoText
    /\ panel' = [panel EXCEPT ![p].error = "no key"]
    /\ UNCHANGED <<edgeVars, mockVars, instance, apiKey, mounted, urls, late, sends, cuts>>

SendingOverOld(p, chosen, key, wellFormed) ==              \* mutant: no setResult(null)
    [panel[p] EXCEPT !.loading = TRUE, !.error = None, !.step = "fetch",
                     !.file = chosen, !.key = key, !.wellFormed = wellFormed]
Sending(p, chosen, key, wellFormed) ==
    [panel[p] EXCEPT !.loading = TRUE, !.error = None, !.result = NoResult, !.step = "fetch",
                     !.file = chosen, !.key = key, !.wellFormed = wellFormed]

(* The button is disabled while a fetch is under way.                      *)
Submit(p) ==
    /\ mounted /\ ~panel[p].loading
    /\ apiKey # NoText
    /\ sends < instance.sends
    /\ Send(p, [authorization |-> [scheme |-> "Bearer", key |-> apiKey], apikey |-> NoText], TRUE)
    /\ \E chosen \in FilesFor(endpoint[p]), key \in KeysFor(endpoint[p]),
          wellFormed \in BodiesFor(endpoint[p]) :
          panel' = [panel EXCEPT ![p] = Sending(p, chosen, key, wellFormed)]
    /\ sends' = sends + 1
    /\ UNCHANGED <<mockVars, instance, apiKey, mounted, urls, late, cuts>>

Curl(c) ==
    /\ sends < instance.sends
    /\ \E h \in instance.curled : Send(c, h, FALSE)
    /\ sends' = sends + 1
    /\ UNCHANGED <<pageVars, mockVars, cuts>>

AtTheEdge(c) ==
    /\ Preflight(c) \/ Arrive(c) \/ AskGateway(c)
    /\ UNCHANGED <<pageVars, mockVars, sends, cuts>>
-----------------------------------------------------------------------------
(* What the sandbox answers panel p.                                       *)
Respond(p, status, type, content, filename, sent) ==
    panel' = [panel EXCEPT ![p].response =
                 [NoResult EXCEPT !.status = status, !.type = type, !.content = content,
                                  !.filename = filename, !.file = sent]]
Reject(p, status) == Respond(p, status, Json, "json", Inline, NoFile)
Succeed(p) ==
    LET r == RouteOf(endpoint[p]) IN
    Respond(p, Success(r.method), r.type, Payload(r.path), r.filename, NoFile)

KeyFor(n, name) == <<n, name>>
NextByCount == Cardinality(store) + 1                      \* mutant: numbered by what is stored
NextSeq == seq + 1

(* S3Service.upload.                                                       *)
StoreFile(p) ==
    LET object == [key |-> KeyFor(NextSeq, panel[p].file.name), file |-> panel[p].file] IN
    /\ seq' = NextSeq
    /\ store' = {o \in store : o.key # object.key} \cup {object}
    /\ given' = given \cup {[key |-> object.key, file |-> object.file, life |-> life]}
    /\ UNCHANGED life
    /\ Succeed(p)

(* S3Service.get and S3Service.delete; the former answers with the type    *)
(* and the name the file was uploaded with.                                *)
ReadFile(p) ==
    /\ IF \E o \in store : o.key = panel[p].key
       THEN LET o == CHOOSE o \in store : o.key = panel[p].key IN
            Respond(p, 200, o.file.type, "file", "original filename", o.file)
       ELSE Reject(p, 404)
    /\ UNCHANGED mockVars
DeleteFile(p) ==
    /\ store' = {o \in store : o.key # panel[p].key}
    /\ IF store' # store THEN Succeed(p) ELSE Reject(p, 404)
    /\ UNCHANGED <<seq, given, life>>

(* The sandbox answers the request panel p built; json bodies are parsed   *)
(* before their handler is called.                                         *)
Serve(p) ==
    CASE ~IsServed(endpoint[p]) -> Reject(p, 404) /\ UNCHANGED mockVars
      [] endpoint[p] = S3Upload -> StoreFile(p)
      [] endpoint[p] = S3Download -> ReadFile(p)
      [] endpoint[p] = S3Delete -> DeleteFile(p)
      [] OTHER -> /\ IF panel[p].wellFormed THEN Succeed(p) ELSE Reject(p, 400)
                  /\ UNCHANGED mockVars

(* The live service, which is not part of the repository, answers as it is *)
(* documented to.                                                          *)
ServeLive(p) ==
    /\ Respond(p, 200, IF endpoint[p].type = Original THEN Octets ELSE endpoint[p].type,
               endpoint[p].content, endpoint[p].filename, NoFile)
    /\ UNCHANGED mockVars

AtSandbox(c) == UpstreamOf(call[c].service) = Mock

Upstream(p) ==
    /\ Forward(p)
    /\ IF AtSandbox(p) THEN Serve(p) ELSE ServeLive(p)
    /\ UNCHANGED <<instance, apiKey, mounted, urls, late, sends, cuts>>

(* The edge answers 502 or 504; what the call was to do may be done.       *)
UpstreamBreaks(p, there) ==
    /\ cuts < instance.cuts /\ cuts' = cuts + 1
    /\ UpstreamFails(p, there)
    /\ IF there /\ AtSandbox(p) THEN Serve(p) ELSE UNCHANGED <<mockVars, panel>>
    /\ UNCHANGED <<instance, apiKey, mounted, urls, late, sends>>

(* curl asks for /mustang/ping, which keeps nothing.                       *)
CurlAnswered(c) ==
    /\ Forward(c) \/ Leave(c)
    /\ UNCHANGED <<pageVars, mockVars, sends, cuts>>

RestartSandbox ==
    /\ life < instance.restarts
    /\ life' = life + 1
    /\ store' = {} /\ seq' = 0
    /\ UNCHANGED <<edgeVars, pageVars, given, sends, cuts>>
-----------------------------------------------------------------------------
(* The answers the edge and the gateway give on their own.                 *)
Refusals == {[NoResult EXCEPT !.status = s, !.type = t, !.content = "refusal"] :
                s \in {401, 503}, t \in {Json, Plain}}

(* fetch() resolves: the last object URL goes, the body is yet to be read. *)
HeadersComeKept(p) ==                                      \* mutant: no revokeObjectURL
    /\ panel[p].step = "fetch"
    /\ call[p].pc \in {"answered", "refused"}
    /\ \E response \in IF call[p].pc = "answered" THEN {panel[p].response} ELSE Refusals :
          panel' = [panel EXCEPT ![p].step = "body", ![p].last = NoUrl,
                                 ![p].response = response]
    /\ Leave(p)
    /\ UNCHANGED <<mockVars, instance, apiKey, mounted, urls, late, sends, cuts>>
HeadersCome(p) ==
    /\ panel[p].step = "fetch"
    /\ call[p].pc \in {"answered", "refused"}
    /\ \E response \in IF call[p].pc = "answered" THEN {panel[p].response} ELSE Refusals :
          panel' = [panel EXCEPT ![p].step = "body", ![p].last = NoUrl,
                                 ![p].response = response]
    /\ urls' = urls \ {panel[p].last}
    /\ Leave(p)
    /\ UNCHANGED <<mockVars, instance, apiKey, mounted, late, sends, cuts>>

(* Of text/* only text/plain occurs. *)
KindOf(type) ==
    IF type = Json THEN "json" ELSE IF type \in {Plain, Xml} THEN "text" ELSE "binary"

(* What a panel shows changes only while it is there.                      *)
Show(p, changed) ==
    panel' = [panel EXCEPT ![p] =
                 IF mounted THEN changed
                 ELSE [changed EXCEPT !.loading = panel[p].loading, !.error = panel[p].error,
                                      !.result = panel[p].result]]

(* Text is shown as it is; of anything else that is not empty an object    *)
(* URL is made for the link.                                               *)
BodyRead(p) ==
    LET response == panel[p].response
        url == IF KindOf(response.type) = "binary" /\ ~response.file.empty
               THEN <<p, panel[p].made + 1>> ELSE NoUrl IN
    /\ panel[p].step = "body"
    /\ Show(p, [panel[p] EXCEPT
                    !.result = [response EXCEPT !.kind = KindOf(response.type), !.url = url],
                    !.last = url, !.made = IF url # NoUrl THEN @ + 1 ELSE @,
                    !.loading = FALSE, !.step = "idle", !.response = NoResult])
    /\ urls' = urls \cup ({url} \ {NoUrl})
    /\ late' = IF mounted THEN late ELSE late \cup ({url} \ {NoUrl})
    /\ UNCHANGED <<edgeVars, mockVars, instance, apiKey, mounted, sends, cuts>>

(* catch and finally.                                                      *)
FailStuck(p, why) ==                                       \* mutant: no finally
    Show(p, [panel[p] EXCEPT !.error = why, !.step = "idle", !.response = NoResult])
Fail(p, why) ==
    Show(p, [panel[p] EXCEPT !.error = why, !.loading = FALSE, !.step = "idle",
                             !.response = NoResult])

(* The browser gives the page nothing of a response without CORS headers.  *)
FetchBlocked(p) ==
    /\ panel[p].step = "fetch" /\ call[p].pc = "blocked"
    /\ Fail(p, "blocked")
    /\ Leave(p)
    /\ UNCHANGED <<mockVars, instance, apiKey, mounted, urls, late, sends, cuts>>

(* The connection breaks before the call arrives, with the answer under    *)
(* way, or with the body half read.                                        *)
ConnectionCut(p) ==
    /\ cuts < instance.cuts /\ cuts' = cuts + 1
    /\ Fail(p, "cut")
    /\ \/ panel[p].step = "fetch" /\ GiveUp(p)
       \/ panel[p].step = "body" /\ UNCHANGED edgeVars
    /\ UNCHANGED <<mockVars, instance, apiKey, mounted, urls, late, sends>>

(* The panels unmount, each revoking the URL it made last.                 *)
LeavePage ==
    /\ mounted
    /\ mounted' = FALSE
    /\ urls' = urls \ {panel[p].last : p \in Panels}
    /\ UNCHANGED <<edgeVars, mockVars, instance, apiKey, panel, late, sends, cuts>>
-----------------------------------------------------------------------------
Deploy ==
    /\ (EditFile /\ instance.edited) \/ Sync
    /\ UNCHANGED <<pageVars, mockVars, sends, cuts>>

PanelStep(p) ==
    \/ AtTheEdge(p) \/ Upstream(p)
    \/ HeadersCome(p) \/ BodyRead(p) \/ FetchBlocked(p)

Next ==
    \/ Deploy \/ RestartSandbox \/ LeavePage
    \/ \E text \in instance.pasted : Paste(text)
    \/ \E p \in Panels :
          \/ SubmitNoKey(p) \/ Submit(p) \/ PanelStep(p) \/ ConnectionCut(p)
          \/ \E there \in BOOLEAN : UpstreamBreaks(p, there)
    \/ \E c \in Others : Curl(c) \/ AtTheEdge(c) \/ CurlAnswered(c)

(* A call moves on - every hop has a timeout -, the browser runs what it   *)
(* has to run, and a synchronisation that is due is run to its end.        *)
Fairness ==
    /\ \A p \in Panels : WF_vars(PanelStep(p))
    /\ WF_vars((StartSync \/ Put) /\ UNCHANGED <<pageVars, mockVars, sends, cuts>>)

Spec == Init /\ [][Next]_vars
FairSpec == Spec /\ Fairness
-----------------------------------------------------------------------------
TypeOK ==
    /\ EdgeTypeOK
    /\ instance \in Instances
    /\ apiKey \in instance.pasted \cup {NoText} /\ mounted \in BOOLEAN
    /\ \A p \in Panels : panel[p].step \in {"idle", "fetch", "body"} /\ panel[p].made \in Nat
    /\ \A o \in store : o.key[1] \in 1 .. seq
    /\ sends \in 0 .. instance.sends /\ cuts \in 0 .. instance.cuts /\ life \in 0 .. instance.restarts

(* What the sandbox says of an endpoint is what the page documents: some   *)
(* route lets the request in and reads all of it, success has the type,    *)
(* bytes and file name documented, and a failure has a status listed.  The *)
(* number of a success is left out: the page has 200, a POST gets 201.     *)
ContentAsDocumented ==
    \A p \in Panels :
        LET e == endpoint[p]  r == panel[p].result IN
        r.content \notin {None, "refusal"} =>
            /\ IsServed(e) /\ Understands(RouteOf(e), e)
            /\ IF r.status \in {200, 201}
               THEN /\ r.type = e.type \/ e.type = Original
                    /\ r.content = e.content /\ r.filename = e.filename
               ELSE r.status \in e.errors

(* A link that is shown leads somewhere: its object URL is not revoked.    *)
ShownLinkAlive ==
    \A p \in Panels : mounted /\ panel[p].result.url # NoUrl => panel[p].result.url \in urls

(* However sends, failures and leaving interleave, the page holds on to no *)
(* more than one object URL a panel, and to none of these once it is gone; *)
(* only what a fetch makes after that is never revoked.                    *)
UrlsReleased ==
    urls = late \cup (IF mounted THEN {panel[p].last : p \in Panels} \ {NoUrl} ELSE {})

(* While the sandbox lives it gives no key twice, whatever was deleted in  *)
(* between and whoever uploads a file of the same name.                    *)
StorageKeysUnique ==
    \A g, h \in given : g.life = h.life /\ g.key = h.key => g.file = h.file

(* However a call ends - refused, blocked, cut off, broken upstream - the  *)
(* button can be pressed again, or the page is gone.                       *)
PanelComesBack ==
    \A p \in Panels : panel[p].loading ~> ~panel[p].loading \/ ~mounted
=============================================================================
