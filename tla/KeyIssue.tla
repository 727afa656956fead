------------------------------ MODULE KeyIssue ------------------------------
(***************************************************************************)
(* The portal's keys page: a key is asked for in CreateKeyDialog, made by  *)
(* createApiKeyAction on the server, and shown once; a key is revoked by   *)
(* RevokeKeyButton and revokeApiKeyAction.                                 *)
(*                                                                         *)
(* The tabs are those of one browser: they share its cookie, and each      *)
(* keeps the page it was given until it is loaded again.  An action runs   *)
(* on the server whatever becomes of the tab that asked for it.            *)
(*                                                                         *)
(* A plaintext key is the submission that made it, its environment and the *)
(* six characters of its prefix; its HMAC tells keys apart as the key does *)
(* and is written as the key.                                              *)
(***************************************************************************)
EXTENDS Integers, Sequences, FiniteSets

CONSTANTS
    Users, Tabs,
    Requests,               \* slots for server actions running at once
    Tokens,                 \* what the first six characters of a token may be
    Environments,           \* "live" and "test"
    MAX_PREFIX_ATTEMPTS,
    Nobody, NoKey           \* no session, no key

CONSTANTS                   \* bounds for model checking
    MaxSubmits,             \* keys asked for
    MaxRevokes,             \* revocations confirmed
    MaxSignIns,             \* sessions begun
    MaxDeletes,             \* accounts deleted
    MaxFaults               \* calls of the database, and answers, that go wrong

ASSUME KeyIssueAssumption ==
    /\ MAX_PREFIX_ATTEMPTS \in Nat \ {0}
    /\ Nobody \notin Users
    /\ NoKey \notin [n : Nat, env : Environments, token : Tokens]
    /\ \A n \in {MaxSubmits, MaxRevokes, MaxSignIns, MaxDeletes, MaxFaults} : n \in Nat

VARIABLES                   \* Supabase
    profiles,               \* users with an account
    valid,                  \* users with a session Auth accepts
    rows                    \* api_keys

VARIABLES                   \* the browser
    cookie,                 \* whose session it presents
    onKeys,                 \* tabs that show the keys page
    listed,                 \* listed[t]: keys the page in t offers to revoke
    dialog                  \* dialog[t]: CreateKeyDialog's state

VARIABLES                   \* the server
    req                     \* req[r]: the action in slot r

VARIABLES                   \* history
    asked,                  \* asked[n]: who submitted the n-th form, and for what
    dismissed,              \* keys shown and put away with Done
    missed,                 \* keys stored whose plaintext got lost on its way
    unanswered,             \* submissions whose answer got lost
    renounced,              \* keys whose owner confirmed their revocation
    revokes, signIns, faults

browserVars == <<cookie, onKeys, listed, dialog>>
countVars == <<revokes, signIns, faults>>
vars == <<profiles, valid, rows, browserVars, req, asked, dismissed, missed, unanswered,
          renounced, countVars>>

PrefixOf(key) == <<key.env, key.token>>
Free == [pc |-> "free"]

(* Slots are alike: an action takes the first that is free.                *)
Takes(r) == req[r] = Free /\ r = CHOOSE q \in Requests : req[q] = Free

(* A dialog just mounted: closed, waiting for no answer.  (The error it may *)
(* show instead of a key is left out.)                                     *)
Fresh == [open |-> FALSE, waiting |-> 0, key |-> NoKey]
-----------------------------------------------------------------------------
Init ==
    /\ profiles = Users /\ valid = {} /\ rows = {}
    /\ cookie = Nobody /\ onKeys = {}
    /\ listed = [t \in Tabs |-> {}]
    /\ dialog = [t \in Tabs |-> Fresh]
    /\ req = [r \in Requests |-> Free]
    /\ asked = <<>>
    /\ dismissed = {} /\ missed = {} /\ unanswered = {} /\ renounced = {}
    /\ revokes = 0 /\ signIns = 0 /\ faults = 0

(* What a page rendered for u lists with a Revoke button.                  *)
Revocable(keys, u) ==
    {row.hash : row \in {x \in keys : x.owner = u /\ x.status # "revoked"}}

(* The page of tab t goes, a key its dialog holds with it, and gives way to*)
(* the keys page or to another.                                            *)
Show(t, isKeys) ==
    /\ onKeys' = IF isKeys THEN onKeys \cup {t} ELSE onKeys \ {t}
    /\ listed' = [listed EXCEPT ![t] = IF isKeys THEN Revocable(rows, cookie) ELSE {}]
    /\ dialog' = [dialog EXCEPT ![t] = Fresh]
    /\ missed' = IF dialog[t].key = NoKey THEN missed ELSE missed \cup {dialog[t].key}
-----------------------------------------------------------------------------
(* Login and the OAuth callback, in a tab that then leaves the keys page;  *)
(* signOut.  The other tabs stay as they are.                              *)
SignIn(t, u) ==
    /\ u \in profiles /\ cookie # u /\ signIns < MaxSignIns
    /\ signIns' = signIns + 1
    /\ cookie' = u
    /\ valid' = valid \cup {u}
    /\ Show(t, FALSE)
    /\ UNCHANGED <<profiles, rows, req, asked, dismissed, unanswered, renounced,
                   revokes, faults>>

SignOut(t) ==
    /\ cookie # Nobody
    /\ cookie' = Nobody
    /\ valid' = valid \ {cookie}
    /\ Show(t, FALSE)
    /\ UNCHANGED <<profiles, rows, req, asked, dismissed, unanswered, renounced,
                   countVars>>

(* KeysPage, behind updateSession: without a session the tab is redirected.*)
LoadPage(t) ==
    /\ Show(t, cookie \in valid)
    /\ UNCHANGED <<profiles, valid, rows, cookie, req, asked, dismissed,
                   unanswered, renounced, countVars>>

DeleteAccount(u) ==
    /\ u \in profiles /\ Cardinality(Users \ profiles) < MaxDeletes
    /\ profiles' = profiles \ {u}
    /\ valid' = valid \ {u}
    /\ rows' = {row \in rows : row.owner # u}
    /\ UNCHANGED <<browserVars, req, asked, dismissed, missed, unanswered,
                   renounced, countVars>>
-----------------------------------------------------------------------------
(* CreateKeyDialog.                                                        *)
Open(t) ==
    /\ t \in onKeys /\ ~dialog[t].open
    /\ dialog' = [dialog EXCEPT ![t].open = TRUE]
    /\ UNCHANGED <<profiles, valid, rows, cookie, onKeys, listed, req, asked,
                   dismissed, missed, unanswered, renounced, countVars>>

(* submit(): the button is disabled while an answer is awaited.            *)
Submit(t, r, env) ==
    /\ dialog[t].open /\ dialog[t].key = NoKey /\ dialog[t].waiting = 0
    /\ Takes(r) /\ Len(asked) < MaxSubmits
    /\ asked' = Append(asked, [user |-> cookie, env |-> env])
    /\ dialog' = [dialog EXCEPT ![t].waiting = Len(asked')]
    /\ req' = [req EXCEPT ![r] =
                  [pc |-> "auth", tab |-> t, user |-> cookie, n |-> Len(asked'),
                   env |-> env, attempt |-> 0, key |-> NoKey]]
    /\ UNCHANGED <<profiles, valid, rows, cookie, onKeys, listed, dismissed,
                   missed, unanswered, renounced, countVars>>

Reset(t) == [Fresh EXCEPT !.waiting = dialog[t].waiting]

(* Cancel, or Done: `submitting` is not reset.                             *)
Close(t) ==
    /\ dialog[t].open
    /\ dialog' = [dialog EXCEPT ![t] = Reset(t)]
    /\ dismissed' = IF dialog[t].key = NoKey THEN dismissed
                                             ELSE dismissed \cup {dialog[t].key}
    /\ UNCHANGED <<profiles, valid, rows, cookie, onKeys, listed, req, asked,
                   missed, unanswered, renounced, countVars>>
-----------------------------------------------------------------------------
(* createApiKeyAction: getUser, then the monthly limit, a positive number  *)
(* or not.                                                                 *)
Authenticate(r, positive) ==
    /\ req[r].pc = "auth"
    /\ req' = [req EXCEPT ![r].pc = IF req[r].user \in valid /\ positive
                                    THEN "insert" ELSE "failed"]
    /\ UNCHANGED <<profiles, valid, rows, browserVars, asked, dismissed, missed,
                   unanswered, renounced, countVars>>

NewKey(r, token) == [n |-> req[r].n, env |-> req[r].env, token |-> token]
Taken(key) == \E row \in rows : row.prefix = PrefixOf(key)
NewRowLive(r, key) ==                      \* mutant: the column keeps its default
    [prefix |-> PrefixOf(key), hash |-> key, env |-> "live", owner |-> req[r].user,
     status |-> "active"]
NewRow(r, key) ==
    [prefix |-> PrefixOf(key), hash |-> key, env |-> req[r].env, owner |-> req[r].user,
     status |-> "active"]

(* createApiKeyForUser: the insert of one attempt is made and answered, ...*)
Insert(r, token) ==
    /\ req[r].pc = "insert" /\ req[r].user \in profiles
    /\ LET key == NewKey(r, token) IN
       /\ ~Taken(key)
       /\ rows' = rows \cup {NewRow(r, key)}
       /\ req' = [req EXCEPT ![r].pc = "ok", ![r].key = key]
    /\ UNCHANGED <<profiles, valid, browserVars, asked, dismissed, missed,
                   unanswered, renounced, countVars>>

(* ... or collides with the prefix of another key (23505): a new key is    *)
(* tried, unless this was the last attempt; ...                            *)
AfterCollisionEver(r, token) ==                            \* mutant: never gives up
    [req[r] EXCEPT !.attempt = (@ + 1) % MAX_PREFIX_ATTEMPTS]
AfterOneMore(r, token) ==                                  \* mutant: attempt <= MAX
    IF req[r].attempt < MAX_PREFIX_ATTEMPTS
    THEN [req[r] EXCEPT !.attempt = @ + 1] ELSE [req[r] EXCEPT !.pc = "failed"]
\* Mutant: a prefix that is there is taken for the row of an earlier attempt.
AfterAdopted(r, token) == [req[r] EXCEPT !.pc = "ok", !.key = NewKey(r, token)]
AfterCollision(r, token) ==
    IF req[r].attempt + 1 < MAX_PREFIX_ATTEMPTS
    THEN [req[r] EXCEPT !.attempt = @ + 1]
    ELSE [req[r] EXCEPT !.pc = "failed"]

InsertCollides(r, token) ==
    /\ req[r].pc = "insert"
    /\ Taken(NewKey(r, token))
    /\ req' = [req EXCEPT ![r] = AfterCollision(r, token)]
    /\ UNCHANGED <<profiles, valid, rows, browserVars, asked, dismissed, missed,
                   unanswered, renounced, countVars>>

(* ... or fails for another reason, which ends the action: Postgres cannot *)
(* be reached, does not know the user, has no int as large as the limit -  *)
(* or made it and the answer was lost.                                     *)
AfterErrorRetried(r, token) == AfterCollision(r, token)    \* mutant: every error retried
AfterError(r, token) == [req[r] EXCEPT !.pc = "failed"]

InsertFails(r, token) ==
    /\ req[r].pc = "insert"
    /\ req' = [req EXCEPT ![r] = AfterError(r, token)]
    /\ UNCHANGED <<profiles, valid, rows, browserVars, asked, dismissed, missed,
                   unanswered, renounced, countVars>>

InsertUnsure(r, token) ==
    /\ req[r].pc = "insert" /\ req[r].user \in profiles /\ faults < MaxFaults
    /\ faults' = faults + 1
    /\ LET key == NewKey(r, token) IN
       /\ ~Taken(key)
       /\ rows' = rows \cup {NewRow(r, key)}
       /\ missed' = missed \cup {key}
    /\ req' = [req EXCEPT ![r] = AfterError(r, token)]
    /\ UNCHANGED <<profiles, valid, browserVars, asked, dismissed, unanswered,
                   renounced, revokes, signIns>>
-----------------------------------------------------------------------------
Awaits(t, r) == dialog[t].waiting = req[r].n

\* Mutant: an answer to a dialog that was closed meanwhile is thrown away.
ShownIfOpen(t, r) ==
    [dialog[t] EXCEPT !.waiting = 0, !.key = IF dialog[t].open THEN req[r].key ELSE NoKey]
Answered(t, r) ==
    [dialog[t] EXCEPT !.waiting = 0, !.key = req[r].key]

(* The answer reaches the tab, with its page rendered anew if a key was    *)
(* made.  A dialog closed meanwhile has it all the same; one mounted since *)
(* does not.                                                               *)
Answer(r) ==
    /\ req[r].pc \in {"ok", "failed"}
    /\ LET t == req[r].tab IN
       IF Awaits(t, r)
       THEN /\ dialog' = [dialog EXCEPT ![t] = Answered(t, r)]
            /\ listed' = IF req[r].pc = "ok"
                         THEN [listed EXCEPT ![t] = Revocable(rows, req[r].user)] ELSE listed
            /\ UNCHANGED missed
       ELSE /\ missed' = IF req[r].pc = "ok" THEN missed \cup {req[r].key} ELSE missed
            /\ UNCHANGED <<dialog, listed>>
    /\ req' = [req EXCEPT ![r] = Free]
    /\ UNCHANGED <<profiles, valid, rows, cookie, onKeys, asked, dismissed,
                   unanswered, renounced, countVars>>

(* The connection breaks: submit() throws at its await, and `submitting`   *)
(* stays.                                                                  *)
AnswerLost(r) ==
    /\ req[r].pc \in {"ok", "failed"} /\ faults < MaxFaults
    /\ faults' = faults + 1
    /\ missed' = IF req[r].pc = "ok" THEN missed \cup {req[r].key} ELSE missed
    /\ unanswered' = unanswered \cup {req[r].n}
    /\ req' = [req EXCEPT ![r] = Free]
    /\ UNCHANGED <<profiles, valid, rows, browserVars, asked, dismissed,
                   renounced, revokes, signIns>>
-----------------------------------------------------------------------------
(* RevokeKeyButton, confirmed; revokeApiKeyAction: getUser, then the       *)
(* update of the row with that id and that owner, or of none.              *)
Owns(u, key) == \E row \in rows : row.hash = key /\ row.owner = u

Revoke(t, r, key) ==
    /\ key \in listed[t] /\ Takes(r) /\ revokes < MaxRevokes
    /\ revokes' = revokes + 1
    /\ renounced' = IF Owns(cookie, key) THEN renounced \cup {key} ELSE renounced
    /\ req' = [req EXCEPT ![r] = [pc |-> "revokeAuth", tab |-> t, user |-> cookie,
                                  key |-> key]]
    /\ UNCHANGED <<profiles, valid, rows, browserVars, asked, dismissed, missed,
                   unanswered, signIns, faults>>

AuthenticateRevoke(r) ==
    /\ req[r].pc = "revokeAuth"
    /\ req' = [req EXCEPT ![r] = IF req[r].user \in valid
                                 THEN [req[r] EXCEPT !.pc = "revoke"] ELSE Free]
    /\ UNCHANGED <<profiles, valid, rows, browserVars, asked, dismissed, missed,
                   unanswered, renounced, countVars>>

MatchesAny(r, row) == row.hash = req[r].key                \* mutant: no owner asked for
Matches(r, row) == row.hash = req[r].key /\ row.owner = req[r].user

Revoked(r) ==
    {IF Matches(r, row) THEN [row EXCEPT !.status = "revoked"] ELSE row : row \in rows}

(* The page, if it is still there, is rendered anew; an error is not shown.*)
UpdateRevoked(r, done, heard) ==
    /\ req[r].pc = "revoke"
    /\ done \/ faults < MaxFaults
    /\ heard => req[r].tab \in onKeys
    /\ faults' = IF done THEN faults ELSE faults + 1
    /\ rows' = IF done THEN Revoked(r) ELSE rows
    /\ listed' = IF done /\ heard
                 THEN [listed EXCEPT ![req[r].tab] = Revocable(Revoked(r), req[r].user)]
                 ELSE listed
    /\ req' = [req EXCEPT ![r] = Free]
    /\ UNCHANGED <<profiles, valid, cookie, onKeys, dialog, asked, dismissed,
                   missed, unanswered, renounced, revokes, signIns>>
-----------------------------------------------------------------------------
ServerStep(r) ==
    \/ \E positive \in BOOLEAN : Authenticate(r, positive)
    \/ Answer(r) \/ AnswerLost(r)
    \/ \E token \in Tokens :
          \/ Insert(r, token) \/ InsertCollides(r, token)
          \/ InsertFails(r, token) \/ InsertUnsure(r, token)
    \/ AuthenticateRevoke(r)
    \/ \E done, heard \in BOOLEAN : UpdateRevoked(r, done, heard)

Next ==
    \/ \E t \in Tabs :
          \/ \E u \in Users : SignIn(t, u)
          \/ SignOut(t) \/ LoadPage(t) \/ Open(t) \/ Close(t)
          \/ \E r \in Requests :
                \/ \E env \in Environments : Submit(t, r, env)
                \/ \E key \in listed[t] : Revoke(t, r, key)
    \/ \E u \in Users : DeleteAccount(u)
    \/ \E r \in Requests : ServerStep(r)

(* The server goes on with an action it began.                             *)
Fairness == \A r \in Requests : WF_vars(ServerStep(r))

Spec == Init /\ [][Next]_vars
FairSpec == Spec /\ Fairness
-----------------------------------------------------------------------------
Keys == [n : 1 .. MaxSubmits, env : Environments, token : Tokens]
Rows == [prefix : Environments \X Tokens, hash : Keys, env : Environments, owner : Users,
         status : {"active", "revoked"}]
Dialogs == [open : BOOLEAN, waiting : 0 .. MaxSubmits, key : Keys \cup {NoKey}]
CreateRequests ==
    [pc : {"auth", "insert", "ok", "failed"}, tab : Tabs, user : Users \cup {Nobody},
     n : 1 .. MaxSubmits, env : Environments,
     attempt : 0 .. MAX_PREFIX_ATTEMPTS - 1, key : Keys \cup {NoKey}]
RevokeRequests ==
    [pc : {"revokeAuth", "revoke"}, tab : Tabs, user : Users \cup {Nobody}, key : Keys]

(* Types of the variables; no attempt is made beyond the last, an action   *)
(* has a key to return exactly when it succeeded, and a dialog awaits an   *)
(* answer or has one.                                                      *)
TypeOK ==
    /\ profiles \subseteq Users /\ valid \subseteq profiles
    /\ rows \subseteq Rows
    /\ cookie \in Users \cup {Nobody}
    /\ onKeys \subseteq Tabs
    /\ listed \in [Tabs -> SUBSET Keys]
    /\ dialog \in [Tabs -> Dialogs]
    /\ req \in [Requests -> CreateRequests \cup RevokeRequests \cup {Free}]
    /\ asked \in Seq([user : Users \cup {Nobody}, env : Environments])
    /\ dismissed \subseteq Keys /\ missed \subseteq Keys /\ renounced \subseteq Keys
    /\ unanswered \subseteq 1 .. MaxSubmits
    /\ revokes \in Nat /\ signIns \in Nat /\ faults \in Nat
    /\ \A r \in Requests : req[r].pc \in {"auth", "insert", "failed"} => req[r].key = NoKey
    /\ \A r \in Requests : req[r].pc = "ok" => req[r].key # NoKey
    /\ \A t \in Tabs : dialog[t].waiting # 0 => dialog[t].key = NoKey
    /\ \A t \in Tabs \ onKeys : dialog[t] = Fresh /\ listed[t] = {}

(* The key a dialog shows, or will show when it is opened, is the one of a *)
(* row made for the user whose cookie came with the form, in the           *)
(* environment asked for - through retries, concurrent creations, and      *)
(* sessions that change in another tab - unless that user is gone.         *)
ShownKeyIsStored ==
    \A t \in Tabs : dialog[t].key # NoKey =>
        LET key == dialog[t].key
            who == asked[key.n]
        IN  who.user \in profiles =>
                \E row \in rows : /\ row.hash = key /\ row.prefix = PrefixOf(key)
                                  /\ row.owner = who.user
                                  /\ row.env = who.env /\ key.env = who.env

(* "key_prefix varchar not null unique" (0001_init.sql:22) and "Retries on *)
(* the rare key_prefix unique collision" (create-key.ts:28): a form        *)
(* submitted once makes one row at most, whatever insert failed or seemed  *)
(* to, and no two rows are found by the same prefix.                       *)
OneRowPerSubmission ==
    /\ \A x, y \in rows : x.hash.n = y.hash.n => x = y
    /\ \A x, y \in rows : x.prefix = y.prefix => x = y

(* "returned EXACTLY ONCE" (create-key.ts:15): the plaintext of a row is   *)
(* on its way, in the dialog of one tab, shown and put away, or lost - and *)
(* only one of these, so that a key put away comes back nowhere, and none  *)
(* disappears but with its page, its answer or its insert's.               *)
InDialog(key) == {t \in Tabs : dialog[t].key = key}
Underway(key) == {r \in Requests : req[r].pc = "ok" /\ req[r].key = key}
ShownOnce ==
    \A key \in {row.hash : row \in rows} :
        Cardinality(InDialog(key)) + Cardinality(Underway(key))
            + Cardinality({key} \cap dismissed) + Cardinality({key} \cap missed) = 1

(* "Revoke a key owned by the current user" (actions.ts:59): a key is      *)
(* revoked only if its owner confirmed it, although a page listing it may  *)
(* outlive the session it was rendered for.                                *)
OnlyOwnersRevoke ==
    \A row \in rows : row.status = "revoked" => row.hash \in renounced

(* A dialog that submitted a form comes to be usable again, collisions and *)
(* errors notwithstanding, unless the answer is lost on its way.           *)
DialogComesBack ==
    \A t \in Tabs, n \in 1 .. MaxSubmits :
        dialog[t].waiting = n ~> (dialog[t].waiting # n \/ n \in unanswered)
=============================================================================
