--------------------------- MODULE KeyIssueProofs ---------------------------
(***************************************************************************)
(* What holds of the keys page and its actions for any users, tabs, slots, *)
(* tokens and bounds.                                                      *)
(***************************************************************************)
EXTENDS KeyIssue, FiniteSetTheorems, SequenceTheorems, TLAPS

Creating == {"auth", "insert", "ok", "failed"}
Revoking == {"revokeAuth", "revoke"}
Slot == CreateRequests \cup RevokeRequests \cup {Free}

(* What the program counter of a slot says of the action in it.            *)
LEMMA SlotOf ==
    ASSUME TypeOK, NEW r \in Requests
    PROVE  /\ req[r] \in Slot
           /\ req[r].pc \in Creating => req[r] \in CreateRequests
           /\ req[r].pc \in Revoking => req[r] \in RevokeRequests
           /\ req[r].pc \in Creating \cup Revoking \cup {"free"}
  <1>1. req[r] \in Slot
    BY DEF TypeOK, Slot
  <1> QED
    BY <1>1 DEF Slot, CreateRequests, RevokeRequests, Free, Creating, Revoking

LEMMA NoKeyIsNone == NoKey \notin Keys
  BY KeyIssueAssumption DEF Keys

LEMMA FreshTyped == Fresh \in Dialogs
  BY KeyIssueAssumption DEF Fresh, Dialogs

LEMMA InitTyped == Init => TypeOK
  <1> SUFFICES ASSUME Init PROVE TypeOK
    OBVIOUS
  <1>1. <<>> \in Seq([user : Users \cup {Nobody}, env : Environments])
    OBVIOUS
  <1>2. \A r \in Requests : req[r] = Free /\ req[r].pc = "free"
    BY DEF Init, Free
  <1>3. dialog \in [Tabs -> Dialogs]
    BY FreshTyped DEF Init
  <1>4. \A t \in Tabs : dialog[t] = Fresh /\ listed[t] = {}
    BY DEF Init
  <1>5. \A t \in Tabs : dialog[t].waiting = 0
    BY <1>4 DEF Fresh
  <1>6. listed \in [Tabs -> SUBSET Keys]
    BY DEF Init
  <1>7. req \in [Requests -> CreateRequests \cup RevokeRequests \cup {Free}]
    BY DEF Init
  <1> QED
    BY <1>1, <1>2, <1>3, <1>4, <1>5, <1>6, <1>7 DEF Init, TypeOK
-----------------------------------------------------------------------------
(* An action moves on in its slot, and so may what it leaves behind.       *)
SlotSound(k) ==
    /\ k \in Slot
    /\ k.pc \in {"auth", "insert", "failed"} => k.key = NoKey
    /\ k.pc = "ok" => k.key # NoKey

LEMMA SlotMoves ==
    ASSUME TypeOK, NEW r \in Requests, NEW k, SlotSound(k), req' = [req EXCEPT ![r] = k]
    PROVE  /\ req' \in [Requests -> CreateRequests \cup RevokeRequests \cup {Free}]
           /\ \A q \in Requests : req'[q].pc \in {"auth", "insert", "failed"} => req'[q].key = NoKey
           /\ \A q \in Requests : req'[q].pc = "ok" => req'[q].key # NoKey
  <1>1. \A q \in Requests : req'[q] = IF q = r THEN k ELSE req[q]
    BY DEF TypeOK
  <1>2. req' \in [Requests -> Slot]
    BY DEF TypeOK, SlotSound, Slot
  <1> QED
    BY <1>1, <1>2 DEF TypeOK, SlotSound, Slot

LEMMA SlotStays ==
    ASSUME TypeOK, UNCHANGED req
    PROVE  /\ req' \in [Requests -> CreateRequests \cup RevokeRequests \cup {Free}]
           /\ \A q \in Requests : req'[q].pc \in {"auth", "insert", "failed"} => req'[q].key = NoKey
           /\ \A q \in Requests : req'[q].pc = "ok" => req'[q].key # NoKey
  BY DEF TypeOK

LEMMA FreeSound == SlotSound(Free)
  BY DEF SlotSound, Slot, Free

(* A dialog changes, in a tab that shows the keys page or comes to show    *)
(* none.                                                                   *)
LEMMA DialogMoves ==
    ASSUME TypeOK, NEW t \in Tabs, NEW d \in Dialogs, d.waiting # 0 => d.key = NoKey,
           dialog' = [dialog EXCEPT ![t] = d],
           onKeys' = onKeys \/ (onKeys' \in {onKeys \cup {t}, onKeys \ {t}}),
           t \in onKeys' \/ (d = Fresh /\ listed'[t] = {}),
           \A s \in Tabs \ {t} : listed'[s] = listed[s]
    PROVE  /\ dialog' \in [Tabs -> Dialogs]
           /\ \A s \in Tabs : dialog'[s].waiting # 0 => dialog'[s].key = NoKey
           /\ \A s \in Tabs \ onKeys' : dialog'[s] = Fresh /\ listed'[s] = {}
  <1>1. \A s \in Tabs : dialog'[s] = IF s = t THEN d ELSE dialog[s]
    BY DEF TypeOK
  <1>2. dialog' \in [Tabs -> Dialogs]
    BY DEF TypeOK
  <1>3. \A s \in Tabs : dialog'[s].waiting # 0 => dialog'[s].key = NoKey
    BY <1>1 DEF TypeOK
  <1>4. \A s \in Tabs \ onKeys' : s = t \/ s \in Tabs \ onKeys
    OBVIOUS
  <1>5. \A s \in Tabs \ onKeys' : dialog'[s] = Fresh /\ listed'[s] = {}
    BY <1>1, <1>4 DEF TypeOK
  <1> QED
    BY <1>2, <1>3, <1>5

(* A page goes: what Show leaves.                                          *)
LEMMA RevocableKeys ==
    ASSUME TypeOK, NEW u, NEW made \in SUBSET Rows
    PROVE  Revocable(made, u) \subseteq Keys
  BY DEF Revocable, Rows

LEMMA ShowTyped ==
    ASSUME TypeOK, NEW t \in Tabs, NEW isKeys \in BOOLEAN, Show(t, isKeys)
    PROVE  /\ onKeys' \subseteq Tabs /\ listed' \in [Tabs -> SUBSET Keys]
           /\ missed' \subseteq Keys
           /\ dialog' \in [Tabs -> Dialogs]
           /\ \A s \in Tabs : dialog'[s].waiting # 0 => dialog'[s].key = NoKey
           /\ \A s \in Tabs \ onKeys' : dialog'[s] = Fresh /\ listed'[s] = {}
  <1> DEFINE page == IF isKeys THEN Revocable(rows, cookie) ELSE {}
  <1>1. page \in SUBSET Keys
    BY RevocableKeys DEF TypeOK
  <1>2. listed' = [listed EXCEPT ![t] = page]
    BY DEF Show
  <1>3. ~isKeys => page = {}
    OBVIOUS
  <1> HIDE DEF page
  <1>4. listed' \in [Tabs -> SUBSET Keys] /\ listed'[t] = page
        /\ \A s \in Tabs \ {t} : listed'[s] = listed[s]
    BY <1>1, <1>2 DEF TypeOK
  <1>5. /\ onKeys' = IF isKeys THEN onKeys \cup {t} ELSE onKeys \ {t}
        /\ dialog' = [dialog EXCEPT ![t] = Fresh]
    BY DEF Show
  <1>6. Fresh.waiting = 0
    BY DEF Fresh
  <1>7. /\ dialog' \in [Tabs -> Dialogs]
        /\ \A s \in Tabs : dialog'[s].waiting # 0 => dialog'[s].key = NoKey
        /\ \A s \in Tabs \ onKeys' : dialog'[s] = Fresh /\ listed'[s] = {}
    BY <1>3, <1>4, <1>5, <1>6, FreshTyped, DialogMoves
  <1>8. onKeys' \subseteq Tabs
    BY <1>5 DEF TypeOK
  <1>9. dialog[t].key \in Keys \cup {NoKey}
    BY DEF TypeOK, Dialogs
  <1>10. missed' \subseteq Keys
    BY <1>9 DEF TypeOK, Show
  <1> QED
    BY <1>4, <1>7, <1>8, <1>10
-----------------------------------------------------------------------------
LEMMA PageTyped ==
    ASSUME TypeOK, NEW t \in Tabs,
           LoadPage(t) \/ SignOut(t) \/ \E u \in Users : SignIn(t, u)
    PROVE  TypeOK'
  <1> USE DEF countVars
  <1>1. PICK isKeys \in BOOLEAN : Show(t, isKeys)
    <2>1. CASE LoadPage(t)
      <3>1. (cookie \in valid) \in BOOLEAN
        OBVIOUS
      <3> QED
        BY <2>1, <3>1, Zenon DEF LoadPage
    <2>2. CASE SignOut(t) \/ \E u \in Users : SignIn(t, u)
      <3>1. Show(t, FALSE)
        BY <2>2 DEF SignOut, SignIn
      <3> QED
        BY <3>1, Zenon
    <2> QED
      BY <2>1, <2>2
  <1>2. /\ UNCHANGED <<profiles, rows, req, asked, dismissed, unanswered, renounced,
                      revokes, faults>>
        /\ cookie' \in Users \cup {Nobody} /\ valid' \subseteq profiles
        /\ signIns' \in Nat
    <2>1. CASE LoadPage(t)
      BY <2>1 DEF LoadPage, TypeOK
    <2>2. CASE SignOut(t)
      BY <2>2 DEF SignOut, TypeOK
    <2>3. ASSUME NEW u \in Users, SignIn(t, u)
          PROVE  /\ UNCHANGED <<profiles, rows, req, asked, dismissed, unanswered, renounced,
                                revokes, faults>>
                 /\ cookie' \in Users \cup {Nobody} /\ valid' \subseteq profiles
                 /\ signIns' \in Nat
      BY <2>3 DEF SignIn, TypeOK
    <2> QED
      BY <2>1, <2>2, <2>3
  <1>3. /\ onKeys' \subseteq Tabs /\ listed' \in [Tabs -> SUBSET Keys]
        /\ missed' \subseteq Keys
        /\ dialog' \in [Tabs -> Dialogs]
        /\ \A s \in Tabs : dialog'[s].waiting # 0 => dialog'[s].key = NoKey
        /\ \A s \in Tabs \ onKeys' : dialog'[s] = Fresh /\ listed'[s] = {}
    BY <1>1, ShowTyped
  <1> QED
    BY <1>2, <1>3, SlotStays DEF TypeOK

LEMMA DeleteTyped ==
    ASSUME TypeOK, NEW u \in Users, DeleteAccount(u) PROVE TypeOK'
  <1> USE DEF countVars, browserVars
  <1>1. /\ profiles' \subseteq Users /\ valid' \subseteq profiles' /\ rows' \subseteq Rows
    BY DEF DeleteAccount, TypeOK
  <1>2. UNCHANGED <<cookie, onKeys, listed, dialog, req, asked, dismissed, missed, unanswered,
                    renounced, revokes, signIns, faults>>
    BY DEF DeleteAccount
  <1> QED
    BY <1>1, <1>2, SlotStays DEF TypeOK

LEMMA OpenTyped ==
    ASSUME TypeOK, NEW t \in Tabs, Open(t) PROVE TypeOK'
  <1> USE DEF countVars
  <1> DEFINE d == [dialog[t] EXCEPT !.open = TRUE]
  <1>1. UNCHANGED <<profiles, valid, rows, cookie, onKeys, listed, req, asked,
                    dismissed, missed, unanswered, renounced, revokes, signIns, faults>>
    BY DEF Open
  <1>2. dialog[t] \in Dialogs /\ t \in onKeys
    BY DEF TypeOK, Open
  <1>3. d \in Dialogs /\ d.waiting = dialog[t].waiting /\ d.key = dialog[t].key
    BY <1>2 DEF Dialogs
  <1>4. dialog' = [dialog EXCEPT ![t] = d]
    BY DEF Open, TypeOK
  <1> HIDE DEF d
  <1>5. /\ dialog' \in [Tabs -> Dialogs]
        /\ \A s \in Tabs : dialog'[s].waiting # 0 => dialog'[s].key = NoKey
        /\ \A s \in Tabs \ onKeys' : dialog'[s] = Fresh /\ listed'[s] = {}
    <2>1. d.waiting # 0 => d.key = NoKey
      BY <1>3 DEF TypeOK
    <2> QED
      BY <1>1, <1>2, <1>3, <1>4, <2>1, DialogMoves
  <1> QED
    BY <1>1, <1>5, SlotStays DEF TypeOK

LEMMA CloseTyped ==
    ASSUME TypeOK, NEW t \in Tabs, Close(t) PROVE TypeOK'
  <1> USE DEF countVars
  <1> DEFINE d == Reset(t)
  <1>1. UNCHANGED <<profiles, valid, rows, cookie, onKeys, listed, req, asked,
                    missed, unanswered, renounced, revokes, signIns, faults>>
    BY DEF Close
  <1>2. dialog[t] \in Dialogs /\ t \in onKeys
    BY DEF TypeOK, Close, Fresh
  <1>3. d \in Dialogs /\ d.key = NoKey
    BY <1>2 DEF Dialogs, Reset, Fresh
  <1>4. dialog' = [dialog EXCEPT ![t] = d]
    BY DEF Close
  <1> HIDE DEF d
  <1>5. /\ dialog' \in [Tabs -> Dialogs]
        /\ \A s \in Tabs : dialog'[s].waiting # 0 => dialog'[s].key = NoKey
        /\ \A s \in Tabs \ onKeys' : dialog'[s] = Fresh /\ listed'[s] = {}
    BY <1>1, <1>2, <1>3, <1>4, DialogMoves
  <1>6. dismissed' \subseteq Keys
    BY <1>2 DEF Close, TypeOK, Dialogs
  <1> QED
    BY <1>1, <1>5, <1>6, SlotStays DEF TypeOK

LEMMA SubmitTyped ==
    ASSUME TypeOK, NEW t \in Tabs, NEW r \in Requests, NEW env \in Environments,
           Submit(t, r, env)
    PROVE  TypeOK'
  <1> USE DEF countVars
  <1> DEFINE Forms == [user : Users \cup {Nobody}, env : Environments]
             form == [user |-> cookie, env |-> env]
             n == Len(asked')
             k == [pc |-> "auth", tab |-> t, user |-> cookie, n |-> n,
                   env |-> env, attempt |-> 0, key |-> NoKey]
             d == [dialog[t] EXCEPT !.waiting = n]
  <1>1. UNCHANGED <<profiles, valid, rows, cookie, onKeys, listed, dismissed,
                    missed, unanswered, renounced, revokes, signIns, faults>>
    BY DEF Submit
  <1>2. dialog[t] \in Dialogs /\ dialog[t].key = NoKey /\ t \in onKeys
    BY DEF TypeOK, Submit, Fresh
  <1>3. form \in Forms /\ asked \in Seq(Forms)
    BY DEF TypeOK
  <1>4. asked' = Append(asked, form) /\ Len(asked) < MaxSubmits
    BY DEF Submit
  <1> HIDE DEF form, Forms
  <1>5. asked' \in Seq(Forms) /\ n = Len(asked) + 1 /\ n \in 1 .. MaxSubmits
    <2>1. Len(asked) \in Nat
      BY <1>3, LenProperties
    <2>2. asked' \in Seq(Forms) /\ n = Len(asked) + 1
      BY <1>3, <1>4, AppendProperties
    <2> QED
      BY <1>4, <2>1, <2>2, KeyIssueAssumption
  <1>6. dialog' = [dialog EXCEPT ![t] = d] /\ req' = [req EXCEPT ![r] = k]
    BY DEF Submit, TypeOK
  <1> HIDE DEF n
  <1>7. d \in Dialogs /\ d.key = NoKey
    BY <1>2, <1>5 DEF Dialogs
  <1>8. SlotSound(k)
    <2>1. 0 \in 0 .. MAX_PREFIX_ATTEMPTS - 1
      BY KeyIssueAssumption
    <2>2. k \in CreateRequests
      BY <1>5, <2>1 DEF TypeOK, CreateRequests
    <2> QED
      BY <2>2 DEF SlotSound, Slot
  <1> HIDE DEF d, k
  <1>9. /\ dialog' \in [Tabs -> Dialogs]
        /\ \A s \in Tabs : dialog'[s].waiting # 0 => dialog'[s].key = NoKey
        /\ \A s \in Tabs \ onKeys' : dialog'[s] = Fresh /\ listed'[s] = {}
    BY <1>1, <1>2, <1>6, <1>7, DialogMoves
  <1> QED
    BY <1>1, <1>5, <1>6, <1>8, <1>9, SlotMoves DEF TypeOK, Forms
-----------------------------------------------------------------------------
(* Only a slot changes.                                                    *)
LEMMA OnlySlotTyped ==
    ASSUME TypeOK, NEW r \in Requests, NEW k, SlotSound(k), req' = [req EXCEPT ![r] = k],
           UNCHANGED <<profiles, valid, cookie, onKeys, listed, dialog, asked, dismissed,
                       renounced, revokes, signIns>>,
           rows' \subseteq Rows, missed' \subseteq Keys, unanswered' \subseteq 1 .. MaxSubmits,
           faults' \in Nat
    PROVE  TypeOK'
  BY SlotMoves DEF TypeOK

LEMMA AuthenticateTyped ==
    ASSUME TypeOK, NEW r \in Requests,
           AuthenticateRevoke(r) \/ \E positive \in BOOLEAN : Authenticate(r, positive)
    PROVE  TypeOK'
  <1> USE DEF countVars, browserVars
  <1>1. CASE AuthenticateRevoke(r)
    <2> DEFINE k == IF req[r].user \in valid THEN [req[r] EXCEPT !.pc = "revoke"] ELSE Free
    <2>1. req[r] \in RevokeRequests /\ req' = [req EXCEPT ![r] = k]
      BY <1>1, SlotOf DEF AuthenticateRevoke, Revoking
    <2>2. [req[r] EXCEPT !.pc = "revoke"] \in RevokeRequests
          /\ [req[r] EXCEPT !.pc = "revoke"].pc = "revoke"
      BY <2>1 DEF RevokeRequests
    <2>3. SlotSound(k)
      BY <2>2, FreeSound DEF SlotSound, Slot
    <2> HIDE DEF k
    <2> QED
      BY <1>1, <2>1, <2>3, OnlySlotTyped DEF AuthenticateRevoke, TypeOK
  <1>2. ASSUME NEW positive \in BOOLEAN, Authenticate(r, positive) PROVE TypeOK'
    <2> DEFINE pc == IF req[r].user \in valid /\ positive THEN "insert" ELSE "failed"
               k == [req[r] EXCEPT !.pc = pc]
    <2>1. req[r] \in CreateRequests /\ req[r].pc = "auth" /\ req' = [req EXCEPT ![r].pc = pc]
      BY <1>2, SlotOf DEF Authenticate, Creating
    <2>2. req[r].key = NoKey
      BY <2>1 DEF TypeOK
    <2>3. pc \in {"insert", "failed"}
      OBVIOUS
    <2> HIDE DEF pc
    <2>4. k \in CreateRequests /\ k.pc = pc /\ k.key = NoKey
      BY <2>1, <2>2, <2>3 DEF CreateRequests
    <2>5. req' = [req EXCEPT ![r] = k]
      BY <2>1 DEF TypeOK
    <2> HIDE DEF k
    <2>6. SlotSound(k)
      BY <2>3, <2>4 DEF SlotSound, Slot
    <2> QED
      BY <1>2, <2>5, <2>6, OnlySlotTyped DEF Authenticate, TypeOK
  <1> QED
    BY <1>1, <1>2

LEMMA NewTyped ==
    ASSUME TypeOK, NEW r \in Requests, req[r].pc = "insert", NEW token \in Tokens
    PROVE  /\ req[r] \in CreateRequests /\ req[r].key = NoKey
           /\ NewKey(r, token) \in Keys /\ NewKey(r, token) # NoKey
           /\ req[r].user \in profiles => NewRow(r, NewKey(r, token)) \in Rows
  <1>1. req[r] \in CreateRequests /\ req[r].key = NoKey
    BY SlotOf DEF Creating, TypeOK
  <1>2. NewKey(r, token) \in Keys
    BY <1>1 DEF NewKey, Keys, CreateRequests
  <1>3. PrefixOf(NewKey(r, token)) \in Environments \X Tokens
    BY <1>1 DEF PrefixOf, NewKey, CreateRequests
  <1>4. ASSUME req[r].user \in profiles PROVE NewRow(r, NewKey(r, token)) \in Rows
    BY <1>1, <1>2, <1>3, <1>4 DEF NewRow, Rows, CreateRequests, TypeOK
  <1> QED
    BY <1>1, <1>2, <1>4, NoKeyIsNone

LEMMA InsertTyped ==
    ASSUME TypeOK, NEW r \in Requests, NEW token \in Tokens,
           \/ Insert(r, token) \/ InsertCollides(r, token)
           \/ InsertFails(r, token) \/ InsertUnsure(r, token)
    PROVE  TypeOK'
  <1> USE DEF countVars, browserVars
  <1>1. req[r].pc = "insert" /\ r \in Requests
    BY DEF Insert, InsertCollides, InsertFails, InsertUnsure
  <1> DEFINE key == NewKey(r, token)
  <1>2. req[r] \in CreateRequests /\ req[r].key = NoKey /\ key \in Keys /\ key # NoKey
    BY <1>1, NewTyped
  <1>3. rows' \subseteq Rows
    BY <1>1, NewTyped DEF Insert, InsertCollides, InsertFails, InsertUnsure, TypeOK
  <1>4. CASE Insert(r, token)
    <2> DEFINE k == [req[r] EXCEPT !.pc = "ok", !.key = key]
    <2>1. req' = [req EXCEPT ![r] = k]
      BY <1>4 DEF Insert, TypeOK
    <2>2. k \in CreateRequests /\ k.pc = "ok" /\ k.key = key
      BY <1>2 DEF CreateRequests
    <2> HIDE DEF k, key
    <2>3. SlotSound(k)
      BY <1>2, <2>2 DEF SlotSound, Slot
    <2> QED
      BY <1>3, <1>4, <2>1, <2>3, OnlySlotTyped DEF Insert, TypeOK
  <1>5. [req[r] EXCEPT !.pc = "failed"] \in CreateRequests
        /\ [req[r] EXCEPT !.pc = "failed"].pc = "failed"
        /\ [req[r] EXCEPT !.pc = "failed"].key = NoKey
    BY <1>2 DEF CreateRequests
  <1>6. CASE InsertCollides(r, token)
    <2> DEFINE k == AfterCollision(r, token)
    <2>1. req' = [req EXCEPT ![r] = k]
      BY <1>6 DEF InsertCollides
    <2>2. ASSUME req[r].attempt + 1 < MAX_PREFIX_ATTEMPTS PROVE SlotSound(k)
      <3>1. k = [req[r] EXCEPT !.attempt = req[r].attempt + 1]
        BY <2>2 DEF AfterCollision
      <3>2. req[r].attempt + 1 \in 0 .. MAX_PREFIX_ATTEMPTS - 1
        BY <1>2, <2>2, KeyIssueAssumption DEF CreateRequests
      <3>3. k \in CreateRequests /\ k.pc = "insert" /\ k.key = NoKey
        BY <1>1, <1>2, <3>1, <3>2 DEF CreateRequests
      <3> QED
        BY <3>3 DEF SlotSound, Slot
    <2>3. ASSUME ~(req[r].attempt + 1 < MAX_PREFIX_ATTEMPTS) PROVE SlotSound(k)
      BY <1>5, <2>3 DEF AfterCollision, SlotSound, Slot
    <2>4. SlotSound(k)
      BY <2>2, <2>3
    <2> HIDE DEF k
    <2> QED
      BY <1>3, <1>6, <2>1, <2>4, OnlySlotTyped DEF InsertCollides, TypeOK
  <1>7. CASE InsertFails(r, token) \/ InsertUnsure(r, token)
    <2> DEFINE k == [req[r] EXCEPT !.pc = "failed"]
    <2>1. req' = [req EXCEPT ![r] = k]
      BY <1>7 DEF InsertFails, InsertUnsure, AfterError
    <2>2. SlotSound(k)
      BY <1>5 DEF SlotSound, Slot
    <2>3. missed' \subseteq Keys /\ faults' \in Nat
      BY <1>2, <1>7 DEF InsertFails, InsertUnsure, TypeOK
    <2> HIDE DEF k, key
    <2> QED
      BY <1>3, <1>7, <2>1, <2>2, <2>3, OnlySlotTyped DEF InsertFails, InsertUnsure, TypeOK
  <1> QED
    BY <1>4, <1>6, <1>7

(* An answer frees its slot; a dialog that awaits it is in a tab that      *)
(* shows the keys page.                                                    *)
LEMMA AnswerTyped ==
    ASSUME TypeOK, NEW r \in Requests, Answer(r) PROVE TypeOK'
  <1> USE DEF countVars
  <1> DEFINE t == req[r].tab
             d == Answered(t, r)
  <1>1. req[r] \in CreateRequests /\ req[r].pc \in {"ok", "failed"}
    BY SlotOf DEF Answer, Creating
  <1>2. t \in Tabs /\ req[r].n # 0 /\ req[r].key \in Keys \cup {NoKey}
        /\ (req[r].pc = "ok" => req[r].key \in Keys)
    BY <1>1 DEF CreateRequests, TypeOK
  <1>3. req' = [req EXCEPT ![r] = Free]
        /\ UNCHANGED <<profiles, valid, rows, cookie, onKeys, asked, dismissed,
                       unanswered, renounced, revokes, signIns, faults>>
    BY DEF Answer
  <1>4. CASE Awaits(t, r)
    <2>1. /\ dialog' = [dialog EXCEPT ![t] = d]
          /\ listed' = IF req[r].pc = "ok"
                       THEN [listed EXCEPT ![t] = Revocable(rows, req[r].user)] ELSE listed
          /\ UNCHANGED missed
      BY <1>4 DEF Answer
    <2>2. dialog[t] \in Dialogs
      BY <1>2 DEF TypeOK
    <2>3. d \in Dialogs /\ d.waiting = 0
      <3>1. 0 \in 0 .. MaxSubmits
        BY KeyIssueAssumption
      <3>2. d = [dialog[t] EXCEPT !.waiting = 0, !.key = req[r].key]
        BY DEF Answered
      <3> HIDE DEF d, t
      <3> QED
        BY <1>2, <2>2, <3>1, <3>2 DEF Dialogs
    <2>4. t \in onKeys
      BY <1>2, <1>4 DEF Awaits, TypeOK, Fresh
    <2>5. Revocable(rows, req[r].user) \subseteq Keys
      BY RevocableKeys DEF TypeOK
    <2>6. listed' \in [Tabs -> SUBSET Keys] /\ \A s \in Tabs \ {t} : listed'[s] = listed[s]
      BY <1>2, <2>1, <2>5 DEF TypeOK
    <2> HIDE DEF t, d
    <2>7. /\ dialog' \in [Tabs -> Dialogs]
          /\ \A s \in Tabs : dialog'[s].waiting # 0 => dialog'[s].key = NoKey
          /\ \A s \in Tabs \ onKeys' : dialog'[s] = Fresh /\ listed'[s] = {}
      BY <1>2, <1>3, <2>1, <2>3, <2>4, <2>6, DialogMoves
    <2> QED
      BY <1>3, <2>1, <2>6, <2>7, FreeSound, SlotMoves DEF TypeOK
  <1>5. CASE ~Awaits(t, r)
    <2>1. missed' = (IF req[r].pc = "ok" THEN missed \cup {req[r].key} ELSE missed)
          /\ UNCHANGED <<dialog, listed>>
      BY <1>5 DEF Answer
    <2>2. missed' \subseteq Keys
      BY <1>2, <2>1 DEF TypeOK
    <2> QED
      BY <1>3, <2>1, <2>2, FreeSound, SlotMoves DEF TypeOK
  <1> QED
    BY <1>4, <1>5

LEMMA AnswerLostTyped ==
    ASSUME TypeOK, NEW r \in Requests, AnswerLost(r) PROVE TypeOK'
  <1> USE DEF countVars, browserVars
  <1>1. req[r] \in CreateRequests /\ req[r].pc \in {"ok", "failed"}
    BY SlotOf DEF AnswerLost, Creating
  <1>2. req[r].n \in 1 .. MaxSubmits /\ (req[r].pc = "ok" => req[r].key \in Keys)
    BY <1>1 DEF CreateRequests, TypeOK
  <1>3. missed' \subseteq Keys
    BY <1>2 DEF AnswerLost, TypeOK
  <1>4. unanswered' = unanswered \cup {req[r].n} /\ faults' = faults + 1
    BY DEF AnswerLost
  <1>7. unanswered \subseteq 1 .. MaxSubmits /\ faults \in Nat
    BY DEF TypeOK
  <1>8. unanswered' \subseteq 1 .. MaxSubmits
    BY <1>2, <1>4, <1>7, Zenon
  <1>9. faults' \in Nat
    BY <1>4, <1>7
  <1>5. /\ req' = [req EXCEPT ![r] = Free] /\ rows' = rows
        /\ UNCHANGED <<profiles, valid, cookie, onKeys, listed, dialog, asked, dismissed,
                       renounced, revokes, signIns>>
    BY DEF AnswerLost
  <1>6. rows' \subseteq Rows
    BY <1>5 DEF TypeOK
  <1> QED
    BY <1>3, <1>5, <1>6, <1>8, <1>9, FreeSound, OnlySlotTyped

LEMMA RevokeTyped ==
    ASSUME TypeOK, NEW t \in Tabs, NEW r \in Requests, NEW key \in listed[t], Revoke(t, r, key)
    PROVE  TypeOK'
  <1> USE DEF browserVars
  <1> DEFINE k == [pc |-> "revokeAuth", tab |-> t, user |-> cookie, key |-> key]
  <1>1. key \in Keys
    BY DEF TypeOK
  <1>2. k \in RevokeRequests /\ k.pc = "revokeAuth"
    BY <1>1 DEF RevokeRequests, TypeOK
  <1>3. req' = [req EXCEPT ![r] = k]
    BY DEF Revoke
  <1> HIDE DEF k
  <1>4. SlotSound(k)
    BY <1>2 DEF SlotSound, Slot
  <1>5. renounced' \subseteq Keys /\ revokes' \in Nat
    BY <1>1 DEF Revoke, TypeOK
  <1>6. UNCHANGED <<profiles, valid, rows, cookie, onKeys, listed, dialog, asked, dismissed,
                    missed, unanswered, signIns, faults>>
    BY DEF Revoke
  <1> QED
    BY <1>3, <1>4, <1>5, <1>6, SlotMoves DEF TypeOK

LEMMA RevokedRows ==
    ASSUME TypeOK, NEW r \in Requests
    PROVE  /\ Revoked(r) \subseteq Rows
           /\ \A new \in Revoked(r) : \E row \in rows :
                 /\ new.hash = row.hash /\ new.prefix = row.prefix /\ new.env = row.env
                 /\ new.owner = row.owner
                 /\ new.status = "revoked" =>
                       row.status = "revoked" \/ (row.hash = req[r].key /\ row.owner = req[r].user)
           /\ \A row \in rows : \E new \in Revoked(r) :
                 /\ new.hash = row.hash /\ new.prefix = row.prefix /\ new.env = row.env
                 /\ new.owner = row.owner
           /\ \A x, y \in Revoked(r) : \E v, w \in rows :
                 /\ x.hash = v.hash /\ x.prefix = v.prefix
                 /\ y.hash = w.hash /\ y.prefix = w.prefix
                 /\ v = w => x = y
  <1> DEFINE New(row) == IF Matches(r, row) THEN [row EXCEPT !.status = "revoked"] ELSE row
  <1>1. Revoked(r) = {New(row) : row \in rows}
    BY DEF Revoked
  <1>2. ASSUME NEW row \in rows
        PROVE  /\ New(row) \in Rows
               /\ New(row).hash = row.hash /\ New(row).prefix = row.prefix
               /\ New(row).env = row.env /\ New(row).owner = row.owner
               /\ New(row).status = "revoked" =>
                     row.status = "revoked" \/ (row.hash = req[r].key /\ row.owner = req[r].user)
    BY DEF TypeOK, Rows, Matches
  <1> HIDE DEF New
  <1> QED
    BY <1>1, <1>2

LEMMA UpdateTyped ==
    ASSUME TypeOK, NEW r \in Requests, NEW done \in BOOLEAN, NEW heard \in BOOLEAN,
           UpdateRevoked(r, done, heard)
    PROVE  TypeOK'
  <1> DEFINE t == req[r].tab
             page == Revocable(Revoked(r), req[r].user)
  <1>1. req[r] \in RevokeRequests
    BY SlotOf DEF UpdateRevoked, Revoking
  <1>2. t \in Tabs
    BY <1>1 DEF RevokeRequests
  <1>3. Revoked(r) \subseteq Rows /\ page \subseteq Keys
    BY RevokedRows, RevocableKeys
  <1>4. /\ listed' = (IF done /\ heard THEN [listed EXCEPT ![t] = page] ELSE listed)
        /\ heard => t \in onKeys
    BY DEF UpdateRevoked
  <1> HIDE DEF page, t
  <1>5. /\ listed' \in [Tabs -> SUBSET Keys]
        /\ \A s \in Tabs : s \in onKeys \/ listed'[s] = listed[s]
    BY <1>2, <1>3, <1>4 DEF TypeOK
  <1>6. /\ req' = [req EXCEPT ![r] = Free]
        /\ UNCHANGED <<profiles, valid, cookie, onKeys, dialog, asked, dismissed,
                       missed, unanswered, renounced, revokes, signIns>>
    BY DEF UpdateRevoked
  <1>7. rows' \subseteq Rows /\ faults' \in Nat
    BY <1>3 DEF UpdateRevoked, TypeOK
  <1> QED
    BY <1>5, <1>6, <1>7, FreeSound, SlotMoves DEF TypeOK

LEMMA NextTyped == TypeOK /\ [Next]_vars => TypeOK'
  <1> SUFFICES ASSUME TypeOK, [Next]_vars PROVE TypeOK'
    OBVIOUS
  <1>1. CASE UNCHANGED vars
    BY <1>1, SlotStays DEF vars, browserVars, countVars, TypeOK
  <1>2. ASSUME NEW r \in Requests, ServerStep(r) PROVE TypeOK'
    BY <1>2, AuthenticateTyped, AnswerTyped, AnswerLostTyped, InsertTyped, UpdateTyped
       DEF ServerStep
  <1> QED
    BY <1>1, <1>2, PageTyped, OpenTyped, CloseTyped, SubmitTyped, RevokeTyped, DeleteTyped
       DEF Next

(* The state of the page, of its actions and of the rows keeps its type;   *)
(* no action attempts an insert too many or ends well without a key.       *)
THEOREM TypeCorrect == Spec => []TypeOK
  BY InitTyped, NextTyped, PTL DEF Spec
-----------------------------------------------------------------------------
(* The argument for what is shown, stored and revoked: a form is in the    *)
(* hands of one action, which makes its row on leaving the insert; no form *)
(* comes back there.                                                       *)
Before == {"auth", "insert"}
Spent(n) == /\ n \in 1 .. Len(asked)
            /\ \A q \in Requests : req[q].pc \in Before => req[q].n # n

FormsKept ==
    \A q \in Requests : req[q].pc \in Creating =>
        /\ req[q].n \in 1 .. Len(asked)
        /\ asked[req[q].n] = [user |-> req[q].user, env |-> req[q].env]
OnePerForm ==
    \A q, p \in Requests :
        req[q].pc \in Creating /\ req[p].pc \in Creating /\ req[q].n = req[p].n => q = p

RowsMade ==
    \A row \in rows :
        /\ Spent(row.hash.n)
        /\ row.prefix = PrefixOf(row.hash) /\ row.env = row.hash.env
        /\ asked[row.hash.n] = [user |-> row.owner, env |-> row.env]

HasRow(key) ==
    /\ key.n \in 1 .. Len(asked)
    /\ asked[key.n].user \in profiles => \E row \in rows : row.hash = key
KeysKept ==
    /\ \A q \in Requests : req[q].pc = "ok" => HasRow(req[q].key)
    /\ \A t \in Tabs : dialog[t].key # NoKey => HasRow(dialog[t].key)

(* What is offered for revocation, and what is being revoked, has been     *)
(* made; whoever asked for it while owning it has renounced it.            *)
ListedKnown == \A t \in Tabs : \A key \in listed[t] : Spent(key.n)
RevokesKnown ==
    \A q \in Requests : req[q].pc \in Revoking =>
        /\ Spent(req[q].key.n)
        /\ Owns(req[q].user, req[q].key) => req[q].key \in renounced

IssueInv ==
    /\ TypeOK
    /\ FormsKept /\ OnePerForm /\ RowsMade /\ KeysKept /\ ListedKnown /\ RevokesKnown
    /\ OneRowPerSubmission /\ OnlyOwnersRevoke

LEMMA InitIssue == Init => IssueInv
  <1> SUFFICES ASSUME Init PROVE IssueInv
    OBVIOUS
  <1>1. \A r \in Requests : req[r].pc = "free"
    BY DEF Init, Free
  <1>2. \A t \in Tabs : dialog[t].key = NoKey /\ listed[t] = {}
    BY DEF Init, Fresh
  <1>3. rows = {}
    BY DEF Init
  <1> QED
    BY <1>1, <1>2, <1>3, InitTyped
       DEF IssueInv, FormsKept, OnePerForm, RowsMade, KeysKept, ListedKnown, RevokesKnown,
           OneRowPerSubmission, OnlyOwnersRevoke, Creating, Revoking

(* Where a slot may go while rows and forms stay as they are.              *)
Continues(q, k) ==
    \/ k = req[q] \/ k = Free
    \/ /\ req[q].pc \in Before /\ k.pc \in {"insert", "failed"}
       /\ k.n = req[q].n /\ k.user = req[q].user /\ k.env = req[q].env
    \/ /\ req[q].pc = "revokeAuth" /\ k.pc = "revoke"
       /\ k.key = req[q].key /\ k.user = req[q].user

LEMMA ContinuesPc ==
    ASSUME NEW q \in Requests, NEW k, Continues(q, k)
    PROVE  /\ k.pc \in Creating =>
                 /\ req[q].pc \in Creating
                 /\ k.n = req[q].n /\ k.user = req[q].user /\ k.env = req[q].env
           /\ k.pc \in Before => req[q].pc \in Before
           /\ k.pc = "ok" => k = req[q]
           /\ k.pc \in Revoking =>
                 req[q].pc \in Revoking /\ k.key = req[q].key /\ k.user = req[q].user
  BY DEF Continues, Creating, Before, Revoking, Free

LEMMA SpentStays ==
    ASSUME UNCHANGED asked,
           \A q \in Requests : req'[q].pc \in Before =>
                                 req[q].pc \in Before /\ req'[q].n = req[q].n
    PROVE  \A n : Spent(n) => Spent(n)'
  BY DEF Spent

LEMMA QuietStep ==
    ASSUME IssueInv, TypeOK', UNCHANGED <<profiles, rows, asked, renounced>>,
           \A q \in Requests : Continues(q, req'[q]),
           \A t \in Tabs : \A key \in listed'[t] :
               key \in listed[t] \/ \E row \in rows : row.hash = key,
           \A t \in Tabs :
               \/ dialog'[t].key \in {NoKey, dialog[t].key}
               \/ \E q \in Requests : req[q].pc = "ok" /\ dialog'[t].key = req[q].key
    PROVE  IssueInv'
  <1>1. \A n : Spent(n) => Spent(n)'
    BY ContinuesPc, SpentStays DEF Creating, Before
  <1>2. FormsKept' /\ OnePerForm'
    BY ContinuesPc DEF IssueInv, FormsKept, OnePerForm
  <1>3. RowsMade'
    BY <1>1 DEF IssueInv, RowsMade
  <1>4. \A key : HasRow(key) => HasRow(key)'
    BY DEF HasRow
  <1>5. KeysKept'
    BY <1>4, ContinuesPc DEF IssueInv, KeysKept
  <1>6. ListedKnown'
    BY <1>1 DEF IssueInv, ListedKnown, RowsMade
  <1>7. RevokesKnown'
    BY <1>1, ContinuesPc DEF IssueInv, RevokesKnown, Owns
  <1>8. OneRowPerSubmission' /\ OnlyOwnersRevoke'
    BY DEF IssueInv, OneRowPerSubmission, OnlyOwnersRevoke
  <1> QED
    BY <1>2, <1>3, <1>5, <1>6, <1>7, <1>8 DEF IssueInv
-----------------------------------------------------------------------------
LEMMA Typed == IssueInv => TypeOK
  BY DEF IssueInv

LEMMA ListedRows ==
    ASSUME NEW made, NEW u, NEW key \in Revocable(made, u)
    PROVE  \E row \in made : row.hash = key
  BY DEF Revocable

LEMMA PageIssue ==
    ASSUME IssueInv, NEW t \in Tabs,
           LoadPage(t) \/ SignOut(t) \/ \E u \in Users : SignIn(t, u)
    PROVE  IssueInv'
  <1>1. /\ \E isKeys : Show(t, isKeys)
        /\ UNCHANGED <<profiles, rows, req, asked, renounced>>
    BY DEF LoadPage, SignOut, SignIn
  <1>2. PICK isKeys : Show(t, isKeys)
    BY <1>1
  <1>3. \A s \in Tabs : dialog'[s].key \in {NoKey, dialog[s].key}
    BY <1>2, Typed DEF Show, TypeOK, Fresh
  <1>4. \A s \in Tabs : listed'[s] \in {listed[s], {}, Revocable(rows, cookie)}
    BY <1>2, Typed DEF Show, TypeOK
  <1>5. \A s \in Tabs : \A key \in listed'[s] :
            key \in listed[s] \/ \E row \in rows : row.hash = key
    BY <1>4, ListedRows
  <1>6. \A q \in Requests : Continues(q, req'[q])
    BY <1>1 DEF Continues
  <1> QED
    BY <1>1, <1>3, <1>5, <1>6, QuietStep, PageTyped, Typed

LEMMA DialogIssue ==
    ASSUME IssueInv, NEW t \in Tabs, Open(t) \/ Close(t)
    PROVE  IssueInv'
  <1>1. UNCHANGED <<profiles, rows, req, asked, renounced, listed>>
    BY DEF Open, Close
  <1>2. \A s \in Tabs : dialog'[s].key \in {NoKey, dialog[s].key}
    <2>1. CASE Open(t)
      <3>1. \A s \in Tabs : dialog[s] \in Dialogs
        BY Typed DEF TypeOK
      <3> QED
        BY <2>1, <3>1, Typed DEF Open, TypeOK, Dialogs
    <2>2. CASE Close(t)
      BY <2>2, Typed DEF Close, TypeOK, Reset, Fresh
    <2> QED
      BY <2>1, <2>2
  <1>3. \A q \in Requests : Continues(q, req'[q])
    BY <1>1 DEF Continues
  <1> QED
    BY <1>1, <1>2, <1>3, QuietStep, OpenTyped, CloseTyped, Typed

(* One slot goes on, the page stays.                                       *)
LEMMA SlotIssue ==
    ASSUME IssueInv, TypeOK', NEW r \in Requests, NEW k, Continues(r, k),
           req' = [req EXCEPT ![r] = k],
           UNCHANGED <<profiles, rows, asked, renounced, listed, dialog>>
    PROVE  IssueInv'
  <1>1. \A q \in Requests : req'[q] = IF q = r THEN k ELSE req[q]
    BY Typed DEF TypeOK
  <1>2. \A q \in Requests : Continues(q, req'[q])
    BY <1>1 DEF Continues
  <1> QED
    BY <1>2, QuietStep

LEMMA AuthenticateIssue ==
    ASSUME IssueInv, NEW r \in Requests,
           AuthenticateRevoke(r) \/ \E positive \in BOOLEAN : Authenticate(r, positive)
    PROVE  IssueInv'
  <1> USE DEF browserVars
  <1>1. TypeOK'
    BY AuthenticateTyped, Typed
  <1>2. CASE AuthenticateRevoke(r)
    <2> DEFINE k == IF req[r].user \in valid THEN [req[r] EXCEPT !.pc = "revoke"] ELSE Free
    <2>1. req[r] \in RevokeRequests /\ req[r].pc = "revokeAuth" /\ req' = [req EXCEPT ![r] = k]
      BY <1>2, SlotOf, Typed DEF AuthenticateRevoke, Revoking
    <2>2. Continues(r, k)
      BY <2>1 DEF Continues, RevokeRequests
    <2> HIDE DEF k
    <2> QED
      BY <1>1, <1>2, <2>1, <2>2, SlotIssue DEF AuthenticateRevoke
  <1>3. ASSUME NEW positive \in BOOLEAN, Authenticate(r, positive) PROVE IssueInv'
    <2> DEFINE pc == IF req[r].user \in valid /\ positive THEN "insert" ELSE "failed"
               k == [req[r] EXCEPT !.pc = pc]
    <2>1. req[r] \in CreateRequests /\ req[r].pc = "auth" /\ req' = [req EXCEPT ![r].pc = pc]
      BY <1>3, SlotOf, Typed DEF Authenticate, Creating
    <2>2. pc \in {"insert", "failed"}
      OBVIOUS
    <2> HIDE DEF pc
    <2>3. req' = [req EXCEPT ![r] = k]
      BY <2>1, Typed DEF TypeOK
    <2>4. Continues(r, k)
      BY <2>1, <2>2 DEF Continues, CreateRequests, Before
    <2> HIDE DEF k
    <2> QED
      BY <1>1, <1>3, <2>3, <2>4, SlotIssue DEF Authenticate
  <1> QED
    BY <1>2, <1>3

LEMMA NoInsertIssue ==
    ASSUME IssueInv, NEW r \in Requests, NEW token \in Tokens,
           InsertCollides(r, token) \/ InsertFails(r, token)
    PROVE  IssueInv'
  <1> USE DEF browserVars
  <1>1. TypeOK'
    BY InsertTyped, Typed
  <1>2. req[r] \in CreateRequests /\ req[r].pc = "insert"
    BY SlotOf, Typed DEF InsertCollides, InsertFails, Creating
  <1>3. PICK k : /\ k \in {AfterCollision(r, token), AfterError(r, token)}
                 /\ req' = [req EXCEPT ![r] = k]
    BY DEF InsertCollides, InsertFails
  <1>4. Continues(r, k)
    BY <1>2, <1>3 DEF Continues, CreateRequests, Before, AfterCollision, AfterError
  <1> QED
    BY <1>1, <1>3, <1>4, SlotIssue DEF InsertCollides, InsertFails

LEMMA AnswerIssue ==
    ASSUME IssueInv, NEW r \in Requests, Answer(r) \/ AnswerLost(r)
    PROVE  IssueInv'
  <1> USE DEF browserVars
  <1>1. TypeOK'
    BY AnswerTyped, AnswerLostTyped, Typed
  <1>2. /\ req' = [req EXCEPT ![r] = Free]
        /\ UNCHANGED <<profiles, rows, asked, renounced>>
    BY DEF Answer, AnswerLost
  <1>3. \A q \in Requests : Continues(q, req'[q])
    BY <1>2, Typed DEF Continues, TypeOK
  <1>4. CASE UNCHANGED <<dialog, listed>>
    BY <1>1, <1>2, <1>3, <1>4, QuietStep
  <1>5. CASE ~ UNCHANGED <<dialog, listed>>
    <2> DEFINE t == req[r].tab
    <2>1. /\ dialog' = [dialog EXCEPT ![t] = Answered(t, r)]
          /\ listed' = IF req[r].pc = "ok"
                       THEN [listed EXCEPT ![t] = Revocable(rows, req[r].user)] ELSE listed
          /\ req[r].pc \in {"ok", "failed"}
      BY <1>5 DEF Answer, AnswerLost
    <2>2. t \in Tabs
      BY <2>1, SlotOf, Typed DEF Creating, CreateRequests
    <2>3. Answered(t, r).key = req[r].key
      BY <2>2, Typed DEF Answered, TypeOK, Dialogs
    <2>4. req[r].pc = "failed" => req[r].key = NoKey
      BY Typed DEF TypeOK
    <2> HIDE DEF t
    <2>5. \A s \in Tabs : dialog'[s].key = dialog[s].key \/ dialog'[s].key = req[r].key
      BY <2>1, <2>2, <2>3, Typed DEF TypeOK
    <2>6. \A s \in Tabs :
             \/ dialog'[s].key \in {NoKey, dialog[s].key}
             \/ \E q \in Requests : req[q].pc = "ok" /\ dialog'[s].key = req[q].key
      BY <2>1, <2>4, <2>5
    <2>7. \A s \in Tabs : listed'[s] \in {listed[s], Revocable(rows, req[r].user)}
      BY <2>1, <2>2, Typed DEF TypeOK
    <2>8. \A s \in Tabs : \A key \in listed'[s] :
              key \in listed[s] \/ \E row \in rows : row.hash = key
      BY <2>7, ListedRows
    <2> QED
      BY <1>1, <1>2, <1>3, <2>6, <2>8, QuietStep
  <1> QED
    BY <1>4, <1>5

(* A new form has a number of its own.                                     *)
LEMMA SubmitIssue ==
    ASSUME IssueInv, NEW t \in Tabs, NEW r \in Requests, NEW env \in Environments,
           Submit(t, r, env)
    PROVE  IssueInv'
  <1> DEFINE Forms == [user : Users \cup {Nobody}, env : Environments]
             form == [user |-> cookie, env |-> env]
             n == Len(asked')
             k == [pc |-> "auth", tab |-> t, user |-> cookie, n |-> n,
                   env |-> env, attempt |-> 0, key |-> NoKey]
  <1>1. UNCHANGED <<profiles, rows, listed, renounced>>
    BY DEF Submit
  <1>2. form \in Forms /\ asked \in Seq(Forms) /\ asked' = Append(asked, form)
    BY Typed DEF TypeOK, Submit
  <1>3. form.user = cookie /\ form.env = env
    OBVIOUS
  <1> HIDE DEF form, Forms
  <1>4. /\ n = Len(asked) + 1 /\ Len(asked) \in Nat
        /\ asked'[n] = form
        /\ \A m \in 1 .. Len(asked) : asked'[m] = asked[m]
    BY <1>2, AppendProperties, LenProperties
  <1>5. /\ k.pc = "auth" /\ k.n = n /\ k.user = cookie /\ k.env = env
        /\ req' = [req EXCEPT ![r] = k]
    BY DEF Submit
  <1>6. dialog' = [dialog EXCEPT ![t].waiting = n]
    BY DEF Submit
  <1> HIDE DEF n, k
  <1>7. \A q \in Requests : req'[q] = IF q = r THEN k ELSE req[q]
    BY <1>5, Typed DEF TypeOK
  <1>8. \A m : Spent(m) => Spent(m)'
    <2>1. n \notin 1 .. Len(asked)
      BY <1>4
    <2>2. \A m \in 1 .. Len(asked) : m \in 1 .. Len(asked')
      BY <1>4 DEF n
    <2> QED
      BY <1>5, <1>7, <2>1, <2>2 DEF Spent
  <1>9. Len(asked') = n /\ n \in 1 .. n
    BY <1>4 DEF n
  <1>10. \A m \in 1 .. Len(asked) : m \in 1 .. n /\ m # n
    BY <1>4
  <1>11. form = [user |-> cookie, env |-> env]
    BY DEF form
  <1>12. FormsKept'
    BY <1>4, <1>5, <1>7, <1>9, <1>10, <1>11 DEF IssueInv, FormsKept, Creating
  <1>13. OnePerForm'
    <2>1. \A q \in Requests : req[q].pc \in Creating => req[q].n # n
      BY <1>10 DEF IssueInv, FormsKept
    <2> QED
      BY <1>5, <1>7, <2>1 DEF IssueInv, OnePerForm
  <1>14. RowsMade'
    BY <1>1, <1>4, <1>8 DEF IssueInv, RowsMade, Spent
  <1>15. \A key : HasRow(key) => HasRow(key)'
    BY <1>1, <1>4, <1>9, <1>10 DEF HasRow
  <1>16. \A s \in Tabs : dialog'[s].key = dialog[s].key
    <2>1. \A s \in Tabs : dialog[s] \in Dialogs
      BY Typed DEF TypeOK
    <2> QED
      BY <1>6, <2>1, Typed DEF TypeOK, Dialogs
  <1>17. KeysKept'
    BY <1>5, <1>7, <1>15, <1>16 DEF IssueInv, KeysKept
  <1>18. ListedKnown'
    BY <1>1, <1>8 DEF IssueInv, ListedKnown
  <1>19. RevokesKnown'
    BY <1>1, <1>5, <1>7, <1>8 DEF IssueInv, RevokesKnown, Owns, Revoking
  <1>20. OneRowPerSubmission' /\ OnlyOwnersRevoke'
    BY <1>1 DEF IssueInv, OneRowPerSubmission, OnlyOwnersRevoke
  <1> QED
    BY <1>12, <1>13, <1>14, <1>17, <1>18, <1>19, <1>20, SubmitTyped, Typed DEF IssueInv

(* The one row of a form is made by the action that has the form.          *)
LEMMA RowIssue ==
    ASSUME IssueInv, TypeOK', NEW r \in Requests, NEW token \in Tokens, NEW k,
           req[r].pc = "insert", req[r].user \in profiles, ~Taken(NewKey(r, token)),
           rows' = rows \cup {NewRow(r, NewKey(r, token))},
           req' = [req EXCEPT ![r] = k],
           k.pc \in {"ok", "failed"}, k.n = req[r].n, k.user = req[r].user, k.env = req[r].env,
           k.pc = "ok" => k.key = NewKey(r, token),
           UNCHANGED <<profiles, asked, renounced, listed, dialog>>
    PROVE  IssueInv'
  <1> DEFINE key == NewKey(r, token)
             row == NewRow(r, key)
             n == req[r].n
  <1>1. key.n = n /\ key.env = req[r].env
    BY DEF NewKey
  <1>2. /\ row.prefix = PrefixOf(key) /\ row.hash = key /\ row.env = req[r].env
        /\ row.owner = req[r].user /\ row.status = "active"
    BY DEF NewRow
  <1>3. n \in 1 .. Len(asked) /\ asked[n] = [user |-> req[r].user, env |-> req[r].env]
    BY DEF IssueInv, FormsKept, Creating
  <1>4. ~Spent(n)
    BY DEF Spent, Before
  <1> HIDE DEF key, row, n
  <1>5. \A q \in Requests : req'[q] = IF q = r THEN k ELSE req[q]
    BY Typed DEF TypeOK
  <1>6. \A m : Spent(m) => Spent(m)'
    BY <1>5 DEF Spent, Before
  <1>7. Spent(n)'
    <2>1. \A q \in Requests : q # r /\ req[q].pc \in Before => req[q].n # n
      BY DEF IssueInv, OnePerForm, Creating, Before, n
    <2>2. UNCHANGED n
      BY <1>5 DEF n
    <2> QED
      BY <1>3, <1>5, <2>1, <2>2 DEF Spent, Before
  <1>8. rows' = rows \cup {row}
    BY DEF row, key
  <1>9. FormsKept' /\ OnePerForm'
    BY <1>5 DEF IssueInv, FormsKept, OnePerForm, Creating
  <1>10. UNCHANGED n
    BY <1>5 DEF n
  <1>11. RowsMade'
    <2> SUFFICES ASSUME NEW x \in rows'
                 PROVE  /\ Spent(x.hash.n)'
                        /\ x.prefix = PrefixOf(x.hash) /\ x.env = x.hash.env
                        /\ asked[x.hash.n] = [user |-> x.owner, env |-> x.env]
      BY DEF RowsMade
    <2>1. CASE x \in rows
      BY <1>6, <2>1 DEF IssueInv, RowsMade
    <2>2. CASE x = row
      <3>1. Spent(x.hash.n)'
        BY <1>1, <1>2, <1>7, <1>10, <2>2 DEF Spent
      <3> QED
        BY <1>1, <1>2, <1>3, <2>2, <3>1
    <2> QED
      BY <1>8, <2>1, <2>2
  <1>12. \A x : HasRow(x) => HasRow(x)'
    BY <1>8 DEF HasRow
  <1>13. KeysKept'
    <2>1. ASSUME NEW q \in Requests, req'[q].pc = "ok" PROVE HasRow(req[q].key)'
      <3>1. CASE q = r
        <4>1. req'[q].key = NewKey(r, token)
          BY <1>5, <2>1, <3>1
        <4> QED
          BY <1>1, <1>2, <1>3, <1>8, <4>1 DEF HasRow, key
      <3>2. CASE q # r
        BY <1>5, <1>12, <2>1, <3>2 DEF IssueInv, KeysKept
      <3> QED
        BY <3>1, <3>2
    <2> QED
      BY <1>12, <2>1 DEF IssueInv, KeysKept
  <1>14. ListedKnown'
    BY <1>6 DEF IssueInv, ListedKnown
  <1>15. RevokesKnown'
    <2> SUFFICES ASSUME NEW q \in Requests, req'[q].pc \in Revoking
                 PROVE  /\ Spent(req[q].key.n)'
                        /\ Owns(req[q].user, req[q].key)' => req'[q].key \in renounced
      BY DEF RevokesKnown
    <2>1. req'[q] = req[q] /\ req[q].pc \in Revoking
      BY <1>5 DEF Revoking
    <2>2. Spent(req[q].key.n)
      BY <2>1 DEF IssueInv, RevokesKnown
    <2>3. req[q].key # key
      BY <1>1, <1>4, <2>2
    <2>4. Owns(req[q].user, req[q].key)' => Owns(req[q].user, req[q].key)
      BY <1>2, <1>8, <2>1, <2>3 DEF Owns
    <2> QED
      BY <1>6, <2>1, <2>2, <2>4 DEF IssueInv, RevokesKnown
  <1>16. OneRowPerSubmission'
    <2>1. \A x \in rows : x.hash.n # n
      BY <1>4 DEF IssueInv, RowsMade
    <2>2. \A x \in rows : x.prefix # row.prefix
      BY <1>2 DEF Taken, key
    <2> QED
      BY <1>1, <1>2, <1>8, <2>1, <2>2 DEF IssueInv, OneRowPerSubmission
  <1>17. OnlyOwnersRevoke'
    BY <1>2, <1>8 DEF IssueInv, OnlyOwnersRevoke
  <1> QED
    BY <1>9, <1>11, <1>13, <1>14, <1>15, <1>16, <1>17 DEF IssueInv

LEMMA InsertIssue ==
    ASSUME IssueInv, NEW r \in Requests, NEW token \in Tokens,
           Insert(r, token) \/ InsertUnsure(r, token)
    PROVE  IssueInv'
  <1> USE DEF browserVars
  <1> DEFINE key == NewKey(r, token)
  <1>1. TypeOK'
    BY InsertTyped, Typed
  <1>2. /\ req[r].pc = "insert" /\ req[r].user \in profiles /\ ~Taken(key)
        /\ rows' = rows \cup {NewRow(r, key)}
        /\ UNCHANGED <<profiles, asked, renounced, listed, dialog>>
    BY DEF Insert, InsertUnsure
  <1>3. req[r] \in CreateRequests
    BY <1>2, SlotOf, Typed DEF Creating
  <1>4. CASE Insert(r, token)
    <2> DEFINE k == [req[r] EXCEPT !.pc = "ok", !.key = key]
    <2>1. req' = [req EXCEPT ![r] = k]
      BY <1>4, Typed DEF Insert, TypeOK
    <2>2. /\ k.pc = "ok" /\ k.key = key /\ k.n = req[r].n /\ k.user = req[r].user
          /\ k.env = req[r].env
      BY <1>3 DEF CreateRequests
    <2> HIDE DEF k
    <2> QED
      BY <1>1, <1>2, <2>1, <2>2, RowIssue
  <1>5. CASE InsertUnsure(r, token)
    <2> DEFINE k == [req[r] EXCEPT !.pc = "failed"]
    <2>1. req' = [req EXCEPT ![r] = k]
      BY <1>5 DEF InsertUnsure, AfterError
    <2>2. k.pc = "failed" /\ k.n = req[r].n /\ k.user = req[r].user /\ k.env = req[r].env
      BY <1>3 DEF CreateRequests
    <2> HIDE DEF k
    <2> QED
      BY <1>1, <1>2, <2>1, <2>2, RowIssue
  <1> QED
    BY <1>4, <1>5

(* What a row says of the form it was made from.                           *)
LEMMA OfRow ==
    ASSUME IssueInv, NEW row \in rows, NEW key, row.hash = key
    PROVE  /\ Spent(key.n)
           /\ row.prefix = PrefixOf(key) /\ row.env = key.env
           /\ asked[key.n].user = row.owner /\ asked[key.n].env = row.env
  <1>1. /\ Spent(row.hash.n)
        /\ row.prefix = PrefixOf(row.hash) /\ row.env = row.hash.env
        /\ asked[row.hash.n] = [user |-> row.owner, env |-> row.env]
    BY DEF IssueInv, RowsMade
  <1>2. asked[key.n] = [user |-> row.owner, env |-> row.env]
    BY <1>1
  <1>3. asked[key.n].user = row.owner /\ asked[key.n].env = row.env
    BY <1>2
  <1> QED
    BY <1>1, <1>3

LEMMA DeleteIssue ==
    ASSUME IssueInv, NEW u \in Users, DeleteAccount(u)
    PROVE  IssueInv'
  <1> USE DEF browserVars
  <1>1. /\ profiles' = profiles \ {u} /\ rows' = {row \in rows : row.owner # u}
        /\ UNCHANGED <<req, asked, renounced, listed, dialog>>
    BY DEF DeleteAccount
  <1>2. \A n : Spent(n) => Spent(n)'
    BY <1>1 DEF Spent
  <1>3. FormsKept' /\ OnePerForm' /\ RowsMade' /\ ListedKnown'
    BY <1>1, <1>2 DEF IssueInv, FormsKept, OnePerForm, RowsMade, ListedKnown
  <1>4. ASSUME NEW key, HasRow(key) PROVE HasRow(key)'
    <2>1. ASSUME asked[key.n].user \in profiles' PROVE \E row \in rows' : row.hash = key
      <3>1. PICK row \in rows : row.hash = key
        BY <1>1, <1>4, <2>1 DEF HasRow
      <3>2. row.owner = asked[key.n].user
        BY <3>1, OfRow
      <3> QED
        BY <1>1, <2>1, <3>1, <3>2
    <2> QED
      BY <1>1, <1>4, <2>1 DEF HasRow
  <1>5. KeysKept'
    BY <1>1, <1>4 DEF IssueInv, KeysKept
  <1>6. RevokesKnown'
    BY <1>1, <1>2 DEF IssueInv, RevokesKnown, Owns
  <1>7. OneRowPerSubmission' /\ OnlyOwnersRevoke'
    BY <1>1 DEF IssueInv, OneRowPerSubmission, OnlyOwnersRevoke
  <1> QED
    BY <1>3, <1>5, <1>6, <1>7, DeleteTyped, Typed DEF IssueInv

LEMMA RevokeIssue ==
    ASSUME IssueInv, NEW t \in Tabs, NEW r \in Requests, NEW key \in listed[t], Revoke(t, r, key)
    PROVE  IssueInv'
  <1> USE DEF browserVars
  <1> DEFINE k == [pc |-> "revokeAuth", tab |-> t, user |-> cookie, key |-> key]
  <1>1. /\ req' = [req EXCEPT ![r] = k]
        /\ renounced' = (IF Owns(cookie, key) THEN renounced \cup {key} ELSE renounced)
        /\ UNCHANGED <<profiles, rows, asked, listed, dialog>>
    BY DEF Revoke
  <1>2. k.pc = "revokeAuth" /\ k.user = cookie /\ k.key = key
    OBVIOUS
  <1> HIDE DEF k
  <1>3. \A q \in Requests : req'[q] = IF q = r THEN k ELSE req[q]
    BY <1>1, Typed DEF TypeOK
  <1>4. \A n : Spent(n) => Spent(n)'
    BY <1>1, <1>2, <1>3 DEF Spent, Before
  <1>5. FormsKept' /\ OnePerForm' /\ RowsMade' /\ ListedKnown'
    BY <1>1, <1>2, <1>3, <1>4
       DEF IssueInv, FormsKept, OnePerForm, RowsMade, ListedKnown, Creating
  <1>6. \A x : HasRow(x) => HasRow(x)'
    BY <1>1 DEF HasRow
  <1>7. KeysKept'
    BY <1>1, <1>2, <1>3, <1>6 DEF IssueInv, KeysKept
  <1>8. RevokesKnown'
    <2>1. Spent(key.n)
      BY DEF IssueInv, ListedKnown
    <2> QED
      BY <1>1, <1>2, <1>3, <1>4, <2>1 DEF IssueInv, RevokesKnown, Owns
  <1>9. OneRowPerSubmission' /\ OnlyOwnersRevoke'
    BY <1>1 DEF IssueInv, OneRowPerSubmission, OnlyOwnersRevoke
  <1> QED
    BY <1>5, <1>7, <1>8, <1>9, RevokeTyped, Typed DEF IssueInv

LEMMA UpdateIssue ==
    ASSUME IssueInv, NEW r \in Requests, NEW done \in BOOLEAN, NEW heard \in BOOLEAN,
           UpdateRevoked(r, done, heard)
    PROVE  IssueInv'
  <1>1. /\ req[r].pc = "revoke" /\ req' = [req EXCEPT ![r] = Free]
        /\ rows' = (IF done THEN Revoked(r) ELSE rows)
        /\ UNCHANGED <<profiles, asked, renounced, dialog>>
    BY DEF UpdateRevoked
  <1>2. \A q \in Requests : req'[q] = req[q] \/ req'[q] = Free
    BY <1>1, Typed DEF TypeOK
  <1>3. \A q \in Requests : req'[q].pc # "free" => req'[q] = req[q]
    BY <1>2 DEF Free
  <1>4. \A n : Spent(n) => Spent(n)'
    BY <1>1, <1>3 DEF Spent, Before
  <1>5. FormsKept' /\ OnePerForm'
    BY <1>1, <1>3 DEF IssueInv, FormsKept, OnePerForm, Creating
  <1>6. ASSUME NEW new \in rows'
        PROVE  \E row \in rows : /\ new.hash = row.hash /\ new.prefix = row.prefix
                                 /\ new.env = row.env /\ new.owner = row.owner
    BY <1>1, RevokedRows, Typed
  <1>7. RowsMade'
    <2> SUFFICES ASSUME NEW new \in rows'
                 PROVE  /\ Spent(new.hash.n)'
                        /\ new.prefix = PrefixOf(new.hash) /\ new.env = new.hash.env
                        /\ asked[new.hash.n] = [user |-> new.owner, env |-> new.env]
      BY <1>1 DEF RowsMade, PrefixOf
    <2>1. PICK row \in rows : /\ new.hash = row.hash /\ new.prefix = row.prefix
                              /\ new.env = row.env /\ new.owner = row.owner
      BY <1>6
    <2>2. /\ Spent(row.hash.n)
          /\ row.prefix = PrefixOf(row.hash) /\ row.env = row.hash.env
          /\ asked[row.hash.n] = [user |-> row.owner, env |-> row.env]
      BY DEF IssueInv, RowsMade
    <2>3. Spent(new.hash.n)'
      BY <1>4, <2>1, <2>2
    <2> QED
      BY <2>1, <2>2, <2>3
  <1>8. ASSUME NEW x, HasRow(x) PROVE HasRow(x)'
    <2>1. ASSUME asked[x.n].user \in profiles PROVE \E new \in rows' : new.hash = x
      <3>1. PICK row \in rows : row.hash = x
        BY <1>8, <2>1 DEF HasRow
      <3>2. \E new \in rows' : new.hash = row.hash
        BY <1>1, RevokedRows, Typed
      <3> QED
        BY <3>1, <3>2
    <2> QED
      BY <1>1, <1>8, <2>1 DEF HasRow
  <1>9. KeysKept'
    BY <1>1, <1>3, <1>8 DEF IssueInv, KeysKept
  <1>10. ListedKnown'
    <2>1. req[r].tab \in Tabs
      BY <1>1, SlotOf, Typed DEF Revoking, RevokeRequests
    <2>2. \A s \in Tabs : listed'[s] \in {listed[s], Revocable(rows', req[r].user)}
      BY <1>1, <2>1, Typed DEF UpdateRevoked, TypeOK
    <2>3. \A s \in Tabs : \A key \in listed'[s] :
              key \in listed[s] \/ \E row \in rows' : row.hash = key
      BY <2>2, ListedRows
    <2> QED
      BY <1>4, <1>7, <2>3 DEF IssueInv, ListedKnown, RowsMade
  <1>11. RevokesKnown'
    <2>1. ASSUME NEW who, NEW key, Owns(who, key)' PROVE Owns(who, key)
      <3>1. PICK new \in rows' : new.hash = key /\ new.owner = who
        BY <2>1 DEF Owns
      <3>2. PICK row \in rows : new.hash = row.hash /\ new.owner = row.owner
        BY <1>6
      <3> QED
        BY <3>1, <3>2 DEF Owns
    <2> SUFFICES ASSUME NEW q \in Requests, req'[q].pc \in Revoking
                 PROVE  /\ Spent(req[q].key.n)'
                        /\ Owns(req[q].user, req[q].key)' => req'[q].key \in renounced
      BY <1>1 DEF RevokesKnown
    <2>2. req'[q] = req[q]
      BY <1>3 DEF Revoking
    <2>3. /\ Spent(req[q].key.n)
          /\ Owns(req[q].user, req[q].key) => req[q].key \in renounced
      BY <2>2 DEF IssueInv, RevokesKnown
    <2>4. (\E n : n = req[q].key.n /\ Spent(n)') /\ req'[q].key.n = req[q].key.n
      BY <1>4, <2>2, <2>3
    <2>5. Spent(req[q].key.n)'
      BY <2>4 DEF Spent
    <2>6. Owns(req[q].user, req[q].key)' => Owns(req[q].user, req[q].key)
      BY <2>1, <2>2 DEF Owns
    <2> QED
      BY <2>2, <2>3, <2>5, <2>6
  <1>12. OneRowPerSubmission'
    <2>1. ASSUME NEW x \in rows', NEW y \in rows'
          PROVE  \E v, w \in rows : /\ x.hash = v.hash /\ x.prefix = v.prefix
                                    /\ y.hash = w.hash /\ y.prefix = w.prefix
                                    /\ v = w => x = y
      BY <1>1, RevokedRows, Typed
    <2> SUFFICES ASSUME NEW x \in rows', NEW y \in rows'
                 PROVE  (x.hash.n = y.hash.n \/ x.prefix = y.prefix) => x = y
      BY DEF OneRowPerSubmission
    <2>2. PICK v \in rows, w \in rows : /\ x.hash = v.hash /\ x.prefix = v.prefix
                                        /\ y.hash = w.hash /\ y.prefix = w.prefix
                                        /\ v = w => x = y
      BY <2>1
    <2>3. (v.hash.n = w.hash.n \/ v.prefix = w.prefix) => v = w
      BY DEF IssueInv, OneRowPerSubmission
    <2> QED
      BY <2>2, <2>3
  <1>13. OnlyOwnersRevoke'
    <2>1. Owns(req[r].user, req[r].key) => req[r].key \in renounced
      BY <1>1 DEF IssueInv, RevokesKnown, Revoking
    <2> SUFFICES ASSUME NEW new \in rows', new.status = "revoked"
                 PROVE  new.hash \in renounced
      BY <1>1 DEF OnlyOwnersRevoke
    <2>2. PICK row \in rows :
              /\ new.hash = row.hash
              /\ new.status = "revoked" =>
                    row.status = "revoked" \/ (row.hash = req[r].key /\ row.owner = req[r].user)
      BY <1>1, RevokedRows, Typed
    <2>3. CASE row.status = "revoked"
      BY <2>2, <2>3 DEF IssueInv, OnlyOwnersRevoke
    <2>4. CASE row.hash = req[r].key /\ row.owner = req[r].user
      <3>1. Owns(req[r].user, req[r].key)
        BY <2>4 DEF Owns
      <3> QED
        BY <2>1, <2>2, <2>4, <3>1
    <2> QED
      BY <2>2, <2>3, <2>4
  <1> QED
    BY <1>5, <1>7, <1>9, <1>10, <1>11, <1>12, <1>13, UpdateTyped, Typed DEF IssueInv

LEMMA NextIssue == IssueInv /\ [Next]_vars => IssueInv'
  <1> SUFFICES ASSUME IssueInv, [Next]_vars PROVE IssueInv'
    OBVIOUS
  <1>1. CASE UNCHANGED vars
    <2>1. UNCHANGED <<profiles, rows, req, asked, renounced, listed, dialog>>
      BY <1>1 DEF vars, browserVars
    <2>2. \A q \in Requests : Continues(q, req'[q])
      BY <2>1 DEF Continues
    <2> QED
      BY <1>1, <2>1, <2>2, NextTyped, Typed, QuietStep
  <1>2. ASSUME NEW r \in Requests, ServerStep(r) PROVE IssueInv'
    BY <1>2, AuthenticateIssue, AnswerIssue, InsertIssue, NoInsertIssue, UpdateIssue
       DEF ServerStep
  <1> QED
    BY <1>1, <1>2, PageIssue, DialogIssue, SubmitIssue, RevokeIssue, DeleteIssue DEF Next

LEMMA IssueInvariant == Spec => []IssueInv
  BY InitIssue, NextIssue, PTL DEF Spec

(* The key a dialog shows is one of a row made for who asked, as asked,    *)
(* however many tabs, sessions, collisions and lost answers there are.     *)
THEOREM ShownIsStored == Spec => []ShownKeyIsStored
  <1>1. IssueInv => ShownKeyIsStored
    <2> SUFFICES ASSUME IssueInv, NEW t \in Tabs, dialog[t].key # NoKey,
                        asked[dialog[t].key.n].user \in profiles
                 PROVE  \E row \in rows :
                           /\ row.hash = dialog[t].key /\ row.prefix = PrefixOf(dialog[t].key)
                           /\ row.owner = asked[dialog[t].key.n].user
                           /\ row.env = asked[dialog[t].key.n].env
                           /\ dialog[t].key.env = asked[dialog[t].key.n].env
      BY DEF ShownKeyIsStored
    <2>1. PICK row \in rows : row.hash = dialog[t].key
      BY DEF IssueInv, KeysKept, HasRow
    <2> QED
      BY <2>1, OfRow
  <1> QED
    BY <1>1, IssueInvariant, PTL

(* A form makes one row at most, and prefixes stay unique.                 *)
THEOREM FormsMakeOneRow == Spec => []OneRowPerSubmission
  <1>1. IssueInv => OneRowPerSubmission
    BY DEF IssueInv
  <1> QED
    BY <1>1, IssueInvariant, PTL

(* A key is revoked only if its owner confirmed it.                        *)
THEOREM OwnersRevoke == Spec => []OnlyOwnersRevoke
  <1>1. IssueInv => OnlyOwnersRevoke
    BY DEF IssueInv
  <1> QED
    BY <1>1, IssueInvariant, PTL
-----------------------------------------------------------------------------
(* Where the plaintext of a key is, said of every key there could be: in   *)
(* one place at most, in none while its form has no row, in one once it    *)
(* has.                                                                    *)
InTab(key) == \E t \in Tabs : dialog[t].key = key
OnItsWay(key) == \E q \in Requests : req[q].pc = "ok" /\ req[q].key = key
Somewhere(key) == InTab(key) \/ OnItsWay(key) \/ key \in dismissed \/ key \in missed
Hashes == {row.hash : row \in rows}

OnePlace(key) ==
    /\ \A s, t \in Tabs : dialog[s].key = key /\ dialog[t].key = key => s = t
    /\ \A p, q \in Requests :
          req[p].pc = "ok" /\ req[p].key = key /\ req[q].pc = "ok" /\ req[q].key = key => p = q
    /\ InTab(key) => ~OnItsWay(key) /\ key \notin dismissed /\ key \notin missed
    /\ OnItsWay(key) => key \notin dismissed /\ key \notin missed
    /\ ~(key \in dismissed /\ key \in missed)

OnceFor(key) ==
    /\ OnePlace(key)
    /\ Somewhere(key) => Spent(key.n)
    /\ key \in Hashes => Somewhere(key)

OnceInv == IssueInv /\ \A key \in Keys : OnceFor(key)

(* The places of a key a step does not move.                               *)
Stays(key) ==
    /\ \A t \in Tabs : (dialog'[t].key = key) <=> (dialog[t].key = key)
    /\ \A q \in Requests :
          (req'[q].pc = "ok" /\ req'[q].key = key) <=> (req[q].pc = "ok" /\ req[q].key = key)
    /\ (key \in dismissed') <=> (key \in dismissed)
    /\ (key \in missed') <=> (key \in missed)

LEMMA StaysOnce ==
    ASSUME NEW key, OnceFor(key), Stays(key), Spent(key.n) => Spent(key.n)',
           key \in Hashes' => key \in Hashes
    PROVE  OnceFor(key)'
  <1>1. (InTab(key)' <=> InTab(key)) /\ (OnItsWay(key)' <=> OnItsWay(key))
    BY DEF Stays, InTab, OnItsWay
  <1>2. OnePlace(key)'
    BY <1>1 DEF OnceFor, OnePlace, Stays
  <1>3. Somewhere(key)' <=> Somewhere(key)
    BY <1>1 DEF Somewhere, Stays
  <1> QED
    BY <1>2, <1>3 DEF OnceFor

(* Every key stays where it is.                                            *)
LEMMA QuietOnce ==
    ASSUME OnceInv, IssueInv', UNCHANGED <<dismissed, missed>>,
           \A t \in Tabs : dialog'[t].key = dialog[t].key,
           \A q \in Requests : req'[q] = req[q] \/ (req[q].pc # "ok" /\ req'[q].pc # "ok"),
           \A n : Spent(n) => Spent(n)',
           Hashes' \subseteq Hashes
    PROVE  OnceInv'
  <1> SUFFICES ASSUME NEW key \in Keys PROVE OnceFor(key)'
    BY DEF OnceInv
  <1>1. Stays(key)
    BY DEF Stays
  <1>2. OnceFor(key) /\ (key \in Hashes' => key \in Hashes)
    BY DEF OnceInv
  <1>3. Spent(key.n) => Spent(key.n)'
    <2>1. PICK n : n = key.n
      OBVIOUS
    <2>2. Spent(n) => Spent(n)'
      OBVIOUS
    <2> QED
      BY <2>1, <2>2
  <1> QED
    BY <1>1, <1>2, <1>3, StaysOnce

(* A page goes, or a dialog is closed: a key it held goes where `place`    *)
(* says.                                                                   *)
LEMMA LeftOnce ==
    ASSUME OnceInv, IssueInv', UNCHANGED <<req, rows, asked>>, NEW t \in Tabs,
           dialog'[t].key = NoKey, \A s \in Tabs \ {t} : dialog'[s].key = dialog[s].key,
           \/ /\ dismissed' = (IF dialog[t].key = NoKey THEN dismissed
                                                        ELSE dismissed \cup {dialog[t].key})
              /\ missed' = missed
           \/ /\ missed' = (IF dialog[t].key = NoKey THEN missed ELSE missed \cup {dialog[t].key})
              /\ dismissed' = dismissed
    PROVE  OnceInv'
  <1> SUFFICES ASSUME NEW key \in Keys PROVE OnceFor(key)'
    BY DEF OnceInv
  <1>1. OnceFor(key) /\ key # NoKey
    BY NoKeyIsNone DEF OnceInv
  <1>2. (Spent(key.n)' <=> Spent(key.n)) /\ (key \in Hashes' <=> key \in Hashes)
    BY DEF Spent, Hashes
  <1>3. CASE dialog[t].key # key
    <2>1. Stays(key)
      BY <1>1, <1>3 DEF Stays
    <2> QED
      BY <1>1, <1>2, <2>1, StaysOnce
  <1>4. CASE dialog[t].key = key
    <2>1. /\ InTab(key) /\ ~OnItsWay(key) /\ key \notin dismissed /\ key \notin missed
          /\ \A s \in Tabs \ {t} : dialog[s].key # key
      BY <1>1, <1>4 DEF OnceFor, OnePlace, InTab
    <2>2. ~InTab(key)' /\ ~OnItsWay(key)'
      BY <1>1, <2>1 DEF InTab, OnItsWay
    <2>3. (key \in dismissed' \/ key \in missed') /\ ~(key \in dismissed' /\ key \in missed')
      BY <1>1, <1>4, <2>1
    <2>4. Spent(key.n)
      BY <1>1, <2>1 DEF OnceFor, Somewhere
    <2>5. OnePlace(key)'
      BY <2>2, <2>3 DEF OnePlace, InTab, OnItsWay
    <2> QED
      BY <1>2, <2>3, <2>4, <2>5 DEF OnceFor, Somewhere
  <1> QED
    BY <1>3, <1>4

LEMMA PageOnce ==
    ASSUME OnceInv, NEW t \in Tabs,
           LoadPage(t) \/ SignOut(t) \/ (\E u \in Users : SignIn(t, u)) \/ Close(t)
    PROVE  OnceInv'
  <1>1. IssueInv /\ TypeOK
    BY DEF OnceInv, IssueInv
  <1>2. IssueInv'
    BY <1>1, PageIssue, DialogIssue
  <1>3. UNCHANGED <<req, rows, asked>>
    BY DEF LoadPage, SignOut, SignIn, Close
  <1>4. CASE Close(t)
    <2>1. /\ dialog' = [dialog EXCEPT ![t] = Reset(t)] /\ missed' = missed
          /\ dismissed' = (IF dialog[t].key = NoKey THEN dismissed
                                                    ELSE dismissed \cup {dialog[t].key})
      BY <1>4 DEF Close
    <2>2. Reset(t).key = NoKey
      BY DEF Reset, Fresh
    <2>3. dialog'[t].key = NoKey /\ \A s \in Tabs \ {t} : dialog'[s].key = dialog[s].key
      BY <1>1, <2>1, <2>2 DEF TypeOK
    <2> QED
      BY <1>2, <1>3, <2>1, <2>3, LeftOnce
  <1>5. CASE ~Close(t)
    <2>1. \E isKeys : Show(t, isKeys)
      BY <1>5 DEF LoadPage, SignOut, SignIn
    <2>2. dismissed' = dismissed
      BY <1>5 DEF LoadPage, SignOut, SignIn
    <2>3. /\ dialog' = [dialog EXCEPT ![t] = Fresh]
          /\ missed' = (IF dialog[t].key = NoKey THEN missed ELSE missed \cup {dialog[t].key})
      BY <2>1 DEF Show
    <2>4. dialog'[t].key = NoKey /\ \A s \in Tabs \ {t} : dialog'[s].key = dialog[s].key
      BY <1>1, <2>3 DEF TypeOK, Fresh
    <2> QED
      BY <1>2, <1>3, <2>2, <2>3, <2>4, LeftOnce
  <1> QED
    BY <1>4, <1>5

LEMMA DialogOpens ==
    ASSUME OnceInv, NEW t \in Tabs, Open(t)
    PROVE  OnceInv'
  <1>1. IssueInv /\ TypeOK
    BY DEF OnceInv, IssueInv
  <1>2. IssueInv'
    BY <1>1, DialogIssue
  <1>3. UNCHANGED <<req, rows, asked, dismissed, missed>>
    BY DEF Open
  <1>4. \A s \in Tabs : dialog[s] \in Dialogs
    BY <1>1 DEF TypeOK
  <1>5. \A s \in Tabs : dialog'[s].key = dialog[s].key
    BY <1>1, <1>4 DEF Open, TypeOK, Dialogs
  <1> QED
    BY <1>2, <1>3, <1>5, QuietOnce DEF Spent, Hashes

LEMMA SubmitOnce ==
    ASSUME OnceInv, NEW t \in Tabs, NEW r \in Requests, NEW env \in Environments,
           Submit(t, r, env)
    PROVE  OnceInv'
  <1> DEFINE Forms == [user : Users \cup {Nobody}, env : Environments]
             form == [user |-> cookie, env |-> env]
             n == Len(asked')
             k == [pc |-> "auth", tab |-> t, user |-> cookie, n |-> n,
                   env |-> env, attempt |-> 0, key |-> NoKey]
  <1>1. IssueInv /\ TypeOK
    BY DEF OnceInv, IssueInv
  <1>2. IssueInv'
    BY <1>1, SubmitIssue
  <1>3. /\ dialog' = [dialog EXCEPT ![t].waiting = n] /\ req' = [req EXCEPT ![r] = k]
        /\ req[r].pc = "free" /\ UNCHANGED <<rows, dismissed, missed>>
    BY DEF Submit, Takes, Free
  <1>4. form \in Forms /\ asked \in Seq(Forms) /\ asked' = Append(asked, form)
    BY <1>1 DEF TypeOK, Submit
  <1>5. k.pc = "auth" /\ k.n = n
    OBVIOUS
  <1> HIDE DEF form, Forms, k
  <1>6. n = Len(asked) + 1 /\ Len(asked) \in Nat
    BY <1>4, AppendProperties, LenProperties
  <1>7. Len(asked') = n
    OBVIOUS
  <1> HIDE DEF n
  <1>8. \A q \in Requests : req'[q] = IF q = r THEN k ELSE req[q]
    BY <1>1, <1>3 DEF TypeOK
  <1>9. \A m : Spent(m) => Spent(m)'
    <2>1. \A m \in 1 .. Len(asked) : m \in 1 .. n /\ m # n
      BY <1>6
    <2> QED
      BY <1>5, <1>7, <1>8, <2>1 DEF Spent
  <1>10. \A s \in Tabs : dialog[s] \in Dialogs
    BY <1>1 DEF TypeOK
  <1>11. \A s \in Tabs : dialog'[s].key = dialog[s].key
    BY <1>1, <1>3, <1>10 DEF TypeOK, Dialogs
  <1> QED
    BY <1>2, <1>3, <1>5, <1>8, <1>9, <1>11, QuietOnce DEF Hashes

(* A slot in which no answer waits goes on to where none does.             *)
LEMMA SlotOnce ==
    ASSUME OnceInv, IssueInv', NEW r \in Requests, NEW k, req' = [req EXCEPT ![r] = k],
           req[r].pc # "ok", k.pc # "ok",
           k.pc \in Before => req[r].pc \in Before /\ k.n = req[r].n,
           UNCHANGED <<dialog, asked, dismissed, missed>>, Hashes' \subseteq Hashes
    PROVE  OnceInv'
  <1>1. \A q \in Requests : req'[q] = IF q = r THEN k ELSE req[q]
    BY DEF OnceInv, IssueInv, TypeOK
  <1>2. \A n : Spent(n) => Spent(n)'
    BY <1>1, SpentStays
  <1> QED
    BY <1>1, <1>2, QuietOnce

LEMMA UpdateOnce ==
    ASSUME OnceInv, NEW r \in Requests, NEW done \in BOOLEAN, NEW heard \in BOOLEAN,
           UpdateRevoked(r, done, heard)
    PROVE  OnceInv'
  <1>1. IssueInv /\ TypeOK
    BY DEF OnceInv, IssueInv
  <1>2. IssueInv'
    BY <1>1, UpdateIssue
  <1>3. /\ req[r].pc = "revoke" /\ req' = [req EXCEPT ![r] = Free]
        /\ rows' = (IF done THEN Revoked(r) ELSE rows)
        /\ UNCHANGED <<dialog, asked, dismissed, missed>>
    BY DEF UpdateRevoked
  <1>4. Hashes' \subseteq Hashes
    <2>1. ASSUME NEW new \in rows' PROVE \E row \in rows : new.hash = row.hash
      BY <1>1, <1>3, RevokedRows
    <2> QED
      BY <2>1 DEF Hashes
  <1>5. Free.pc = "free"
    BY DEF Free
  <1> QED
    BY <1>2, <1>3, <1>4, <1>5, SlotOnce DEF Before

LEMMA ServerOnce ==
    ASSUME OnceInv, NEW r \in Requests,
           \/ AuthenticateRevoke(r) \/ \E positive \in BOOLEAN : Authenticate(r, positive)
           \/ \E token \in Tokens : InsertCollides(r, token) \/ InsertFails(r, token)
    PROVE  OnceInv'
  <1> USE DEF browserVars
  <1>1. IssueInv /\ TypeOK
    BY DEF OnceInv, IssueInv
  <1>2. IssueInv'
    BY <1>1, AuthenticateIssue, NoInsertIssue
  <1>3. UNCHANGED <<dialog, asked, dismissed, missed, rows>>
    BY DEF AuthenticateRevoke, Authenticate, InsertCollides, InsertFails
  <1>4. Hashes' \subseteq Hashes
    BY <1>3 DEF Hashes
  <1>5. ASSUME NEW k, req' = [req EXCEPT ![r] = k], req[r].pc # "ok", k.pc # "ok",
               k.pc \in Before => req[r].pc \in Before /\ k.n = req[r].n
        PROVE  OnceInv'
    BY <1>2, <1>3, <1>4, <1>5, SlotOnce
  <1>6. CASE AuthenticateRevoke(r)
    <2> DEFINE k == IF req[r].user \in valid THEN [req[r] EXCEPT !.pc = "revoke"] ELSE Free
    <2>1. req[r] \in RevokeRequests /\ req[r].pc = "revokeAuth" /\ req' = [req EXCEPT ![r] = k]
      BY <1>1, <1>6, SlotOf DEF AuthenticateRevoke, Revoking
    <2>2. k.pc \in {"revoke", "free"}
      BY <2>1 DEF RevokeRequests, Free
    <2> HIDE DEF k
    <2> QED
      BY <1>5, <2>1, <2>2 DEF Before
  <1>7. ASSUME NEW positive \in BOOLEAN, Authenticate(r, positive) PROVE OnceInv'
    <2> DEFINE pc == IF req[r].user \in valid /\ positive THEN "insert" ELSE "failed"
               k == [req[r] EXCEPT !.pc = pc]
    <2>1. req[r] \in CreateRequests /\ req[r].pc = "auth" /\ req' = [req EXCEPT ![r].pc = pc]
      BY <1>1, <1>7, SlotOf DEF Authenticate, Creating
    <2>2. pc \in {"insert", "failed"}
      OBVIOUS
    <2> HIDE DEF pc
    <2>3. req' = [req EXCEPT ![r] = k]
      BY <1>1, <2>1 DEF TypeOK
    <2>4. k.pc = pc /\ k.n = req[r].n
      BY <2>1 DEF CreateRequests
    <2> HIDE DEF k
    <2> QED
      BY <1>5, <2>1, <2>2, <2>3, <2>4 DEF Before
  <1>8. ASSUME NEW token \in Tokens, InsertCollides(r, token) \/ InsertFails(r, token)
        PROVE  OnceInv'
    <2>1. req[r] \in CreateRequests /\ req[r].pc = "insert"
      BY <1>1, <1>8, SlotOf DEF InsertCollides, InsertFails, Creating
    <2>2. PICK k : /\ k \in {AfterCollision(r, token), AfterError(r, token)}
                   /\ req' = [req EXCEPT ![r] = k]
      BY <1>8 DEF InsertCollides, InsertFails
    <2>3. k.pc \in {"insert", "failed"} /\ k.n = req[r].n
      BY <2>1, <2>2 DEF AfterCollision, AfterError, CreateRequests
    <2> QED
      BY <1>5, <2>1, <2>2, <2>3 DEF Before
  <1> QED
    BY <1>6, <1>7, <1>8
-----------------------------------------------------------------------------
(* A key that is made was nowhere: its form had no row.  Its answer is on  *)
(* its way, or lost with the answer of the insert.                         *)
LEMMA MadeOnce ==
    ASSUME OnceInv, NEW r \in Requests, NEW token \in Tokens,
           Insert(r, token) \/ InsertUnsure(r, token)
    PROVE  OnceInv'
  <1> USE DEF browserVars
  <1> DEFINE new == NewKey(r, token)
  <1>1. IssueInv /\ TypeOK
    BY DEF OnceInv, IssueInv
  <1>2. IssueInv'
    BY <1>1, InsertIssue
  <1>3. /\ req[r].pc = "insert" /\ rows' = rows \cup {NewRow(r, new)}
        /\ UNCHANGED <<asked, dismissed, dialog>>
    BY DEF Insert, InsertUnsure
  <1>4. req[r] \in CreateRequests /\ req[r].n \in 1 .. Len(asked)
    BY <1>1, <1>3, SlotOf DEF Creating, IssueInv, FormsKept
  <1>5. new.n = req[r].n /\ new \in Keys
    BY <1>1, <1>3, NewTyped DEF NewKey
  <1>6. PICK k : /\ req' = [req EXCEPT ![r] = k] /\ k.n = req[r].n
                 /\ \/ k.pc = "ok" /\ k.key = new /\ missed' = missed
                    \/ k.pc = "failed" /\ missed' = missed \cup {new}
    <2>1. CASE Insert(r, token)
      <3> DEFINE k == [req[r] EXCEPT !.pc = "ok", !.key = new]
      <3>1. req' = [req EXCEPT ![r] = k] /\ missed' = missed
        BY <1>1, <2>1 DEF Insert, TypeOK
      <3>2. k.pc = "ok" /\ k.key = new /\ k.n = req[r].n
        BY <1>4 DEF CreateRequests
      <3> HIDE DEF k, new
      <3> QED
        BY <3>1, <3>2
    <2>2. CASE InsertUnsure(r, token)
      <3> DEFINE k == [req[r] EXCEPT !.pc = "failed"]
      <3>1. req' = [req EXCEPT ![r] = k] /\ missed' = missed \cup {new}
        BY <2>2 DEF InsertUnsure, AfterError
      <3>2. k.pc = "failed" /\ k.n = req[r].n
        BY <1>4 DEF CreateRequests
      <3> HIDE DEF k, new
      <3> QED
        BY <3>1, <3>2
    <2> QED
      BY <2>1, <2>2
  <1>7. \A q \in Requests : req'[q] = IF q = r THEN k ELSE req[q]
    BY <1>1, <1>6 DEF TypeOK
  <1>8. \A n : Spent(n) => Spent(n)'
    BY <1>3, <1>6, <1>7, SpentStays DEF Before
  <1>9. Hashes' = Hashes \cup {new}
    <2>1. NewRow(r, new).hash = new
      BY DEF NewRow
    <2> HIDE DEF new
    <2> QED
      BY <1>3, <2>1 DEF Hashes
  <1>10. ~Spent(new.n)
    BY <1>3, <1>5 DEF Spent, Before
  <1>11. \E n : n = new.n /\ Spent(n)'
    <2>1. \A q \in Requests : q # r /\ req[q].pc \in Before => req[q].n # new.n
      BY <1>1, <1>3, <1>5 DEF IssueInv, OnePerForm, Creating, Before
    <2>2. PICK n : n = new.n
      OBVIOUS
    <2>3. Spent(n)'
      BY <1>3, <1>4, <1>5, <1>6, <1>7, <2>1, <2>2 DEF Spent, Before
    <2> QED
      BY <2>2, <2>3
  <1> HIDE DEF new
  <1> SUFFICES ASSUME NEW key \in Keys PROVE OnceFor(key)'
    BY <1>2 DEF OnceInv
  <1>12. OnceFor(key)
    BY DEF OnceInv
  <1>13. CASE key # new
    <2>1. Stays(key)
      BY <1>3, <1>6, <1>7, <1>13 DEF Stays
    <2>2. key \in Hashes' => key \in Hashes
      BY <1>9, <1>13
    <2>3. Spent(key.n) => Spent(key.n)'
      BY <1>8
    <2> QED
      BY <1>12, <2>1, <2>2, <2>3, StaysOnce
  <1>14. CASE key = new
    <2>1. ~InTab(key) /\ ~OnItsWay(key) /\ key \notin dismissed /\ key \notin missed
      BY <1>10, <1>12, <1>14 DEF OnceFor, Somewhere
    <2>2. ~InTab(key)' /\ key \notin dismissed'
      BY <1>3, <2>1 DEF InTab
    <2>3. Spent(key.n)'
      BY <1>11, <1>14 DEF Spent
    <2>4. \A q \in Requests : req'[q].pc = "ok" /\ req'[q].key = key => q = r /\ k.pc = "ok"
      BY <1>7, <2>1 DEF OnItsWay
    <2>5. CASE k.pc = "ok" /\ k.key = new /\ missed' = missed
      <3>1. OnItsWay(key)'
        BY <1>7, <1>14, <2>5 DEF OnItsWay
      <3>2. OnePlace(key)'
        BY <2>1, <2>2, <2>4, <2>5 DEF OnePlace, InTab
      <3> QED
        BY <2>3, <3>1, <3>2 DEF OnceFor, Somewhere
    <2>6. CASE k.pc = "failed" /\ missed' = missed \cup {new}
      <3>1. ~OnItsWay(key)'
        BY <2>4, <2>6 DEF OnItsWay
      <3>2. OnePlace(key)'
        BY <2>2, <3>1 DEF OnePlace, InTab, OnItsWay
      <3> QED
        BY <1>14, <2>3, <2>6, <3>2 DEF OnceFor, Somewhere
    <2> QED
      BY <1>6, <2>5, <2>6
  <1> QED
    BY <1>13, <1>14

(* An answer that waits reaches the dialog that awaits it, or is lost.     *)
LEMMA AnswerOnce ==
    ASSUME OnceInv, NEW r \in Requests, Answer(r) \/ AnswerLost(r)
    PROVE  OnceInv'
  <1> USE DEF browserVars
  <1> DEFINE given == req[r].key
             t == req[r].tab
  <1>1. IssueInv /\ TypeOK
    BY DEF OnceInv, IssueInv
  <1>2. IssueInv'
    BY <1>1, AnswerIssue
  <1>3. /\ req[r].pc \in {"ok", "failed"} /\ req' = [req EXCEPT ![r] = Free]
        /\ UNCHANGED <<rows, asked, dismissed>>
    BY DEF Answer, AnswerLost
  <1>4. /\ t \in Tabs /\ req[r].n \in 1 .. MaxSubmits
        /\ req[r].pc = "failed" => given = NoKey
        /\ req[r].pc = "ok" => given # NoKey
    BY <1>1, <1>3, SlotOf DEF Creating, CreateRequests, TypeOK
  <1>5. \A q \in Requests : req'[q] = IF q = r THEN Free ELSE req[q]
    BY <1>1, <1>3 DEF TypeOK
  <1>6. Free.pc = "free"
    BY DEF Free
  <1>7. \A n : Spent(n) => Spent(n)'
    BY <1>3, <1>5, <1>6, SpentStays DEF Before
  <1>8. \/ /\ dialog[t].key = NoKey /\ dialog'[t].key = given /\ missed' = missed
           /\ \A s \in Tabs \ {t} : dialog'[s].key = dialog[s].key
        \/ /\ dialog' = dialog
           /\ missed' = (IF req[r].pc = "ok" THEN missed \cup {given} ELSE missed)
    <2>1. CASE Answer(r) /\ Awaits(t, r)
      <3>1. dialog' = [dialog EXCEPT ![t] = Answered(t, r)] /\ missed' = missed
        BY <2>1 DEF Answer
      <3>2. dialog[t].waiting # 0
        BY <1>4, <2>1 DEF Awaits
      <3>3. dialog[t].key = NoKey /\ dialog[t] \in Dialogs
        BY <1>1, <1>4, <3>2 DEF TypeOK
      <3>4. Answered(t, r).key = given
        BY <3>3 DEF Answered, Dialogs
      <3> HIDE DEF t, given
      <3>5. dialog'[t].key = given /\ \A s \in Tabs \ {t} : dialog'[s].key = dialog[s].key
        BY <1>1, <1>4, <3>1, <3>4 DEF TypeOK
      <3> QED
        BY <3>1, <3>3, <3>5
    <2>2. CASE ~(Answer(r) /\ Awaits(t, r))
      BY <2>2 DEF Answer, AnswerLost
    <2> QED
      BY <2>1, <2>2
  <1> HIDE DEF t, given
  <1> SUFFICES ASSUME NEW key \in Keys PROVE OnceFor(key)'
    BY <1>2 DEF OnceInv
  <1>9. OnceFor(key) /\ key # NoKey
    BY NoKeyIsNone DEF OnceInv
  <1>10. (Spent(key.n) => Spent(key.n)') /\ (key \in Hashes' <=> key \in Hashes)
    BY <1>3, <1>7 DEF Hashes
  <1>11. CASE ~(req[r].pc = "ok" /\ given = key)
    <2>1. \A s \in Tabs : (dialog'[s].key = key) <=> (dialog[s].key = key)
      BY <1>3, <1>4, <1>8, <1>9, <1>11
    <2>2. (key \in missed') <=> (key \in missed)
      BY <1>8, <1>11
    <2>3. Stays(key)
      BY <1>3, <1>5, <1>6, <1>11, <2>1, <2>2 DEF Stays, given
    <2> QED
      BY <1>9, <1>10, <2>3, StaysOnce
  <1>12. CASE req[r].pc = "ok" /\ given = key
    <2>1. OnItsWay(key)
      BY <1>12 DEF OnItsWay, given
    <2>2. /\ ~InTab(key) /\ key \notin dismissed /\ key \notin missed /\ Spent(key.n)
          /\ \A q \in Requests \ {r} : ~(req[q].pc = "ok" /\ req[q].key = key)
      BY <1>9, <1>12, <2>1 DEF OnceFor, OnePlace, Somewhere, given
    <2>3. ~OnItsWay(key)'
      BY <1>5, <1>6, <2>2 DEF OnItsWay
    <2>4. CASE dialog'[t].key = given /\ missed' = missed
               /\ \A s \in Tabs \ {t} : dialog'[s].key = dialog[s].key
      <3>1. \A s \in Tabs : dialog'[s].key = key <=> s = t
        BY <1>12, <2>2, <2>4 DEF InTab
      <3>2. InTab(key)'
        BY <1>4, <3>1 DEF InTab
      <3>3. OnePlace(key)'
        BY <1>3, <2>2, <2>3, <2>4, <3>1 DEF OnePlace, OnItsWay
      <3> QED
        BY <1>10, <2>2, <3>2, <3>3 DEF OnceFor, Somewhere
    <2>5. CASE dialog' = dialog /\ missed' = missed \cup {given}
      <3>1. ~InTab(key)' /\ key \in missed' /\ key \notin dismissed'
        BY <1>3, <1>12, <2>2, <2>5 DEF InTab
      <3>2. OnePlace(key)'
        BY <2>3, <3>1 DEF OnePlace, InTab, OnItsWay
      <3> QED
        BY <1>10, <2>2, <3>1, <3>2 DEF OnceFor, Somewhere
    <2> QED
      BY <1>8, <1>12, <2>4, <2>5
  <1> QED
    BY <1>11, <1>12

LEMMA DeleteOnce ==
    ASSUME OnceInv, NEW u \in Users, DeleteAccount(u)
    PROVE  OnceInv'
  <1>1. IssueInv'
    BY DeleteIssue DEF OnceInv
  <1>2. rows' \subseteq rows /\ UNCHANGED <<req, asked, dialog, dismissed, missed>>
    BY DEF DeleteAccount, browserVars
  <1> QED
    BY <1>1, <1>2, QuietOnce DEF Spent, Hashes

LEMMA RevokeOnce ==
    ASSUME OnceInv, NEW t \in Tabs, NEW r \in Requests, NEW key \in listed[t], Revoke(t, r, key)
    PROVE  OnceInv'
  <1> DEFINE k == [pc |-> "revokeAuth", tab |-> t, user |-> cookie, key |-> key]
  <1>1. IssueInv'
    BY RevokeIssue DEF OnceInv
  <1>2. /\ req' = [req EXCEPT ![r] = k] /\ req[r].pc = "free"
        /\ UNCHANGED <<rows, dialog, asked, dismissed, missed>>
    BY DEF Revoke, Takes, Free, browserVars
  <1>3. k.pc = "revokeAuth"
    OBVIOUS
  <1> HIDE DEF k
  <1> QED
    BY <1>1, <1>2, <1>3, SlotOnce DEF Before, Hashes

LEMMA NextOnce == OnceInv /\ [Next]_vars => OnceInv'
  <1> SUFFICES ASSUME OnceInv, [Next]_vars PROVE OnceInv'
    OBVIOUS
  <1>1. CASE UNCHANGED vars
    <2>1. IssueInv'
      BY NextIssue DEF OnceInv
    <2>2. UNCHANGED <<rows, req, asked, dialog, dismissed, missed>>
      BY <1>1 DEF vars, browserVars
    <2> QED
      BY <2>1, <2>2, QuietOnce DEF Spent, Hashes
  <1>2. ASSUME NEW r \in Requests, ServerStep(r) PROVE OnceInv'
    BY <1>2, ServerOnce, AnswerOnce, MadeOnce, UpdateOnce DEF ServerStep
  <1> QED
    BY <1>1, <1>2, PageOnce, DialogOpens, SubmitOnce, RevokeOnce, DeleteOnce DEF Next

(* A set of which any two members are the same has one or none.            *)
LEMMA OneOrNone ==
    ASSUME NEW S, \A x, y \in S : x = y
    PROVE  Cardinality(S) = IF S = {} THEN 0 ELSE 1
  <1>1. CASE S = {}
    BY <1>1, FS_EmptySet
  <1>2. CASE S # {}
    <2>1. PICK x \in S : S = {x}
      BY <1>2
    <2> QED
      BY <1>2, <2>1, FS_Singleton
  <1> QED
    BY <1>1, <1>2

(* The plaintext of a stored key is in one place: on its way, in one       *)
(* dialog, put away, or lost.                                              *)
THEOREM PlaintextOnce == Spec => []ShownOnce
  <1>1. Init => OnceInv
    <2> SUFFICES ASSUME Init, NEW key \in Keys PROVE OnceFor(key)
      BY InitIssue DEF OnceInv
    <2>1. \A t \in Tabs : dialog[t].key = NoKey
      BY DEF Init, Fresh
    <2>2. \A r \in Requests : req[r].pc = "free"
      BY DEF Init, Free
    <2>3. dismissed = {} /\ missed = {} /\ rows = {}
      BY DEF Init
    <2> QED
      BY <2>1, <2>2, <2>3, NoKeyIsNone
         DEF OnceFor, OnePlace, Somewhere, InTab, OnItsWay, Hashes
  <1>2. OnceInv => ShownOnce
    <2> SUFFICES ASSUME OnceInv, NEW key \in Hashes
                 PROVE  Cardinality(InDialog(key)) + Cardinality(Underway(key))
                            + Cardinality({key} \cap dismissed)
                            + Cardinality({key} \cap missed) = 1
      BY DEF ShownOnce, Hashes
    <2>1. key \in Keys
      BY DEF OnceInv, IssueInv, TypeOK, Rows, Hashes
    <2>2. OnePlace(key) /\ Somewhere(key)
      BY <2>1 DEF OnceInv, OnceFor
    <2>3. Cardinality(InDialog(key)) = IF InTab(key) THEN 1 ELSE 0
      <3>1. \A x, y \in InDialog(key) : x = y
        BY <2>2 DEF InDialog, OnePlace
      <3> QED
        BY <3>1, OneOrNone DEF InDialog, InTab
    <2>4. Cardinality(Underway(key)) = IF OnItsWay(key) THEN 1 ELSE 0
      <3>1. \A x, y \in Underway(key) : x = y
        BY <2>2 DEF Underway, OnePlace
      <3> QED
        BY <3>1, OneOrNone DEF Underway, OnItsWay
    <2>5. Cardinality({key} \cap dismissed) = IF key \in dismissed THEN 1 ELSE 0
      BY OneOrNone
    <2>6. Cardinality({key} \cap missed) = IF key \in missed THEN 1 ELSE 0
      BY OneOrNone
    <2> QED
      BY <2>2, <2>3, <2>4, <2>5, <2>6 DEF OnePlace, Somewhere
  <1> QED
    BY <1>1, <1>2, NextOnce, PTL DEF Spec
-----------------------------------------------------------------------------
(* Where a step of the server takes the action in its slot.                *)
SameForm(q, k) == k.n = q.n /\ k.tab = q.tab
GoesOn(q, k) ==
    \/ q.pc = "auth" /\ k.pc \in {"insert", "failed"} /\ SameForm(q, k) /\ k.attempt = q.attempt
    \/ /\ q.pc = "insert" /\ k.pc = "insert" /\ SameForm(q, k)
       /\ k.attempt = q.attempt + 1 /\ k.attempt < MAX_PREFIX_ATTEMPTS
    \/ q.pc = "insert" /\ k.pc \in {"ok", "failed"} /\ SameForm(q, k)
    \/ q.pc \in {"ok", "failed"} /\ k.pc = "free"
    \/ q.pc = "revokeAuth" /\ k.pc \in {"revoke", "free"}
    \/ q.pc = "revoke" /\ k.pc = "free"

LEMMA InsertGoesOn ==
    ASSUME TypeOK, NEW r \in Requests, NEW token \in Tokens,
           \/ Insert(r, token) \/ InsertCollides(r, token)
           \/ InsertFails(r, token) \/ InsertUnsure(r, token)
    PROVE  \E k : req' = [req EXCEPT ![r] = k] /\ GoesOn(req[r], k)
  <1>1. req[r] \in CreateRequests /\ req[r].pc = "insert"
    BY SlotOf DEF Insert, InsertCollides, InsertFails, InsertUnsure, Creating
  <1>2. CASE Insert(r, token)
    <2> DEFINE new == NewKey(r, token)
               k == [req[r] EXCEPT !.pc = "ok", !.key = new]
    <2>1. req' = [req EXCEPT ![r] = k]
      BY <1>2 DEF Insert, TypeOK
    <2>2. k.pc = "ok" /\ k.n = req[r].n /\ k.tab = req[r].tab
      BY <1>1 DEF CreateRequests
    <2> HIDE DEF k, new
    <2> QED
      BY <1>1, <2>1, <2>2 DEF GoesOn, SameForm
  <1>3. CASE InsertFails(r, token) \/ InsertUnsure(r, token)
    <2> DEFINE k == [req[r] EXCEPT !.pc = "failed"]
    <2>1. req' = [req EXCEPT ![r] = k]
      BY <1>3 DEF InsertFails, InsertUnsure, AfterError
    <2>2. k.pc = "failed" /\ k.n = req[r].n /\ k.tab = req[r].tab
      BY <1>1 DEF CreateRequests
    <2> HIDE DEF k
    <2> QED
      BY <1>1, <2>1, <2>2 DEF GoesOn, SameForm
  <1>4. CASE InsertCollides(r, token)
    <2> DEFINE k == AfterCollision(r, token)
    <2>1. req' = [req EXCEPT ![r] = k]
      BY <1>4 DEF InsertCollides
    <2>2. CASE req[r].attempt + 1 < MAX_PREFIX_ATTEMPTS
      <3>1. k = [req[r] EXCEPT !.attempt = req[r].attempt + 1]
        BY <2>2 DEF AfterCollision
      <3>2. /\ k.pc = "insert" /\ k.n = req[r].n /\ k.tab = req[r].tab
            /\ k.attempt = req[r].attempt + 1
        BY <1>1, <3>1 DEF CreateRequests
      <3> HIDE DEF k
      <3> QED
        BY <1>1, <2>1, <2>2, <3>2 DEF GoesOn, SameForm
    <2>3. CASE ~(req[r].attempt + 1 < MAX_PREFIX_ATTEMPTS)
      <3>1. k = [req[r] EXCEPT !.pc = "failed"]
        BY <2>3 DEF AfterCollision
      <3>2. k.pc = "failed" /\ k.n = req[r].n /\ k.tab = req[r].tab
        BY <1>1, <3>1 DEF CreateRequests
      <3> HIDE DEF k
      <3> QED
        BY <1>1, <2>1, <3>2 DEF GoesOn, SameForm
    <2> QED
      BY <2>2, <2>3
  <1> QED
    BY <1>2, <1>3, <1>4

LEMMA ServerGoesOn ==
    ASSUME TypeOK, NEW r \in Requests, ServerStep(r)
    PROVE  \E k : req' = [req EXCEPT ![r] = k] /\ GoesOn(req[r], k)
  <1>1. Free.pc = "free"
    BY DEF Free
  <1>2. ASSUME NEW positive \in BOOLEAN, Authenticate(r, positive)
        PROVE  \E k : req' = [req EXCEPT ![r] = k] /\ GoesOn(req[r], k)
    <2> DEFINE pc == IF req[r].user \in valid /\ positive THEN "insert" ELSE "failed"
               k == [req[r] EXCEPT !.pc = pc]
    <2>1. req[r] \in CreateRequests /\ req[r].pc = "auth" /\ req' = [req EXCEPT ![r].pc = pc]
      BY <1>2, SlotOf DEF Authenticate, Creating
    <2>2. pc \in {"insert", "failed"}
      OBVIOUS
    <2> HIDE DEF pc
    <2>3. req' = [req EXCEPT ![r] = k]
      BY <2>1 DEF TypeOK
    <2>4. /\ k.pc = pc /\ k.n = req[r].n /\ k.tab = req[r].tab
          /\ k.attempt = req[r].attempt
      BY <2>1 DEF CreateRequests
    <2> HIDE DEF k
    <2> QED
      BY <2>1, <2>2, <2>3, <2>4 DEF GoesOn, SameForm
  <1>3. ASSUME Answer(r) \/ AnswerLost(r)
        PROVE  \E k : req' = [req EXCEPT ![r] = k] /\ GoesOn(req[r], k)
    BY <1>1, <1>3 DEF Answer, AnswerLost, GoesOn
  <1>4. ASSUME AuthenticateRevoke(r)
        PROVE  \E k : req' = [req EXCEPT ![r] = k] /\ GoesOn(req[r], k)
    <2> DEFINE k == IF req[r].user \in valid THEN [req[r] EXCEPT !.pc = "revoke"] ELSE Free
    <2>1. req[r] \in RevokeRequests /\ req[r].pc = "revokeAuth" /\ req' = [req EXCEPT ![r] = k]
      BY <1>4, SlotOf DEF AuthenticateRevoke, Revoking
    <2>2. k.pc \in {"revoke", "free"}
      BY <2>1 DEF RevokeRequests, Free
    <2> HIDE DEF k
    <2> QED
      BY <2>1, <2>2 DEF GoesOn
  <1>5. ASSUME NEW done \in BOOLEAN, NEW heard \in BOOLEAN, UpdateRevoked(r, done, heard)
        PROVE  \E k : req' = [req EXCEPT ![r] = k] /\ GoesOn(req[r], k)
    BY <1>1, <1>5 DEF UpdateRevoked, GoesOn
  <1> QED
    BY <1>2, <1>3, <1>4, <1>5, InsertGoesOn DEF ServerStep
-----------------------------------------------------------------------------
(* How many more steps an action takes at most: one for each attempt left, *)
(* beside getUser and the answer.                                          *)
StepsLeft(q) ==
    CASE q.pc = "auth" -> MAX_PREFIX_ATTEMPTS + 2
      [] q.pc = "insert" -> MAX_PREFIX_ATTEMPTS - q.attempt + 1
      [] q.pc = "revokeAuth" -> 2
      [] q.pc \in {"ok", "failed", "revoke"} -> 1
      [] q.pc = "free" -> 0
ToGo(r) == StepsLeft(req[r])

(* "MAX_PREFIX_ATTEMPTS" (create-key.ts:24): no path through an action     *)
(* comes back to where it was - a collision uses up an attempt - and only  *)
(* a form or a confirmation starts one.                                    *)
NearerToTheAnswer ==
    \A r \in Requests :
        /\ ServerStep(r) => ToGo(r)' < ToGo(r)
        /\ ToGo(r)' > ToGo(r) =>
              \E t \in Tabs : \/ \E env \in Environments : Submit(t, r, env)
                              \/ \E key \in listed[t] : Revoke(t, r, key)

LEMMA StepsLeftTyped ==
    ASSUME NEW q \in Slot
    PROVE  StepsLeft(q) \in Nat
  <1>1. /\ q.pc \in Creating \cup Revoking \cup {"free"}
        /\ q.pc = "insert" => q.attempt \in 0 .. MAX_PREFIX_ATTEMPTS - 1
    BY DEF Slot, CreateRequests, RevokeRequests, Free, Creating, Revoking
  <1> QED
    BY <1>1, KeyIssueAssumption DEF StepsLeft, Creating, Revoking

LEMMA ServerNearer ==
    ASSUME TypeOK, NEW r \in Requests, ServerStep(r)
    PROVE  ToGo(r)' < ToGo(r)
  <1>1. PICK k : req' = [req EXCEPT ![r] = k] /\ GoesOn(req[r], k)
    BY ServerGoesOn
  <1>2. req'[r] = k
    BY <1>1 DEF TypeOK
  <1>3. req[r].pc \in {"auth", "insert"} => req[r].attempt \in 0 .. MAX_PREFIX_ATTEMPTS - 1
    BY SlotOf DEF Creating, CreateRequests
  <1> QED
    BY <1>1, <1>2, <1>3, KeyIssueAssumption DEF GoesOn, ToGo, StepsLeft

(* An action ends after as many steps as there are attempts and two more:  *)
(* what DialogComesBack needs beside fairness.                             *)
THEOREM ActionAdvances == Spec => [][NearerToTheAnswer]_vars
  <1>1. ASSUME TypeOK, [Next]_vars, NEW r \in Requests, ToGo(r)' > ToGo(r)
        PROVE  \E t \in Tabs : \/ \E env \in Environments : Submit(t, r, env)
                               \/ \E key \in listed[t] : Revoke(t, r, key)
    <2>1. ToGo(r) \in Nat /\ ToGo(r)' \in Nat
      <3>1. req[r] \in Slot /\ req'[r] \in Slot
        BY <1>1, NextTyped DEF TypeOK, Slot
      <3> QED
        BY <3>1, StepsLeftTyped DEF ToGo
    <2>2. req'[r] # req[r]
      <3>1. SUFFICES ASSUME req'[r] = req[r] PROVE FALSE
        OBVIOUS
      <3>2. ToGo(r)' = ToGo(r)
        BY <3>1 DEF ToGo
      <3> QED
        BY <1>1, <2>1, <3>2
    <2>3. ASSUME NEW q \in Requests, ServerStep(q) PROVE FALSE
      <3>1. PICK k : req' = [req EXCEPT ![q] = k]
        BY <1>1, <2>3, ServerGoesOn
      <3>2. q = r
        BY <1>1, <2>2, <3>1 DEF TypeOK
      <3> QED
        BY <1>1, <2>1, <2>3, <3>2, ServerNearer
    <2>4. ASSUME NEW t \in Tabs, NEW q \in Requests,
                 \/ \E env \in Environments : Submit(t, q, env)
                 \/ \E key \in listed[t] : Revoke(t, q, key)
          PROVE  q = r
      <3>1. \E k : req' = [req EXCEPT ![q] = k]
        BY <2>4 DEF Submit, Revoke
      <3> QED
        BY <1>1, <2>2, <3>1 DEF TypeOK
    <2>5. ASSUME \/ \E t \in Tabs : \/ \E u \in Users : SignIn(t, u)
                                    \/ SignOut(t) \/ LoadPage(t) \/ Open(t) \/ Close(t)
                 \/ \E u \in Users : DeleteAccount(u)
                 \/ UNCHANGED vars
          PROVE  FALSE
      BY <2>2, <2>5 DEF SignIn, SignOut, LoadPage, Open, Close, DeleteAccount, vars
    <2> QED
      BY <1>1, <2>3, <2>4, <2>5 DEF Next
  <1>2. TypeOK /\ [Next]_vars => [NearerToTheAnswer]_vars
    BY <1>1, ServerNearer DEF NearerToTheAnswer
  <1> QED
    BY <1>2, TypeCorrect, PTL DEF Spec
-----------------------------------------------------------------------------
(* A dialog whose button stays disabled waits for an action that has its   *)
(* form and answers to its tab, unless the answer was lost: the rest of    *)
(* what DialogComesBack needs.                                             *)
HasForm(q, t) ==
    req[q].pc \in Creating /\ req[q].n = dialog[t].waiting /\ req[q].tab = t
NobodyForgotten ==
    \A t \in Tabs : dialog[t].waiting # 0 =>
        dialog[t].waiting \in unanswered \/ \E q \in Requests : HasForm(q, t)

WaitInv == IssueInv /\ NobodyForgotten

(* No form is submitted, and the actions go on; one that ends leaves no    *)
(* dialog waiting, or loses its answer.                                    *)
LEMMA WaitsOn ==
    ASSUME WaitInv, IssueInv', unanswered \subseteq unanswered',
           \A t \in Tabs : dialog'[t].waiting \in {0, dialog[t].waiting},
           \A q \in Requests : req[q].pc \in Creating =>
               \/ req'[q].pc \in Creating /\ SameForm(req[q], req'[q])
               \/ req[q].n \in unanswered'
               \/ dialog'[req[q].tab].waiting # req[q].n
    PROVE  WaitInv'
  <1> SUFFICES ASSUME NEW t \in Tabs, dialog'[t].waiting # 0,
                      dialog'[t].waiting \notin unanswered'
               PROVE  \E q \in Requests : HasForm(q, t)'
    BY DEF WaitInv, NobodyForgotten
  <1>1. dialog'[t].waiting = dialog[t].waiting /\ dialog[t].waiting \notin unanswered
    OBVIOUS
  <1>2. PICK q \in Requests : HasForm(q, t)
    BY <1>1 DEF WaitInv, NobodyForgotten
  <1>3. req'[q].pc \in Creating /\ SameForm(req[q], req'[q])
    BY <1>1, <1>2 DEF HasForm
  <1> QED
    BY <1>1, <1>2, <1>3 DEF HasForm, SameForm

LEMMA PageWaits ==
    ASSUME WaitInv, NEW t \in Tabs,
           \/ LoadPage(t) \/ SignOut(t) \/ (\E u \in Users : SignIn(t, u))
           \/ Open(t) \/ Close(t)
    PROVE  WaitInv'
  <1>1. IssueInv /\ TypeOK
    BY DEF WaitInv, IssueInv
  <1>2. IssueInv'
    BY <1>1, PageIssue, DialogIssue
  <1>3. UNCHANGED <<req, unanswered>>
    BY DEF LoadPage, SignOut, SignIn, Open, Close
  <1>4. \A s \in Tabs : dialog[s] \in Dialogs
    BY <1>1 DEF TypeOK
  <1>5. \A s \in Tabs : dialog'[s].waiting \in {0, dialog[s].waiting}
    <2>1. CASE Open(t)
      BY <1>1, <1>4, <2>1 DEF Open, TypeOK, Dialogs
    <2>2. CASE Close(t)
      <3>1. Reset(t).waiting = dialog[t].waiting /\ dialog' = [dialog EXCEPT ![t] = Reset(t)]
        BY <2>2 DEF Close, Reset, Fresh
      <3> QED
        BY <1>1, <3>1 DEF TypeOK
    <2>3. CASE \E isKeys : Show(t, isKeys)
      BY <1>1, <2>3 DEF Show, TypeOK, Fresh
    <2> QED
      BY <2>1, <2>2, <2>3 DEF LoadPage, SignOut, SignIn
  <1>6. \A q \in Requests : req[q].pc \in Creating =>
            req'[q].pc \in Creating /\ SameForm(req[q], req'[q])
    BY <1>3 DEF SameForm
  <1> QED
    BY <1>2, <1>3, <1>5, <1>6, WaitsOn

LEMMA SubmitWaits ==
    ASSUME WaitInv, NEW t \in Tabs, NEW r \in Requests, NEW env \in Environments,
           Submit(t, r, env)
    PROVE  WaitInv'
  <1> DEFINE n == Len(asked')
             k == [pc |-> "auth", tab |-> t, user |-> cookie, n |-> n,
                   env |-> env, attempt |-> 0, key |-> NoKey]
  <1>1. IssueInv /\ TypeOK
    BY DEF WaitInv, IssueInv
  <1>2. IssueInv'
    BY <1>1, SubmitIssue
  <1>3. /\ dialog' = [dialog EXCEPT ![t].waiting = n] /\ req' = [req EXCEPT ![r] = k]
        /\ req[r].pc = "free" /\ unanswered' = unanswered
    BY DEF Submit, Takes, Free
  <1>4. k.pc = "auth" /\ k.n = n /\ k.tab = t
    OBVIOUS
  <1> HIDE DEF k, n
  <1>5. \A q \in Requests : req'[q] = IF q = r THEN k ELSE req[q]
    BY <1>1, <1>3 DEF TypeOK
  <1>6. \A s \in Tabs : dialog[s] \in Dialogs
    BY <1>1 DEF TypeOK
  <1>7. \A s \in Tabs : dialog'[s].waiting = IF s = t THEN n ELSE dialog[s].waiting
    BY <1>1, <1>3, <1>6 DEF TypeOK, Dialogs
  <1> SUFFICES ASSUME NEW s \in Tabs, dialog'[s].waiting # 0,
                      dialog'[s].waiting \notin unanswered'
               PROVE  \E q \in Requests : HasForm(q, s)'
    BY <1>2 DEF WaitInv, NobodyForgotten
  <1>8. CASE s = t
    <2>1. HasForm(r, t)'
      BY <1>4, <1>5, <1>7 DEF HasForm, Creating
    <2> QED
      BY <1>8, <2>1
  <1>9. CASE s # t
    <2>1. PICK q \in Requests : HasForm(q, s)
      BY <1>3, <1>7, <1>9 DEF WaitInv, NobodyForgotten
    <2>2. q # r
      BY <1>3, <2>1 DEF HasForm, Creating
    <2>3. HasForm(q, s)'
      BY <1>5, <1>7, <1>9, <2>1, <2>2 DEF HasForm
    <2> QED
      BY <2>3
  <1> QED
    BY <1>8, <1>9

(* The server's steps: only Answer and AnswerLost take a form away.        *)
LEMMA ServerWaits ==
    ASSUME WaitInv, NEW r \in Requests, ServerStep(r)
    PROVE  WaitInv'
  <1> USE DEF browserVars
  <1>1. IssueInv /\ TypeOK
    BY DEF WaitInv, IssueInv
  <1>2. IssueInv'
    BY <1>1, NextIssue DEF Next
  <1>3. PICK k : req' = [req EXCEPT ![r] = k] /\ GoesOn(req[r], k)
    BY <1>1, ServerGoesOn
  <1>4. \A q \in Requests : req'[q] = IF q = r THEN k ELSE req[q]
    BY <1>1, <1>3 DEF TypeOK
  <1>5. ASSUME \A t \in Tabs : dialog'[t].waiting \in {0, dialog[t].waiting},
               unanswered \subseteq unanswered',
               req[r].pc \in {"ok", "failed"} =>
                  req[r].n \in unanswered' \/ dialog'[req[r].tab].waiting # req[r].n
        PROVE  WaitInv'
    <2>1. \A q \in Requests : req[q].pc \in Creating =>
             \/ req'[q].pc \in Creating /\ SameForm(req[q], req'[q])
             \/ req[q].n \in unanswered'
             \/ dialog'[req[q].tab].waiting # req[q].n
      BY <1>3, <1>4, <1>5 DEF GoesOn, Creating, SameForm
    <2> QED
      BY <1>2, <1>5, <2>1, WaitsOn
  <1>6. CASE Answer(r)
    <2> DEFINE t == req[r].tab
    <2>1. req[r].pc \in {"ok", "failed"} /\ UNCHANGED unanswered
      BY <1>6 DEF Answer
    <2>2. req[r] \in CreateRequests /\ t \in Tabs /\ req[r].n # 0
      <3>1. req[r] \in CreateRequests
        BY <1>1, <2>1, SlotOf DEF Creating
      <3> QED
        BY <3>1 DEF CreateRequests
    <2>3. \/ ~Awaits(t, r) /\ UNCHANGED dialog
          \/ dialog' = [dialog EXCEPT ![t] = Answered(t, r)]
      BY <1>6 DEF Answer
    <2> HIDE DEF t
    <2>4. CASE ~Awaits(t, r) /\ UNCHANGED dialog
      BY <1>5, <2>1, <2>4 DEF Awaits, t
    <2>5. CASE dialog' = [dialog EXCEPT ![t] = Answered(t, r)]
      <3>1. Answered(t, r).waiting = 0
        <4>1. dialog[t] \in Dialogs
          BY <1>1, <2>2 DEF TypeOK
        <4> QED
          BY <4>1 DEF Answered, Dialogs
      <3>2. \A s \in Tabs : dialog'[s].waiting = IF s = t THEN 0 ELSE dialog[s].waiting
        BY <1>1, <2>5, <3>1 DEF TypeOK
      <3> QED
        BY <1>5, <2>1, <2>2, <3>2 DEF t
    <2> QED
      BY <2>3, <2>4, <2>5
  <1>7. CASE AnswerLost(r)
    <2>1. UNCHANGED dialog /\ unanswered' = unanswered \cup {req[r].n}
      BY <1>7 DEF AnswerLost
    <2> QED
      BY <1>5, <2>1
  <1>8. CASE ~Answer(r) /\ ~AnswerLost(r)
    <2>1. UNCHANGED <<dialog, unanswered>> /\ req[r].pc \notin {"ok", "failed"}
      BY <1>8 DEF ServerStep, Authenticate, Insert, InsertCollides, InsertFails, InsertUnsure,
         AuthenticateRevoke, UpdateRevoked
    <2> QED
      BY <1>5, <2>1
  <1> QED
    BY <1>6, <1>7, <1>8

LEMMA NextWaits == WaitInv /\ [Next]_vars => WaitInv'
  <1> SUFFICES ASSUME WaitInv, [Next]_vars PROVE WaitInv'
    OBVIOUS
  <1>1. IssueInv /\ IssueInv' /\ TypeOK
    BY NextIssue DEF WaitInv, IssueInv
  <1>2. CASE UNCHANGED vars \/ \E u \in Users : DeleteAccount(u)
    <2>1. UNCHANGED <<dialog, req, unanswered>>
      BY <1>2 DEF vars, DeleteAccount, browserVars
    <2> QED
      BY <1>1, <2>1, WaitsOn DEF SameForm
  <1>3. ASSUME NEW t \in Tabs, NEW r \in Requests, NEW key \in listed[t], Revoke(t, r, key)
        PROVE  WaitInv'
    <2>0. PICK k : req' = [req EXCEPT ![r] = k]
      BY <1>3 DEF Revoke
    <2>1. UNCHANGED <<dialog, unanswered>> /\ req[r].pc = "free"
      BY <1>3 DEF Revoke, Takes, Free, browserVars
    <2>2. \A q \in Requests : req[q].pc \in Creating =>
              req'[q].pc \in Creating /\ SameForm(req[q], req'[q])
      BY <1>1, <2>0, <2>1 DEF TypeOK, Creating, SameForm
    <2> QED
      BY <1>1, <2>1, <2>2, WaitsOn
  <1> QED
    BY <1>2, <1>3, PageWaits, SubmitWaits, ServerWaits DEF Next

(* A dialog never waits for an action that has ended: it comes back when   *)
(* the action does, and ActionAdvances bounds how far off that is.         *)
THEOREM DialogsWaitForSomeone == Spec => []NobodyForgotten
  <1>1. Init => WaitInv
    <2> SUFFICES ASSUME Init PROVE WaitInv
      OBVIOUS
    <2>1. \A t \in Tabs : dialog[t].waiting = 0
      BY DEF Init, Fresh
    <2> QED
      BY <2>1, InitIssue DEF WaitInv, NobodyForgotten
  <1>2. WaitInv => NobodyForgotten
    BY DEF WaitInv
  <1> QED
    BY <1>1, <1>2, NextWaits, PTL DEF Spec
=============================================================================
