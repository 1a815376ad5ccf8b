------------------------------ MODULE Session ------------------------------
(* One browser tab of the client: the stored token and workspace id, the   *)
(* contexts that mirror them, the route guards and the rows in the cache.  *)
(*                                                                         *)
(*  - every request takes the token and the workspace id out of            *)
(*    localStorage when it is sent, never from the contexts;               *)
(*  - the contexts run their effects when their inputs change: a new token *)
(*    asks for the user, a new user asks for the list of workspaces;       *)
(*  - no answer is cancelled when its reason is gone, but a switch and a   *)
(*    logout drop the cached rows and the requests that would fill them;   *)
(*  - another tab writes the same localStorage; only the token has a       *)
(*    listener.                                                            *)
EXTENDS Integers, FiniteSets, FiniteSetsExt

CONSTANTS Users, NoUser,
          MaxWorkspace,    \* workspaces are numbered by age, from 1
          Joined,          \* the workspaces every user starts with
          ModuleOn,        \* the workspaces whose module pages are switched on
          OtherTab,        \* what another tab does: "login", "logout", "switch"
          MaxCalls         \* bound: requests in flight

Workspaces == 1..MaxWorkspace
Failed == MaxWorkspace + 1      \* the rows could not be loaded
Archived == MaxWorkspace + 1    \* an id in storage that is nobody's any more
Routes == {"login", "home", "module", "settings"}
SignIns == {"login", "verify", "passkey"}
Kinds == SignIns \cup {"me", "list", "rows", "create"}

(* Whoever is registered has a personal workspace. *)
ASSUME SessionAssumption ==
  /\ MaxWorkspace \in Nat /\ NoUser \notin Users
  /\ \E k \in 1..MaxWorkspace : Joined = 1..k

VARIABLES storage,   \* localStorage: token and workspace_id
          auth,      \* AuthProvider's state
          scope,     \* WorkspaceProvider's state; heard is the list's last outcome
          page,      \* the route, the step of the login form, its busy flag
          cache,     \* whose rows the query cache holds: 0 none, Failed an error
          net,       \* requests in flight
          member     \* the server: who may see what

vars == <<storage, auth, scope, page, cache, net, member>>

TypeOK ==
  /\ storage \in [token : Users \cup {NoUser}, ws : 0..Archived]
  /\ auth \in [token : Users \cup {NoUser}, user : Users \cup {NoUser}, loading : BOOLEAN]
  /\ scope \in [ws : 0..Archived, list : SUBSET Workspaces, loading : BOOLEAN,
                heard : {"none", "ok", "failed"}]
  /\ page \in [at : Routes, step : {"password", "second"}, busy : BOOLEAN]
  /\ cache \in 0..Failed
  /\ net \subseteq [kind : Kinds, user : Users \cup {NoUser}, ws : 0..Archived,
                    then : 0..MaxWorkspace, n : 1..2]
  /\ member \in [Users -> SUBSET Workspaces]

-----------------------------------------------------------------------------
(* Requests: the interceptor reads localStorage. Two alike may be in flight. *)
Call(kind, st, then) == [kind |-> kind, user |-> st.token, ws |-> st.ws, then |-> then, n |-> 1]
Plus(calls, c) == calls \cup {IF c \in calls THEN [c EXCEPT !.n = 2] ELSE c}
UnfilledNone(calls) == calls       \* broken: requests survive a switch
Unfilled(calls) == {c \in calls : c.kind # "rows"}
Room == Cardinality(net) < MaxCalls

(* The effect on the token: without one there is no user and nothing to wait for. *)
AuthEffectWaits(a) ==              \* broken: still loading without a token
  IF a.token = NoUser THEN [a EXCEPT !.user = NoUser] ELSE a
AuthEffect(a) == IF a.token = NoUser THEN [a EXCEPT !.user = NoUser, !.loading = FALSE] ELSE a

(* The effect on (authLoading, user, token). *)
Known(a) == ~a.loading /\ a.user # NoUser /\ a.token # NoUser
ScopeEffectUnset(a, s) ==          \* broken: another value for no workspace
  IF a.loading THEN s
  ELSE IF Known(a) THEN [s EXCEPT !.loading = TRUE]
  ELSE [ws |-> -1, list |-> {}, loading |-> FALSE, heard |-> "none"]
ScopeEffect(a, s) ==
  IF a.loading THEN s
  ELSE IF Known(a) THEN [s EXCEPT !.loading = TRUE]
  ELSE [ws |-> 0, list |-> {}, loading |-> FALSE, heard |-> "none"]
ScopeCalls(a, st, calls) == IF Known(a) THEN Plus(calls, Call("list", st, 0)) ELSE calls

(* ProtectedRoute sends a tab without a token to /login, LoginPage one with a token home. *)
Guarded(at, a) ==
  IF a.token # NoUser THEN (IF at = "login" THEN "home" ELSE at)
  ELSE IF a.loading THEN at ELSE "login"

(* New state of the auth context: the workspace effect and the guards follow. *)
Become(a, st, calls) ==
  /\ auth' = a
  /\ scope' = ScopeEffect(a, scope)
  /\ net' = ScopeCalls(a, st, calls)
  /\ page' = [page EXCEPT !.at = Guarded(@, a)]

(* A document is loaded: state starts over from localStorage. *)
Fresh(st, at) ==
  LET a == AuthEffect([token |-> st.token, user |-> NoUser, loading |-> TRUE])
  IN /\ storage' = st
     /\ auth' = a
     /\ scope' = ScopeEffect(a, [ws |-> st.ws, list |-> {}, loading |-> TRUE, heard |-> "none"])
     /\ page' = [at |-> Guarded(at, a), step |-> "password", busy |-> FALSE]
     /\ cache' = 0
     /\ net' = IF a.token = NoUser THEN {} ELSE {Call("me", st, 0)}

Init ==
  /\ storage \in [token : Users \cup {NoUser}, ws : {0, Archived} \cup Joined]
  /\ auth = [token |-> storage.token, user |-> NoUser, loading |-> storage.token # NoUser]
  /\ scope = [ws |-> IF auth.loading THEN storage.ws ELSE 0, list |-> {},
              loading |-> auth.loading, heard |-> "none"]
  /\ page \in [at : Routes, step : {"password"}, busy : {FALSE}]
  /\ page.at = Guarded(page.at, auth)
  /\ cache = 0
  /\ net = IF auth.loading THEN {Call("me", storage, 0)} ELSE {}
  /\ member = [u \in Users |-> Joined]

Reload(at) == Fresh(storage, at) /\ UNCHANGED member
-----------------------------------------------------------------------------
(* auth.me(): the effect's call ends the loading, the one after a login does not. *)
Me(c) ==
  /\ c \in net /\ c.kind = "me"
  /\ Become([auth EXCEPT !.user = c.user, !.loading = IF c.then = 0 THEN FALSE ELSE @],
            storage, net \ {c})
  /\ UNCHANGED <<storage, cache, member>>

MeFails(c) ==
  /\ c \in net /\ c.kind = "me"
  /\ IF c.then = 0
     THEN /\ storage' = [storage EXCEPT !.token = NoUser]
          /\ Become(AuthEffect([auth EXCEPT !.token = NoUser, !.loading = FALSE]), storage', net \ {c})
     ELSE net' = net \ {c} /\ UNCHANGED <<storage, auth, scope, page>>
  /\ UNCHANGED <<cache, member>>

(* A 401, also one to a sign-in: the interceptor drops the token and loads /login. *)
Unauthorized(c) ==
  /\ c \in net
  /\ Fresh([storage EXCEPT !.token = NoUser], "login")
  /\ UNCHANGED member

(* login, verify2fa and loginWithToken store the token before they ask for the user. *)
SignedIn(u, calls) ==
  LET a == [auth EXCEPT !.token = u]
      st == [storage EXCEPT !.token = u]
      asked == Plus(calls, Call("me", st, 1))
  IN /\ storage' = st
     /\ IF a = auth THEN net' = asked /\ page' = [page EXCEPT !.busy = FALSE, !.at = "home"]
                         /\ UNCHANGED <<auth, scope>>
        ELSE /\ auth' = a
             /\ scope' = ScopeEffect(a, scope)
             /\ net' = ScopeCalls(a, st, Plus(asked, Call("me", st, 0)))
             /\ page' = [at |-> "home", step |-> "password", busy |-> FALSE]
     /\ UNCHANGED <<cache, member>>

Ask(u, kind) ==
  /\ net' = Plus(net, [Call(kind, storage, 0) EXCEPT !.user = u])
  /\ page' = [page EXCEPT !.busy = TRUE]
  /\ UNCHANGED <<storage, auth, scope, cache, member>>

(* The login form: one of its buttons at a time. *)
SubmitPassword(u, kind) ==
  /\ page.at = "login" /\ page.step = "password" /\ ~page.busy /\ Room
  /\ Ask(u, kind)

(* The form that asks for a code or a passkey on top of the password. *)
SubmitSecondFactor(u, kind) ==
  /\ page.at = "login" /\ page.step = "second" /\ ~page.busy /\ Room
  /\ Ask(u, kind)

SignInOk(c) == c \in net /\ c.kind \in SignIns /\ SignedIn(c.user, net \ {c})

AskSecondFactor(c) ==
  /\ c \in net /\ c.kind = "login"
  /\ net' = net \ {c}
  /\ page' = [page EXCEPT !.step = "second", !.busy = FALSE]
  /\ UNCHANGED <<storage, auth, scope, cache, member>>

SignInFails(c) ==
  /\ c \in net /\ c.kind \in SignIns
  /\ net' = net \ {c}
  /\ page' = [page EXCEPT !.busy = FALSE]
  /\ UNCHANGED <<storage, auth, scope, cache, member>>

(* Back to the password: the button works while a code is being verified. *)
ResetSecondFactor ==
  /\ page.at = "login" /\ page.step = "second"
  /\ page' = [page EXCEPT !.step = "password"]
  /\ UNCHANGED <<storage, auth, scope, cache, net, member>>

(* The menu of the layout, which is rendered before the user or the list is known. *)
Logout ==
  /\ page.at # "login" /\ ~auth.loading /\ auth.token # NoUser
  /\ storage' = [storage EXCEPT !.token = NoUser]
  /\ Become([auth EXCEPT !.token = NoUser, !.user = NoUser], storage', Unfilled(net))
  /\ cache' = 0
  /\ UNCHANGED member

(* updateUser: a new user object is a new input of the workspace effect. *)
UpdateUser ==
  /\ Known(auth) /\ page.at # "login" /\ Room
  /\ Become(auth, storage, net)
  /\ UNCHANGED <<storage, cache, member>>
-----------------------------------------------------------------------------
(* switchWorkspace: stored first, then every query is dropped and fetched again. *)
SwitchedKeeping(w, st, s, calls) ==   \* broken: the rows of the old workspace stay
  IF w = s.ws THEN storage' = st /\ scope' = s /\ net' = calls /\ UNCHANGED cache
  ELSE /\ storage' = [st EXCEPT !.ws = w]
       /\ scope' = [s EXCEPT !.ws = w]
       /\ net' = Unfilled(calls)
       /\ UNCHANGED cache
SwitchedBefore(w, st, s, calls) ==    \* broken: refetches before it stores
  IF w = s.ws THEN storage' = st /\ scope' = s /\ net' = calls /\ UNCHANGED cache
  ELSE /\ storage' = [st EXCEPT !.ws = w]
       /\ scope' = [s EXCEPT !.ws = w]
       /\ cache' = 0
       /\ net' = IF page.at = "login" THEN Unfilled(calls)
                 ELSE Plus(Unfilled(calls), Call("rows", st, 0))
Switched(w, st, s, calls) ==
  IF w = s.ws THEN storage' = st /\ scope' = s /\ net' = calls /\ UNCHANGED cache
  ELSE /\ storage' = [st EXCEPT !.ws = w]
       /\ scope' = [s EXCEPT !.ws = w]
       /\ cache' = 0
       /\ net' = IF page.at = "login" THEN Unfilled(calls)
                 ELSE Plus(Unfilled(calls), Call("rows", storage', 0))

Switch(w) ==
  /\ page.at # "login" /\ w \in scope.list /\ scope.ws \in scope.list
  /\ Switched(w, storage, scope, net)
  /\ UNCHANGED <<auth, page, member>>

(* loadWorkspaces, and what createMutation does once it is through. *)
Chosen(list) ==
  IF storage.ws \in list THEN storage.ws ELSE IF list = {} THEN 0 ELSE Min(list)

Loaded(c, st, s) ==
  IF c.then = 0
  THEN storage' = st /\ scope' = s /\ net' = net \ {c} /\ UNCHANGED <<cache, page>>
  ELSE /\ Switched(c.then, st, s, net \ {c})
       /\ page' = [page EXCEPT !.at = Guarded("settings", auth)]

List(c) ==
  /\ c \in net /\ c.kind = "list" /\ c.user # NoUser
  /\ LET ws == Chosen(member[c.user])
     IN Loaded(c, [storage EXCEPT !.ws = ws],
               [ws |-> ws, list |-> member[c.user], loading |-> FALSE, heard |-> "ok"])
  /\ UNCHANGED <<auth, member>>

ListFails(c) ==
  /\ c \in net /\ c.kind = "list"
  /\ Loaded(c, storage, [scope EXCEPT !.list = {}, !.loading = FALSE, !.heard = "failed"])
  /\ UNCHANGED <<auth, member>>

Creating == \E c \in net : c.kind = "create" \/ (c.kind = "list" /\ c.then > 0)

Create ==
  /\ page.at # "login" /\ scope.ws \in scope.list /\ Known(auth) /\ ~Creating /\ Room
  /\ Workspaces # member[auth.token]
  /\ net' = Plus(net, Call("create", storage, 0))
  /\ UNCHANGED <<storage, auth, scope, page, cache, member>>

Created(c) ==
  /\ c \in net /\ c.kind = "create"
  /\ LET w == Min(Workspaces \ member[c.user])
     IN /\ member' = [member EXCEPT ![c.user] = @ \cup {w}]
        /\ net' = Plus(net \ {c}, Call("list", storage, w))
  /\ scope' = [scope EXCEPT !.loading = TRUE]
  /\ UNCHANGED <<storage, auth, page, cache>>

CreateFails(c) ==
  /\ c \in net /\ c.kind = "create"
  /\ net' = net \ {c}
  /\ UNCHANGED <<storage, auth, scope, page, cache, member>>
-----------------------------------------------------------------------------
HasModule == scope.ws \in scope.list \cap ModuleOn

(* The route's element is rendered: its queries are mounted. *)
Mounted ==
  /\ page.at # "login" /\ ~auth.loading /\ auth.token # NoUser
  /\ page.at = "module" => ~scope.loading /\ HasModule

(* A mounted query is fetched: on mount, when stale, on focus. *)
FetchRows ==
  /\ Mounted /\ Room /\ ~\E c \in net : c.kind = "rows"
  /\ net' = Plus(net, Call("rows", storage, 0))
  /\ UNCHANGED <<storage, auth, scope, page, cache, member>>

(* The server: the header's workspace if the user may see it, else the oldest if there is *)
(* no header.                                                                             *)
Served(c) ==
  LET seen == member[c.user]
  IN IF c.ws = 0 /\ seen # {} THEN Min(seen) ELSE IF c.ws \in seen THEN c.ws ELSE Failed

Rows(c) ==
  /\ c \in net /\ c.kind = "rows" /\ c.user # NoUser
  /\ cache' = IF Served(c) = Failed /\ cache # 0 THEN cache ELSE Served(c)
  /\ net' = net \ {c}
  /\ UNCHANGED <<storage, auth, scope, page, member>>

RowsFail(c) ==
  /\ c \in net /\ c.kind = "rows"
  /\ cache' = IF cache = 0 THEN Failed ELSE cache
  /\ net' = net \ {c}
  /\ UNCHANGED <<storage, auth, scope, page, member>>

Navigate(at) ==
  /\ page.at # "login" /\ ~auth.loading /\ at # "login"
  /\ at = "module" => ~scope.loading /\ HasModule
  /\ page' = [page EXCEPT !.at = at]
  /\ UNCHANGED <<storage, auth, scope, cache, net, member>>

(* ModuleRoute: a page of a module that is off gives way to the home page. *)
TurnedAwayHasty ==                 \* broken: does not wait for the list
  page.at = "module" /\ ~auth.loading /\ ~HasModule
TurnedAway == page.at = "module" /\ ~auth.loading /\ ~scope.loading /\ ~HasModule
Bounce ==
  /\ TurnedAway
  /\ page' = [page EXCEPT !.at = "home"]
  /\ UNCHANGED <<storage, auth, scope, cache, net, member>>

(* Another tab: the token comes with a storage event, the workspace id without. *)
OtherSignsOut ==
  /\ "logout" \in OtherTab /\ storage.token # NoUser
  /\ storage' = [storage EXCEPT !.token = NoUser]
  /\ Become(AuthEffect([auth EXCEPT !.token = NoUser]), storage', net)
  /\ UNCHANGED <<cache, member>>

OtherSignsIn(u) ==
  /\ "login" \in OtherTab /\ storage.token = NoUser /\ Room
  /\ storage' = [storage EXCEPT !.token = u]
  /\ Become([auth EXCEPT !.token = u], storage', Plus(net, Call("me", storage', 0)))
  /\ UNCHANGED <<cache, member>>

(* It replaces an id that is nobody's when it loads its list, or its user picks one. *)
OtherPicks ==
  LET seen == IF storage.token = NoUser THEN {} ELSE member[storage.token]
  IN IF "switch" \in OtherTab THEN seen
     ELSE IF storage.ws \in seen \/ seen = {} THEN {} ELSE {Min(seen)}
OtherChooses(w) ==
  /\ w \in OtherPicks
  /\ storage' = [storage EXCEPT !.ws = w]
  /\ UNCHANGED <<auth, scope, page, cache, net, member>>

Answer(c) ==
  \/ Me(c) \/ MeFails(c) \/ Unauthorized(c)
  \/ SignInOk(c) \/ AskSecondFactor(c) \/ SignInFails(c)
  \/ List(c) \/ ListFails(c) \/ Created(c) \/ CreateFails(c)
  \/ Rows(c) \/ RowsFail(c)

Next ==
  \/ \E c \in net : Answer(c)
  \/ \E at \in Routes : Reload(at) \/ Navigate(at)
  \/ \E u \in Users, kind \in {"login", "passkey"} : SubmitPassword(u, kind)
  \/ \E u \in Users, kind \in {"verify", "passkey"} : SubmitSecondFactor(u, kind)
  \/ ResetSecondFactor \/ Logout \/ UpdateUser \/ Create \/ FetchRows \/ Bounce
  \/ \E w \in Workspaces : Switch(w)
  \/ OtherSignsOut \/ \E u \in Users : OtherSignsIn(u)
  \/ \E w \in Workspaces : OtherChooses(w)

(* The server answers every request; the router follows the guards. *)
Fairness ==
  /\ WF_vars(\E c \in net : c.kind = "me" /\ Answer(c))
  /\ WF_vars(\E c \in net : c.kind = "list" /\ Answer(c))
  /\ WF_vars(Bounce)

Spec == Init /\ [][Next]_vars /\ Fairness
-----------------------------------------------------------------------------
(* The rows on the screen are rows of the workspace the switcher names, whatever answers *)
(* come late: switchWorkspace stores the id first and drops what is in flight. This is   *)
(* for a browser with one account: when another tab signs in with a second one, the rows *)
(* of the first stay in the cache.                                                       *)
RowsOfTheActiveWorkspace ==
  scope.ws \in scope.list /\ cache \in Workspaces => cache = scope.ws

(* A request for rows is sent for the workspace that the tab shows as active, although it *)
(* is the interceptor that reads the id, and from localStorage.                           *)
RequestsCarryTheActiveWorkspace ==
  [][\A c \in net' \ net :
       c.kind = "rows" /\ scope'.ws \in scope'.list => c.ws = scope'.ws]_vars

(* A page behind ModuleRoute is turned away only once the list of workspaces was answered: *)
(* after a reload nothing is decided while the token is still being restored.              *)
NoVerdictBeforeTheList == TurnedAway => scope.heard # "none"

(* Nobody is left waiting, unless by reloading for ever: the token is restored or dropped, *)
(* and whoever holds one gets to see workspaces, an error, or the login page.              *)
SignInSettles ==
  /\ []<>~auth.loading
  /\ []<>(auth.loading \/ auth.token = NoUser \/ scope.heard # "none")

(* The tab implements the promise of WorkspaceScope: a workspace is named once it is listed. *)
Scope == INSTANCE WorkspaceScope WITH
  active <- IF scope.ws \in scope.list THEN scope.ws ELSE 0,
  shown <- IF cache \in Workspaces THEN cache ELSE 0
ImplementsScope == Scope!Spec
=============================================================================
