---------------------------- MODULE SessionProofs -----------------------------
(* What a tab keeps for any number of accounts, workspaces and requests: its     *)
(* types, and that no page is turned away before the list of workspaces was      *)
(* answered. Then, for a browser with one account whose other tabs pick no       *)
(* workspace of their own, that the rows on screen are of the workspace that is  *)
(* named there, that requests carry it, and that the tab implements              *)
(* WorkspaceScope.                                                               *)
EXTENDS Session, TLAPS

Stores == [token : Users \cup {NoUser}, ws : 0..Archived]
Auths == [token : Users \cup {NoUser}, user : Users \cup {NoUser}, loading : BOOLEAN]
Scopes == [ws : 0..Archived, list : SUBSET Workspaces, loading : BOOLEAN,
           heard : {"none", "ok", "failed"}]
Views == [at : Routes, step : {"password", "second"}, busy : BOOLEAN]
Calls == [kind : Kinds, user : Users \cup {NoUser}, ws : 0..Archived,
          then : 0..MaxWorkspace, n : 1..2]

(* A new workspace is the youngest, so those of a user are the oldest ones. *)
Segment(S) == \E k \in 1..MaxWorkspace : S = 1..k

(* Who asks for a user has a token; who asks for a workspace has room for it. *)
CallFits(c, seen) ==
  /\ c \in Calls
  /\ c.kind \in {"me"} \cup SignIns => c.user # NoUser
  /\ c.kind = "create" => c.user \in Users /\ seen[c.user] # Workspaces
NetFits(calls, seen) ==
  /\ \A c \in calls : CallFits(c, seen)
  /\ \A c, d \in calls : c.kind = "create" /\ d.kind = "create" => c = d

(* Without a token there is nothing to wait for but the login page. *)
AuthFits(a, at) ==
  /\ a.loading => a.token # NoUser
  /\ ~a.loading /\ a.token = NoUser => at = "login"

ScopeFits(a, s, at) ==
  /\ s.heard = "none" => s.list = {}
  /\ at = "module" /\ ~a.loading /\ ~s.loading => s.heard # "none"

IInv ==
  /\ storage \in Stores /\ auth \in Auths /\ storage.token = auth.token
  /\ scope \in Scopes /\ page \in Views /\ cache \in 0..Failed
  /\ member \in [Users -> SUBSET Workspaces] /\ \A u \in Users : Segment(member[u])
  /\ NetFits(net, member)
  /\ AuthFits(auth, page.at) /\ ScopeFits(auth, scope, page.at)

(* The workspace that a list would choose: the one in storage, or the oldest. *)
Target(ws, seen) == IF ws \in seen THEN ws ELSE 1

(* The rows that a request will bring are of the workspace that would be chosen. *)
RowsFit(c, ws, seen) ==
  /\ c.ws \in {0, Archived} \cup seen
  /\ c.ws = 0 => Target(ws, seen) = 1
  /\ c.ws \in seen => Target(ws, seen) = c.ws

(* The same for the rows on the screen, when the user sees these workspaces. *)
Scoped(st, s, rows, calls, seen) ==
  /\ st.ws \in {0, Archived} \cup seen
  /\ s.list \subseteq seen
  /\ s.ws \in s.list => st.ws = s.ws
  /\ rows \in Workspaces => rows \in seen /\ rows = Target(st.ws, seen)
  /\ \A c \in calls : /\ c.kind = "rows" => RowsFit(c, st.ws, seen)
                      /\ c.kind = "list" => c.then \in {0} \cup seen
ScopeInv(u) == Scoped(storage, scope, cache, net, member[u])

(* What every step is shown to do: the requests it sends are for the workspace *)
(* that is shown as active, and rows only come while that one stays.           *)
Carries == \A c \in net' \ net : c.kind = "rows" /\ scope'.ws \in scope'.list => c.ws = scope'.ws
Follows(u) ==
  /\ ScopeInv(u)' /\ Carries
  /\ cache' \in {cache, 0, Failed} \/ UNCHANGED scope

(* Most steps leave the workspace alone, or forget it, and ask for no rows. *)
Harmless(c) == c \in net \/ c.kind \notin {"rows", "list"} \/ (c.kind = "list" /\ c.then = 0)
Quiet ==
  /\ storage'.ws = storage.ws /\ member' = member
  /\ scope'.list = {} \/ (scope'.ws = scope.ws /\ scope'.list = scope.list)
  /\ cache' \in {cache, 0, Failed}
  /\ \A c \in net' : Harmless(c)
-----------------------------------------------------------------------------
(* Constants, the oldest workspace, and requests.                          *)

LEMMA Numbers ==
  /\ MaxWorkspace \in Nat /\ 1 \in 1..MaxWorkspace /\ Archived = MaxWorkspace + 1 /\ Failed = MaxWorkspace + 1
  /\ NoUser \notin Users /\ Segment(Joined) /\ Joined \subseteq Workspaces
BY SessionAssumption DEF Archived, Failed, Segment, Workspaces

LEMMA OldestIs ==
  ASSUME NEW S, Segment(S)
  PROVE  S # {} /\ S \subseteq Workspaces /\ 1 \in S /\ Min(S) = 1
<1>1. PICK k \in 1..MaxWorkspace : S = 1..k
  BY DEF Segment
<1>2. 1 \in S /\ \A y \in S : 1 =< y
  BY <1>1
<1>3. \A x \in S : (\A y \in S : x =< y) => x = 1
  BY <1>1
<1>4. Min(S) = 1
  BY <1>2, <1>3 DEF Min
<1> QED
  BY <1>1, <1>2, <1>4, Numbers DEF Workspaces

LEMMA YoungestIs ==
  ASSUME NEW S, Segment(S), S # Workspaces
  PROVE  LET w == Min(Workspaces \ S)
         IN w \in Workspaces /\ w \notin S /\ w # 0 /\ Segment(S \cup {w})
<1>1. PICK k \in 1..MaxWorkspace : S = 1..k
  BY DEF Segment
<1>2. k < MaxWorkspace
  BY <1>1, Numbers DEF Workspaces
<1>3. k + 1 \in Workspaces \ S /\ \A y \in Workspaces \ S : k + 1 =< y
  BY <1>1, <1>2, Numbers DEF Workspaces
<1>4. \A x \in Workspaces \ S : (\A y \in Workspaces \ S : x =< y) => x = k + 1
  BY <1>3, Numbers DEF Workspaces
<1>5. Min(Workspaces \ S) = k + 1
  BY <1>3, <1>4 DEF Min
<1>6. S \cup {k + 1} = 1..(k + 1) /\ k + 1 \in 1..MaxWorkspace
  BY <1>1, <1>2, Numbers
<1>7. k + 1 # 0
  OBVIOUS
<1> QED
  BY <1>3, <1>5, <1>6, <1>7 DEF Segment

LEMMA CallIs ==
  ASSUME NEW kind \in Kinds, NEW st \in Stores, NEW then \in 0..MaxWorkspace
  PROVE  /\ Call(kind, st, then) \in Calls
         /\ Call(kind, st, then).kind = kind /\ Call(kind, st, then).user = st.token
         /\ Call(kind, st, then).ws = st.ws /\ Call(kind, st, then).then = then
BY DEF Call, Calls, Stores

(* A request more, which may be the second of its kind. *)
LEMMA PlusIs ==
  ASSUME NEW calls, NEW c \in Calls
  PROVE  \E d \in Calls : /\ Plus(calls, c) = calls \cup {d}
                          /\ d.kind = c.kind /\ d.user = c.user /\ d.ws = c.ws /\ d.then = c.then
<1>1. PICK d : d = IF c \in calls THEN [c EXCEPT !.n = 2] ELSE c
  OBVIOUS
<1>2. d \in Calls /\ d.kind = c.kind /\ d.user = c.user /\ d.ws = c.ws /\ d.then = c.then
  BY <1>1 DEF Calls
<1>3. Plus(calls, c) = calls \cup {d}
  BY <1>1 DEF Plus
<1> QED
  BY <1>2, <1>3

LEMMA KindsAre ==
  /\ Kinds = {"login", "verify", "passkey", "me", "list", "rows", "create"}
  /\ SignIns = {"login", "verify", "passkey"}
BY DEF Kinds, SignIns

LEMMA LessFits ==
  ASSUME NEW calls, NEW less \in SUBSET calls, NEW seen, NetFits(calls, seen)
  PROVE  NetFits(less, seen)
BY DEF NetFits

LEMMA PlusFits ==
  ASSUME NEW calls, NEW seen, NetFits(calls, seen), NEW c \in Calls, CallFits(c, seen),
         c.kind = "create" => \A d \in calls : d.kind # "create"
  PROVE  NetFits(Plus(calls, c), seen)
<1>1. PICK d \in Calls : /\ Plus(calls, c) = calls \cup {d}
                         /\ d.kind = c.kind /\ d.user = c.user
  BY PlusIs
<1>2. CallFits(d, seen)
  BY <1>1 DEF CallFits
<1> QED
  BY <1>1, <1>2 DEF NetFits

(* The requests that the contexts send on their own. *)
LEMMA AsksFit ==
  ASSUME NEW calls, NEW seen, NetFits(calls, seen), NEW st \in Stores, NEW then \in 0..MaxWorkspace
  PROVE  /\ NetFits(Plus(calls, Call("list", st, then)), seen)
         /\ NetFits(Plus(calls, Call("rows", st, then)), seen)
         /\ st.token # NoUser => /\ NetFits(Plus(calls, Call("me", st, then)), seen)
                                 /\ NetFits({Call("me", st, then)}, seen)
<1>1. /\ CallFits(Call("list", st, then), seen) /\ Call("list", st, then).kind = "list"
      /\ CallFits(Call("rows", st, then), seen) /\ Call("rows", st, then).kind = "rows"
      /\ st.token # NoUser => CallFits(Call("me", st, then), seen)
      /\ Call("me", st, then) \in Calls /\ Call("me", st, then).kind = "me"
  BY KindsAre, CallIs DEF CallFits
<1>2. NetFits(Plus(calls, Call("list", st, then)), seen)
  BY <1>1, PlusFits DEF CallFits
<1>3. NetFits(Plus(calls, Call("rows", st, then)), seen)
  BY <1>1, PlusFits DEF CallFits
<1>4. ASSUME st.token # NoUser PROVE NetFits(Plus(calls, Call("me", st, then)), seen)
  BY <1>1, <1>4, PlusFits
<1>5. st.token # NoUser => NetFits({Call("me", st, then)}, seen)
  BY <1>1 DEF NetFits
<1> QED
  BY <1>2, <1>3, <1>4, <1>5

LEMMA UnfilledFits ==
  ASSUME NEW calls, NEW seen, NetFits(calls, seen)
  PROVE  NetFits(Unfilled(calls), seen)
BY LessFits DEF Unfilled
-----------------------------------------------------------------------------
(* The effects of the contexts, and the guards.                            *)

LEMMA AuthEffectIs ==
  ASSUME NEW a \in Auths
  PROVE  /\ AuthEffect(a) \in Auths /\ AuthEffect(a).token = a.token
         /\ a.token = NoUser => AuthEffect(a).user = NoUser /\ ~AuthEffect(a).loading
         /\ a.token # NoUser => AuthEffect(a) = a
BY DEF AuthEffect, Auths

LEMMA EffectFits ==
  ASSUME NEW a \in Auths, a.loading => a.token # NoUser, NEW s \in Scopes, NEW at \in Routes,
         s.heard = "none" => s.list = {},
         at = "module" /\ ~a.loading /\ a.token # NoUser => a.user # NoUser
  PROVE  /\ ScopeEffect(a, s) \in Scopes /\ Guarded(at, a) \in Routes
         /\ AuthFits(a, Guarded(at, a)) /\ ScopeFits(a, ScopeEffect(a, s), Guarded(at, a))
         /\ \/ ScopeEffect(a, s).list = {}
            \/ ScopeEffect(a, s).ws = s.ws /\ ScopeEffect(a, s).list = s.list
<1>1. Guarded(at, a) \in Routes
  BY DEF Guarded, Routes
<1>2. AuthFits(a, Guarded(at, a))
  BY DEF Guarded, AuthFits, Auths
<1>3. CASE a.loading
  <2>1. ScopeEffect(a, s) = s
    BY <1>3 DEF ScopeEffect
  <2> QED
    BY <1>1, <1>2, <1>3, <2>1 DEF ScopeFits
<1>4. CASE ~a.loading /\ Known(a)
  <2>1. ScopeEffect(a, s) = [s EXCEPT !.loading = TRUE]
    BY <1>4 DEF ScopeEffect
  <2>2. /\ ScopeEffect(a, s) \in Scopes /\ ScopeEffect(a, s).loading /\ ScopeEffect(a, s).heard = s.heard
        /\ ScopeEffect(a, s).list = s.list /\ ScopeEffect(a, s).ws = s.ws
    BY <2>1 DEF Scopes
  <2> QED
    BY <1>1, <1>2, <2>2 DEF ScopeFits
<1>5. CASE ~a.loading /\ ~Known(a)
  <2>1. ScopeEffect(a, s) = [ws |-> 0, list |-> {}, loading |-> FALSE, heard |-> "none"]
    BY <1>5 DEF ScopeEffect
  <2>2. ScopeEffect(a, s) \in Scopes
    BY <2>1, Numbers DEF Scopes
  <2>3. Guarded(at, a) # "module"
    BY <1>5 DEF Guarded, Known
  <2> QED
    BY <1>1, <1>2, <2>1, <2>2, <2>3 DEF ScopeFits
<1> QED
  BY <1>3, <1>4, <1>5

(* The contexts take up a new state of the auth context. *)
LEMMA BecomeKeeps ==
  ASSUME IInv, NEW st \in Stores, NEW a \in Auths, a.token = st.token, a.loading => a.token # NoUser,
         NEW calls, NetFits(calls, member), Become(a, st, calls),
         page.at = "module" /\ ~a.loading /\ a.token # NoUser => a.user # NoUser,
         storage' = st, cache' \in 0..Failed, member' = member
  PROVE  IInv'
<1>1. scope \in Scopes /\ page \in Views /\ page.at \in Routes /\ (scope.heard = "none" => scope.list = {})
  BY DEF IInv, Views, ScopeFits
<1>2. /\ ScopeEffect(a, scope) \in Scopes /\ Guarded(page.at, a) \in Routes
      /\ AuthFits(a, Guarded(page.at, a)) /\ ScopeFits(a, ScopeEffect(a, scope), Guarded(page.at, a))
  BY <1>1, EffectFits
<1>3. page' \in Views /\ page'.at = Guarded(page.at, a)
  BY <1>1, <1>2 DEF Become, Views
<1>4. NetFits(net', member)
  <2>1. 0 \in 0..MaxWorkspace
    BY Numbers
  <2>2. NetFits(Plus(calls, Call("list", st, 0)), member)
    BY <2>1, AsksFit
  <2>3. net' = Plus(calls, Call("list", st, 0)) \/ net' = calls
    BY DEF Become, ScopeCalls
  <2> QED
    BY <2>2, <2>3
<1>5. auth' = a /\ scope' = ScopeEffect(a, scope)
  BY DEF Become
<1> QED
  BY <1>2, <1>3, <1>4, <1>5 DEF IInv

LEMMA FreshKeeps ==
  ASSUME IInv, NEW st \in Stores, NEW at \in Routes, Fresh(st, at), member' = member
  PROVE  IInv'
<1> DEFINE b == [token |-> st.token, user |-> NoUser, loading |-> TRUE]
           a == AuthEffect(b)
           s == [ws |-> st.ws, list |-> {}, loading |-> TRUE, heard |-> "none"]
<1>1. b \in Auths /\ b.token = st.token /\ b.user = NoUser /\ b.loading
  BY DEF Stores, Auths
<1>2. s \in Scopes /\ s.list = {}
  BY DEF Stores, Scopes
<1>3. storage' = st /\ auth' = a /\ scope' = ScopeEffect(a, s) /\ cache' = 0
      /\ page' = [at |-> Guarded(at, a), step |-> "password", busy |-> FALSE]
      /\ net' = IF a.token = NoUser THEN {} ELSE {Call("me", st, 0)}
  BY DEF Fresh
<1> HIDE DEF b, s
<1>4. a \in Auths /\ a.token = st.token /\ (a.loading <=> a.token # NoUser)
  BY <1>1, AuthEffectIs DEF Auths
<1> HIDE DEF a
<1>5. /\ ScopeEffect(a, s) \in Scopes /\ Guarded(at, a) \in Routes
      /\ AuthFits(a, Guarded(at, a)) /\ ScopeFits(a, ScopeEffect(a, s), Guarded(at, a))
  BY <1>2, <1>4, EffectFits
<1>6. page' \in Views /\ page'.at = Guarded(at, a)
  BY <1>3, <1>5 DEF Views
<1>7. NetFits(net', member)
  <2>1. NetFits({}, member)
    BY DEF NetFits
  <2> QED
    BY <1>3, <1>4, <2>1, AsksFit, Numbers
<1>8. cache' \in 0..Failed
  BY <1>3, Numbers
<1> QED
  BY <1>3, <1>4, <1>5, <1>6, <1>7, <1>8 DEF IInv
-----------------------------------------------------------------------------
(* The answers to auth.me, and those that end a session or begin one.      *)

LEMMA MeKeeps ==
  ASSUME IInv, NEW c \in net, Me(c)
  PROVE  IInv'
<1>1. c.kind = "me" /\ c \in Calls /\ c.user \in Users \cup {NoUser} /\ c.user # NoUser
      /\ auth \in Auths /\ storage \in Stores /\ auth.token = storage.token
      /\ (auth.loading => auth.token # NoUser)
  BY DEF IInv, Me, NetFits, CallFits, Calls, AuthFits
<1>2. PICK a : a = [auth EXCEPT !.user = c.user, !.loading = IF c.then = 0 THEN FALSE ELSE @]
  OBVIOUS
<1>3. a \in Auths /\ a.token = storage.token /\ a.user # NoUser /\ (a.loading => a.token # NoUser)
  BY <1>1, <1>2 DEF Auths
<1>4. Become(a, storage, net \ {c}) /\ UNCHANGED <<storage, cache, member>>
  BY <1>2 DEF Me
<1>5. NetFits(net \ {c}, member) /\ cache' \in 0..Failed
  BY <1>4, LessFits DEF IInv
<1> QED
  BY <1>1, <1>3, <1>4, <1>5, BecomeKeeps

(* A request less. *)
LEMMA NetKeeps ==
  ASSUME IInv, NetFits(net', member), UNCHANGED <<storage, auth, scope, member>>, cache' \in 0..Failed,
         page' \in Views, page'.at = page.at
  PROVE  IInv'
BY DEF IInv

(* The token is dropped, and with it the user. *)
LEMMA DropKeeps ==
  ASSUME IInv, NEW a \in Auths, a.token = NoUser, ~a.loading, NEW calls \in SUBSET net,
         storage' = [storage EXCEPT !.token = NoUser], Become(a, storage', calls),
         cache' \in 0..Failed, member' = member
  PROVE  IInv'
<1>1. storage' \in Stores /\ storage'.token = NoUser
  BY DEF IInv, Stores
<1>2. NetFits(calls, member)
  BY LessFits DEF IInv
<1>3. PICK st \in Stores : st = storage'
  BY <1>1
<1> QED
  BY <1>1, <1>2, <1>3, BecomeKeeps

LEMMA MeFailsKeeps ==
  ASSUME IInv, NEW c \in net, MeFails(c)
  PROVE  IInv'
<1>1. CASE c.then = 0
  <2>1. PICK a : a = AuthEffect([auth EXCEPT !.token = NoUser, !.loading = FALSE])
    OBVIOUS
  <2>2. [auth EXCEPT !.token = NoUser, !.loading = FALSE] \in Auths
        /\ [auth EXCEPT !.token = NoUser, !.loading = FALSE].token = NoUser
    BY DEF IInv, Auths
  <2>3. a \in Auths /\ a.token = NoUser /\ ~a.loading
    BY <2>1, <2>2, AuthEffectIs
  <2>4. storage' = [storage EXCEPT !.token = NoUser] /\ Become(a, storage', net \ {c})
        /\ UNCHANGED <<cache, member>>
    BY <1>1, <2>1 DEF MeFails
  <2>5. cache' \in 0..Failed
    BY <2>4 DEF IInv
  <2> QED
    BY <2>3, <2>4, <2>5, DropKeeps
<1>2. CASE c.then # 0
  <2>1. net' = net \ {c} /\ UNCHANGED <<storage, auth, scope, page, cache, member>>
    BY <1>2 DEF MeFails
  <2>2. NetFits(net', member)
    BY <2>1, LessFits DEF IInv
  <2> QED
    BY <2>1, <2>2, NetKeeps DEF IInv
<1> QED
  BY <1>1, <1>2

LEMMA UnauthorizedKeeps ==
  ASSUME IInv, NEW c \in net, Unauthorized(c)
  PROVE  IInv'
<1>1. [storage EXCEPT !.token = NoUser] \in Stores /\ "login" \in Routes
  BY DEF IInv, Stores, Routes
<1> QED
  BY <1>1, FreshKeeps DEF Unauthorized

LEMMA ReloadKeeps ==
  ASSUME IInv, NEW at \in Routes, Reload(at)
  PROVE  IInv'
BY FreshKeeps DEF IInv, Reload

LEMMA SignedInKeeps ==
  ASSUME IInv, NEW u \in Users, NEW calls \in SUBSET net, SignedIn(u, calls)
  PROVE  IInv'
<1> DEFINE a == [auth EXCEPT !.token = u]
           st == [storage EXCEPT !.token = u]
           asked == Plus(calls, Call("me", st, 1))
<1>1. a \in Auths /\ a.token = u /\ st \in Stores /\ st.token = u /\ u # NoUser
  BY Numbers DEF IInv, Auths, Stores
<1>2. storage' = st /\ UNCHANGED <<cache, member>>
  BY DEF SignedIn
<1>3. 0 \in 0..MaxWorkspace /\ 1 \in 0..MaxWorkspace
  BY Numbers
<1>4. NetFits(calls, member)
  BY LessFits DEF IInv
<1> HIDE DEF st
<1>5. NetFits(asked, member)
  BY <1>1, <1>3, <1>4, AsksFit
<1>6. CASE a = auth
  <2>1. net' = asked /\ page' = [page EXCEPT !.busy = FALSE, !.at = "home"] /\ UNCHANGED <<auth, scope>>
    BY <1>6 DEF SignedIn, st
  <2>2. page' \in Views /\ page'.at = "home"
    BY <2>1 DEF IInv, Views, Routes
  <2>3. auth.token = u
    BY <1>1, <1>6
  <2> HIDE DEF a, asked
  <2> QED
    BY <1>1, <1>2, <1>5, <2>1, <2>2, <2>3 DEF IInv, AuthFits, ScopeFits
<1>7. CASE a # auth
  <2>1. /\ auth' = a /\ scope' = ScopeEffect(a, scope)
        /\ net' = ScopeCalls(a, st, Plus(asked, Call("me", st, 0)))
        /\ page' = [at |-> "home", step |-> "password", busy |-> FALSE]
    BY <1>7 DEF SignedIn, st
  <2> HIDE DEF a, asked
  <2>2. NetFits(Plus(asked, Call("me", st, 0)), member)
    BY <1>1, <1>3, <1>5, AsksFit
  <2>3. NetFits(Plus(Plus(asked, Call("me", st, 0)), Call("list", st, 0)), member)
    BY <1>1, <1>3, <2>2, AsksFit
  <2>4. NetFits(net', member)
    BY <2>1, <2>2, <2>3 DEF ScopeCalls
  <2>5. page' \in Views /\ page'.at = "home" /\ "home" \in Routes
    BY <2>1 DEF Views, Routes
  <2>6. Guarded("home", a) = "home"
    BY <1>1 DEF Guarded
  <2>7. scope \in Scopes /\ (scope.heard = "none" => scope.list = {})
    BY DEF IInv, ScopeFits
  <2>8. ScopeEffect(a, scope) \in Scopes /\ AuthFits(a, "home") /\ ScopeFits(a, ScopeEffect(a, scope), "home")
    BY <1>1, <2>5, <2>6, <2>7, EffectFits
  <2> QED
    BY <1>1, <1>2, <2>1, <2>4, <2>5, <2>8 DEF IInv
<1> QED
  BY <1>6, <1>7

LEMMA SignInKeeps ==
  ASSUME IInv, NEW c \in net, SignInOk(c) \/ AskSecondFactor(c) \/ SignInFails(c)
  PROVE  IInv'
<1>1. CASE SignInOk(c)
  <2>1. c.user \in Users
    BY <1>1 DEF SignInOk, IInv, NetFits, CallFits, Calls
  <2> QED
    BY <1>1, <2>1, SignedInKeeps DEF SignInOk
<1>2. CASE AskSecondFactor(c) \/ SignInFails(c)
  <2>1. net' = net \ {c} /\ UNCHANGED <<storage, auth, scope, cache, member>>
    BY <1>2 DEF AskSecondFactor, SignInFails
  <2>2. NetFits(net', member)
    BY <2>1, LessFits DEF IInv
  <2>3. page' \in Views /\ page'.at = page.at
    BY <1>2 DEF AskSecondFactor, SignInFails, IInv, Views
  <2> QED
    BY <2>1, <2>2, <2>3, NetKeeps DEF IInv
<1> QED
  BY <1>1, <1>2

LEMMA AskKeeps ==
  ASSUME IInv, NEW u \in Users, NEW kind \in SignIns, Ask(u, kind)
  PROVE  IInv'
<1>1. PICK c : c = [Call(kind, storage, 0) EXCEPT !.user = u]
  OBVIOUS
<1>2. c \in Calls /\ c.kind = kind /\ c.user = u
  BY <1>1, Numbers DEF IInv, Stores, Call, Calls, Kinds
<1>3. CallFits(c, member) /\ c.kind # "create"
  BY <1>2, KindsAre, Numbers DEF CallFits
<1>4. net' = Plus(net, c) /\ UNCHANGED <<storage, auth, scope, cache, member>>
  BY <1>1 DEF Ask
<1>5. NetFits(net', member)
  BY <1>2, <1>3, <1>4, PlusFits DEF IInv
<1>6. page' \in Views /\ page'.at = page.at
  BY DEF Ask, IInv, Views
<1> QED
  BY <1>4, <1>5, <1>6, NetKeeps DEF IInv

LEMMA FormKeeps ==
  ASSUME IInv, \/ \E u \in Users, kind \in {"login", "passkey"} : SubmitPassword(u, kind)
               \/ \E u \in Users, kind \in {"verify", "passkey"} : SubmitSecondFactor(u, kind)
               \/ ResetSecondFactor
  PROVE  IInv'
<1>1. CASE ResetSecondFactor
  <2>1. page' \in Views /\ page'.at = page.at
    BY <1>1 DEF ResetSecondFactor, IInv, Views
  <2> QED
    BY <1>1, <2>1, NetKeeps DEF IInv, ResetSecondFactor
<1>2. CASE \E u \in Users, kind \in SignIns : Ask(u, kind)
  BY <1>2, AskKeeps
<1> QED
  BY <1>1, <1>2, KindsAre DEF SubmitPassword, SubmitSecondFactor

LEMMA LogoutKeeps ==
  ASSUME IInv, Logout
  PROVE  IInv'
<1>1. PICK a : a = [auth EXCEPT !.token = NoUser, !.user = NoUser]
  OBVIOUS
<1>2. a \in Auths /\ a.token = NoUser /\ ~a.loading
  BY <1>1 DEF Logout, IInv, Auths
<1>3. Unfilled(net) \in SUBSET net /\ cache' \in 0..Failed
  BY Numbers DEF Logout, Unfilled
<1> QED
  BY <1>1, <1>2, <1>3, DropKeeps DEF Logout

LEMMA UpdateUserKeeps ==
  ASSUME IInv, UpdateUser
  PROVE  IInv'
<1>1. auth \in Auths /\ storage \in Stores /\ auth.token = storage.token /\ NetFits(net, member)
      /\ (auth.loading => auth.token # NoUser) /\ auth.user # NoUser
  BY DEF IInv, AuthFits, UpdateUser, Known
<1> QED
  BY <1>1, BecomeKeeps DEF UpdateUser, IInv

LEMMA OtherSignsOutKeeps ==
  ASSUME IInv, OtherSignsOut
  PROVE  IInv'
<1>1. PICK a : a = AuthEffect([auth EXCEPT !.token = NoUser])
  OBVIOUS
<1>2. [auth EXCEPT !.token = NoUser] \in Auths /\ [auth EXCEPT !.token = NoUser].token = NoUser
  BY DEF IInv, Auths
<1>3. a \in Auths /\ a.token = NoUser /\ ~a.loading
  BY <1>1, <1>2, AuthEffectIs
<1> QED
  BY <1>1, <1>3, DropKeeps DEF OtherSignsOut, IInv

LEMMA OtherSignsInKeeps ==
  ASSUME IInv, NEW u \in Users, OtherSignsIn(u)
  PROVE  IInv'
<1>1. PICK a : a = [auth EXCEPT !.token = u]
  OBVIOUS
<1>2. PICK st : st = [storage EXCEPT !.token = u]
  OBVIOUS
<1>3. a \in Auths /\ a.token = u /\ st \in Stores /\ st.token = u /\ u # NoUser /\ a.loading = auth.loading
  BY <1>1, <1>2, Numbers DEF IInv, Auths, Stores
<1>4. ~auth.loading /\ page.at = "login"
  BY DEF OtherSignsIn, IInv, AuthFits
<1>5. NetFits(Plus(net, Call("me", st, 0)), member)
  <2>1. NetFits(net, member) /\ 0 \in 0..MaxWorkspace
    BY Numbers DEF IInv
  <2> QED
    BY <1>3, <2>1, AsksFit
<1>6. storage' = st /\ Become(a, st, Plus(net, Call("me", st, 0))) /\ UNCHANGED <<cache, member>>
  BY <1>1, <1>2 DEF OtherSignsIn
<1>7. cache' \in 0..Failed
  BY <1>6 DEF IInv
<1> QED
  BY <1>3, <1>4, <1>5, <1>6, <1>7, BecomeKeeps
-----------------------------------------------------------------------------
(* Workspaces: what a switch makes of a context, in every way it comes.    *)

LEMMA SwitchedKeeps ==
  ASSUME IInv, NEW w \in 0..MaxWorkspace, NEW st \in Stores, NEW s \in Scopes, NEW calls, NetFits(calls, member),
         Switched(w, st, s, calls), UNCHANGED <<auth, member>>, st.token = storage.token,
         page' \in Views, AuthFits(auth, page'.at), ScopeFits(auth, s, page'.at)
  PROVE  IInv'
<1>1. CASE w = s.ws
  <2>1. storage' = st /\ scope' = s /\ net' = calls /\ cache' = cache
    BY <1>1 DEF Switched
  <2> QED
    BY <2>1 DEF IInv
<1>2. CASE w # s.ws
  <2> DEFINE t == [s EXCEPT !.ws = w]
             r == [st EXCEPT !.ws = w]
  <2>1. storage' = r /\ scope' = t /\ cache' = 0
        /\ net' = IF page.at = "login" THEN Unfilled(calls) ELSE Plus(Unfilled(calls), Call("rows", storage', 0))
    BY <1>2 DEF Switched
  <2>2. w \in 0..Archived
    BY Numbers
  <2>3. t \in Scopes /\ t.loading = s.loading /\ t.heard = s.heard /\ t.list = s.list
    BY <2>2 DEF Scopes
  <2>4. r \in Stores /\ r.token = st.token
    BY <2>2 DEF Stores
  <2> HIDE DEF r, t
  <2>5. 0 \in 0..MaxWorkspace /\ 0 \in 0..Failed
    BY Numbers
  <2>6. NetFits(Unfilled(calls), member)
    BY UnfilledFits
  <2>7. NetFits(Plus(Unfilled(calls), Call("rows", r, 0)), member)
    BY <2>4, <2>5, <2>6, AsksFit
  <2>8. NetFits(net', member)
    BY <2>1, <2>6, <2>7
  <2>9. ScopeFits(auth, t, page'.at)
    BY <2>3 DEF ScopeFits
  <2> QED
    BY <2>1, <2>3, <2>4, <2>5, <2>8, <2>9 DEF IInv
<1> QED
  BY <1>1, <1>2

LEMMA SwitchKeeps ==
  ASSUME IInv, NEW w \in Workspaces, Switch(w)
  PROVE  IInv'
<1>1. w \in 0..MaxWorkspace
  BY Numbers DEF Workspaces
<1>2. Switched(w, storage, scope, net) /\ UNCHANGED <<auth, page, member>>
  BY DEF Switch
<1> QED
  BY <1>1, <1>2, SwitchedKeeps DEF IInv

LEMMA ChosenIs ==
  ASSUME IInv, NEW S, Segment(S)
  PROVE  Chosen(S) \in 0..Archived /\ Chosen(S) = Target(storage.ws, S)
<1>1. S # {} /\ Min(S) = 1
  BY OldestIs
<1>2. storage.ws \in 0..Archived /\ 1 \in 0..Archived
  BY Numbers DEF IInv, Stores
<1> QED
  BY <1>1, <1>2 DEF Chosen, Target

(* What the list's answer leaves, whether it came or failed. *)
LEMMA LoadedKeeps ==
  ASSUME IInv, NEW c \in net, NEW st \in Stores, NEW s \in Scopes, Loaded(c, st, s), UNCHANGED <<auth, member>>,
         st.token = storage.token, s.heard # "none"
  PROVE  IInv'
<1>1. NetFits(net \ {c}, member) /\ c.then \in 0..MaxWorkspace
  BY LessFits DEF IInv, NetFits, CallFits, Calls
<1>2. CASE c.then = 0
  <2>1. storage' = st /\ scope' = s /\ net' = net \ {c} /\ UNCHANGED <<cache, page>>
    BY <1>2 DEF Loaded
  <2> QED
    BY <1>1, <2>1 DEF IInv, ScopeFits
<1>3. CASE c.then # 0
  <2>1. Switched(c.then, st, s, net \ {c}) /\ page' = [page EXCEPT !.at = Guarded("settings", auth)]
    BY <1>3 DEF Loaded
  <2>2. Guarded("settings", auth) \in {"settings", "login"}
    BY DEF Guarded
  <2>3. page' \in Views /\ page'.at = Guarded("settings", auth)
    BY <2>1, <2>2 DEF IInv, Views, Routes
  <2>4. AuthFits(auth, page'.at)
    BY <2>3 DEF AuthFits, Guarded, IInv
  <2>5. ScopeFits(auth, s, page'.at)
    BY <2>2, <2>3 DEF ScopeFits
  <2> QED
    BY <1>1, <2>1, <2>3, <2>4, <2>5, SwitchedKeeps
<1> QED
  BY <1>2, <1>3

LEMMA ListKeeps ==
  ASSUME IInv, NEW c \in net, List(c) \/ ListFails(c)
  PROVE  IInv'
<1>1. CASE List(c)
  <2>1. c.user \in Users
    BY <1>1 DEF List, IInv, NetFits, CallFits, Calls
  <2>2. PICK seen : seen = member[c.user]
    OBVIOUS
  <2>3. seen \subseteq Workspaces /\ Segment(seen)
    BY <2>1, <2>2 DEF IInv
  <2>4. PICK ws \in 0..Archived : ws = Chosen(seen)
    BY <2>3, ChosenIs
  <2>5. PICK st : st = [storage EXCEPT !.ws = ws]
    OBVIOUS
  <2>6. PICK s : s = [ws |-> ws, list |-> seen, loading |-> FALSE, heard |-> "ok"]
    OBVIOUS
  <2>7. st \in Stores /\ st.token = storage.token
    BY <2>5 DEF IInv, Stores
  <2>8. s \in Scopes /\ s.heard # "none"
    BY <2>3, <2>6 DEF Scopes
  <2>9. Loaded(c, st, s) /\ UNCHANGED <<auth, member>>
    BY <1>1, <2>2, <2>4, <2>5, <2>6 DEF List
  <2> QED
    BY <2>7, <2>8, <2>9, LoadedKeeps
<1>2. CASE ListFails(c)
  <2>1. PICK s : s = [scope EXCEPT !.list = {}, !.loading = FALSE, !.heard = "failed"]
    OBVIOUS
  <2>2. s \in Scopes /\ s.heard # "none"
    BY <2>1 DEF IInv, Scopes
  <2>3. Loaded(c, storage, s) /\ UNCHANGED <<auth, member>>
    BY <1>2, <2>1 DEF ListFails
  <2> QED
    BY <2>2, <2>3, LoadedKeeps DEF IInv
<1> QED
  BY <1>1, <1>2

LEMMA CreateKeeps ==
  ASSUME IInv, Create
  PROVE  IInv'
<1>1. PICK c : c = Call("create", storage, 0)
  OBVIOUS
<1>2. storage \in Stores /\ auth.token \in Users /\ storage.token = auth.token /\ 0 \in 0..MaxWorkspace
  BY Numbers DEF IInv, Create, Known, Auths
<1>3. c \in Calls /\ c.kind = "create" /\ c.user = auth.token
  BY <1>1, <1>2, CallIs, KindsAre
<1>4. CallFits(c, member)
  BY <1>2, <1>3, KindsAre DEF CallFits, Create
<1>5. \A d \in net : d.kind # "create"
  BY DEF Create, Creating
<1>6. net' = Plus(net, c) /\ UNCHANGED <<storage, auth, scope, page, cache, member>>
  BY <1>1 DEF Create
<1>7. NetFits(net', member)
  BY <1>3, <1>4, <1>5, <1>6, PlusFits DEF IInv
<1> QED
  BY <1>6, <1>7, NetKeeps DEF IInv

(* The only request for a workspace is answered, so no other wants for room. *)
LEMMA CreatedKeeps ==
  ASSUME IInv, NEW c \in net, Created(c)
  PROVE  IInv'
<1>1. c.kind = "create" /\ c.user \in Users /\ member[c.user] # Workspaces
  BY DEF Created, IInv, NetFits, CallFits
<1>2. PICK w : w = Min(Workspaces \ member[c.user])
  OBVIOUS
<1>3. Segment(member[c.user]) /\ member \in [Users -> SUBSET Workspaces]
  BY <1>1 DEF IInv
<1>4. w \in Workspaces /\ Segment(member[c.user] \cup {w})
  BY <1>1, <1>2, <1>3, YoungestIs
<1>5. /\ member' = [member EXCEPT ![c.user] = @ \cup {w}]
      /\ net' = Plus(net \ {c}, Call("list", storage, w))
      /\ scope' = [scope EXCEPT !.loading = TRUE]
      /\ UNCHANGED <<storage, auth, page, cache>>
  BY <1>2 DEF Created
<1>6. member' \in [Users -> SUBSET Workspaces] /\ \A u \in Users : Segment(member'[u])
  BY <1>3, <1>4, <1>5 DEF IInv
<1>7. NetFits(net \ {c}, member')
  <2>1. \A d \in net \ {c} : CallFits(d, member) /\ d.kind # "create"
    BY <1>1 DEF IInv, NetFits
  <2> QED
    BY <2>1 DEF NetFits, CallFits
<1>8. NetFits(net', member')
  <2>1. w \in 0..MaxWorkspace /\ storage \in Stores
    BY <1>4, Numbers DEF IInv, Workspaces
  <2>2. NetFits(Plus(net \ {c}, Call("list", storage, w)), member')
    BY <1>7, <2>1, AsksFit
  <2> QED
    BY <1>5, <2>2
<1>9. scope' \in Scopes /\ ScopeFits(auth, scope', page.at)
  <2>1. scope' \in Scopes /\ scope'.loading /\ scope'.heard = scope.heard /\ scope'.list = scope.list
    BY <1>5 DEF IInv, Scopes
  <2> QED
    BY <2>1 DEF IInv, ScopeFits
<1> QED
  BY <1>5, <1>6, <1>8, <1>9 DEF IInv

(* Rows come and go. *)
LEMMA RowsKeep ==
  ASSUME IInv, FetchRows \/ \E c \in net : CreateFails(c) \/ Rows(c) \/ RowsFail(c)
  PROVE  IInv'
<1>1. CASE FetchRows
  <2>1. storage \in Stores /\ 0 \in 0..MaxWorkspace /\ NetFits(net, member)
    BY Numbers DEF IInv
  <2>2. NetFits(Plus(net, Call("rows", storage, 0)), member)
    BY <2>1, AsksFit
  <2> QED
    BY <1>1, <2>2, NetKeeps DEF FetchRows, IInv
<1>2. ASSUME NEW c \in net, CreateFails(c) \/ Rows(c) \/ RowsFail(c) PROVE IInv'
  <2>1. net' = net \ {c} /\ UNCHANGED <<storage, auth, scope, page, member>>
    BY <1>2 DEF CreateFails, Rows, RowsFail
  <2>2. NetFits(net', member)
    BY <2>1, LessFits DEF IInv
  <2>3. cache' \in 0..Failed
    <3>1. CASE Rows(c)
      <4>1. c.user \in Users
        BY <3>1 DEF Rows, IInv, NetFits, CallFits, Calls
      <4>2. Segment(member[c.user])
        BY <4>1 DEF IInv
      <4>3. member[c.user] \subseteq Workspaces /\ Min(member[c.user]) = 1
        BY <4>2, OldestIs
      <4>4. Served(c) \in Workspaces \cup {Failed}
        BY <4>3, Numbers DEF Served, Workspaces
      <4> QED
        BY <3>1, <4>4, Numbers DEF Rows, IInv, Workspaces
    <3>2. CASE CreateFails(c) \/ RowsFail(c)
      BY <3>2, Numbers DEF CreateFails, RowsFail, IInv
    <3> QED
      BY <1>2, <3>1, <3>2
  <2> QED
    BY <2>1, <2>2, <2>3, NetKeeps DEF IInv
<1> QED
  BY <1>1, <1>2

LEMMA NavigateKeeps ==
  ASSUME IInv, Bounce \/ \E at \in Routes : Navigate(at)
  PROVE  IInv'
<1>1. CASE Bounce
  <2>1. page' \in Views /\ page'.at = "home" /\ UNCHANGED <<storage, auth, scope, cache, net, member>>
    BY <1>1 DEF Bounce, IInv, Views, Routes
  <2>2. AuthFits(auth, "home") /\ ScopeFits(auth, scope, "home")
    BY <1>1 DEF Bounce, TurnedAway, IInv, AuthFits, ScopeFits
  <2> QED
    BY <2>1, <2>2 DEF IInv
<1>2. ASSUME NEW at \in Routes, Navigate(at) PROVE IInv'
  <2>1. page' \in Views /\ page'.at = at /\ UNCHANGED <<storage, auth, scope, cache, net, member>>
    BY <1>2 DEF Navigate, IInv, Views
  <2>2. AuthFits(auth, at)
    BY <1>2 DEF Navigate, IInv, AuthFits
  <2>3. ScopeFits(auth, scope, at)
    BY <1>2 DEF Navigate, HasModule, IInv, ScopeFits
  <2> QED
    BY <2>1, <2>2, <2>3 DEF IInv
<1> QED
  BY <1>1, <1>2

LEMMA OtherChoosesKeeps ==
  ASSUME IInv, NEW w \in Workspaces, OtherChooses(w)
  PROVE  IInv'
<1>1. w \in 0..Archived
  BY Numbers DEF Workspaces
<1>2. storage' \in Stores /\ storage'.token = storage.token
  BY <1>1 DEF OtherChooses, IInv, Stores
<1> QED
  BY <1>2 DEF OtherChooses, IInv
-----------------------------------------------------------------------------
LEMMA InitIInv == Init => IInv
<1> SUFFICES ASSUME Init PROVE IInv
  OBVIOUS
<1>1. storage \in Stores
  <2>1. {0, Archived} \cup Joined \subseteq 0..Archived
    BY Numbers DEF Workspaces
  <2>2. storage \in [token : Users \cup {NoUser}, ws : {0, Archived} \cup Joined]
    BY DEF Init
  <2> QED
    BY <2>1, <2>2 DEF Stores
<1>2. auth = [token |-> storage.token, user |-> NoUser, loading |-> storage.token # NoUser]
  BY DEF Init
<1>3. auth \in Auths /\ auth.token = storage.token /\ (auth.loading <=> auth.token # NoUser)
  BY <1>1, <1>2 DEF Auths, Stores
<1>4. scope \in Scopes /\ scope.list = {} /\ scope.heard = "none"
  BY <1>1, <1>3, Numbers DEF Init, Scopes, Stores
<1>5. page \in Views /\ AuthFits(auth, page.at) /\ ScopeFits(auth, scope, page.at)
  <2>1. page \in Views /\ page.at = Guarded(page.at, auth)
    BY DEF Init, Views
  <2>2. ~auth.loading => page.at = "login"
    BY <1>3, <2>1 DEF Guarded
  <2> QED
    BY <1>3, <1>4, <2>1, <2>2 DEF AuthFits, ScopeFits
<1>6. NetFits(net, member)
  <2>1. 0 \in 0..MaxWorkspace
    BY Numbers
  <2>2. auth.loading => NetFits({Call("me", storage, 0)}, member)
    <3>1. NetFits({}, member)
      BY DEF NetFits
    <3> QED
      BY <1>1, <1>3, <2>1, <3>1, AsksFit
  <2>3. NetFits({}, member)
    BY DEF NetFits
  <2> QED
    BY <2>2, <2>3 DEF Init
<1>7. member \in [Users -> SUBSET Workspaces] /\ \A u \in Users : Segment(member[u])
  BY Numbers DEF Init
<1>8. cache \in 0..Failed
  BY Numbers DEF Init
<1> QED
  BY <1>1, <1>3, <1>4, <1>5, <1>6, <1>7, <1>8 DEF IInv

LEMMA NextIInv == IInv /\ [Next]_vars => IInv'
<1> SUFFICES ASSUME IInv, [Next]_vars PROVE IInv'
  OBVIOUS
<1>1. CASE UNCHANGED vars
  BY <1>1 DEF vars, IInv
<1>2. ASSUME NEW c \in net, Answer(c) PROVE IInv'
  BY <1>2, MeKeeps, MeFailsKeeps, UnauthorizedKeeps, SignInKeeps, ListKeeps, CreatedKeeps, RowsKeep DEF Answer
<1>3. ASSUME NEW at \in Routes, Reload(at) \/ Navigate(at) PROVE IInv'
  BY <1>3, ReloadKeeps, NavigateKeeps
<1>4. CASE \/ \E u \in Users, kind \in {"login", "passkey"} : SubmitPassword(u, kind)
           \/ \E u \in Users, kind \in {"verify", "passkey"} : SubmitSecondFactor(u, kind)
           \/ ResetSecondFactor
  BY <1>4, FormKeeps
<1>5. CASE Logout \/ UpdateUser \/ Create \/ FetchRows \/ Bounce
  BY <1>5, LogoutKeeps, UpdateUserKeeps, CreateKeeps, RowsKeep, NavigateKeeps
<1>6. ASSUME NEW w \in Workspaces, Switch(w) \/ OtherChooses(w) PROVE IInv'
  BY <1>6, SwitchKeeps, OtherChoosesKeeps
<1>7. CASE OtherSignsOut \/ \E u \in Users : OtherSignsIn(u)
  BY <1>7, OtherSignsOutKeeps, OtherSignsInKeeps
<1> QED
  BY <1>1, <1>2, <1>3, <1>4, <1>5, <1>6, <1>7 DEF Next

LEMMA IInvHolds == Spec => []IInv
BY InitIInv, NextIInv, PTL DEF Spec

(* The state of the tab, its storage and its requests have their types. *)
THEOREM TypeCorrect == Spec => []TypeOK
<1>1. IInv => TypeOK
  BY DEF IInv, TypeOK, Stores, Auths, Scopes, Views, Calls, NetFits, CallFits
<1> QED
  BY <1>1, IInvHolds, PTL

(* A page behind ModuleRoute is turned away only once the list of workspaces *)
(* was answered, for any number of accounts: whatever signs in or out in     *)
(* between starts the waiting over.                                          *)
THEOREM NoHastyVerdict == Spec => []NoVerdictBeforeTheList
<1>1. IInv => NoVerdictBeforeTheList
  BY DEF IInv, ScopeFits, NoVerdictBeforeTheList, TurnedAway
<1> QED
  BY <1>1, IInvHolds, PTL
-----------------------------------------------------------------------------
(* One account: what the workspaces of the user are.                       *)

LEMMA SeenIs ==
  ASSUME IInv, NEW u \in Users
  PROVE  /\ Segment(member[u]) /\ 1 \in member[u] /\ member[u] \subseteq Workspaces
         /\ 0 \notin Workspaces /\ Archived \notin Workspaces /\ Failed \notin Workspaces
<1>1. Segment(member[u])
  BY DEF IInv
<1>2. 1 \in member[u] /\ member[u] \subseteq Workspaces
  BY <1>1, OldestIs
<1>3. 0 \notin Workspaces /\ Archived \notin Workspaces /\ Failed \notin Workspaces
  BY Numbers DEF Workspaces
<1> QED
  BY <1>1, <1>2, <1>3

(* A step that is quiet keeps the rows to the workspace. *)
LEMMA QuietFollows ==
  ASSUME IInv, NEW u \in Users, ScopeInv(u), Quiet
  PROVE  Follows(u)
<1>1. Failed \notin Workspaces /\ 0 \notin Workspaces
  BY SeenIs
<1>2. PICK seen : seen = member[u] /\ seen = member'[u]
  BY DEF Quiet
<1>3. /\ storage'.ws \in {0, Archived} \cup seen
      /\ scope'.list \subseteq seen
      /\ scope'.ws \in scope'.list => storage'.ws = scope'.ws
      /\ cache' \in Workspaces => cache' \in seen /\ cache' = Target(storage'.ws, seen)
  BY <1>1, <1>2 DEF Quiet, ScopeInv, Scoped
<1>4. ASSUME NEW c \in net'
      PROVE  /\ c.kind = "rows" => RowsFit(c, storage'.ws, seen)
             /\ c.kind = "list" => c.then \in {0} \cup seen
  <2>1. c \in net \/ c.kind \notin {"rows", "list"} \/ (c.kind = "list" /\ c.then = 0)
    BY DEF Quiet, Harmless
  <2> QED
    BY <1>2, <2>1 DEF Quiet, ScopeInv, Scoped
<1>5. Scoped(storage', scope', cache', net', seen)
  BY <1>3, <1>4 DEF Scoped
<1>6. ScopeInv(u)'
  BY <1>2, <1>5 DEF ScopeInv
<1>7. Carries
  BY DEF Quiet, Harmless, Carries
<1> QED
  BY <1>6, <1>7 DEF Follows, Quiet

LEMMA PlusHarmless ==
  ASSUME NEW calls, \A c \in calls : Harmless(c), NEW kind \in Kinds, NEW st \in Stores,
         NEW then \in 0..MaxWorkspace, kind # "rows", kind = "list" => then = 0
  PROVE  \A c \in Plus(calls, Call(kind, st, then)) : Harmless(c)
<1>1. Call(kind, st, then) \in Calls /\ Call(kind, st, then).kind = kind /\ Call(kind, st, then).then = then
  BY CallIs
<1>2. PICK d \in Calls : Plus(calls, Call(kind, st, then)) = calls \cup {d} /\ d.kind = kind /\ d.then = then
  BY <1>1, PlusIs
<1>3. Harmless(d)
  BY <1>2 DEF Harmless
<1> QED
  BY <1>2, <1>3

LEMMA BecomeIsQuiet ==
  ASSUME NEW st \in Stores, NEW a, NEW calls, \A c \in calls : Harmless(c), Become(a, st, calls),
         storage'.ws = storage.ws, cache' \in {cache, 0, Failed}, member' = member
  PROVE  Quiet
<1>1. scope' = ScopeEffect(a, scope) /\ net' = ScopeCalls(a, st, calls)
  BY DEF Become
<1>2. scope'.list = {} \/ (scope'.ws = scope.ws /\ scope'.list = scope.list)
  BY <1>1 DEF ScopeEffect
<1>3. "list" \in Kinds /\ 0 \in 0..MaxWorkspace
  BY KindsAre, Numbers
<1>4. \A c \in Plus(calls, Call("list", st, 0)) : Harmless(c)
  BY <1>3, PlusHarmless
<1>5. \A c \in net' : Harmless(c)
  BY <1>1, <1>4 DEF ScopeCalls
<1> QED
  BY <1>2, <1>5 DEF Quiet

LEMMA FreshIsQuiet ==
  ASSUME NEW st \in Stores, NEW at, Fresh(st, at), st.ws = storage.ws, member' = member
  PROVE  Quiet
<1> DEFINE a == AuthEffect([token |-> st.token, user |-> NoUser, loading |-> TRUE])
           s == [ws |-> st.ws, list |-> {}, loading |-> TRUE, heard |-> "none"]
<1>1. storage' = st /\ scope' = ScopeEffect(a, s) /\ cache' = 0
      /\ net' = IF a.token = NoUser THEN {} ELSE {Call("me", st, 0)}
  BY DEF Fresh
<1>2. s.list = {}
  OBVIOUS
<1> HIDE DEF a, s
<1>3. scope'.list = {}
  BY <1>1, <1>2 DEF ScopeEffect
<1>4. Call("me", st, 0).kind = "me"
  BY DEF Call
<1>5. \A c \in net' : Harmless(c)
  BY <1>1, <1>4 DEF Harmless
<1> QED
  BY <1>1, <1>3, <1>5 DEF Quiet
-----------------------------------------------------------------------------
(* The actions that are quiet.                                             *)

(* Signing in and out writes the token alone. *)
LEMMA TokenOnly ==
  ASSUME IInv, NEW t \in Users \cup {NoUser}
  PROVE  [storage EXCEPT !.token = t] \in Stores /\ [storage EXCEPT !.token = t].ws = storage.ws
BY DEF IInv, Stores

LEMMA MeIsQuiet ==
  ASSUME IInv, NEW c \in net, Me(c) \/ MeFails(c)
  PROVE  Quiet
<1>1. \A d \in net \ {c} : Harmless(d)
  BY DEF Harmless
<1>2. storage \in Stores
  BY DEF IInv
<1>3. CASE Me(c)
  <2>1. PICK a : Become(a, storage, net \ {c})
    BY <1>3 DEF Me
  <2> QED
    BY <1>1, <1>2, <1>3, <2>1, BecomeIsQuiet DEF Me
<1>4. CASE MeFails(c) /\ c.then = 0
  <2>1. PICK a : Become(a, storage', net \ {c})
    BY <1>4 DEF MeFails
  <2>2. storage' \in Stores /\ storage'.ws = storage.ws
    <3>1. storage' = [storage EXCEPT !.token = NoUser]
      BY <1>4 DEF MeFails
    <3> QED
      BY <3>1, TokenOnly
  <2>3. PICK st \in Stores : st = storage'
    BY <2>2
  <2> QED
    BY <1>1, <1>4, <2>1, <2>2, <2>3, BecomeIsQuiet DEF MeFails
<1>5. CASE MeFails(c) /\ c.then # 0
  BY <1>1, <1>5 DEF MeFails, Quiet
<1> QED
  BY <1>3, <1>4, <1>5

LEMMA LoadingIsQuiet ==
  ASSUME IInv, \/ \E c \in net : Unauthorized(c)
               \/ \E at \in Routes : Reload(at)
  PROVE  Quiet
<1>1. [storage EXCEPT !.token = NoUser] \in Stores /\ [storage EXCEPT !.token = NoUser].ws = storage.ws
  BY TokenOnly
<1>2. storage \in Stores
  BY DEF IInv
<1> QED
  BY <1>1, <1>2, FreshIsQuiet DEF Unauthorized, Reload

LEMMA SignedInIsQuiet ==
  ASSUME IInv, NEW u \in Users, NEW calls \in SUBSET net, SignedIn(u, calls)
  PROVE  Quiet
<1> DEFINE a == [auth EXCEPT !.token = u]
           st == [storage EXCEPT !.token = u]
           asked == Plus(calls, Call("me", st, 1))
<1>1. st \in Stores /\ st.ws = storage.ws
  BY TokenOnly
<1>2. storage' = st /\ UNCHANGED <<cache, member>>
  BY DEF SignedIn
<1>3. 0 \in 0..MaxWorkspace /\ 1 \in 0..MaxWorkspace /\ "me" \in Kinds /\ "list" \in Kinds
  BY Numbers, KindsAre
<1>4. (a = auth /\ net' = asked /\ UNCHANGED scope)
      \/ (scope' = ScopeEffect(a, scope) /\ net' = ScopeCalls(a, st, Plus(asked, Call("me", st, 0))))
  BY DEF SignedIn
<1> HIDE DEF a, st
<1>5. \A c \in calls : Harmless(c)
  BY DEF Harmless
<1>6. \A c \in asked : Harmless(c)
  BY <1>1, <1>3, <1>5, PlusHarmless
<1> HIDE DEF asked
<1>7. \A c \in Plus(asked, Call("me", st, 0)) : Harmless(c)
  BY <1>1, <1>3, <1>6, PlusHarmless
<1>8. \A c \in Plus(Plus(asked, Call("me", st, 0)), Call("list", st, 0)) : Harmless(c)
  BY <1>1, <1>3, <1>7, PlusHarmless
<1>9. scope'.list = {} \/ (scope'.ws = scope.ws /\ scope'.list = scope.list)
  <2>1. scope' = scope \/ scope' = ScopeEffect(a, scope)
    BY <1>4
  <2>2. scope \in Scopes
    BY DEF IInv
  <2> QED
    BY <2>1, <2>2 DEF ScopeEffect, Scopes
<1>10. \A c \in net' : Harmless(c)
  BY <1>4, <1>6, <1>7, <1>8 DEF ScopeCalls
<1> QED
  BY <1>1, <1>2, <1>9, <1>10 DEF Quiet

(* A request less, or one of the sign-in form more. *)
LEMMA FormIsQuiet ==
  ASSUME IInv, \/ \E c \in net : AskSecondFactor(c) \/ SignInFails(c) \/ SignInOk(c) \/ CreateFails(c) \/ RowsFail(c)
               \/ \E u \in Users, kind \in {"login", "passkey"} : SubmitPassword(u, kind)
               \/ \E u \in Users, kind \in {"verify", "passkey"} : SubmitSecondFactor(u, kind)
               \/ ResetSecondFactor
  PROVE  Quiet
<1>1. ASSUME NEW c \in net, AskSecondFactor(c) \/ SignInFails(c) \/ CreateFails(c) \/ RowsFail(c) PROVE Quiet
  <2>1. net' = net \ {c} /\ UNCHANGED <<storage, scope, member>> /\ cache' \in {cache, 0, Failed}
    BY <1>1 DEF AskSecondFactor, SignInFails, CreateFails, RowsFail
  <2> QED
    BY <2>1 DEF Quiet, Harmless
<1>2. ASSUME NEW c \in net, SignInOk(c) PROVE Quiet
  <2>1. c.user \in Users
    BY <1>2 DEF SignInOk, IInv, NetFits, CallFits, Calls
  <2> QED
    BY <1>2, <2>1, SignedInIsQuiet DEF SignInOk
<1>3. ASSUME NEW u \in Users, NEW kind \in SignIns, Ask(u, kind) PROVE Quiet
  <2>1. PICK c : c = [Call(kind, storage, 0) EXCEPT !.user = u]
    OBVIOUS
  <2>2. c \in Calls /\ c.kind = kind
    BY <2>1, Numbers DEF IInv, Stores, Call, Calls, Kinds
  <2>3. PICK d \in Calls : Plus(net, c) = net \cup {d} /\ d.kind = kind
    BY <2>2, PlusIs
  <2>4. Harmless(d)
    BY <2>3, KindsAre DEF Harmless
  <2>5. net' = net \cup {d} /\ UNCHANGED <<storage, scope, cache, member>>
    BY <1>3, <2>1, <2>3 DEF Ask
  <2> QED
    BY <2>4, <2>5 DEF Quiet, Harmless
<1>4. CASE ResetSecondFactor
  BY <1>4 DEF ResetSecondFactor, Quiet, Harmless
<1> QED
  BY <1>1, <1>2, <1>3, <1>4, KindsAre DEF SubmitPassword, SubmitSecondFactor

LEMMA SignsAreQuiet ==
  ASSUME IInv, Logout \/ UpdateUser \/ OtherSignsOut \/ \E u \in Users : OtherSignsIn(u)
  PROVE  Quiet
<1>1. storage \in Stores /\ (\A c \in net : Harmless(c)) /\ (\A c \in Unfilled(net) : Harmless(c))
  BY DEF IInv, Harmless, Unfilled
<1>2. CASE UpdateUser
  BY <1>1, <1>2, BecomeIsQuiet DEF UpdateUser
<1>3. CASE Logout \/ OtherSignsOut
  <2>1. \E a : Become(a, storage', net) \/ Become(a, storage', Unfilled(net))
    BY <1>3 DEF Logout, OtherSignsOut
  <2>2. storage' \in Stores /\ storage'.ws = storage.ws
    BY <1>3, TokenOnly DEF Logout, OtherSignsOut
  <2>3. PICK st \in Stores : st = storage'
    BY <2>2
  <2>4. cache' \in {cache, 0, Failed} /\ member' = member
    BY <1>3 DEF Logout, OtherSignsOut
  <2> QED
    <3>1. PICK a : Become(a, st, net) \/ Become(a, st, Unfilled(net))
      BY <2>1, <2>3
    <3> QED
      BY <1>1, <2>2, <2>4, <3>1, BecomeIsQuiet
<1>4. ASSUME NEW u \in Users, OtherSignsIn(u) PROVE Quiet
  <2>1. storage' \in Stores /\ storage'.ws = storage.ws
    BY <1>4, TokenOnly DEF OtherSignsIn
  <2>2. PICK st \in Stores : st = storage'
    BY <2>1
  <2>3. PICK a : Become(a, st, Plus(net, Call("me", st, 0)))
    BY <1>4, <2>2 DEF OtherSignsIn
  <2>4. "me" \in Kinds /\ 0 \in 0..MaxWorkspace
    BY KindsAre, Numbers
  <2>5. \A c \in Plus(net, Call("me", st, 0)) : Harmless(c)
    BY <1>1, <2>4, PlusHarmless
  <2> QED
    BY <1>4, <2>1, <2>2, <2>3, <2>5, BecomeIsQuiet DEF OtherSignsIn
<1> QED
  BY <1>2, <1>3, <1>4

LEMMA PagesAreQuiet ==
  ASSUME IInv, Bounce \/ Create \/ \E at \in Routes : Navigate(at)
  PROVE  Quiet
<1>1. CASE Create
  <2>1. storage \in Stores /\ "create" \in Kinds /\ 0 \in 0..MaxWorkspace /\ \A c \in net : Harmless(c)
    BY KindsAre, Numbers DEF IInv, Harmless
  <2>2. \A c \in Plus(net, Call("create", storage, 0)) : Harmless(c)
    BY <2>1, PlusHarmless
  <2> QED
    BY <1>1, <2>2 DEF Create, Quiet
<1>2. CASE Bounce \/ \E at \in Routes : Navigate(at)
  BY <1>2 DEF Bounce, Navigate, Quiet, Harmless
<1> QED
  BY <1>1, <1>2
-----------------------------------------------------------------------------
(* The actions that are not.                                               *)

(* A request for rows that is sent now fits the workspace in storage. *)
LEMMA RowsSentFit ==
  ASSUME NEW seen, 0 \notin seen, NEW ws \in {0, Archived} \cup seen, NEW c, c.ws = ws
  PROVE  RowsFit(c, ws, seen)
BY DEF RowsFit, Target

LEMMA FetchRowsFollows ==
  ASSUME IInv, NEW u \in Users, ScopeInv(u), FetchRows
  PROVE  Follows(u)
<1>1. net' = Plus(net, Call("rows", storage, 0)) /\ UNCHANGED <<storage, scope, cache, member>>
  BY DEF FetchRows
<1>2. storage \in Stores /\ "rows" \in Kinds /\ 0 \in 0..MaxWorkspace
  BY KindsAre, Numbers DEF IInv
<1>3. PICK d \in Calls : net' = net \cup {d} /\ d.kind = "rows" /\ d.ws = storage.ws
  BY <1>1, <1>2, CallIs, PlusIs
<1>4. 0 \notin member[u] /\ storage.ws \in {0, Archived} \cup member[u]
  BY SeenIs DEF ScopeInv, Scoped
<1>5. RowsFit(d, storage.ws, member[u])
  BY <1>3, <1>4, RowsSentFit
<1>6. ScopeInv(u)'
  BY <1>1, <1>3, <1>5 DEF ScopeInv, Scoped
<1>7. Carries
  BY <1>1, <1>3 DEF Carries, ScopeInv, Scoped
<1> QED
  BY <1>1, <1>6, <1>7 DEF Follows

LEMMA RowsFollow ==
  ASSUME IInv, NEW u, Users = {u}, ScopeInv(u), NEW c \in net, Rows(c)
  PROVE  Follows(u)
<1>1. net' = net \ {c} /\ UNCHANGED <<storage, scope, member>> /\ c.kind = "rows"
      /\ cache' = IF Served(c) = Failed /\ cache # 0 THEN cache ELSE Served(c)
  BY DEF Rows
<1>2. c.user = u /\ u \in Users
  BY DEF Rows, IInv, NetFits, CallFits, Calls
<1>3. PICK seen : seen = member[u]
  OBVIOUS
<1>4. seen # {} /\ Min(seen) = 1 /\ 1 \in seen /\ Archived \notin Workspaces /\ Failed \notin Workspaces
      /\ seen \subseteq Workspaces /\ 0 \notin seen
  BY <1>2, <1>3, SeenIs, OldestIs
<1>5. RowsFit(c, storage.ws, seen)
  BY <1>1, <1>3 DEF ScopeInv, Scoped
<1>6. Served(c) = IF c.ws = 0 /\ seen # {} THEN Min(seen) ELSE IF c.ws \in seen THEN c.ws ELSE Failed
  BY <1>2, <1>3 DEF Served
<1>7. Served(c) = Failed \/ (Served(c) \in seen /\ Served(c) = Target(storage.ws, seen))
  BY <1>4, <1>5, <1>6 DEF RowsFit
<1>8. cache' \in Workspaces => cache' \in seen /\ cache' = Target(storage.ws, seen)
  BY <1>1, <1>3, <1>4, <1>7 DEF ScopeInv, Scoped
<1>9. Scoped(storage, scope, cache', net', seen)
  BY <1>1, <1>3, <1>8 DEF ScopeInv, Scoped
<1>10. ScopeInv(u)'
  BY <1>1, <1>3, <1>9 DEF ScopeInv
<1> QED
  BY <1>1, <1>10 DEF Follows, Carries

(* A switch: from what the contexts and storage are about to be. *)
LEMMA SwitchedFollows ==
  ASSUME IInv, NEW u \in Users, NEW w \in member[u], NEW st \in Stores, NEW s \in Scopes,
         NEW calls \in SUBSET net, Scoped(st, s, cache, calls, member[u]),
         Switched(w, st, s, calls), member' = member
  PROVE  Follows(u)
<1>1. PICK seen : seen = member[u] /\ seen = member'[u]
  OBVIOUS
<1>2. CASE w = s.ws
  <2>1. storage' = st /\ scope' = s /\ net' = calls /\ cache' = cache
    BY <1>2 DEF Switched
  <2>2. Scoped(storage', scope', cache', net', seen)
    BY <1>1, <2>1
  <2>3. ScopeInv(u)'
    BY <1>1, <2>2 DEF ScopeInv
  <2> QED
    BY <2>1, <2>3 DEF Follows, Carries
<1>3. CASE w # s.ws
  <2> DEFINE t == [s EXCEPT !.ws = w]
             r == [st EXCEPT !.ws = w]
  <2>1. storage' = r /\ scope' = t /\ cache' = 0
        /\ net' = IF page.at = "login" THEN Unfilled(calls) ELSE Plus(Unfilled(calls), Call("rows", storage', 0))
    BY <1>3 DEF Switched
  <2>2. w \in Workspaces /\ w # 0 /\ 0 \notin seen /\ 0 \notin Workspaces /\ w \in 0..Archived
    BY <1>1, SeenIs, Numbers DEF Workspaces
  <2>3. r \in Stores /\ r.ws = w
    BY <2>2 DEF Stores
  <2>4. t.ws = w /\ t.list = s.list
    BY DEF Scopes
  <2> HIDE DEF r, t
  <2>5. "rows" \in Kinds /\ 0 \in 0..MaxWorkspace
    BY KindsAre, Numbers
  <2>6. PICK d \in Calls : Plus(Unfilled(calls), Call("rows", r, 0)) = Unfilled(calls) \cup {d}
                           /\ d.kind = "rows" /\ d.ws = w
    BY <2>3, <2>5, CallIs, PlusIs
  <2>7. RowsFit(d, w, seen)
    BY <1>1, <2>2, <2>6, RowsSentFit
  <2>8. \A c \in net' : (c \in calls /\ c.kind # "rows") \/ c = d
    BY <2>1, <2>6 DEF Unfilled
  <2>9. \A c \in net' : /\ c.kind = "rows" => RowsFit(c, w, seen)
                        /\ c.kind = "list" => c.then \in {0} \cup seen
    BY <1>1, <2>6, <2>7, <2>8 DEF Scoped
  <2>10. Scoped(storage', scope', cache', net', seen)
    BY <1>1, <2>1, <2>2, <2>3, <2>4, <2>9 DEF Scoped
  <2>11. ScopeInv(u)'
    BY <1>1, <2>10 DEF ScopeInv
  <2>12. Carries
    BY <2>1, <2>4, <2>6, <2>8 DEF Carries
  <2> QED
    BY <2>1, <2>11, <2>12 DEF Follows
<1> QED
  BY <1>2, <1>3

LEMMA SwitchFollows ==
  ASSUME IInv, NEW u \in Users, ScopeInv(u), NEW w \in Workspaces, Switch(w)
  PROVE  Follows(u)
<1>1. w \in member[u] /\ storage \in Stores /\ scope \in Scopes
  BY DEF Switch, ScopeInv, Scoped, IInv
<1> QED
  BY <1>1, SwitchedFollows DEF Switch, ScopeInv

LEMMA LoadedFollows ==
  ASSUME IInv, NEW u \in Users, ScopeInv(u), NEW c \in net, c.kind = "list", NEW st \in Stores, NEW s \in Scopes,
         Scoped(st, s, cache, net \ {c}, member[u]), Loaded(c, st, s), member' = member
  PROVE  Follows(u)
<1>1. CASE c.then = 0
  <2>1. storage' = st /\ scope' = s /\ net' = net \ {c} /\ cache' = cache
    BY <1>1 DEF Loaded
  <2>2. ScopeInv(u)'
    BY <2>1 DEF ScopeInv
  <2> QED
    BY <2>1, <2>2 DEF Follows, Carries
<1>2. CASE c.then # 0
  <2>1. c.then \in member[u]
    BY <1>2 DEF ScopeInv, Scoped
  <2>2. Switched(c.then, st, s, net \ {c})
    BY <1>2 DEF Loaded
  <2>3. net \ {c} \in SUBSET net
    OBVIOUS
  <2> QED
    BY <2>1, <2>2, <2>3, SwitchedFollows
<1> QED
  BY <1>1, <1>2

(* The list chooses the workspace that the rows were kept to all along. *)
LEMMA ListFollows ==
  ASSUME IInv, NEW u, Users = {u}, ScopeInv(u), NEW c \in net, List(c)
  PROVE  Follows(u)
<1>1. c.kind = "list" /\ c.user = u /\ u \in Users
  BY DEF List, IInv, NetFits, CallFits, Calls
<1>2. PICK seen : seen = member[u]
  OBVIOUS
<1>3. Segment(seen) /\ 1 \in seen /\ seen \subseteq Workspaces /\ 0 \notin seen
  BY <1>1, <1>2, SeenIs
<1>4. PICK t : t = Chosen(seen)
  OBVIOUS
<1>5. t \in 0..Archived /\ t = Target(storage.ws, seen)
  BY <1>3, <1>4, ChosenIs
<1>6. t \in seen /\ Target(t, seen) = t
  BY <1>3, <1>5 DEF Target
<1>7. PICK st : st = [storage EXCEPT !.ws = t]
  OBVIOUS
<1>8. PICK s : s = [ws |-> t, list |-> seen, loading |-> FALSE, heard |-> "ok"]
  OBVIOUS
<1>9. Loaded(c, st, s) /\ member' = member
  BY <1>1, <1>2, <1>4, <1>7, <1>8 DEF List
<1>10. st \in Stores /\ st.ws = t
  BY <1>5, <1>7 DEF IInv, Stores
<1>11. s \in Scopes /\ s.ws = t /\ s.list = seen
  BY <1>3, <1>5, <1>8 DEF Scopes
<1>12. cache \in Workspaces => cache \in seen /\ cache = Target(t, seen)
  BY <1>2, <1>5, <1>6 DEF ScopeInv, Scoped
<1>13. ASSUME NEW d \in net \ {c}
       PROVE  /\ d.kind = "rows" => RowsFit(d, t, seen)
              /\ d.kind = "list" => d.then \in {0} \cup seen
  <2>1. /\ d.kind = "rows" => RowsFit(d, storage.ws, seen)
        /\ d.kind = "list" => d.then \in {0} \cup seen
    BY <1>2 DEF ScopeInv, Scoped
  <2>2. RowsFit(d, storage.ws, seen) => RowsFit(d, t, seen)
    BY <1>5, <1>6 DEF RowsFit
  <2> QED
    BY <2>1, <2>2
<1>14. Scoped(st, s, cache, net \ {c}, seen)
  BY <1>6, <1>10, <1>11, <1>12, <1>13 DEF Scoped
<1> QED
  BY <1>1, <1>2, <1>9, <1>10, <1>11, <1>14, LoadedFollows

LEMMA ListFailsFollows ==
  ASSUME IInv, NEW u \in Users, ScopeInv(u), NEW c \in net, ListFails(c)
  PROVE  Follows(u)
<1>1. PICK s : s = [scope EXCEPT !.list = {}, !.loading = FALSE, !.heard = "failed"]
  OBVIOUS
<1>2. s \in Scopes /\ s.list = {}
  BY <1>1 DEF IInv, Scopes
<1>3. Loaded(c, storage, s) /\ member' = member /\ c.kind = "list" /\ storage \in Stores
  BY <1>1 DEF ListFails, IInv
<1>4. Scoped(storage, s, cache, net \ {c}, member[u])
  BY <1>2 DEF ScopeInv, Scoped
<1> QED
  BY <1>2, <1>3, <1>4, LoadedFollows

(* Nothing in the tab names the new workspace yet, but the request to switch to it. *)
LEMMA CreatedFollows ==
  ASSUME IInv, NEW u, Users = {u}, ScopeInv(u), NEW c \in net, Created(c)
  PROVE  Follows(u)
<1>1. c.kind = "create" /\ c.user = u /\ u \in Users /\ member[u] # Workspaces
  BY DEF Created, IInv, NetFits, CallFits
<1>2. PICK seen : seen = member[u]
  OBVIOUS
<1>3. PICK w : w = Min(Workspaces \ seen)
  OBVIOUS
<1>4. Segment(seen) /\ seen \subseteq Workspaces
      /\ 0 \notin Workspaces /\ Archived \notin Workspaces
  BY <1>1, <1>2, SeenIs
<1>5. w \in Workspaces /\ w \notin seen
  BY <1>1, <1>2, <1>3, <1>4, YoungestIs
<1>6. /\ member' = [member EXCEPT ![u] = @ \cup {w}]
      /\ net' = Plus(net \ {c}, Call("list", storage, w))
      /\ scope' = [scope EXCEPT !.loading = TRUE]
      /\ UNCHANGED <<storage, cache>>
  BY <1>1, <1>2, <1>3 DEF Created
<1>7. PICK more : more = seen \cup {w}
  OBVIOUS
<1>8. member'[u] = more
  BY <1>1, <1>2, <1>6, <1>7 DEF IInv
<1>9. storage \in Stores /\ "list" \in Kinds /\ w \in 0..MaxWorkspace
  BY <1>5, KindsAre, Numbers DEF IInv, Workspaces
<1>10. PICK d \in Calls : net' = (net \ {c}) \cup {d} /\ d.kind = "list" /\ d.then = w
  BY <1>6, <1>9, CallIs, PlusIs
<1>11. scope'.ws = scope.ws /\ scope'.list = scope.list
  BY <1>6 DEF IInv, Scopes
<1>12. w \notin {0, Archived} \cup seen
  BY <1>4, <1>5
<1>13. storage.ws \in {0, Archived} \cup seen /\ Target(storage.ws, more) = Target(storage.ws, seen)
  BY <1>2, <1>7, <1>12 DEF ScopeInv, Scoped, Target
<1>14. ASSUME NEW e \in net'
       PROVE  /\ e.kind = "rows" => RowsFit(e, storage.ws, more)
              /\ e.kind = "list" => e.then \in {0} \cup more
  <2>1. CASE e = d
    BY <1>7, <1>10, <2>1
  <2>2. CASE e # d
    <3>1. e \in net
      BY <1>10, <2>2
    <3>2. /\ e.kind = "rows" => RowsFit(e, storage.ws, seen)
          /\ e.kind = "list" => e.then \in {0} \cup seen
      BY <1>2, <3>1 DEF ScopeInv, Scoped
    <3>3. RowsFit(e, storage.ws, seen) => RowsFit(e, storage.ws, more)
      BY <1>7, <1>12, <1>13 DEF RowsFit
    <3> QED
      BY <1>7, <3>2, <3>3
  <2> QED
    BY <2>1, <2>2
<1>15. Scoped(storage, scope', cache, net', more)
  BY <1>2, <1>7, <1>11, <1>13, <1>14 DEF ScopeInv, Scoped
<1>16. ScopeInv(u)'
  BY <1>6, <1>8, <1>15 DEF ScopeInv
<1>17. Carries
  BY <1>10 DEF Carries
<1> QED
  BY <1>6, <1>16, <1>17 DEF Follows

(* Another tab only replaces an id that is nobody's, by the oldest workspace. *)
LEMMA OtherChoosesFollows ==
  ASSUME IInv, NEW u, Users = {u}, "switch" \notin OtherTab, ScopeInv(u), NEW w \in Workspaces, OtherChooses(w)
  PROVE  Follows(u)
<1>1. PICK seen : seen = member[u] /\ seen = member'[u]
  BY DEF OtherChooses
<1>2. Segment(seen) /\ 1 \in seen /\ Min(seen) = 1 /\ 0 \notin seen
  BY <1>1, SeenIs, OldestIs
<1>3. storage.ws \notin seen /\ w = 1
  <2>1. storage.token = NoUser \/ storage.token = u
    BY DEF IInv, Stores
  <2> QED
    BY <1>1, <1>2, <2>1 DEF OtherChooses, OtherPicks
<1>4. storage'.ws = 1 /\ UNCHANGED <<scope, cache, net>>
  BY <1>3 DEF OtherChooses, IInv, Stores
<1>5. Target(storage.ws, seen) = 1 /\ Target(1, seen) = 1
  BY <1>3 DEF Target
<1>6. scope.ws \notin scope.list
  BY <1>1, <1>3 DEF ScopeInv, Scoped
<1>7. \A c : RowsFit(c, storage.ws, seen) => RowsFit(c, 1, seen)
  BY <1>5 DEF RowsFit
<1>8. Scoped(storage', scope, cache, net, seen)
  BY <1>1, <1>2, <1>4, <1>5, <1>6, <1>7 DEF ScopeInv, Scoped
<1>9. ScopeInv(u)'
  BY <1>1, <1>4, <1>8 DEF ScopeInv
<1> QED
  BY <1>4, <1>9 DEF Follows, Carries
-----------------------------------------------------------------------------
LEMMA InitScopeInv ==
  ASSUME NEW u, Users = {u}
  PROVE  Init => ScopeInv(u)
<1> SUFFICES ASSUME Init PROVE ScopeInv(u)
  OBVIOUS
<1>1. member[u] = Joined /\ storage.ws \in {0, Archived} \cup Joined
  BY DEF Init
<1>2. scope.list = {} /\ cache = 0 /\ 0 \notin Workspaces
  BY Numbers DEF Init, Workspaces
<1>3. \A c \in net : c.kind = "me"
  BY DEF Init, Call
<1> QED
  BY <1>1, <1>2, <1>3 DEF ScopeInv, Scoped

LEMMA StepFollows ==
  ASSUME NEW u, Users = {u}, "switch" \notin OtherTab, IInv, ScopeInv(u), [Next]_vars
  PROVE  Follows(u)
<1>1. CASE UNCHANGED vars
  BY <1>1, QuietFollows DEF vars, Quiet, Harmless
<1>2. ASSUME NEW c \in net, Answer(c) PROVE Follows(u)
  BY <1>2, MeIsQuiet, LoadingIsQuiet, FormIsQuiet, QuietFollows,
     ListFollows, ListFailsFollows, CreatedFollows, RowsFollow DEF Answer
<1>3. ASSUME NEW at \in Routes, Reload(at) \/ Navigate(at) PROVE Follows(u)
  BY <1>3, LoadingIsQuiet, PagesAreQuiet, QuietFollows
<1>4. CASE \/ \E v \in Users, kind \in {"login", "passkey"} : SubmitPassword(v, kind)
           \/ \E v \in Users, kind \in {"verify", "passkey"} : SubmitSecondFactor(v, kind)
           \/ ResetSecondFactor
  BY <1>4, FormIsQuiet, QuietFollows
<1>5. CASE Logout \/ UpdateUser \/ OtherSignsOut \/ \E v \in Users : OtherSignsIn(v)
  BY <1>5, SignsAreQuiet, QuietFollows
<1>6. CASE Create \/ Bounce
  BY <1>6, PagesAreQuiet, QuietFollows
<1>7. CASE FetchRows
  BY <1>7, FetchRowsFollows
<1>8. ASSUME NEW w \in Workspaces, Switch(w) \/ OtherChooses(w) PROVE Follows(u)
  BY <1>8, SwitchFollows, OtherChoosesFollows
<1> QED
  BY <1>1, <1>2, <1>3, <1>4, <1>5, <1>6, <1>7, <1>8 DEF Next

LEMMA ScopeInvHolds ==
  ASSUME NEW u, Users = {u}, "switch" \notin OtherTab
  PROVE  Spec => []ScopeInv(u)
<1>1. Init => ScopeInv(u)
  BY InitScopeInv
<1>2. IInv /\ ScopeInv(u) /\ [Next]_vars => ScopeInv(u)'
  BY StepFollows DEF Follows
<1> QED
  BY <1>1, <1>2, IInvHolds, PTL DEF Spec

(* In a browser with one account, the rows on screen are of the workspace that *)
(* the switcher names, whatever answers come late and however often the user   *)
(* signs in and out, here or in another tab.                                   *)
THEOREM RowsAreOfTheActive ==
  ASSUME NEW u, Users = {u}, "switch" \notin OtherTab
  PROVE  Spec => []RowsOfTheActiveWorkspace
<1>1. IInv /\ ScopeInv(u) => RowsOfTheActiveWorkspace
  BY DEF ScopeInv, Scoped, Target, RowsOfTheActiveWorkspace
<1> QED
  BY <1>1, IInvHolds, ScopeInvHolds, PTL

(* There, a request for rows carries the workspace that the tab shows as active, *)
(* though the interceptor reads it from localStorage.                            *)
THEOREM RequestsCarryTheActive ==
  ASSUME NEW u, Users = {u}, "switch" \notin OtherTab
  PROVE  Spec => RequestsCarryTheActiveWorkspace
<1>1. IInv /\ ScopeInv(u) /\ [Next]_vars => Carries
  BY StepFollows DEF Follows
<1>2. Carries => [\A c \in net' \ net : c.kind = "rows" /\ scope'.ws \in scope'.list => c.ws = scope'.ws]_vars
  BY DEF Carries
<1> QED
  BY <1>1, <1>2, IInvHolds, ScopeInvHolds, PTL DEF Spec, RequestsCarryTheActiveWorkspace
-----------------------------------------------------------------------------
(* The refinement: what a step of the tab is to the shell.                 *)

Active == IF scope.ws \in scope.list THEN scope.ws ELSE 0
Shown == IF cache \in Workspaces THEN cache ELSE 0

ShellInv ==
  Active \in 0..MaxWorkspace /\ Shown \in 0..MaxWorkspace /\ (Active # 0 => Shown \in {0, Active})

LEMMA ShellIs ==
  ASSUME IInv, NEW u \in Users, ScopeInv(u)
  PROVE  ShellInv
<1>1. scope.list \subseteq Workspaces /\ Workspaces \subseteq 0..MaxWorkspace /\ 0 \in 0..MaxWorkspace
  BY Numbers DEF IInv, Scopes, Workspaces
<1> QED
  BY <1>1 DEF ShellInv, Active, Shown, ScopeInv, Scoped, Target

LEMMA StepRefines ==
  ASSUME NEW u, ShellInv, ShellInv', Follows(u)
  PROVE  [Scope!Next]_(Scope!vars)
<1>1. Active \in 0..MaxWorkspace /\ Shown \in 0..MaxWorkspace /\ (Active # 0 => Shown \in {0, Active})
  BY DEF ShellInv
<1>2. Active' \in 0..MaxWorkspace /\ Shown' \in 0..MaxWorkspace /\ (Active' # 0 => Shown' \in {0, Active'})
  BY DEF ShellInv
<1>3. Shown' \in {Shown, 0} \/ Active' = Active
  BY Numbers DEF Follows, Active, Shown, Workspaces
<1>4. CASE Shown' = 0
  BY <1>2, <1>4 DEF Scope!Next, Scope!Switch, Scope!Choices, Active, Shown
<1>5. CASE Shown' = Shown /\ Active' = Active
  BY <1>5 DEF Scope!vars, Active, Shown
<1>6. CASE Shown' = Shown /\ Shown' # 0 /\ Active' # Active
  <2>1. CASE Active' = 0
    BY <1>6, <2>1 DEF Scope!Next, Scope!Leave, Active, Shown
  <2>2. CASE Active' # 0
    <3>1. Active = 0 /\ Shown \in {0, Active'}
      BY <1>1, <1>2, <1>6, <2>2
    <3> QED
      BY <1>2, <1>6, <3>1 DEF Scope!Next, Scope!Adopt, Scope!Choices, Active, Shown
  <2> QED
    BY <2>1, <2>2
<1>7. CASE Shown' # Shown /\ Shown' # 0
  <2>1. Active' = Active /\ Shown' \in (0..MaxWorkspace) \ {0} /\ Active \in {0, Shown'}
    BY <1>2, <1>3, <1>7
  <2> QED
    BY <2>1 DEF Scope!Next, Scope!Fill, Scope!Choices, Active, Shown
<1> QED
  BY <1>4, <1>5, <1>6, <1>7

(* There, the tab implements the promise of the shell: a step switches, adopts *)
(* the workspace that fits the rows, fills in rows of the active one, drops    *)
(* them, leaves, or changes nothing that the shell shows.                      *)
THEOREM TabImplementsScope ==
  ASSUME NEW u, Users = {u}, "switch" \notin OtherTab
  PROVE  Spec => ImplementsScope
<1>1. IInv /\ ScopeInv(u) => ShellInv
  BY ShellIs
<1>2. ShellInv /\ Init => Scope!Init
  <2>1. Init => Shown = 0
    BY DEF Init, Shown
  <2> QED
    BY <2>1 DEF ShellInv, Scope!Init, Scope!Choices, Active, Shown
<1>3. ShellInv /\ ShellInv' /\ IInv /\ ScopeInv(u) /\ [Next]_vars => [Scope!Next]_(Scope!vars)
  BY StepFollows, StepRefines
<1> QED
  BY <1>1, <1>2, <1>3, IInvHolds, ScopeInvHolds, PTL DEF Spec, ImplementsScope, Scope!Spec
=============================================================================
