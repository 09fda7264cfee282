-------------------------- MODULE ServicePartsProofs --------------------------
(***************************************************************************)
(* Three parts of the dashboard's service: the session cache follows the   *)
(* accounts and the assistant keeps its books, for every number of users   *)
(* and of concurrent requests; the stored offsets repair a counter, for    *)
(* every history of samples, passes, failures and imports.  They share no  *)
(* state.                                                                  *)
(*                                                                         *)
(* What the session cache holds came through a request's locals, so its    *)
(* invariant says of every copy on its way there what it says of the       *)
(* entry: it is at least as old as the account's last change (Bounded),    *)
(* and a copy that a lookup made and no removal has raced is of an account *)
(* the cache has yet to be cleared of (Known).                             *)
(*                                                                         *)
(* Of a counter, a run over a history is a run over its first part carried *)
(* on over the rest (PassGoesOn), its segments follow one another and end  *)
(* where the next begins (RunChain), and their offsets fit the samples     *)
(* they were made of (WholeFits).  The invariant of the passes (StitchInv) *)
(* adds when the tables are those of the samples as they are now: while no *)
(* import has changed the past, or its request has yet to be cleared.      *)
(***************************************************************************)
EXTENDS UserSessions, Assistant, CounterStitch, FiniteSetTheorems, WellFoundedInduction, TLAPS

\* The account is gone, or has changed since this version of it was read.
Outdated(u, ver) == users[u] = Nil \/ users[u].ver # ver

Bounded(u, ver, age) == Outdated(u, ver) => since[u] <= age

Known(s) == s.by = "request" /\ Outdated(s.user, s.ver) => s.user \in unforgotten

IsEntry(s) ==
  /\ s = [user |-> s.user, ver |-> s.ver, age |-> s.age, left |-> s.left, by |-> s.by]
  /\ s.user \in Users /\ s.age \in 0..CacheTTL

CachedInv(s) == s # Nil => IsEntry(s) /\ Bounded(s.user, s.ver, s.age) /\ Known(s)

IsSignIn(q) ==
  /\ q = [at |-> q.at, user |-> q.user, token |-> q.token, age |-> q.age, ver |-> q.ver]
  /\ q.at \in {"granted", "created"} /\ q.user \in Users /\ q.token \in Tokens
  /\ q.age \in 0..CacheTTL

IsLookup(q) ==
  /\ q = [at |-> q.at, token |-> q.token, raced |-> q.raced, age |-> q.age, s |-> q.s]
  /\ q.at \in {"load", "account", "have", "touched"} /\ q.token \in Tokens
  /\ q.age \in 0..CacheTTL

IsLogout(q) == q = [at |-> "out", token |-> q.token] /\ q.token \in Tokens

SignInInv(q) ==
  /\ q.at = "created" => q.ver # Nil
  /\ q.ver # Nil => Bounded(q.user, q.ver, q.age)

LookupInv(q) ==
  /\ q.at # "load" => IsEntry(q.s)
  /\ q.at = "account" => q.s.by = "request"
  /\ q.at \in {"have", "touched"} =>
       Bounded(q.s.user, q.s.ver, q.s.age) /\ (q.raced \/ Known(q.s))

VisitInv(q) ==
  \/ q = Idle \/ IsLogout(q)
  \/ IsSignIn(q) /\ SignInInv(q)
  \/ IsLookup(q) /\ LookupInv(q)

ManageInv(q) ==
  \/ q = Idle
  \/ /\ q = [at |-> q.at, user |-> q.user, seen |-> q.seen, want |-> q.want]
     /\ q.at \in {"check", "commit"} /\ q.user \in Users
  \/ q = [at |-> "forget", user |-> q.user] /\ q.user \in Users

IsRow(row) == row = [user |-> row.user, left |-> row.left] /\ row.user \in Users

Tables ==
  /\ cache = [t \in Tokens |-> cache[t]] /\ sessionRows = [t \in Tokens |-> sessionRows[t]]
  /\ req = [r \in Visitors \cup Managers |-> req[r]]
  /\ users = [u \in Users |-> users[u]] /\ since \in [Users -> 0..CacheTTL]
  /\ \A t \in Tokens : sessionRows[t] # Nil => IsRow(sessionRows[t])

Inv ==
  /\ Tables
  /\ \A t \in Tokens : CachedInv(cache[t])
  /\ \A r \in Visitors : VisitInv(req[r])
  /\ \A r \in Managers : ManageInv(req[r])

LEMMA SessionsStart == SessionsInit => Inv
<1> SUFFICES ASSUME SessionsInit PROVE Inv
  OBVIOUS
<1>1. Tables
  BY SessionsAssumption DEF SessionsAssumption, SessionsInit, Tables
<1>2. \A t \in Tokens : CachedInv(cache[t])
  BY DEF SessionsInit, CachedInv
<1>3. \A r \in Visitors \cup Managers : req[r] = Idle
  BY DEF SessionsInit
<1> QED
  BY <1>1, <1>2, <1>3 DEF Inv, VisitInv, ManageInv

\* The fields by which Tick and Raced tell requests apart.
LEMMA Fields ==
  ASSUME NEW q
  PROVE /\ q = Idle \/ IsLogout(q) \/ ManageInv(q) =>
             "raced" \notin DOMAIN q /\ "s" \notin DOMAIN q /\ "age" \notin DOMAIN q
        /\ IsSignIn(q) => "raced" \notin DOMAIN q /\ "s" \notin DOMAIN q /\ "age" \in DOMAIN q
        /\ IsLookup(q) => "raced" \in DOMAIN q /\ "s" \in DOMAIN q /\ "age" \in DOMAIN q
<1>1. q = Idle => "raced" \notin DOMAIN q /\ "s" \notin DOMAIN q /\ "age" \notin DOMAIN q
  BY DEF Idle
<1>2. IsLogout(q) => "raced" \notin DOMAIN q /\ "s" \notin DOMAIN q /\ "age" \notin DOMAIN q
  BY DEF IsLogout
<1>3. q = [at |-> q.at, user |-> q.user, seen |-> q.seen, want |-> q.want] =>
        "raced" \notin DOMAIN q /\ "s" \notin DOMAIN q /\ "age" \notin DOMAIN q
  OBVIOUS
<1>4. q = [at |-> "forget", user |-> q.user] =>
        "raced" \notin DOMAIN q /\ "s" \notin DOMAIN q /\ "age" \notin DOMAIN q
  OBVIOUS
<1>5. IsSignIn(q) => "raced" \notin DOMAIN q /\ "s" \notin DOMAIN q /\ "age" \in DOMAIN q
  BY DEF IsSignIn
<1>6. IsLookup(q) => "raced" \in DOMAIN q /\ "s" \in DOMAIN q /\ "age" \in DOMAIN q
  BY DEF IsLookup
<1> QED
  BY <1>1, <1>2, <1>3, <1>4, <1>5, <1>6 DEF ManageInv

MarkRaced(q) == [at |-> q.at, token |-> q.token, raced |-> TRUE, age |-> q.age, s |-> q.s]

LEMMA MarkIsExcept == ASSUME NEW q, IsLookup(q) PROVE [q EXCEPT !.raced = TRUE] = MarkRaced(q)
<1>1. \A x : [q EXCEPT !.raced = x] =
               [at |-> q.at, token |-> q.token, raced |-> x, age |-> q.age, s |-> q.s]
  BY DEF IsLookup
<1> QED
  BY <1>1, Zenon DEF MarkRaced

\* A removal that a lookup did not see marks it, and marks nothing else.
LEMMA RacedMarks ==
  ASSUME Tables, NEW r, NEW q \in Visitors \cup Managers, q # r
  PROVE /\ ~IsLookup(req[q]) /\ (VisitInv(req[q]) \/ ManageInv(req[q])) => Raced(r)[q] = req[q]
        /\ IsLookup(req[q]) => Raced(r)[q] = MarkRaced(req[q])
<1>1. Raced(r)[q] = IF "raced" \in DOMAIN req[q] THEN [req[q] EXCEPT !.raced = TRUE] ELSE req[q]
  BY DEF Raced, Tables
<1>2. ~IsLookup(req[q]) /\ (VisitInv(req[q]) \/ ManageInv(req[q])) => "raced" \notin DOMAIN req[q]
  BY Fields DEF VisitInv
<1>3. IsLookup(req[q]) => "raced" \in DOMAIN req[q]
  BY Fields
<1>4. IsLookup(req[q]) => [req[q] EXCEPT !.raced = TRUE] = MarkRaced(req[q])
  BY MarkIsExcept
<1> QED
  BY <1>1, <1>2, <1>3, <1>4

\* Marking a lookup asks nothing of it.
LEMMA MarkedInv ==
  ASSUME NEW q, IsLookup(q), LookupInv(q)
  PROVE VisitInv(MarkRaced(q))
<1> DEFINE m == MarkRaced(q)
<1>1. m.at = q.at /\ m.token = q.token /\ m.raced = TRUE /\ m.age = q.age /\ m.s = q.s
  BY DEF MarkRaced
<1>2. IsLookup(m)
  BY <1>1 DEF IsLookup, MarkRaced
<1> HIDE DEF m
<1>3. LookupInv(m)
  BY <1>1 DEF LookupInv
<1> QED
  BY <1>2, <1>3 DEF VisitInv, m

\* What the invariant says is about users, since and unforgotten only.
worldVars == <<users, since, unforgotten>>

\* One request moves, in a world that stays as it is.
OneMoves(r) ==
  /\ UNCHANGED worldVars
  /\ cache' = [t \in Tokens |-> cache'[t]] /\ sessionRows' = [t \in Tokens |-> sessionRows'[t]]
  /\ \A t \in Tokens : CachedInv(cache'[t])
  /\ \A t \in Tokens : sessionRows'[t] # Nil => IsRow(sessionRows'[t])
  /\ \/ req' = [req EXCEPT ![r] = req'[r]]
     \/ req' = [Raced(r) EXCEPT ![r] = req'[r]]

LEMMA OthersStay ==
  ASSUME Inv, NEW r \in Visitors \cup Managers, OneMoves(r),
         r \in Visitors => VisitInv(req'[r]), r \in Managers => ManageInv(req'[r])
  PROVE Inv'
<1>1. /\ \A t \in Tokens : CachedInv(cache[t])'
      /\ Tables'
  BY DEF OneMoves, Inv, Tables, CachedInv, Bounded, Known, Outdated, IsEntry, Raced, worldVars
<1>2. ASSUME NEW q \in Visitors PROVE VisitInv(req'[q])
  <2>1. CASE q = r
    BY <2>1
  <2>2. CASE q # r /\ req'[q] = req[q]
    BY <2>2 DEF Inv
  <2>3. CASE q # r /\ req'[q] = Raced(r)[q]
    <3>1. VisitInv(req[q]) /\ Tables
      BY DEF Inv
    <3>2. CASE ~IsLookup(req[q])
      BY <2>3, <3>1, <3>2, RacedMarks
    <3>3. CASE IsLookup(req[q])
      <4>1. LookupInv(req[q])
        BY <3>1, <3>3 DEF VisitInv, IsLookup, Idle, IsLogout, IsSignIn
      <4> QED
        BY <2>3, <3>1, <3>3, <4>1, RacedMarks, MarkedInv
    <3> QED
      BY <3>2, <3>3
  <2>4. q # r => req'[q] = req[q] \/ req'[q] = Raced(r)[q]
    BY DEF OneMoves, Inv, Tables, Raced
  <2> QED
    BY <2>1, <2>2, <2>3, <2>4
<1>3. ASSUME NEW q \in Managers PROVE ManageInv(req'[q])
  <2>1. CASE q = r
    BY <2>1
  <2>2. q # r => ~IsLookup(req[q])
    BY Fields DEF Inv
  <2>3. q # r => req'[q] = req[q] \/ req'[q] = Raced(r)[q]
    BY DEF OneMoves, Inv, Tables, Raced
  <2> QED
    BY <2>1, <2>2, <2>3, RacedMarks DEF Inv
<1>4. \A q : VisitInv(q) <=> VisitInv(q)'
  BY DEF OneMoves, worldVars, VisitInv, SignInInv, LookupInv, Bounded, Known, Outdated
<1> QED
  BY <1>1, <1>2, <1>3, <1>4 DEF Inv

LEMMA GotoMoves ==
  ASSUME Tables, NEW r \in Visitors \cup Managers, NEW q, Goto(r, q)
  PROVE req'[r] = q /\ req' = [req EXCEPT ![r] = req'[r]]
BY DEF Tables, Goto

LEMMA ForgetMoves ==
  ASSUME Inv, NEW r \in Visitors, NEW t \in Tokens, Forget(r, t),
         UNCHANGED <<users, sessionRows, since, unforgotten>>
  PROVE Inv'
<1>1. req'[r] = Idle /\ req' = [Raced(r) EXCEPT ![r] = req'[r]]
  BY DEF Inv, Tables, Forget, Raced
<1>2. OneMoves(r)
  BY <1>1 DEF OneMoves, Inv, Tables, Forget, CachedInv, worldVars
<1>3. VisitInv(req'[r]) /\ r \notin Managers
  BY <1>1, SessionsAssumption DEF VisitInv, SessionsAssumption
<1> QED
  BY <1>2, <1>3, OthersStay

\* A visitor goes on and the cache stays as it is.
LEMMA VisitorMoves ==
  ASSUME Inv, NEW r \in Visitors, NEW q, Goto(r, q), VisitInv(q),
         UNCHANGED <<users, cache, since, unforgotten>>,
         sessionRows' = [t \in Tokens |-> sessionRows'[t]],
         \A t \in Tokens : sessionRows'[t] # Nil => IsRow(sessionRows'[t])
  PROVE Inv'
<1>1. req'[r] = q /\ req' = [req EXCEPT ![r] = req'[r]]
  BY GotoMoves DEF Inv
<1>2. OneMoves(r)
  BY <1>1 DEF OneMoves, Inv, Tables, worldVars
<1>3. r \notin Managers
  BY SessionsAssumption DEF SessionsAssumption
<1> QED
  BY <1>1, <1>2, <1>3, OthersStay

LEMMA VisitorMovesOnly ==
  ASSUME Inv, NEW r \in Visitors, NEW q, Goto(r, q), VisitInv(q),
         UNCHANGED <<users, sessionRows, cache, since, unforgotten>>
  PROVE Inv'
BY VisitorMoves DEF Inv, Tables

\* A visitor ends by putting an entry into the cache.
LEMMA VisitorCaches ==
  ASSUME Inv, NEW r \in Visitors, NEW t \in Tokens, NEW s, Finish(r), CachedInv(s),
         cache' = [cache EXCEPT ![t] = s],
         UNCHANGED <<users, sessionRows, since, unforgotten>>
  PROVE Inv'
<1>1. req'[r] = Idle /\ req' = [req EXCEPT ![r] = req'[r]]
  BY GotoMoves DEF Inv, Finish
<1>2. OneMoves(r)
  BY <1>1 DEF OneMoves, Inv, Tables, worldVars
<1>3. VisitInv(req'[r]) /\ r \notin Managers
  BY <1>1, SessionsAssumption DEF VisitInv, SessionsAssumption
<1> QED
  BY <1>2, <1>3, OthersStay

LEMMA IdleInv == VisitInv(Idle) /\ ManageInv(Idle)
BY DEF VisitInv, ManageInv

\* What the step of a request tells of its locals.
LEMMA Shapes ==
  ASSUME Inv, NEW r \in Visitors
  PROVE /\ req[r].at \in {"granted", "created"} => IsSignIn(req[r]) /\ SignInInv(req[r])
        /\ req[r].at \in {"load", "account", "have", "touched"} =>
             IsLookup(req[r]) /\ LookupInv(req[r])
        /\ req[r].at = "out" => IsLogout(req[r])
BY DEF Inv, VisitInv, IsLogout, IsSignIn, IsLookup, Idle

-------------------------------------------------------------------------------
(* Sign-ins. *)

LEMMA LoginStep ==
  ASSUME Inv, NEW r \in Visitors, NEW u \in Users, NEW t \in Tokens, Login(r, u, t)
  PROVE Inv'
<1> DEFINE q == [at |-> "granted", user |-> u, token |-> t, age |-> 0, ver |-> Nil]
<1>1. VisitInv(q)
  BY SessionsAssumption DEF SessionsAssumption, VisitInv, IsSignIn, SignInInv
<1> QED
  BY <1>1, VisitorMovesOnly DEF Login

LEMMA SignInSteps ==
  ASSUME Inv, NEW r \in Visitors, ReadGrants(r) \/ CreateSession(r) \/ CacheLogin(r)
  PROVE Inv'
<1>1. IsSignIn(req[r]) /\ SignInInv(req[r])
  BY Shapes DEF ReadGrants, CreateSession, CacheLogin
<1>2. CASE ReadGrants(r)
  <2> DEFINE q == [req[r] EXCEPT !.ver = users[req[r].user].ver]
  <2>1. CASE Finish(r)
    BY <1>2, <2>1, IdleInv, VisitorMovesOnly DEF ReadGrants, Finish
  <2>2. CASE users[req[r].user] # Nil /\ Goto(r, q)
    <3>1. q = [at |-> req[r].at, user |-> req[r].user, token |-> req[r].token,
               age |-> req[r].age, ver |-> users[req[r].user].ver]
      BY <1>1 DEF IsSignIn
    <3>2. VisitInv(q)
      BY <1>1, <1>2, <2>2, <3>1 DEF VisitInv, IsSignIn, SignInInv, Bounded, Outdated, ReadGrants
    <3> QED
      BY <1>2, <2>2, <3>2, VisitorMovesOnly DEF ReadGrants
  <2> QED
    BY <1>2, <2>1, <2>2 DEF ReadGrants
<1>3. CASE CreateSession(r)
  <2> DEFINE q == [req[r] EXCEPT !.at = "created"]
  <2>1. CASE Finish(r) /\ UNCHANGED sessionRows
    BY <1>3, <2>1, IdleInv, VisitorMovesOnly DEF CreateSession, Finish
  <2>2. CASE /\ Goto(r, q)
             /\ sessionRows' = [sessionRows EXCEPT ![req[r].token] =
                                  [user |-> req[r].user, left |-> SessionTTL]]
    <3>1. q = [at |-> "created", user |-> req[r].user, token |-> req[r].token,
               age |-> req[r].age, ver |-> req[r].ver]
      BY <1>1 DEF IsSignIn
    <3>2. VisitInv(q)
      BY <1>1, <1>3, <3>1 DEF VisitInv, IsSignIn, SignInInv, CreateSession
    <3>3. /\ sessionRows' = [t \in Tokens |-> sessionRows'[t]]
          /\ \A t \in Tokens : sessionRows'[t] # Nil => IsRow(sessionRows'[t])
      BY <1>1, <2>2 DEF Inv, Tables, IsSignIn, IsRow
    <3> QED
      BY <1>3, <2>2, <3>2, <3>3, VisitorMoves DEF CreateSession
  <2> QED
    BY <1>3, <2>1, <2>2 DEF CreateSession
<1>4. CASE CacheLogin(r)
  <2> DEFINE s == [user |-> req[r].user, ver |-> req[r].ver, age |-> req[r].age,
                   left |-> SessionTTL, by |-> "login"]
  <2>1. IsEntry(s) /\ Bounded(s.user, s.ver, s.age) /\ s.by = "login"
    BY <1>1, <1>4 DEF IsEntry, IsSignIn, SignInInv, CacheLogin
  <2>2. CachedInv(s)
    BY <2>1 DEF CachedInv, Known
  <2> QED
    BY <1>1, <1>4, <2>2, VisitorCaches DEF CacheLogin, IsSignIn
<1> QED
  BY <1>2, <1>3, <1>4

-------------------------------------------------------------------------------
(* Lookups and sign-outs. *)

LEMMA AuthenticateStep ==
  ASSUME Inv, NEW r \in Visitors, NEW t \in Tokens, Authenticate(r, t)
  PROVE Inv'
<1>1. ASSUME NEW x, NEW at \in {"load", "have"}, NEW s,
             at = "have" => IsEntry(s) /\ Bounded(s.user, s.ver, s.age) /\ Known(s)
      PROVE VisitInv([at |-> at, token |-> t, raced |-> x, age |-> 0, s |-> s])
  BY <1>1, SessionsAssumption DEF SessionsAssumption, VisitInv, IsLookup, LookupInv
<1>2. CASE Served(t)
  <2>1. IsEntry(cache[t]) /\ Bounded(cache[t].user, cache[t].ver, cache[t].age) /\ Known(cache[t])
    BY <1>2 DEF Served, Inv, CachedInv
  <2>2. Goto(r, [at |-> "have", token |-> t, raced |-> FALSE, age |-> 0, s |-> cache[t]])
    BY <1>2, Zenon DEF Authenticate
  <2>3. VisitInv([at |-> "have", token |-> t, raced |-> FALSE, age |-> 0, s |-> cache[t]])
    BY <1>1, <2>1
  <2> QED
    BY <2>2, <2>3, VisitorMovesOnly DEF Authenticate
<1>3. CASE ~Served(t)
  <2>1. Goto(r, [at |-> "load", token |-> t, raced |-> FALSE, age |-> 0, s |-> Nil])
    BY <1>3, Zenon DEF Authenticate
  <2>2. VisitInv([at |-> "load", token |-> t, raced |-> FALSE, age |-> 0, s |-> Nil])
    BY <1>1
  <2> QED
    BY <2>1, <2>2, VisitorMovesOnly DEF Authenticate
<1> QED
  BY <1>2, <1>3

\* A lookup goes on to its next step with another entry in its hands.
LEMMA LookupMoves ==
  ASSUME NEW q, IsLookup(q), NEW at, NEW s
  PROVE [q EXCEPT !.at = at, !.s = s] =
          [at |-> at, token |-> q.token, raced |-> q.raced, age |-> q.age, s |-> s]
<1> DEFINE p == [q EXCEPT !.at = at]
<1>1. p = [at |-> at, token |-> q.token, raced |-> q.raced, age |-> q.age, s |-> q.s]
  BY DEF IsLookup
<1>2. [q EXCEPT !.at = at, !.s = s] = [p EXCEPT !.s = s]
  BY Zenon
<1> HIDE DEF p
<1>3. [p EXCEPT !.s = s] =
        [at |-> at, token |-> q.token, raced |-> q.raced, age |-> q.age, s |-> s]
  BY <1>1
<1> QED
  BY <1>2, <1>3

LEMMA LoadRowStep ==
  ASSUME Inv, NEW r \in Visitors, LoadRow(r)
  PROVE Inv'
<1> DEFINE row == sessionRows[req[r].token]
           s == [user |-> row.user, ver |-> Nil, age |-> req[r].age, left |-> row.left,
                 by |-> "request"]
           q == [req[r] EXCEPT !.at = "account", !.s = s]
<1>1. IsLookup(req[r])
  BY Shapes DEF LoadRow
<1>2. CASE Forget(r, req[r].token)
  BY <1>1, <1>2, ForgetMoves DEF LoadRow, IsLookup
<1>3. CASE row # Nil /\ Goto(r, q) /\ UNCHANGED cache
  <2>1. IsEntry(s) /\ s.by = "request"
    BY <1>1, <1>3 DEF IsEntry, IsLookup, Inv, Tables, IsRow
  <2> HIDE DEF s
  <2>2. q = [at |-> "account", token |-> req[r].token, raced |-> req[r].raced,
             age |-> req[r].age, s |-> s]
    BY <1>1, LookupMoves
  <2>3. VisitInv(q)
    BY <1>1, <2>1, <2>2 DEF VisitInv, IsLookup, LookupInv
  <2> QED
    BY <1>3, <2>3, VisitorMovesOnly DEF LoadRow
<1> QED
  BY <1>2, <1>3 DEF LoadRow

\* The account as it is now: neither outdated nor owed to anybody.
LEMMA LoadAccountStep ==
  ASSUME Inv, NEW r \in Visitors, LoadAccount(r)
  PROVE Inv'
<1> DEFINE account == users[req[r].s.user]
           q == [req[r] EXCEPT !.at = "have", !.s.ver = account.ver]
<1>1. IsLookup(req[r]) /\ IsEntry(req[r].s) /\ req[r].s.by = "request"
  BY Shapes DEF LoadAccount, LookupInv
<1>2. CASE Forget(r, req[r].token)
  BY <1>1, <1>2, ForgetMoves DEF LoadAccount, IsLookup
<1>3. CASE account # Nil /\ Goto(r, q) /\ UNCHANGED cache
  <2> DEFINE s == [user |-> req[r].s.user, ver |-> account.ver, age |-> req[r].s.age,
                   left |-> req[r].s.left, by |-> "request"]
  <2>1. IsEntry(s) /\ ~Outdated(s.user, s.ver)
    BY <1>1, <1>3 DEF IsEntry, Outdated
  <2>2. q = [at |-> "have", token |-> req[r].token, raced |-> req[r].raced,
             age |-> req[r].age, s |-> s]
    <3>1. q = [req[r] EXCEPT !.at = "have", !.s = [req[r].s EXCEPT !.ver = account.ver]]
      BY <1>1 DEF IsLookup
    <3>2. [req[r].s EXCEPT !.ver = account.ver] = s
      BY <1>1 DEF IsEntry
    <3>3. \A x : [req[r] EXCEPT !.at = "have", !.s = x] =
                   [at |-> "have", token |-> req[r].token, raced |-> req[r].raced,
                    age |-> req[r].age, s |-> x]
      BY <1>1, LookupMoves
    <3> QED
      BY <3>1, <3>2, <3>3, Zenon
  <2> HIDE DEF s
  <2>3. VisitInv(q)
    BY <1>1, <2>1, <2>2 DEF VisitInv, IsLookup, LookupInv, Bounded, Known
  <2> QED
    BY <1>3, <2>3, VisitorMovesOnly DEF LoadAccount
<1> QED
  BY <1>2, <1>3 DEF LoadAccount

LEMMA TouchStep ==
  ASSUME Inv, NEW r \in Visitors, Touch(r)
  PROVE Inv'
<1> DEFINE q == [req[r] EXCEPT !.at = "touched", !.s.left = SessionTTL]
           s == [user |-> req[r].s.user, ver |-> req[r].s.ver, age |-> req[r].s.age,
                 left |-> SessionTTL, by |-> req[r].s.by]
<1>1. /\ IsLookup(req[r]) /\ IsEntry(req[r].s)
      /\ Bounded(req[r].s.user, req[r].s.ver, req[r].s.age) /\ (req[r].raced \/ Known(req[r].s))
  BY Shapes DEF Touch, LookupInv
<1>2. q = [at |-> "touched", token |-> req[r].token, raced |-> req[r].raced,
           age |-> req[r].age, s |-> s]
  <2>1. q = [req[r] EXCEPT !.at = "touched", !.s = [req[r].s EXCEPT !.left = SessionTTL]]
    BY <1>1 DEF IsLookup
  <2>2. [req[r].s EXCEPT !.left = SessionTTL] = s
    BY <1>1 DEF IsEntry
  <2>3. \A x : [req[r] EXCEPT !.at = "touched", !.s = x] =
                 [at |-> "touched", token |-> req[r].token, raced |-> req[r].raced,
                  age |-> req[r].age, s |-> x]
    BY <1>1, LookupMoves
  <2> QED
    BY <2>1, <2>2, <2>3, Zenon
<1>3. IsEntry(s) /\ Bounded(s.user, s.ver, s.age) /\ (req[r].raced \/ Known(s))
  BY <1>1 DEF IsEntry, Known
<1>4. VisitInv(q)
  <2> HIDE DEF s
  <2> QED
    BY <1>1, <1>2, <1>3 DEF VisitInv, IsLookup, LookupInv
<1>5. /\ sessionRows' = [t \in Tokens |-> sessionRows'[t]]
      /\ \A t \in Tokens : sessionRows'[t] # Nil => IsRow(sessionRows'[t])
  <2>1. req[r].token \in Tokens
    BY <1>1 DEF IsLookup
  <2>2. \A t \in Tokens : sessionRows'[t] =
          IF t = req[r].token /\ sessionRows[t] # Nil
          THEN [sessionRows[t] EXCEPT !.left = SessionTTL] ELSE sessionRows[t]
    BY <2>1 DEF Touch, Inv, Tables
  <2>3. \A t \in Tokens : sessionRows[t] # Nil => IsRow(sessionRows[t])
    BY DEF Inv, Tables
  <2>4. sessionRows' = [t \in Tokens |-> sessionRows'[t]]
    BY DEF Touch, Inv, Tables
  <2>5. ASSUME NEW row, IsRow(row) PROVE IsRow([row EXCEPT !.left = SessionTTL])
    BY <2>5 DEF IsRow
  <2> QED
    BY <2>2, <2>3, <2>4, <2>5
<1> QED
  BY <1>4, <1>5, VisitorMoves DEF Touch

LEMMA KeepStep ==
  ASSUME Inv, NEW r \in Visitors, Keep(r)
  PROVE Inv'
<1>1. IsLookup(req[r]) /\ LookupInv(req[r])
  BY Shapes DEF Keep
<1>2. CASE req[r].raced
  BY <1>2, IdleInv, VisitorMovesOnly DEF Keep, Finish
<1>3. CASE ~req[r].raced
  <2>1. CachedInv(req[r].s)
    BY <1>1, <1>3 DEF LookupInv, CachedInv, Keep
  <2> QED
    BY <1>1, <1>3, <2>1, VisitorCaches DEF Keep, IsLookup
<1> QED
  BY <1>2, <1>3

LEMMA SignOutSteps ==
  ASSUME Inv, NEW r \in Visitors,
         Expired(r) \/ DropRow(r) \/ \E t \in Tokens : Logout(r, t)
  PROVE Inv'
<1>1. CASE Expired(r)
  BY <1>1, Shapes, ForgetMoves DEF Expired, IsLookup
<1>2. ASSUME NEW t \in Tokens, Logout(r, t) PROVE Inv'
  <2>1. /\ req'[r] = [at |-> "out", token |-> t]
        /\ req' = [Raced(r) EXCEPT ![r] = req'[r]]
    BY <1>2 DEF Inv, Tables, Logout, Raced
  <2>2. OneMoves(r)
    BY <1>2, <2>1 DEF OneMoves, Inv, Tables, Logout, CachedInv, worldVars
  <2>3. VisitInv(req'[r]) /\ r \notin Managers
    BY <2>1, SessionsAssumption DEF VisitInv, IsLogout, SessionsAssumption
  <2> QED
    BY <2>2, <2>3, OthersStay
<1>3. CASE DropRow(r)
  <2>1. req[r].token \in Tokens
    BY <1>3, Shapes DEF DropRow, IsLogout
  <2>2. /\ sessionRows' = [t \in Tokens |-> sessionRows'[t]]
        /\ \A t \in Tokens : sessionRows'[t] # Nil => IsRow(sessionRows'[t])
    BY <1>3, <2>1 DEF DropRow, Inv, Tables
  <2> QED
    BY <1>3, <2>2, IdleInv, VisitorMoves DEF DropRow, Finish
<1> QED
  BY <1>1, <1>2, <1>3

-------------------------------------------------------------------------------
(* Managers. *)

LEMMA ManagerMoves ==
  ASSUME Inv, NEW r \in Managers, NEW q, Goto(r, q), ManageInv(q),
         UNCHANGED <<users, sessionRows, cache, since, unforgotten>>
  PROVE Inv'
<1>1. req'[r] = q /\ req' = [req EXCEPT ![r] = req'[r]]
  BY GotoMoves DEF Inv
<1>2. OneMoves(r)
  BY <1>1 DEF OneMoves, Inv, Tables, worldVars
<1>3. r \notin Visitors
  BY SessionsAssumption DEF SessionsAssumption
<1> QED
  BY <1>1, <1>2, <1>3, OthersStay

LEMMA ManagerShapes ==
  ASSUME NEW q, ManageInv(q), q.at \in {"check", "commit"}
  PROVE /\ q = [at |-> q.at, user |-> q.user, seen |-> q.seen, want |-> q.want]
        /\ q.user \in Users
<1>1. CASE q = Idle
  BY <1>1 DEF Idle
<1>2. CASE q = [at |-> "forget", user |-> q.user]
  <2>1. q.at = "forget"
    BY <1>2
  <2> QED
    BY <2>1
<1> QED
  BY <1>1, <1>2, Zenon DEF ManageInv

LEMMA ManageSteps ==
  ASSUME Inv, NEW r \in Managers,
         CheckLast(r) \/ \E u \in Users, want \in {"disable", "demote", "password", "delete", "restore"} :
                           Manage(r, u, want)
  PROVE Inv'
<1>1. ASSUME NEW u \in Users, NEW want, Manage(r, u, want) PROVE Inv'
  <2>1. ManageInv([at |-> "check", user |-> u, seen |-> users[u], want |-> want])
    BY DEF ManageInv
  <2> QED
    BY <1>1, <2>1, ManagerMoves DEF Manage
<1>2. CASE CheckLast(r)
  <2> DEFINE q == [req[r] EXCEPT !.at = "commit"]
  <2>1. /\ req[r] = [at |-> req[r].at, user |-> req[r].user, seen |-> req[r].seen,
                     want |-> req[r].want]
        /\ req[r].user \in Users
    BY <1>2, ManagerShapes DEF CheckLast, Inv
  <2>2. q = [at |-> "commit", user |-> req[r].user, seen |-> req[r].seen, want |-> req[r].want]
    BY <2>1
  <2>3. ManageInv(q)
    BY <2>1, <2>2 DEF ManageInv
  <2> QED
    BY <1>2, <2>3, IdleInv, ManagerMoves DEF CheckLast, Finish
<1> QED
  BY <1>1, <1>2

\* The account changes: every copy of it is outdated from now on, and the
\* cache owes a clearing.
LEMMA CommitStep ==
  ASSUME Inv, NEW r \in Managers, Commit(r)
  PROVE Inv'
<1> DEFINE u == req[r].user
<1>1. u \in Users /\ r \notin Visitors
  BY SessionsAssumption, ManagerShapes DEF Commit, Inv, SessionsAssumption
<1>2. CASE Finish(r) /\ UNCHANGED <<users, sessionRows, since, unforgotten>>
  BY <1>2, IdleInv, ManagerMoves DEF Commit, Finish
<1>3. CASE /\ users' = [users EXCEPT ![u] = After(@, req[r].want)]
           /\ since' = [since EXCEPT ![u] = 0]
           /\ unforgotten' = unforgotten \cup {u}
           /\ sessionRows' = [t \in Tokens |->
                 IF /\ sessionRows[t] # Nil /\ sessionRows[t].user = u
                    /\ Revokes(req[r].seen, req[r].want)
                 THEN Nil ELSE sessionRows[t]]
           /\ Goto(r, [at |-> "forget", user |-> u]) /\ UNCHANGED cache
  <2>1. Tables'
    <3>1. since' \in [Users -> 0..CacheTTL]
      BY <1>1, <1>3, SessionsAssumption DEF Inv, Tables, SessionsAssumption
    <3>2. users' = [v \in Users |-> users'[v]]
      BY <1>3 DEF Inv, Tables
    <3>3. req' = [q \in Visitors \cup Managers |-> req'[q]]
      BY <1>3 DEF Inv, Tables, Goto
    <3>4. /\ sessionRows' = [t \in Tokens |-> sessionRows'[t]]
          /\ \A t \in Tokens : sessionRows'[t] # Nil => IsRow(sessionRows'[t])
      BY <1>3 DEF Inv, Tables
    <3> QED
      BY <1>3, <3>1, <3>2, <3>3, <3>4 DEF Inv, Tables
  <2>2. ASSUME NEW v \in Users, NEW ver, NEW age \in Nat, Bounded(v, ver, age)
        PROVE Bounded(v, ver, age)'
    BY <1>1, <1>3, <2>2 DEF Inv, Tables, Bounded, Outdated
  <2>3. ASSUME NEW s, IsEntry(s), Known(s) PROVE Known(s)'
    BY <1>1, <1>3, <2>3 DEF Inv, Tables, IsEntry, Known, Outdated
  <2>4. 0..CacheTTL \subseteq Nat
    BY SessionsAssumption DEF SessionsAssumption
  <2>5. \A t \in Tokens : CachedInv(cache[t])'
    BY <1>3, <2>2, <2>3, <2>4 DEF Inv, CachedInv, IsEntry
  <2>6. /\ req'[r] = [at |-> "forget", user |-> u]
        /\ \A q \in Visitors \cup Managers : q # r => req'[q] = req[q]
    BY <1>3 DEF Inv, Tables, Goto
  <2>7. ASSUME NEW q \in Visitors PROVE VisitInv(req[q])'
    <3>1. VisitInv(req[q]) /\ req'[q] = req[q]
      BY <1>1, <2>6 DEF Inv
    <3>2. CASE IsSignIn(req[q]) /\ SignInInv(req[q])
      BY <2>2, <2>4, <3>1, <3>2 DEF VisitInv, IsSignIn, SignInInv
    <3>3. CASE IsLookup(req[q]) /\ LookupInv(req[q])
      <4>1. LookupInv(req[q])'
        BY <2>2, <2>3, <2>4, <3>1, <3>3 DEF LookupInv, IsEntry
      <4> QED
        BY <3>1, <3>3, <4>1 DEF VisitInv
    <3> QED
      BY <3>1, <3>2, <3>3 DEF VisitInv
  <2>8. ASSUME NEW q \in Managers PROVE ManageInv(req[q])'
    <3>1. q # r => ManageInv(req[q])'
      BY <2>6 DEF Inv
    <3>2. q = r => ManageInv(req[q])'
      BY <1>1, <2>6 DEF ManageInv
    <3> QED
      BY <3>1, <3>2
  <2> QED
    BY <2>1, <2>5, <2>7, <2>8 DEF Inv
<1> QED
  BY <1>2, <1>3 DEF Commit

\* The cache is cleared of the account, and every lookup under way is told.
LEMMA ForgetUserStep ==
  ASSUME Inv, NEW r \in Managers, ForgetUser(r)
  PROVE Inv'
<1> DEFINE u == req[r].user
<1>1. r \notin Visitors
  BY SessionsAssumption DEF SessionsAssumption
<1>2. Tables'
  BY DEF ForgetUser, Inv, Tables, Raced
<1>3. \A v, ver, age : Bounded(v, ver, age) <=> Bounded(v, ver, age)'
  BY DEF ForgetUser, Bounded, Outdated
<1>4. ASSUME NEW t \in Tokens PROVE CachedInv(cache[t])'
  <2>1. cache'[t] = IF cache[t] # Nil /\ cache[t].user = u THEN Nil ELSE cache[t]
    BY DEF ForgetUser
  <2> QED
    BY <1>3, <2>1 DEF ForgetUser, Inv, CachedInv, Known, Outdated
<1>5. /\ req'[r] = Idle
      /\ \A q \in Visitors \cup Managers : q # r => req'[q] = Raced(r)[q]
  BY DEF ForgetUser, Inv, Tables, Raced
<1>6. ASSUME NEW q \in Visitors PROVE VisitInv(req[q])'
  <2>1. VisitInv(req[q]) /\ req'[q] = Raced(r)[q] /\ q # r /\ Tables
    BY <1>1, <1>5 DEF Inv
  <2>2. CASE IsLookup(req[q])
    <3>1. LookupInv(req[q])
      BY <2>1, <2>2 DEF VisitInv, IsLookup, Idle, IsLogout, IsSignIn
    <3>2. req'[q] = MarkRaced(req[q])
      BY <2>1, <2>2, RacedMarks
    <3>3. VisitInv(MarkRaced(req[q]))
      BY <2>2, <3>1, MarkedInv
    <3>4. IsLookup(MarkRaced(req[q])) /\ MarkRaced(req[q]).raced
      BY <2>2 DEF IsLookup, MarkRaced
    <3>5. LookupInv(MarkRaced(req[q]))
      BY <3>3, <3>4 DEF VisitInv, IsLookup, Idle, IsLogout, IsSignIn
    <3>6. LookupInv(req[q])'
      BY <1>3, <3>2, <3>4, <3>5 DEF LookupInv
    <3> QED
      BY <3>2, <3>4, <3>6 DEF VisitInv
  <2>3. CASE ~IsLookup(req[q])
    <3>1. req'[q] = req[q]
      BY <2>1, <2>3, RacedMarks
    <3> QED
      BY <1>3, <2>1, <2>3, <3>1 DEF VisitInv, SignInInv
  <2> QED
    BY <2>2, <2>3
<1>7. ASSUME NEW q \in Managers PROVE ManageInv(req[q])'
  <2>1. ~IsLookup(req[q])
    BY Fields DEF Inv
  <2> QED
    BY <1>5, <2>1, RacedMarks, IdleInv DEF Inv
<1> QED
  BY <1>2, <1>4, <1>6, <1>7 DEF Inv

-------------------------------------------------------------------------------
(* Time. *)

OneTickOlder(s) ==
  [user |-> s.user, ver |-> s.ver, age |-> CappedAge(s.age + 1),
   left |-> IF s.left > 0 THEN s.left - 1 ELSE 0, by |-> s.by]

LEMMA OlderIs == ASSUME NEW s, IsEntry(s) PROVE OlderEntry(s) = OneTickOlder(s)
<1> DEFINE aged == [s EXCEPT !.age = CappedAge(@ + 1)]
<1>1. aged = [user |-> s.user, ver |-> s.ver, age |-> CappedAge(s.age + 1), left |-> s.left,
              by |-> s.by]
  BY DEF IsEntry
<1>2. OlderEntry(s) = [aged EXCEPT !.left = IF @ > 0 THEN @ - 1 ELSE 0]
  BY <1>1 DEF OlderEntry, IsEntry
<1> HIDE DEF aged
<1>3. aged.left = s.left
  BY <1>1
<1>4. \A x : [aged EXCEPT !.left = x] =
               [user |-> s.user, ver |-> s.ver, age |-> CappedAge(s.age + 1), left |-> x,
                by |-> s.by]
  BY <1>1
<1> QED
  BY <1>2, <1>3, <1>4 DEF OneTickOlder

\* The caps of since and of an entry's age keep their order.
LEMMA CappedAges ==
  ASSUME NEW n \in 0..CacheTTL
  PROVE /\ CappedAge(n + 1) \in 0..CacheTTL
        /\ \A m \in 0..CacheTTL : m <= n => CappedAge(m + 1) <= CappedAge(n + 1)
        /\ CappedAge(n + 1) <= n + 1
BY SessionsAssumption DEF SessionsAssumption, CappedAge

LEMMA OneTickOlderInv ==
  ASSUME Inv, Tick, NEW s, IsEntry(s)
  PROVE /\ IsEntry(OneTickOlder(s))
        /\ Bounded(s.user, s.ver, s.age) =>
             LET o == OneTickOlder(s) IN Bounded(o.user, o.ver, o.age)'
        /\ Known(s) => Known(OneTickOlder(s))'
<1> DEFINE o == OneTickOlder(s)
<1>1. o.user = s.user /\ o.ver = s.ver /\ o.age = CappedAge(s.age + 1) /\ o.by = s.by
  BY DEF OneTickOlder
<1>2. CacheTTL \in Nat /\ s.age \in 0..CacheTTL /\ s.user \in Users
      /\ CappedAge(s.age + 1) \in 0..CacheTTL
  BY SessionsAssumption, CappedAges DEF SessionsAssumption, IsEntry
<1>3. IsEntry(o)
  BY <1>1, <1>2 DEF IsEntry, OneTickOlder
<1>4. since[s.user] \in 0..CacheTTL /\ since'[s.user] = CappedAge(since[s.user] + 1)
  BY <1>2 DEF Inv, Tables, Tick
<1>5. Bounded(s.user, s.ver, s.age) => Bounded(s.user, s.ver, CappedAge(s.age + 1))'
  BY <1>2, <1>4, CappedAges DEF Bounded, Outdated, Tick
<1>6. Known(s) => Known(o)'
  BY <1>1 DEF Known, Outdated, Tick
<1> QED
  BY <1>1, <1>3, <1>5, <1>6

LEMMA TickStep ==
  ASSUME Inv, Tick
  PROVE Inv'
<1>0. CacheTTL \in Nat \ {0}
  BY SessionsAssumption DEF SessionsAssumption
<1>1. Tables'
  <2>1. since' \in [Users -> 0..CacheTTL]
    BY CappedAges DEF Tick, Inv, Tables
  <2>2. \A t \in Tokens : sessionRows'[t] # Nil => IsRow(sessionRows'[t])
    <3>1. ASSUME NEW row, IsRow(row)
          PROVE IsRow([row EXCEPT !.left = IF @ > 0 THEN @ - 1 ELSE 0])
      BY <3>1 DEF IsRow
    <3> QED
      BY <3>1 DEF Tick, Inv, Tables
  <2>3. /\ sessionRows' = [t \in Tokens |-> sessionRows'[t]]
        /\ cache' = [t \in Tokens |-> cache'[t]]
    BY DEF Tick
  <2>4. req' = [q \in Visitors \cup Managers |-> req'[q]]
    <3>1. DOMAIN req = Visitors \cup Managers
      BY DEF Inv, Tables
    <3> DEFINE next(q) ==
          IF "age" \notin DOMAIN req[q] THEN req[q]
          ELSE IF req[q].at \in {"account", "have", "touched"}
               THEN [req[q] EXCEPT !.age = @ + 1, !.s = OlderEntry(@)]
               ELSE [req[q] EXCEPT !.age = @ + 1]
    <3>2. req' = [q \in Visitors \cup Managers |-> next(q)]
      BY <3>1, Zenon DEF Tick
    <3> HIDE DEF next
    <3> QED
      BY <3>2
  <2>5. users' = [u \in Users |-> users'[u]]
    BY DEF Tick, Inv, Tables
  <2> QED
    BY <2>1, <2>2, <2>3, <2>4, <2>5 DEF Tables
<1>2. ASSUME NEW t \in Tokens PROVE CachedInv(cache[t])'
  <2>1. cache'[t] = IF cache[t] = Nil THEN Nil ELSE OlderEntry(cache[t])
    BY DEF Tick
  <2> QED
    BY <2>1, OlderIs, OneTickOlderInv DEF CachedInv, Inv
<1>3. ASSUME NEW q \in Visitors \cup Managers
      PROVE /\ "age" \notin DOMAIN req[q] => req'[q] = req[q]
            /\ "age" \in DOMAIN req[q] =>
                 req'[q] = IF req[q].at \in {"account", "have", "touched"}
                           THEN [req[q] EXCEPT !.age = @ + 1, !.s = OlderEntry(@)]
                           ELSE [req[q] EXCEPT !.age = @ + 1]
  BY DEF Tick, Inv, Tables
<1>4. ASSUME NEW q \in Managers PROVE ManageInv(req[q])'
  <2>1. ManageInv(req[q]) /\ req'[q] = req[q]
    BY <1>3, Fields DEF Inv
  <2> QED
    BY <2>1 DEF ManageInv
<1>5. ASSUME NEW q \in Visitors PROVE VisitInv(req[q])'
  <2>1. VisitInv(req[q])
    BY DEF Inv
  <2>2. CASE req[q] = Idle \/ IsLogout(req[q])
    <3>1. "age" \notin DOMAIN req[q]
      BY <2>2, Fields
    <3>2. req'[q] = req[q]
      BY <1>3, <3>1
    <3> QED
      BY <2>2, <3>2 DEF VisitInv, IsLogout
  <2>3. CASE IsSignIn(req[q]) /\ SignInInv(req[q])
    <3>1. req'[q] = [req[q] EXCEPT !.age = @ + 1]
      BY <1>3, <2>3, Fields DEF IsSignIn
    <3>2. req'[q] = [at |-> req[q].at, user |-> req[q].user, token |-> req[q].token,
                     age |-> req[q].age + 1, ver |-> req[q].ver]
      BY <2>3, <3>1 DEF IsSignIn
    <3>3. req[q].age \in 0..CacheTTL /\ req[q].age < CacheTTL
      BY <2>3, Fields DEF IsSignIn, Tick
    <3>4. IsSignIn(req'[q])
      BY <1>0, <2>3, <3>2, <3>3 DEF IsSignIn
    <3>5. /\ since[req[q].user] \in 0..CacheTTL
          /\ since'[req[q].user] = CappedAge(since[req[q].user] + 1)
      BY <2>3 DEF IsSignIn, Inv, Tables, Tick
    <3>6. SignInInv(req[q])'
      <4>1. since[req[q].user] <= req[q].age => since'[req[q].user] <= req[q].age + 1
        BY <1>0, <3>3, <3>5 DEF CappedAge
      <4>2. /\ req'[q].at = req[q].at /\ req'[q].user = req[q].user /\ req'[q].ver = req[q].ver
            /\ req'[q].age = req[q].age + 1
        BY <3>2
      <4>3. users' = users
        BY DEF Tick
      <4> QED
        BY <2>3, <4>1, <4>2, <4>3 DEF SignInInv, Bounded, Outdated
    <3> QED
      BY <3>4, <3>6 DEF VisitInv
  <2>4. CASE IsLookup(req[q]) /\ LookupInv(req[q])
    <3>1. req[q].age \in 0..CacheTTL /\ req[q].age < CacheTTL /\ "age" \in DOMAIN req[q]
      BY <2>4, Fields DEF IsLookup, Tick
    <3>2. CASE req[q].at = "load"
      <4>1. req'[q] = [at |-> "load", token |-> req[q].token, raced |-> req[q].raced,
                       age |-> req[q].age + 1, s |-> req[q].s]
        BY <1>3, <2>4, <3>1, <3>2 DEF IsLookup
      <4> QED
        BY <1>0, <2>4, <3>1, <4>1 DEF VisitInv, IsLookup, LookupInv
    <3>3. CASE req[q].at # "load"
      <4>1. IsEntry(req[q].s)
        BY <2>4, <3>3 DEF LookupInv
      <4>2. req'[q] = [req[q] EXCEPT !.age = @ + 1, !.s = OlderEntry(@)]
        BY <1>3, <2>4, <3>1, <3>3 DEF IsLookup
      <4>3. req'[q] = [at |-> req[q].at, token |-> req[q].token, raced |-> req[q].raced,
                       age |-> req[q].age + 1, s |-> OneTickOlder(req[q].s)]
        BY <2>4, <4>1, <4>2, OlderIs DEF IsLookup
      <4>4. IsLookup(req'[q])
        BY <1>0, <2>4, <3>1, <4>3 DEF IsLookup
      <4>5. LookupInv(req[q])'
        BY <2>4, <4>1, <4>3, OneTickOlderInv DEF LookupInv, OneTickOlder
      <4> QED
        BY <4>4, <4>5 DEF VisitInv
    <3> QED
      BY <3>2, <3>3
  <2> QED
    BY <2>1, <2>2, <2>3, <2>4 DEF VisitInv
<1> QED
  BY <1>1, <1>2, <1>4, <1>5 DEF Inv

-------------------------------------------------------------------------------

LEMMA SessionsStep == Inv /\ [SessionsNext]_sessionVars => Inv'
<1> SUFFICES ASSUME Inv, [SessionsNext]_sessionVars PROVE Inv'
  OBVIOUS
<1>1. ASSUME NEW r \in Visitors, Visit(r) PROVE Inv'
  BY <1>1, LoginStep, SignInSteps, AuthenticateStep, LoadRowStep, LoadAccountStep, TouchStep,
     KeepStep, SignOutSteps DEF Visit
<1>2. ASSUME NEW r \in Managers, Administer(r) PROVE Inv'
  BY <1>2, ManageSteps, CommitStep, ForgetUserStep DEF Administer
<1>3. CASE Tick
  BY <1>3, TickStep
<1>4. CASE UNCHANGED sessionVars
  <2>1. Tables' /\ \A t \in Tokens : CachedInv(cache[t])'
    BY <1>4 DEF sessionVars, Inv, Tables, CachedInv, Bounded, Known, Outdated
  <2>2. \A q : VisitInv(q) <=> VisitInv(q)'
    BY <1>4 DEF sessionVars, VisitInv, SignInInv, LookupInv, Bounded, Known, Outdated
  <2> QED
    BY <1>4, <2>1, <2>2 DEF sessionVars, Inv
<1> QED
  BY <1>1, <1>2, <1>3, <1>4 DEF SessionsNext

\* A principal that no longer matches its account is served for CacheTTL
\* after the change at most, and only a sign-in that was under way can leave
\* one in a cache that has been cleared: for any number of visitors and
\* managers in any interleaving, and any lifetime of an entry.
THEOREM SessionsCacheFollowsAccounts == SessionsSpec => []CacheFollowsAccounts
<1>1. Inv => CacheFollowsAccounts
  <2> SUFFICES ASSUME Inv, NEW t \in Tokens, cache[t] # Nil
               PROVE /\ StaleEntry(cache[t]) => since[cache[t].user] <= cache[t].age
                     /\ cache[t].by = "request" /\ StaleEntry(cache[t]) =>
                          cache[t].user \in unforgotten
    BY DEF CacheFollowsAccounts, StaleNoLongerThanTTL, RacedNotCached, Served, StaleEntry
  <2> QED
    BY DEF Inv, CachedInv, Bounded, Known, Outdated, StaleEntry
<1> QED
  BY SessionsStart, SessionsStep, <1>1, PTL DEF SessionsSpec

-------------------------------------------------------------------------------
(* The assistant.  SettingsInv says what each read of the settings under way  *)
(* may still bring to the cache, TurnsInv that a user has one turn at a time  *)
(* and which of the user's rows are its.                                      *)

Turns == {"count", "run", "record", "end"}
AtPlaces == Turns \cup {"closed", "settings", "key", "store", "ready"}

IsRequest(r) ==
  /\ r = [at |-> r.at, live |-> r.live, raced |-> r.raced, round |-> r.round, left |-> r.left,
          since |-> r.since]
  /\ r.at \in AtPlaces /\ r.raced \in BOOLEAN

IsSave(s) ==
  /\ s = [at |-> s.at, wish |-> s.wish] /\ s.at \in {"idle", "commit", "forget"}
  /\ s.at = "commit" => s.wish \in Wishes

\* The cache is about to be cleared, or was not for a save its handler saw fail.
Excused == unseen \/ \E p \in Savers : saving[p].at = "forget"

KeyRead(r, row, e) ==
  r.at = "key" /\ r.raced = FALSE => e \/ (row.enabled /\ r.live = LiveOf(row, FALSE))
AllRead(r, row, stored, e) ==
  r.at = "store" /\ r.raced = FALSE => e \/ r.live = LiveOf(row, stored)

ReadWell(q) ==
  KeyRead(request[q], settings, Excused) /\ AllRead(request[q], settings, key, Excused)

AssistantTypes ==
  /\ request = [q \in Requests |-> request[q]] /\ \A q \in Requests : IsRequest(request[q])
  /\ saving = [p \in Savers |-> saving[p]]
  /\ \A p \in Savers : IsSave(saving[p])
  /\ usage = [u \in Askers |-> usage[u]] /\ turns \in [Askers -> Nat] /\ lost \in [Askers -> Nat]
  /\ date \in Nat /\ key \in BOOLEAN /\ settings.enabled \in BOOLEAN

SettingsInv ==
  /\ live # Nil => Excused \/ live = LiveOf(settings, key)
  /\ \A q \in Requests : ReadWell(q)

OneTurnEach ==
  \A q \in Requests : request[q].at \in Turns =>
    /\ AskerOf[q] \in busy
    /\ \A p \in Requests : request[p].at \in Turns /\ AskerOf[p] = AskerOf[q] => p = q

RowsInv ==
  \A u \in Askers :
    /\ IsFiniteSet(usage[u])
    /\ \A row \in usage[u] :
         /\ row.date \in Nat /\ row.turn \in Nat /\ row.turn <= turns[u]
         /\ Turning(u) # {} => row.turn # turns[u]

BooksInv == LimitKept /\ TurnsAccounted /\ RowsInv

TurnsInv == OneTurnEach /\ BooksInv

AssistantInv == AssistantTypes /\ SettingsInv /\ TurnsInv

-------------------------------------------------------------------------------

LEMMA AssistantInvInit == AssistantInit => AssistantInv
<1> SUFFICES ASSUME AssistantInit PROVE AssistantInv
  OBVIOUS
<1>1. \A q \in Requests : request[q] = Closed
  BY DEF AssistantInit
<1>2. Closed.at = "closed" /\ IsRequest(Closed)
  BY DEF Closed, IsRequest, AtPlaces
<1>3. \A u \in Askers : /\ Turning(u) = {} /\ usage[u] = {} /\ Used(u, 0) = 0
                        /\ turns[u] = 0 /\ lost[u] = 0
  BY <1>1, <1>2, FS_EmptySet DEF AssistantInit, Turning, Used
<1>4. AssistantTypes
  BY <1>1, <1>2 DEF AssistantInit, AssistantTypes, NotSaving, IsSave
<1>5. SettingsInv
  BY <1>1, <1>2 DEF AssistantInit, SettingsInv, ReadWell, KeyRead, AllRead
<1>6. LimitKept /\ TurnsAccounted
  BY <1>3, FS_EmptySet DEF LimitKept, TurnsAccounted
<1>7. TurnsInv
  BY <1>1, <1>2, <1>3, <1>6, FS_EmptySet DEF TurnsInv, OneTurnEach, BooksInv, RowsInv, Turns
<1> QED
  BY <1>4, <1>5, <1>7 DEF AssistantInv

\* Types: every step leaves requests that are requests.
LEMMA GoesFrom ==
  ASSUME AssistantTypes, NEW q \in Requests, NEW new, Goes(q, new), IsRequest(new)
  PROVE /\ request' = [p \in Requests |-> request'[p]] /\ request'[q] = new
        /\ \A p \in Requests : /\ IsRequest(request'[p])
                               /\ p # q => request'[p] = request[p]
BY DEF AssistantTypes, Goes

LEMMA ClosedIs == IsRequest(Closed) /\ Closed.at = "closed" /\ Closed.raced = FALSE
BY DEF Closed, IsRequest, AtPlaces

\* How the fields of a request change.
LEMMA RequestMoved ==
  ASSUME NEW r, IsRequest(r), NEW a \in AtPlaces, NEW n, n = [r EXCEPT !.at = a]
  PROVE /\ IsRequest(n) /\ n.at = a /\ n.live = r.live /\ n.raced = r.raced
        /\ n.since = r.since
BY DEF IsRequest

LEMMA Stayed ==
  ASSUME NEW r, IsRequest(r), NEW x,
         NEW n, \/ n = [r EXCEPT !.left = x] \/ n = [r EXCEPT !.round = x]
                \/ n = [r EXCEPT !.raced = TRUE]
  PROVE IsRequest(n) /\ n.at = r.at /\ n.live = r.live /\ n.since = r.since
<1>1. CASE n = [r EXCEPT !.left = x]
  BY <1>1 DEF IsRequest
<1>2. CASE n = [r EXCEPT !.round = x]
  BY <1>2 DEF IsRequest
<1>3. CASE n = [r EXCEPT !.raced = TRUE]
  BY <1>3 DEF IsRequest
<1> QED
  BY <1>1, <1>2, <1>3

LEMMA LiveOn ==
  ASSUME settings.enabled = TRUE, key \in BOOLEAN
  PROVE [LiveOf(settings, FALSE) EXCEPT !.on = key] = LiveOf(settings, key)
<1> DEFINE off == settings.enabled /\ FALSE
           on == settings.enabled /\ key
<1>1. LiveOf(settings, FALSE) = [limit |-> settings.limit, on |-> off]
      /\ LiveOf(settings, key) = [limit |-> settings.limit, on |-> on]
  BY Zenon DEF LiveOf
<1>2. on = key
  OBVIOUS
<1> HIDE DEF off, on
<1>3. \A f, l, x, k : f = [limit |-> l, on |-> x] => [f EXCEPT !.on = k] = [limit |-> l, on |-> k]
  OBVIOUS
<1>4. [LiveOf(settings, FALSE) EXCEPT !.on = key] = [limit |-> settings.limit, on |-> key]
  <2> DEFINE f == LiveOf(settings, FALSE)
             l == settings.limit
             k == key
  <2>1. f = [limit |-> l, on |-> off]
    BY <1>1
  <2> HIDE DEF f, l, k
  <2>2. [f EXCEPT !.on = k] = [limit |-> l, on |-> k]
    BY <1>3, <2>1
  <2> QED
    BY <2>2, Zenon DEF f, l, k
<1>5. [limit |-> settings.limit, on |-> on] = [limit |-> settings.limit, on |-> key]
  BY <1>2, Zenon
<1> QED
  BY <1>1, <1>4, <1>5, Zenon

LEMMA LiveOff ==
  ASSUME settings.enabled \in BOOLEAN, key \in BOOLEAN, ~(settings.enabled /\ key)
  PROVE LiveOf(settings, FALSE) = LiveOf(settings, key)
<1>1. (settings.enabled /\ FALSE) = (settings.enabled /\ key)
  OBVIOUS
<1> QED
  BY <1>1, Zenon DEF LiveOf

-------------------------------------------------------------------------------
(* What a step of one request makes of it. *)

Asks(q) == \/ Open(q) \/ ReadSettings(q) \/ ReadKey(q) \/ StoreLive(q) \/ Told(q)
           \/ BeginTurn(q) \/ Count(q) \/ HangUp(q) \/ Respond(q) \/ Record(q) \/ End(q)

Alone(q) ==
  /\ request' = [p \in Requests |-> request'[p]] /\ IsRequest(request'[q])
  /\ \A p \in Requests : p # q => request'[p] = request[p]

LEMMA OpenMoves ==
  ASSUME AssistantTypes, NEW q \in Requests, Open(q)
  PROVE Alone(q) /\ request'[q].at \in {"ready", "settings"}
<1> DEFINE a == IF live # Nil /\ fresh THEN "ready" ELSE "settings"
           x == IF live # Nil /\ fresh THEN live ELSE Nil
<1>1. a \in {"ready", "settings"} /\ a \in AtPlaces
  BY DEF AtPlaces
<1>2. PICK n : n = [Closed EXCEPT !.at = a, !.live = x] /\ Goes(q, n)
  BY DEF Open
<1> HIDE DEF a, x
<1>3. IsRequest(n) /\ n.at = a
  BY <1>1, <1>2, ClosedIs DEF IsRequest
<1> QED
  BY <1>1, <1>2, <1>3, GoesFrom DEF Alone

LEMMA ReadSettingsMoves ==
  ASSUME AssistantTypes, NEW q \in Requests, ReadSettings(q)
  PROVE /\ Alone(q)
        /\ \/ request'[q] = Closed
           \/ /\ request'[q].live = LiveOf(settings, FALSE)
              /\ request'[q].at = IF settings.enabled /\ key THEN "key" ELSE "store"
<1> DEFINE a == IF settings.enabled /\ key THEN "key" ELSE "store"
           x == LiveOf(settings, FALSE)
<1>1. a \in AtPlaces
  BY DEF AtPlaces
<1>2. IsRequest(request[q])
  BY DEF AssistantTypes
<1>3. PICK n : Goes(q, n) /\ (n = Closed \/ n = [request[q] EXCEPT !.at = a, !.live = x])
  BY DEF ReadSettings, Closes
<1> HIDE DEF a, x
<1>4. n # Closed => IsRequest(n) /\ n.at = a /\ n.live = x
  BY <1>1, <1>2, <1>3 DEF IsRequest
<1>5. request'[q] = n /\ Alone(q)
  BY <1>3, <1>4, ClosedIs, GoesFrom DEF Alone
<1> QED
  BY <1>4, <1>5 DEF a, x

LEMMA ReadKeyMoves ==
  ASSUME AssistantTypes, NEW q \in Requests, ReadKey(q)
  PROVE /\ Alone(q)
        /\ \/ request'[q] = Closed
           \/ /\ request'[q].live = [request[q].live EXCEPT !.on = key]
              /\ request'[q].at = "store" /\ request'[q].raced = request[q].raced
<1> DEFINE x == [request[q].live EXCEPT !.on = key]
<1>1. IsRequest(request[q]) /\ "store" \in AtPlaces
  BY DEF AssistantTypes, AtPlaces
<1>2. PICK n : Goes(q, n) /\ (n = Closed \/ n = [request[q] EXCEPT !.at = "store", !.live = x])
  BY DEF ReadKey, Closes
<1> HIDE DEF x
<1>3. n # Closed =>
        IsRequest(n) /\ n.at = "store" /\ n.live = x /\ n.raced = request[q].raced
  BY <1>1, <1>2 DEF IsRequest
<1>4. request'[q] = n /\ Alone(q)
  BY <1>2, <1>3, ClosedIs, GoesFrom DEF Alone
<1> QED
  BY <1>3, <1>4 DEF x

\* A step that moves a request on, and leaves what its turn is about.
LEMMA OnMoves ==
  ASSUME AssistantTypes, NEW q \in Requests, NEW a \in AtPlaces,
         Goes(q, [request[q] EXCEPT !.at = a])
  PROVE /\ Alone(q) /\ request'[q].at = a
        /\ request'[q].live = request[q].live /\ request'[q].since = request[q].since
<1>1. PICK n : n = [request[q] EXCEPT !.at = a] /\ Goes(q, n)
  OBVIOUS
<1>2. IsRequest(request[q])
  BY DEF AssistantTypes
<1>3. IsRequest(n) /\ n.at = a /\ n.live = request[q].live /\ n.since = request[q].since
  BY <1>1, <1>2, RequestMoved
<1> QED
  BY <1>1, <1>3, GoesFrom DEF Alone

LEMMA BeginMoves ==
  ASSUME AssistantTypes, NEW q \in Requests,
         Goes(q, [request[q] EXCEPT !.at = "count", !.since = date])
  PROVE Alone(q) /\ request'[q].at = "count"
<1>1. PICK n : n = [request[q] EXCEPT !.at = "count", !.since = date] /\ Goes(q, n)
  OBVIOUS
<1>2. IsRequest(request[q]) /\ "count" \in AtPlaces
  BY DEF AssistantTypes, AtPlaces, Turns
<1>3. IsRequest(n) /\ n.at = "count"
  BY <1>1, <1>2 DEF IsRequest
<1> QED
  BY <1>1, <1>3, GoesFrom DEF Alone

LEMMA StayMoves ==
  ASSUME AssistantTypes, NEW q \in Requests, NEW x,
         \/ Goes(q, [request[q] EXCEPT !.left = x]) \/ Goes(q, [request[q] EXCEPT !.round = x])
  PROVE /\ Alone(q) /\ request'[q].at = request[q].at
        /\ request'[q].live = request[q].live /\ request'[q].since = request[q].since
<1>1. PICK n : Goes(q, n) /\ (n = [request[q] EXCEPT !.left = x]
                              \/ n = [request[q] EXCEPT !.round = x])
  OBVIOUS
<1>2. IsRequest(n) /\ n.at = request[q].at /\ n.live = request[q].live
      /\ n.since = request[q].since
  BY <1>1, Stayed DEF AssistantTypes
<1> QED
  BY <1>1, <1>2, GoesFrom DEF Alone

LEMMA CloseMoves ==
  ASSUME AssistantTypes, NEW q \in Requests, Closes(q)
  PROVE Alone(q) /\ request'[q] = Closed /\ request'[q].at = "closed"
BY ClosedIs, GoesFrom DEF Alone, Closes

LEMMA AsksAlone ==
  ASSUME AssistantTypes, NEW q \in Requests, Asks(q)
  PROVE Alone(q)
<1>1. {"ready", "run", "record", "end"} \subseteq AtPlaces
  BY DEF AtPlaces, Turns
<1>2. CASE Closes(q)
  BY <1>2, CloseMoves
<1>3. CASE \E a \in AtPlaces : Goes(q, [request[q] EXCEPT !.at = a])
  BY <1>3, OnMoves
<1>4. CASE BeginTurn(q)
  BY <1>2, <1>4, BeginMoves DEF BeginTurn
<1>5. CASE Respond(q)
  <2>1. CASE TurnOver(q)
    BY <1>1, <1>3, <2>1 DEF TurnOver
  <2>2. CASE ~TurnOver(q)
    <3> DEFINE x == request[q].round + 1
    <3>1. Goes(q, [request[q] EXCEPT !.round = x])
      BY <1>5, <2>2 DEF Respond
    <3> QED
      BY <3>1, StayMoves
  <2> QED
    BY <2>1, <2>2
<1> QED
  BY <1>1, <1>2, <1>3, <1>4, <1>5, OpenMoves, ReadSettingsMoves, ReadKeyMoves, StayMoves
     DEF Asks, StoreLive, Told, Count, HangUp, Record, End

-------------------------------------------------------------------------------
(* Each step keeps the types ... *)

LEMMA TurnOf == ASSUME NEW q \in Requests PROVE AskerOf[q] \in Askers
BY AssistantAssumption DEF AssistantAssumption

Tally == <<usage, turns, lost, date>>

LEMMA TallyTypes ==
  ASSUME AssistantTypes, AssistantNext, \A u \in Askers : Cardinality(Turning(u)) \in Nat
  PROVE /\ usage' = [u \in Askers |-> usage'[u]] /\ turns' \in [Askers -> Nat]
        /\ lost' \in [Askers -> Nat] /\ date' \in Nat
<1>1. CASE UNCHANGED Tally
  BY <1>1 DEF Tally, AssistantTypes
<1>2. ASSUME NEW q \in Requests, Count(q) PROVE UNCHANGED <<usage, lost, date>>
                                                /\ turns' \in [Askers -> Nat]
  <2>1. turns' = turns \/ turns' = [turns EXCEPT ![AskerOf[q]] = @ + 1]
    BY <1>2 DEF Count
  <2> QED
    BY <1>2, <2>1, TurnOf DEF Count, AssistantTypes
<1>3. ASSUME NEW q \in Requests, Record(q)
      PROVE /\ UNCHANGED <<turns, date>> /\ usage' = [u \in Askers |-> usage'[u]]
            /\ lost' \in [Askers -> Nat]
  BY <1>3, TurnOf DEF Record, Logged, NotLogged, AssistantTypes
<1>4. CASE Crash
  BY <1>4 DEF Crash, AssistantTypes
<1>5. CASE NextDate
  BY <1>5 DEF NextDate, AssistantTypes
<1>6. ASSUME NEW q \in Requests, Asks(q), ~Count(q), ~Record(q) PROVE UNCHANGED Tally
  BY <1>6, Zenon
     DEF Asks, Tally, Open, ReadSettings, ReadKey, StoreLive, Told, BeginTurn, HangUp, Respond, End
<1>7. ASSUME NEW p \in Savers,
             CheckSave(p) \/ CommitSettings(p) \/ SaveFails(p) \/ ForgetLive(p)
      PROVE UNCHANGED Tally
  BY <1>7, Zenon DEF Tally, CheckSave, CommitSettings, SaveFails, ForgetLive, turnVars
<1>8. CASE Expire
  BY <1>1, <1>8 DEF Expire, Tally, turnVars
<1>9. CASE \E q \in Requests : Asks(q)
  BY <1>1, <1>2, <1>3, <1>6, <1>9 DEF AssistantTypes
<1> QED
  BY <1>1, <1>4, <1>5, <1>7, <1>8, <1>9 DEF AssistantNext, Asks

LEMMA SavesTypes ==
  ASSUME AssistantTypes, AssistantNext
  PROVE /\ saving' = [p \in Savers |-> saving'[p]]
        /\ \A p \in Savers : IsSave(saving'[p])
        /\ key' \in BOOLEAN /\ settings'.enabled \in BOOLEAN
<1>1. CASE UNCHANGED <<saving, key, settings>>
  BY <1>1 DEF AssistantTypes
<1>2. ASSUME NEW p \in Savers, CommitSettings(p)
      PROVE /\ saving' = [s \in Savers |-> saving'[s]]
            /\ \A s \in Savers : IsSave(saving'[s])
            /\ key' \in BOOLEAN /\ settings'.enabled \in BOOLEAN
  <2> DEFINE wish == saving[p].wish
  <2>1. wish \in [limit : Nat \ {0}, enabled : BOOLEAN, key : {"keep", "clear", "set"}]
    BY <1>2, AssistantAssumption DEF AssistantAssumption, CommitSettings, AssistantTypes, IsSave
  <2>2. key' \in BOOLEAN
    BY <1>2, Zenon DEF CommitSettings, AssistantTypes
  <2>3. settings' = [limit |-> wish.limit, enabled |-> wish.enabled]
    BY <1>2 DEF CommitSettings
  <2> HIDE DEF wish
  <2>4. settings'.enabled \in BOOLEAN
    BY <2>1, <2>3
  <2>5. \/ saving' = [saving EXCEPT ![p].at = "forget"]
        \/ saving' = [saving EXCEPT ![p] = NotSaving]
    BY <1>2 DEF CommitSettings
  <2>6. IsSave(saving[p]) /\ IsSave(NotSaving)
    BY DEF AssistantTypes, IsSave, NotSaving
  <2>7. \A s : IsSave(s) => IsSave([s EXCEPT !.at = "forget"])
    BY DEF IsSave
  <2> QED
    BY <1>2, <2>2, <2>4, <2>5, <2>6, <2>7 DEF AssistantTypes
<1>3. CASE \E p \in Savers : CheckSave(p) \/ SaveFails(p) \/ ForgetLive(p)
  BY <1>3 DEF CheckSave, SaveFails, ForgetLive, AssistantTypes, NotSaving, IsSave
<1>4. CASE Crash
  BY <1>4 DEF Crash, AssistantTypes, NotSaving, IsSave
<1>5. ASSUME NEW q \in Requests, Asks(q) PROVE UNCHANGED <<saving, key, settings>>
  BY <1>5, Zenon
     DEF Asks, Open, ReadSettings, ReadKey, StoreLive, Told, BeginTurn, Count, HangUp, Respond,
         Record, End, settingVars
<1>6. CASE Expire \/ NextDate
  BY <1>1, <1>6 DEF Expire, NextDate, settingVars
<1> QED
  BY <1>1, <1>2, <1>3, <1>4, <1>5, <1>6 DEF AssistantNext, Asks

LEMMA RequestTypes ==
  ASSUME AssistantTypes, AssistantNext
  PROVE request' = [q \in Requests |-> request'[q]] /\ \A q \in Requests : IsRequest(request'[q])
<1>1. CASE UNCHANGED request
  BY <1>1 DEF AssistantTypes
<1>2. ASSUME NEW q \in Requests, Alone(q)
      PROVE request' = [p \in Requests |-> request'[p]]
            /\ \A p \in Requests : IsRequest(request'[p])
  BY <1>2 DEF Alone, AssistantTypes
<1>3. CASE Crash
  BY <1>3, ClosedIs DEF Crash
<1>4. CASE \E p \in Savers : ForgetLive(p)
  <2>1. ASSUME NEW q \in Requests PROVE IsRequest(request'[q])
    <3>1. IsRequest(request[q])
      BY DEF AssistantTypes
    <3>2. PICK n : n = [request[q] EXCEPT !.raced = TRUE]
                   /\ (request'[q] = n \/ request'[q] = request[q])
      BY <1>4 DEF ForgetLive
    <3> QED
      BY <3>1, <3>2, Stayed
  <2> QED
    BY <1>4, <2>1 DEF ForgetLive
<1>5. CASE \E p \in Savers : CheckSave(p) \/ CommitSettings(p) \/ SaveFails(p)
  BY <1>1, <1>5, Zenon DEF CheckSave, CommitSettings, SaveFails, turnVars
<1>6. CASE Expire \/ NextDate
  BY <1>1, <1>6 DEF Expire, NextDate, turnVars
<1> QED
  BY <1>2, <1>3, <1>4, <1>5, <1>6, AsksAlone DEF AssistantNext, Asks

-------------------------------------------------------------------------------
(* ... what a read may bring to the cache ... *)

LEMMA SettingsStep ==
  ASSUME AssistantTypes, AssistantTypes', SettingsInv, AssistantNext
  PROVE SettingsInv'
<1> DEFINE Same == UNCHANGED <<settings, key, saving, unseen>>
           Cached == live' # Nil => Excused' \/ live' = LiveOf(settings', key')
<1>1. Same => /\ Excused' <=> Excused
              /\ live' = live => Cached
              /\ \A q \in Requests : request'[q] = request[q] => ReadWell(q)'
  BY DEF Excused, ReadWell, KeyRead, AllRead, LiveOf, SettingsInv
<1>2. Excused' => /\ Cached /\ \A q \in Requests : ReadWell(q)'
  BY DEF ReadWell, KeyRead, AllRead
<1>3. SettingsInv' <=> Cached /\ \A q \in Requests : ReadWell(q)'
  BY DEF SettingsInv, LiveOf
<1>4. \A q \in Requests : request'[q].at \notin {"key", "store"} => ReadWell(q)'
  BY DEF ReadWell, KeyRead, AllRead
<1>5. ASSUME NEW q \in Requests, Same, Cached, Alone(q), ReadWell(q)'
      PROVE SettingsInv'
  BY <1>1, <1>3, <1>5 DEF Alone
<1>6. ASSUME NEW q \in Requests, Asks(q) PROVE SettingsInv'
  <2>1. Same /\ Alone(q)
    <3>1. Same
      BY <1>6, Zenon
         DEF Asks, Open, ReadSettings, ReadKey, StoreLive, Told, BeginTurn, Count, HangUp, Respond,
             Record, End, settingVars, cacheVars
    <3> QED
      BY <1>6, <3>1, AsksAlone
  <2>2. ReadWell(q) /\ IsRequest(request[q]) /\ settings.enabled \in BOOLEAN /\ key \in BOOLEAN
    BY DEF SettingsInv, AssistantTypes
  <2>3. CASE ReadSettings(q)
    <3>1. live' = live
      BY <2>3 DEF ReadSettings, cacheVars
    <3>2. CASE request'[q] = Closed
      BY <1>1, <1>4, <1>5, <2>1, <3>1, <3>2, ClosedIs
    <3>3. CASE request'[q] # Closed
      <4>1. /\ request'[q].live = LiveOf(settings, FALSE)
            /\ request'[q].at = IF settings.enabled /\ key THEN "key" ELSE "store"
        BY <2>3, <3>3, ReadSettingsMoves
      <4>2. KeyRead(request'[q], settings, Excused)
        BY <4>1 DEF KeyRead
      <4>3. AllRead(request'[q], settings, key, Excused)
        BY <2>2, <4>1, LiveOff DEF AllRead
      <4> QED
        BY <1>1, <1>5, <2>1, <3>1, <4>2, <4>3 DEF ReadWell, KeyRead, AllRead
    <3> QED
      BY <3>2, <3>3
  <2>4. CASE ReadKey(q)
    <3>1. live' = live /\ request[q].at = "key"
      BY <2>4 DEF ReadKey, cacheVars
    <3>2. CASE request'[q] = Closed
      BY <1>1, <1>4, <1>5, <2>1, <3>1, <3>2, ClosedIs
    <3>3. CASE request'[q] # Closed
      <4>1. /\ request'[q].live = [request[q].live EXCEPT !.on = key]
            /\ request'[q].at = "store" /\ request'[q].raced = request[q].raced
        BY <2>4, <3>3, ReadKeyMoves
      <4>2. request'[q].raced = FALSE /\ ~Excused => request'[q].live = LiveOf(settings, key)
        <5> SUFFICES ASSUME request'[q].raced = FALSE, ~Excused
                     PROVE request'[q].live = LiveOf(settings, key)
          OBVIOUS
        <5>1. settings.enabled = TRUE /\ request[q].live = LiveOf(settings, FALSE)
          BY <2>2, <3>1, <4>1 DEF ReadWell, KeyRead
        <5> QED
          BY <2>2, <4>1, <5>1, LiveOn
      <4> QED
        BY <1>1, <1>5, <2>1, <3>1, <4>1, <4>2 DEF ReadWell, KeyRead, AllRead
    <3> QED
      BY <3>2, <3>3
  <2>5. CASE StoreLive(q)
    <3>1. /\ request[q].at = "store" /\ Goes(q, [request[q] EXCEPT !.at = "ready"])
          /\ IF ~request[q].raced THEN live' = request[q].live ELSE live' = live
      BY <2>5 DEF StoreLive, Caches
    <3>2. request'[q].at = "ready"
      BY <3>1, OnMoves DEF AtPlaces
    <3>3. Cached
      BY <1>1, <2>1, <2>2, <3>1 DEF ReadWell, AllRead, IsRequest, LiveOf, Excused
    <3> QED
      BY <1>4, <1>5, <2>1, <3>2, <3>3
  <2>6. CASE request'[q].at \notin {"key", "store"} /\ live' = live
    BY <1>1, <1>4, <1>5, <2>1, <2>6
  <2>7. ~ReadSettings(q) /\ ~ReadKey(q) /\ ~StoreLive(q) =>
          request'[q].at \notin {"key", "store"} /\ live' = live
    <3>1. ASSUME Closes(q) PROVE request'[q].at = "closed"
      BY <3>1, CloseMoves
    <3>2. ASSUME NEW a \in {"run", "record", "end"}, Goes(q, [request[q] EXCEPT !.at = a])
          PROVE request'[q].at = a
      BY <3>2, OnMoves DEF AtPlaces, Turns
    <3>3. ASSUME Goes(q, [request[q] EXCEPT !.at = "count", !.since = date])
          PROVE request'[q].at = "count"
      BY <3>3, BeginMoves
    <3>4. ASSUME NEW x, request[q].at = "run",
                 \/ Goes(q, [request[q] EXCEPT !.left = x])
                 \/ Goes(q, [request[q] EXCEPT !.round = x])
          PROVE request'[q].at = "run"
      BY <3>4, StayMoves
    <3>5. Open(q) => request'[q].at \in {"ready", "settings"} /\ live' = live
      BY OpenMoves DEF Open, cacheVars
    <3>6. Told(q) \/ End(q) => request'[q].at = "closed" /\ live' = live
      BY <3>1 DEF Told, End, cacheVars
    <3>7. BeginTurn(q) => request'[q].at \in {"closed", "count"} /\ live' = live
      BY <3>1, <3>3 DEF BeginTurn, cacheVars
    <3>8. Count(q) => request'[q].at \in {"closed", "run"} /\ live' = live
      BY <3>1, <3>2 DEF Count, cacheVars
    <3>9. HangUp(q) => request'[q].at = "run" /\ live' = live
      BY <3>4 DEF HangUp, cacheVars
    <3>10. Respond(q) => request'[q].at \in {"run", "record"} /\ live' = live
      <4>1. ASSUME Respond(q) PROVE request'[q].at \in {"run", "record"}
        <5>1. CASE TurnOver(q)
          BY <3>2, <5>1 DEF TurnOver
        <5>2. CASE ~TurnOver(q)
          <6> DEFINE x == request[q].round + 1
          <6>1. request[q].at = "run" /\ Goes(q, [request[q] EXCEPT !.round = x])
            BY <4>1, <5>2 DEF Respond
          <6> QED
            BY <3>4, <6>1
        <5> QED
          BY <5>1, <5>2
      <4> QED
        BY <4>1 DEF Respond, cacheVars
    <3>11. Record(q) => request'[q].at = "end" /\ live' = live
      BY <3>2 DEF Record, cacheVars
    <3> QED
      BY <1>6, <3>5, <3>6, <3>7, <3>8, <3>9, <3>10, <3>11 DEF Asks
  <2> QED
    BY <2>3, <2>4, <2>5, <2>6, <2>7
<1>7. ASSUME NEW p \in Savers, CommitSettings(p) PROVE SettingsInv'
  <2>1. CASE unseen' = TRUE
    BY <1>2, <1>3, <2>1 DEF Excused
  <2>2. CASE saving' = [saving EXCEPT ![p].at = "forget"]
    <3>1. saving'[p].at = "forget"
      BY <2>2 DEF AssistantTypes, IsSave
    <3> QED
      BY <1>2, <1>3, <3>1 DEF Excused
  <2> QED
    BY <1>7, <2>1, <2>2 DEF CommitSettings
<1>8. ASSUME NEW p \in Savers, ForgetLive(p) PROVE SettingsInv'
  <2>1. ASSUME NEW q \in Requests, request'[q].at \in {"key", "store"}
        PROVE request'[q].raced = TRUE
    <3>1. IsRequest(request[q])
      BY DEF AssistantTypes
    <3> QED
      BY <1>8, <2>1, <3>1 DEF ForgetLive, IsRequest
  <2>2. Cached
    BY <1>8 DEF ForgetLive
  <2> QED
    BY <1>3, <2>1, <2>2 DEF ReadWell, KeyRead, AllRead
<1>9. ASSUME NEW p \in Savers, CheckSave(p) \/ SaveFails(p) PROVE SettingsInv'
  <2>1. request' = request /\ live' = live /\ UNCHANGED <<settings, key, unseen>>
    BY <1>9 DEF CheckSave, SaveFails, turnVars, cacheVars
  <2>2. Excused' <=> Excused
    <3>1. saving[p].at # "forget" /\ saving'[p].at # "forget"
          /\ \A s \in Savers : s # p => saving'[s] = saving[s]
      BY <1>9 DEF CheckSave, SaveFails, NotSaving, AssistantTypes
    <3> QED
      BY <2>1, <3>1 DEF Excused
  <2> QED
    BY <1>3, <2>1, <2>2 DEF SettingsInv, ReadWell, KeyRead, AllRead, LiveOf
<1>10. CASE Crash
  <2>1. live' = Nil /\ \A q \in Requests : request'[q] = Closed
    BY <1>10 DEF Crash
  <2> QED
    BY <1>3, <1>4, <2>1, ClosedIs
<1>11. CASE Expire \/ NextDate
  BY <1>1, <1>3, <1>11 DEF Expire, NextDate, turnVars, settingVars, cacheVars
<1> QED
  BY <1>6, <1>7, <1>8, <1>9, <1>10, <1>11 DEF AssistantNext, Asks

-------------------------------------------------------------------------------
(* ... and one turn of each user, on the books. *)

Asked == {"run", "record"}

LEMMA TurningOf ==
  ASSUME OneTurnEach, NEW q \in Requests, request[q].at \in Turns
  PROVE Turning(AskerOf[q]) = IF request[q].at \in Asked THEN {q} ELSE {}
BY DEF OneTurnEach, Turning, Turns, Asked

LEMMA TurningCount ==
  ASSUME OneTurnEach, NEW u \in Askers
  PROVE Cardinality(Turning(u)) \in Nat /\ IsFiniteSet(Turning(u))
<1>1. CASE Turning(u) = {}
  BY <1>1, FS_EmptySet
<1>2. CASE Turning(u) # {}
  <2>1. PICK q \in Turning(u) : TRUE
    BY <1>2
  <2>2. Turning(u) = {q}
    BY <2>1, TurningOf DEF Turning, Turns, Asked
  <2>3. Cardinality({q}) = 1 /\ IsFiniteSet({q})
    BY FS_Singleton
  <2>4. Cardinality({q}) \in Nat
    BY <2>3
  <2> QED
    BY <2>2, <2>3, <2>4, Zenon
<1> QED
  BY <1>1, <1>2

LEMMA UsedOf ==
  ASSUME RowsInv, NEW u \in Askers
  PROVE Used(u, 0) = Cardinality(usage[u]) /\ Cardinality(usage[u]) \in Nat
<1>1. {row \in usage[u] : row.date >= 0} = usage[u]
  BY DEF RowsInv
<1> QED
  BY <1>1, FS_CardinalityType DEF Used, RowsInv

\* A step that begins no question to the model and ends none.
LEMMA BooksKept ==
  ASSUME BooksInv, UNCHANGED <<usage, turns, lost>>,
         \A p \in Requests :
           /\ request'[p].at \in Asked <=> request[p].at \in Asked
           /\ request'[p].at \in Asked =>
                request'[p].live = request[p].live /\ request'[p].since = request[p].since
  PROVE BooksInv'
<1>1. \A u \in Askers : Turning(u)' = Turning(u)
  BY DEF Turning, Asked
<1>2. LimitKept'
  BY <1>1 DEF BooksInv, LimitKept, Used, Turning, Asked
<1>3. TurnsAccounted'
  BY <1>1 DEF BooksInv, TurnsAccounted, Used
<1>4. RowsInv'
  BY <1>1 DEF BooksInv, RowsInv
<1> QED
  BY <1>2, <1>3, <1>4 DEF BooksInv

LEMMA CountBooks ==
  ASSUME AssistantTypes, TurnsInv, NEW q \in Requests, request[q].at = "count", Alone(q),
         request'[q].at = "run",
         request'[q].live = request[q].live, request'[q].since = request[q].since,
         Used(AskerOf[q], request[q].since) < request[q].live.limit,
         turns' = [turns EXCEPT ![AskerOf[q]] = @ + 1], UNCHANGED <<usage, lost>>
  PROVE BooksInv'
<1> DEFINE u == AskerOf[q]
<1>1. u \in Askers /\ Turning(u) = {}
  BY TurnOf, TurningOf DEF TurnsInv, Turns, Asked
<1>2. Turning(u)' = {q}
  BY <1>1 DEF Alone, Turning
<1>3. \A w \in Askers : w # u => Turning(w)' = Turning(w) /\ turns'[w] = turns[w]
  BY DEF Alone, Turning, AssistantTypes
<1>4. turns[u] \in Nat /\ turns'[u] = turns[u] + 1
  BY <1>1 DEF AssistantTypes
<1> HIDE DEF u
<1>5. LimitKept'
  <2>1. \A w \in Askers : \A p \in Turning(w)' : p # q => request'[p] = request[p] /\ w # u
    BY <1>2 DEF Alone, Turning
  <2>2. ASSUME NEW w \in Askers, NEW p \in Turning(w)'
        PROVE Used(w, request[p].since)' < request'[p].live.limit
    <3>1. ASSUME request'[p].since = request[p].since
          PROVE Used(w, request[p].since)' = Used(w, request[p].since)
      BY <3>1 DEF Used
    <3>2. CASE p = q
      <4>1. w = u
        BY <2>2, <3>2 DEF Turning, u
      <4>2. Used(w, request[q].since) < request[q].live.limit
        BY <4>1 DEF u
      <4> QED
        BY <3>1, <3>2, <4>2
    <3>3. CASE p # q
      <4>1. request'[p] = request[p] /\ p \in Turning(w)
        BY <1>3, <2>1, <2>2, <3>3
      <4>2. Used(w, request[p].since) < request[p].live.limit
        BY <4>1 DEF TurnsInv, BooksInv, LimitKept
      <4> QED
        BY <3>1, <4>1, <4>2
    <3> QED
      BY <3>2, <3>3
  <2> QED
    BY <2>2 DEF LimitKept, Used
<1>6. TurnsAccounted'
  <2>1. Cardinality(Turning(u)) = 0 /\ Cardinality(Turning(u)') = 1
    BY <1>1, <1>2, FS_EmptySet, FS_Singleton
  <2>2. turns[u] = Used(u, 0) + lost[u] + 0 /\ Used(u, 0) \in Nat /\ lost[u] \in Nat
    BY <1>1, <2>1, UsedOf DEF TurnsInv, BooksInv, TurnsAccounted, AssistantTypes
  <2>3. \A w : Used(w, 0)' = Used(w, 0)
    BY DEF Used
  <2>4. turns'[u] = Used(u, 0)' + lost'[u] + Cardinality(Turning(u)')
    BY <1>4, <2>1, <2>2, <2>3
  <2>5. \A w \in Askers : w # u => turns'[w] = Used(w, 0)' + lost'[w] + Cardinality(Turning(w)')
    BY <1>3, <2>3 DEF TurnsInv, BooksInv, TurnsAccounted
  <2> QED
    BY <2>4, <2>5 DEF TurnsAccounted
<1>7. RowsInv'
  <2>1. ASSUME NEW w \in Askers, NEW row \in usage[w]
        PROVE /\ row.date \in Nat /\ row.turn \in Nat /\ row.turn <= turns'[w]
              /\ Turning(w)' # {} => row.turn # turns'[w]
    <3>1. /\ row.date \in Nat /\ row.turn \in Nat /\ row.turn <= turns[w]
          /\ Turning(w) # {} => row.turn # turns[w]
      BY DEF TurnsInv, BooksInv, RowsInv
    <3>2. CASE w = u
      BY <1>4, <3>1, <3>2
    <3>3. CASE w # u
      BY <1>3, <3>1, <3>3
    <3> QED
      BY <3>2, <3>3
  <2> QED
    BY <2>1 DEF TurnsInv, BooksInv, RowsInv
<1> QED
  BY <1>5, <1>6, <1>7 DEF BooksInv

LEMMA RecordBooks ==
  ASSUME AssistantTypes, TurnsInv, NEW q \in Requests, Record(q)
  PROVE BooksInv'
<1> DEFINE u == AskerOf[q]
<1>1. u \in Askers /\ Turning(u) = {q} /\ Cardinality(Turning(u)) = 1
  BY TurnOf, TurningOf, FS_Singleton DEF TurnsInv, Turns, Asked, Record
<1>2. Alone(q) /\ request'[q].at = "end" /\ UNCHANGED turns
  BY OnMoves DEF Record, AtPlaces, Turns
<1>3. Turning(u)' = {} /\ Cardinality(Turning(u)') = 0
  BY <1>1, <1>2, FS_EmptySet DEF Alone, Turning
<1>4. \A w \in Askers : w # u =>
        Turning(w)' = Turning(w) /\ usage'[w] = usage[w] /\ lost'[w] = lost[w]
  BY <1>1, <1>2 DEF Alone, Turning, Record, Logged, NotLogged, AssistantTypes
<1>5. turns[u] = Used(u, 0) + lost[u] + 1 /\ Used(u, 0) \in Nat /\ lost[u] \in Nat
      /\ turns[u] \in Nat
  BY <1>1, UsedOf DEF TurnsInv, BooksInv, TurnsAccounted, AssistantTypes
<1>6. /\ IsFiniteSet(usage[u])
      /\ \A row \in usage[u] : /\ row.date \in Nat /\ row.turn \in Nat
                                /\ row.turn <= turns[u] /\ row.turn # turns[u]
  BY <1>1 DEF TurnsInv, BooksInv, RowsInv
<1>7. Row(u).turn = turns[u] /\ Row(u).date = date /\ date \in Nat /\ Row(u) \notin usage[u]
  BY <1>6 DEF Row, AssistantTypes
<1>8. \/ /\ usage'[u] = usage[u] \cup {Row(u)} /\ lost'[u] = lost[u]
      \/ /\ usage'[u] = usage[u] /\ lost'[u] = lost[u] + 1
  BY <1>1 DEF Record, Logged, NotLogged, AssistantTypes
<1> HIDE DEF u
<1>9. /\ IsFiniteSet(usage'[u])
      /\ \A row \in usage'[u] : row.date \in Nat /\ row.turn \in Nat /\ row.turn <= turns[u]
      /\ turns[u] = Cardinality(usage'[u]) + lost'[u]
  <2>1. Used(u, 0) = Cardinality(usage[u]) /\ Cardinality(usage[u]) \in Nat
    BY <1>1, UsedOf DEF TurnsInv, BooksInv
  <2>2. IsFiniteSet(usage[u] \cup {Row(u)})
        /\ Cardinality(usage[u] \cup {Row(u)}) = Cardinality(usage[u]) + 1
    BY <1>6, <1>7, FS_AddElement
  <2>3. turns[u] = Cardinality(usage[u]) + lost[u] + 1
    BY <1>5, <2>1
  <2>4. CASE usage'[u] = usage[u] \cup {Row(u)} /\ lost'[u] = lost[u]
    <3>1. IsFiniteSet(usage'[u]) /\ Cardinality(usage'[u]) = Cardinality(usage[u]) + 1
      BY <2>2, <2>4
    <3>2. turns[u] = Cardinality(usage'[u]) + lost'[u]
      BY <1>5, <2>1, <2>3, <2>4, <3>1
    <3> QED
      BY <1>5, <1>6, <1>7, <2>4, <3>1, <3>2
  <2>5. CASE usage'[u] = usage[u] /\ lost'[u] = lost[u] + 1
    <3>1. Cardinality(usage'[u]) = Cardinality(usage[u])
      BY <2>5
    <3>2. turns[u] = Cardinality(usage'[u]) + lost'[u]
      BY <1>5, <2>1, <2>3, <2>5, <3>1
    <3> QED
      BY <1>6, <2>5, <3>2
  <2> QED
    BY <1>8, <2>4, <2>5
<1>10. LimitKept'
  <2>1. \A w \in Askers : \A p \in Turning(w)' : w # u /\ request'[p] = request[p]
    BY <1>2, <1>3 DEF Alone, Turning
  <2> QED
    BY <1>4, <2>1 DEF TurnsInv, BooksInv, LimitKept, Used
<1>11. TurnsAccounted'
  <2>1. {row \in usage'[u] : row.date >= 0} = usage'[u]
    BY <1>9
  <2>2. Cardinality(usage'[u]) \in Nat /\ lost'[u] \in Nat
    BY <1>5, <1>8, <1>9, FS_CardinalityType
  <2>5. Used(u, 0)' = Cardinality(usage'[u])
    BY <2>1, Zenon DEF Used
  <2>3. turns'[u] = Used(u, 0)' + lost'[u] + Cardinality(Turning(u)')
    BY <1>2, <1>3, <1>9, <2>2, <2>5
  <2>4. \A w \in Askers : w # u => turns'[w] = Used(w, 0)' + lost'[w] + Cardinality(Turning(w)')
    BY <1>2, <1>4 DEF TurnsInv, BooksInv, TurnsAccounted, Used
  <2> QED
    BY <2>3, <2>4 DEF TurnsAccounted
<1>12. RowsInv'
  BY <1>2, <1>3, <1>4, <1>9 DEF TurnsInv, BooksInv, RowsInv
<1> QED
  BY <1>10, <1>11, <1>12 DEF BooksInv

LEMMA CrashBooks ==
  ASSUME AssistantTypes, TurnsInv, Crash
  PROVE TurnsInv'
<1>1. \A q \in Requests : request'[q].at = "closed"
  BY ClosedIs DEF Crash
<1>2. \A u \in Askers : Turning(u)' = {} /\ Cardinality(Turning(u)') = 0
  BY <1>1, FS_EmptySet DEF Turning
<1>3. UNCHANGED <<usage, turns>>
  BY DEF Crash
<1>4. ASSUME NEW u \in Askers
      PROVE turns'[u] = Used(u, 0)' + lost'[u] + Cardinality(Turning(u)')
  <2>1. /\ turns[u] = Used(u, 0) + lost[u] + Cardinality(Turning(u))
        /\ Used(u, 0) \in Nat /\ lost[u] \in Nat
    BY UsedOf DEF TurnsInv, BooksInv, TurnsAccounted, AssistantTypes
  <2>2. Cardinality(Turning(u)) \in Nat /\ lost'[u] = lost[u] + Cardinality(Turning(u))
    BY TurningCount DEF TurnsInv, Crash
  <2>3. Used(u, 0)' = Used(u, 0)
    BY <1>3 DEF Used
  <2> QED
    BY <1>2, <1>3, <2>1, <2>2, <2>3
<1>5. BooksInv'
  BY <1>2, <1>3, <1>4 DEF TurnsInv, BooksInv, LimitKept, TurnsAccounted, RowsInv
<1>6. OneTurnEach'
  BY <1>1 DEF OneTurnEach, Turns
<1> QED
  BY <1>5, <1>6 DEF TurnsInv

LEMMA TurnsStep ==
  ASSUME AssistantTypes, TurnsInv, AssistantNext
  PROVE TurnsInv'
<1> DEFINE Quiet == UNCHANGED <<usage, turns, lost>>
           SameKind(p) == /\ request'[p].at \in Turns <=> request[p].at \in Turns
                          /\ request'[p].at \in Asked <=> request[p].at \in Asked
                          /\ request'[p].at \in Asked =>
                               /\ request'[p].live = request[p].live
                               /\ request'[p].since = request[p].since
<1>1. ASSUME Quiet, busy' = busy, \A p \in Requests : SameKind(p) PROVE TurnsInv'
  <2>1. BooksInv'
    BY <1>1, BooksKept DEF TurnsInv
  <2>2. OneTurnEach'
    BY <1>1 DEF TurnsInv, OneTurnEach
  <2> QED
    BY <2>1, <2>2 DEF TurnsInv
<1>2. Turns = {"count", "run", "record", "end"} /\ Asked = {"run", "record"}
      /\ Turns \subseteq AtPlaces /\ "ready" \in AtPlaces
  BY DEF Turns, Asked, AtPlaces
<1> HIDE DEF SameKind
<1>3. ASSUME NEW q \in Requests, Alone(q), SameKind(q), Quiet, busy' = busy PROVE TurnsInv'
  <2>1. \A p \in Requests : p # q => SameKind(p)
    BY <1>3 DEF Alone, SameKind
  <2> QED
    BY <1>1, <1>3, <2>1
<1>4. ASSUME NEW q \in Requests, Closes(q), request[q].at \notin Turns, Quiet, busy' = busy
      PROVE TurnsInv'
  BY <1>2, <1>3, <1>4, CloseMoves DEF SameKind
<1>5. ASSUME NEW q \in Requests, Closes(q), request[q].at \in {"count", "end"}, Quiet,
             busy' = busy \ {AskerOf[q]}
      PROVE TurnsInv'
  <2>1. Alone(q) /\ request'[q].at = "closed"
    BY <1>5, CloseMoves
  <2>2. BooksInv'
    BY <1>2, <1>5, <2>1, BooksKept DEF TurnsInv, Alone
  <2>3. OneTurnEach'
    BY <1>2, <1>5, <2>1 DEF TurnsInv, OneTurnEach, Alone
  <2> QED
    BY <2>2, <2>3 DEF TurnsInv
<1>6. ASSUME NEW q \in Requests, Open(q) PROVE TurnsInv'
  <2>1. Quiet /\ busy' = busy /\ request[q].at = "closed"
    BY <1>6 DEF Open
  <2> QED
    BY <1>2, <1>3, <1>6, <2>1, OpenMoves DEF SameKind
<1>7. ASSUME NEW q \in Requests, ReadSettings(q) \/ ReadKey(q) PROVE TurnsInv'
  <2>1. Quiet /\ busy' = busy /\ request[q].at \in {"settings", "key"}
    BY <1>7 DEF ReadSettings, ReadKey
  <2>2. Alone(q) /\ request'[q].at \in {"closed", "key", "store"}
    BY <1>7, ReadSettingsMoves, ReadKeyMoves, ClosedIs
  <2> QED
    BY <1>2, <1>3, <2>1, <2>2 DEF SameKind
<1>8. ASSUME NEW q \in Requests, StoreLive(q) PROVE TurnsInv'
  <2>1. Quiet /\ busy' = busy /\ request[q].at = "store"
    BY <1>8 DEF StoreLive
  <2>2. Alone(q) /\ request'[q].at = "ready"
    BY <1>2, <1>8, OnMoves DEF StoreLive
  <2> QED
    BY <1>2, <1>3, <2>1, <2>2 DEF SameKind
<1>9. ASSUME NEW q \in Requests, Told(q) PROVE TurnsInv'
  BY <1>2, <1>4, <1>9 DEF Told
<1>10. ASSUME NEW q \in Requests, BeginTurn(q) PROVE TurnsInv'
  <2>1. Quiet /\ request[q].at = "ready"
    BY <1>10 DEF BeginTurn
  <2>2. CASE AskerOf[q] \in busy
    BY <1>2, <1>4, <1>10, <2>1, <2>2 DEF BeginTurn
  <2>3. CASE AskerOf[q] \notin busy
    <3>1. Alone(q) /\ request'[q].at = "count" /\ busy' = busy \cup {AskerOf[q]}
      BY <1>10, <2>3, BeginMoves DEF BeginTurn
    <3>2. BooksInv'
      BY <1>2, <2>1, <3>1, BooksKept DEF TurnsInv, Alone
    <3>3. OneTurnEach'
      BY <2>3, <3>1 DEF TurnsInv, OneTurnEach, Alone
    <3> QED
      BY <3>2, <3>3 DEF TurnsInv
  <2> QED
    BY <2>2, <2>3
<1>11. ASSUME NEW q \in Requests, Count(q) PROVE TurnsInv'
  <2>1. request[q].at = "count" /\ UNCHANGED <<usage, lost>>
    BY <1>11 DEF Count
  <2>2. CASE Closes(q) /\ busy' = busy \ {AskerOf[q]} /\ UNCHANGED turns
    BY <1>5, <2>1, <2>2
  <2>3. CASE /\ Used(AskerOf[q], request[q].since) < request[q].live.limit
             /\ Goes(q, [request[q] EXCEPT !.at = "run"])
             /\ turns' = [turns EXCEPT ![AskerOf[q]] = @ + 1] /\ UNCHANGED busy
    <3>1. /\ Alone(q) /\ request'[q].at = "run"
          /\ request'[q].live = request[q].live /\ request'[q].since = request[q].since
      BY <1>2, <2>3, OnMoves
    <3>2. BooksInv'
      BY <2>1, <2>3, <3>1, CountBooks
    <3>3. OneTurnEach'
      BY <1>2, <2>1, <2>3, <3>1 DEF TurnsInv, OneTurnEach, Alone
    <3> QED
      BY <3>2, <3>3 DEF TurnsInv
  <2> QED
    BY <1>11, <2>2, <2>3 DEF Count
<1>12. ASSUME NEW q \in Requests, NEW x, request[q].at = "run", Quiet, busy' = busy,
              \/ Goes(q, [request[q] EXCEPT !.left = x])
              \/ Goes(q, [request[q] EXCEPT !.round = x])
       PROVE TurnsInv'
  <2>1. /\ Alone(q) /\ request'[q].at = request[q].at
        /\ request'[q].live = request[q].live /\ request'[q].since = request[q].since
    BY <1>12, StayMoves
  <2> QED
    BY <1>3, <1>12, <2>1 DEF SameKind
<1>13. ASSUME NEW q \in Requests, HangUp(q) PROVE TurnsInv'
  BY <1>12, <1>13 DEF HangUp
<1>14. ASSUME NEW q \in Requests, Respond(q) PROVE TurnsInv'
  <2>1. Quiet /\ busy' = busy /\ request[q].at = "run"
    BY <1>14 DEF Respond, TurnOver
  <2>2. CASE TurnOver(q)
    <3>1. /\ Alone(q) /\ request'[q].at = "record"
          /\ request'[q].live = request[q].live /\ request'[q].since = request[q].since
      BY <1>2, <2>2, OnMoves DEF TurnOver
    <3> QED
      BY <1>2, <1>3, <2>1, <3>1 DEF SameKind
  <2>3. CASE ~TurnOver(q)
    <3> DEFINE x == request[q].round + 1
    <3>1. Goes(q, [request[q] EXCEPT !.round = x])
      BY <1>14, <2>3 DEF Respond
    <3> QED
      BY <1>12, <2>1, <3>1
  <2> QED
    BY <2>2, <2>3
<1>15. ASSUME NEW q \in Requests, Record(q) PROVE TurnsInv'
  <2>1. Alone(q) /\ request'[q].at = "end" /\ request[q].at = "record" /\ busy' = busy
    BY <1>2, <1>15, OnMoves DEF Record
  <2>2. OneTurnEach'
    BY <1>2, <2>1 DEF TurnsInv, OneTurnEach, Alone
  <2> QED
    BY <1>15, <2>2, RecordBooks DEF TurnsInv
<1>16. ASSUME NEW q \in Requests, End(q) PROVE TurnsInv'
  BY <1>5, <1>16 DEF End
<1>17. ASSUME UNCHANGED <<request, busy, usage, turns, lost>> PROVE TurnsInv'
  BY <1>1, <1>17 DEF SameKind
<1>18. ASSUME NEW p \in Savers, CheckSave(p) \/ CommitSettings(p) \/ SaveFails(p)
       PROVE TurnsInv'
  BY <1>17, <1>18, Zenon DEF CheckSave, CommitSettings, SaveFails, turnVars
<1>19. ASSUME NEW p \in Savers, ForgetLive(p) PROVE TurnsInv'
  <2>1. ASSUME NEW q \in Requests PROVE SameKind(q)
    <3>1. IsRequest(request[q])
      BY DEF AssistantTypes
    <3>2. PICK n : n = [request[q] EXCEPT !.raced = TRUE]
                   /\ (request'[q] = n \/ request'[q] = request[q])
      BY <1>19 DEF ForgetLive
    <3> QED
      BY <3>1, <3>2, Stayed DEF SameKind
  <2> QED
    BY <1>1, <1>19, <2>1 DEF ForgetLive
<1>20. CASE Expire \/ NextDate
  BY <1>17, <1>20 DEF Expire, NextDate, turnVars
<1> QED
  BY <1>6, <1>7, <1>8, <1>9, <1>10, <1>11, <1>13, <1>14, <1>15, <1>16, <1>18, <1>19, <1>20,
     CrashBooks DEF AssistantNext

LEMMA AssistantInvStep == AssistantInv /\ [AssistantNext]_assistantVars => AssistantInv'
<1> SUFFICES ASSUME AssistantInv, [AssistantNext]_assistantVars PROVE AssistantInv'
  OBVIOUS
<1>1. AssistantTypes /\ SettingsInv /\ TurnsInv
  BY DEF AssistantInv
<1>2. CASE AssistantNext
  <2>1. \A u \in Askers : Cardinality(Turning(u)) \in Nat
    BY <1>1, TurningCount DEF TurnsInv
  <2>2. AssistantTypes'
    BY <1>1, <1>2, <2>1, TallyTypes, SavesTypes, RequestTypes DEF AssistantTypes
  <2> QED
    BY <1>1, <1>2, <2>2, SettingsStep, TurnsStep DEF AssistantInv
<1>3. CASE UNCHANGED assistantVars
  <2>1. UNCHANGED <<settings, key, live, fresh, request, busy, usage, saving, date, turns, lost,
                    unseen>>
    BY <1>3 DEF assistantVars, turnVars, settingVars, cacheVars
  <2>2. \A u : Turning(u)' = Turning(u) /\ \A x : Used(u, x)' = Used(u, x)
    BY <2>1 DEF Turning, Used
  <2>3. AssistantTypes'
    BY <1>1, <2>1 DEF AssistantTypes
  <2>4. SettingsInv'
    BY <1>1, <2>1 DEF SettingsInv, ReadWell, KeyRead, AllRead, Excused, LiveOf
  <2>5. BooksInv'
    BY <1>1, <2>1, BooksKept DEF TurnsInv
  <2>6. OneTurnEach'
    BY <1>1, <2>1 DEF TurnsInv, OneTurnEach
  <2> QED
    BY <2>3, <2>4, <2>5, <2>6 DEF AssistantInv, TurnsInv
<1> QED
  BY <1>2, <1>3

\* The assistant's books are kept (chat_handlers.go, ai_settings.go): the cache
\* holds the saved settings but between a save and its forgetting, a turn runs
\* while its user's rows leave room, and every turn that asked the model is
\* logged, under way, or lost to a failed insert or a crash.
THEOREM AssistantBooksKept == AssistantSpec => []AssistantKeepsBooks
<1>1. AssistantInv => AssistantKeepsBooks
  BY DEF AssistantInv, SettingsInv, TurnsInv, BooksInv, AssistantKeepsBooks, CacheIsSaved, Excused
<1> QED
  BY <1>1, AssistantInvInit, AssistantInvStep, PTL DEF AssistantSpec

-------------------------------------------------------------------------------
(* Numbers *)

LEMMA LeastNumber ==
  ASSUME NEW S \in SUBSET Nat, S # {}
  PROVE  \E x \in S : \A y \in S : x <= y
<1> DEFINE R == {ss \in Nat \X Nat : ss[1] < ss[2]}
<1>1. IsWellFoundedOn(R, Nat)
  BY NatLessThanWellFounded DEF OpToRel
<1> HIDE DEF R
<1>2. \E x \in S : \A y \in S : <<y, x>> \notin R
  BY <1>1, WFMin
<1>3. \A x, y \in Nat : <<y, x>> \notin R => x <= y
  BY DEF R
<1> QED
  BY <1>2, <1>3

\* Induction, told as a property of sets.
LEMMA Inductive ==
  ASSUME NEW S, 0 \in S, \A n \in Nat : n \in S => n + 1 \in S
  PROVE  Nat \subseteq S
<1> SUFFICES ASSUME Nat \ S # {} PROVE FALSE
  OBVIOUS
<1> DEFINE T == Nat \ S
<1>1. T \in SUBSET Nat /\ T # {}
  OBVIOUS
<1>2. PICK n \in T : \A y \in T : n <= y
  BY <1>1, LeastNumber
<1>3. n \in Nat /\ n # 0
  OBVIOUS
<1>4. n - 1 \in Nat /\ (n - 1) + 1 = n /\ ~(n <= n - 1)
  BY <1>3
<1>5. n - 1 \in S
  BY <1>2, <1>4
<1> QED
  BY <1>4, <1>5

\* The greatest of some numbers below a bound.
LEMMA GreatestNumber ==
  ASSUME NEW n \in Nat, NEW S \in SUBSET (0..n), S # {}
  PROVE  \E x \in S : \A y \in S : y <= x
<1> DEFINE T == {n - y : y \in S}
<1>1. T \in SUBSET Nat /\ T # {}
  <2>1. \A y \in S : n - y \in Nat
    OBVIOUS
  <2> QED
    BY <2>1
<1>2. PICK z \in T : \A w \in T : z <= w
  BY <1>1, LeastNumber
<1>3. PICK x \in S : z = n - x
  OBVIOUS
<1>4. ASSUME NEW y \in S PROVE y <= x
  <2>1. n - x <= n - y
    BY <1>2, <1>3
  <2> QED
    BY <2>1
<1> QED
  BY <1>4

-------------------------------------------------------------------------------
(* The sums of falls. *)

\* What the sums of a sequence are, up to n.
SumsUpTo(sum, falls, n) ==
  sum = [k \in 0..n |-> IF k = 0 THEN 0 ELSE sum[k - 1] + falls[k].kwh]

LEMMA SumsExist ==
  ASSUME NEW falls, NEW n \in Nat
  PROVE  \E sum : SumsUpTo(sum, falls, n)
<1> DEFINE G == {k \in Nat : \E sum : SumsUpTo(sum, falls, k)}
<1>1. 0 \in G
  <2> DEFINE sum == [k \in 0..0 |-> 0]
  <2>1. SumsUpTo(sum, falls, 0)
    BY DEF SumsUpTo
  <2> QED
    BY <2>1
<1>2. ASSUME NEW k \in Nat, k \in G PROVE k + 1 \in G
  <2>1. PICK p : SumsUpTo(p, falls, k)
    BY <1>2
  <2> DEFINE q == [i \in 0..k + 1 |-> IF i = k + 1 THEN p[k] + falls[k + 1].kwh ELSE p[i]]
  <2>2. \A i \in 0..k + 1 : q[i] = IF i = 0 THEN 0 ELSE q[i - 1] + falls[i].kwh
    BY <2>1 DEF SumsUpTo
  <2>3. q = [i \in 0..k + 1 |-> q[i]]
    OBVIOUS
  <2> HIDE DEF q
  <2>4. SumsUpTo(q, falls, k + 1)
    BY <2>2, <2>3 DEF SumsUpTo
  <2> QED
    BY <2>4
<1> HIDE DEF G
<1>3. n \in G
  BY <1>1, <1>2, Inductive
<1> QED
  BY <1>3 DEF G

LEMMA SumsHold ==
  ASSUME NEW falls \in Seq(Fall)
  PROVE  LET sum == KwhOfFirst(falls)
             n == Len(falls)
         IN  /\ n \in Nat /\ sum[0] = 0 /\ KwhOf(falls) = sum[n]
             /\ \A k \in 1..n : sum[k] = sum[k - 1] + falls[k].kwh /\ falls[k].kwh \in Int
             /\ \A k \in 0..n : sum[k] \in Int
<1> DEFINE n == Len(falls)
           sum == CHOOSE sum : SumsUpTo(sum, falls, n)
<1>1. n \in Nat /\ \A k \in 1..n : falls[k].kwh \in Int
  <2>1. n \in Nat /\ \A k \in 1..n : falls[k] \in Fall
    OBVIOUS
  <2> QED
    BY <2>1 DEF Fall
<1>2. SumsUpTo(sum, falls, n)
  BY <1>1, SumsExist
<1>3. KwhOfFirst(falls) = sum
  BY DEF KwhOfFirst, SumsUpTo
<1> HIDE DEF sum, n
<1>4. \A k \in 0..n : sum[k] = IF k = 0 THEN 0 ELSE sum[k - 1] + falls[k].kwh
  BY <1>2 DEF SumsUpTo
<1> DEFINE G == {k \in Nat : k <= n => sum[k] \in Int}
<1>5. 0 \in G
  BY <1>1, <1>4
<1>6. ASSUME NEW k \in Nat, k \in G PROVE k + 1 \in G
  <2> SUFFICES ASSUME k + 1 <= n PROVE sum[k + 1] \in Int
    OBVIOUS
  <2>1. sum[k + 1] = sum[k] + falls[k + 1].kwh /\ sum[k] \in Int
    BY <1>1, <1>4, <1>6
  <2> QED
    BY <1>1, <2>1
<1> HIDE DEF G
<1>7. Nat \subseteq G
  BY <1>5, <1>6, Inductive
<1>8. \A k \in 0..n : sum[k] \in Int
  BY <1>1, <1>7 DEF G
<1>9. KwhOf(falls) = sum[n]
  BY <1>3 DEF KwhOf, n
<1> QED
  BY <1>1, <1>3, <1>4, <1>8, <1>9 DEF n

\* Sums agree as far as the falls do.
LEMMA SumsAlike ==
  ASSUME NEW f \in Seq(Fall), NEW g \in Seq(Fall), NEW m \in Nat,
         m <= Len(f), m <= Len(g), \A k \in 1..m : f[k].kwh = g[k].kwh
  PROVE  KwhOfFirst(f)[m] = KwhOfFirst(g)[m]
<1> DEFINE a == KwhOfFirst(f)
           b == KwhOfFirst(g)
           G == {k \in Nat : k <= m => a[k] = b[k]}
<1>1. /\ a[0] = 0 /\ b[0] = 0 /\ Len(f) \in Nat /\ Len(g) \in Nat
      /\ \A k \in 1..Len(f) : a[k] = a[k - 1] + f[k].kwh
      /\ \A k \in 1..Len(g) : b[k] = b[k - 1] + g[k].kwh
  BY SumsHold
<1> HIDE DEF a, b
<1>2. 0 \in G
  BY <1>1
<1>3. ASSUME NEW k \in Nat, k \in G PROVE k + 1 \in G
  <2> SUFFICES ASSUME k + 1 <= m PROVE a[k + 1] = b[k + 1]
    OBVIOUS
  <2>1. k + 1 \in 1..Len(f) /\ k + 1 \in 1..Len(g) /\ k + 1 \in 1..m /\ (k + 1) - 1 = k
    BY <1>1
  <2> QED
    BY <1>1, <1>3, <2>1
<1> HIDE DEF G
<1>4. m \in G
  BY <1>2, <1>3, Inductive
<1> QED
  BY <1>4 DEF G, a, b

LEMMA FallTrimmed ==
  ASSUME NEW f \in Fall, NEW l \in Int
  PROVE  LET g == [f EXCEPT !.kwh = @ - l] IN g \in Fall /\ g.kwh = f.kwh - l
<1>1. f = [s |-> f.s, kwh |-> f.kwh] /\ f.s \in Nat /\ f.kwh \in Int
  BY DEF Fall
<1>2. [f EXCEPT !.kwh = @ - l] = [s |-> f.s, kwh |-> f.kwh - l]
  BY <1>1
<1> QED
  BY <1>1, <1>2 DEF Fall

\* The falls a return leaves: k of them, the newest less what it gave back.
LeftFalls(falls, k, left) ==
  [i \in 1..k |-> IF i = k THEN [falls[i] EXCEPT !.kwh = @ - left] ELSE falls[i]]

LEMMA FallAdded ==
  ASSUME NEW falls \in Seq(Fall), NEW f \in Fall
  PROVE  Append(falls, f) \in Seq(Fall) /\ KwhOf(Append(falls, f)) = KwhOf(falls) + f.kwh
<1> DEFINE g == Append(falls, f)
           n == Len(falls)
<1>1. g \in Seq(Fall) /\ Len(g) = n + 1 /\ n \in Nat /\ g[n + 1] = f /\ \A k \in 1..n : g[k] = falls[k]
  OBVIOUS
<1> HIDE DEF g, n
<1>2. KwhOfFirst(g)[n] = KwhOfFirst(falls)[n]
  BY <1>1, SumsAlike DEF n
<1>3. KwhOfFirst(g)[n + 1] = KwhOfFirst(g)[n] + f.kwh
  BY <1>1, SumsHold
<1>4. KwhOf(g) = KwhOfFirst(g)[n + 1] /\ KwhOf(falls) = KwhOfFirst(falls)[n]
  BY <1>1, SumsHold DEF n
<1> QED
  BY <1>1, <1>2, <1>3, <1>4 DEF g

LEMMA NoFalls == <<>> \in Seq(Fall) /\ KwhOf(<<>>) = 0
<1>1. <<>> \in Seq(Fall) /\ Len(<<>>) = 0
  OBVIOUS
<1> QED
  BY <1>1, SumsHold

LEMMA KeptHolds ==
  ASSUME NEW falls \in Seq(Fall), NEW kwh \in Int, 0 <= kwh
  PROVE  LET k == Kept(falls, kwh)
             newest(j) == KwhOf(falls) - KwhOfFirst(falls)[j]
         IN  k \in 0..Len(falls) /\ newest(k) <= kwh /\ (k > 0 => newest(k - 1) > kwh)
<1> DEFINE n == Len(falls)
           newest(j) == KwhOf(falls) - KwhOfFirst(falls)[j]
           S == {j \in 0..n : newest(j) <= kwh}
           Is(j) == newest(j) <= kwh /\ (j > 0 => newest(j - 1) > kwh)
<1>1. n \in Nat /\ newest(n) = 0 /\ \A j \in 0..n : newest(j) \in Int
  BY SumsHold
<1> HIDE DEF n, newest
<1>2. S \in SUBSET Nat /\ S # {}
  BY <1>1
<1>3. PICK k \in S : \A j \in S : k <= j
  BY <1>2, LeastNumber
<1>4. Is(k)
  <2>1. k \in 0..n /\ newest(k) <= kwh
    OBVIOUS
  <2>2. ASSUME k > 0 PROVE newest(k - 1) > kwh
    <3>1. k - 1 \in 0..n /\ k - 1 \notin S
      BY <1>1, <1>3, <2>1, <2>2
    <3> QED
      BY <1>1, <3>1
  <2> QED
    BY <2>1, <2>2
<1>5. \E j \in 0..n : Is(j)
  BY <1>4
<1>6. Kept(falls, kwh) = CHOOSE j \in 0..n : Is(j)
  BY DEF Kept, n, newest
<1> HIDE DEF Is
<1>7. Kept(falls, kwh) \in 0..n /\ Is(Kept(falls, kwh))
  BY <1>5, <1>6
<1> QED
  BY <1>7 DEF Is, n, newest

\* A return that gives back no more than is open takes just that from the sum.
LEMMA FallsReturned ==
  ASSUME NEW falls \in Seq(Fall), NEW kwh \in Int, 0 <= kwh, kwh <= KwhOf(falls)
  PROVE  LET k == Kept(falls, kwh)
             left == kwh - (KwhOf(falls) - KwhOfFirst(falls)[k])
             rest == LeftFalls(falls, k, left)
         IN  /\ k \in 0..Len(falls) /\ rest \in Seq(Fall) /\ KwhOf(rest) = KwhOf(falls) - kwh
<1> DEFINE n == Len(falls)
           sum == KwhOfFirst(falls)
           k == Kept(falls, kwh)
           left == kwh - (KwhOf(falls) - sum[k])
           rest == LeftFalls(falls, k, left)
<1>1. /\ n \in Nat /\ sum[0] = 0 /\ KwhOf(falls) = sum[n]
      /\ \A j \in 1..n : sum[j] = sum[j - 1] + falls[j].kwh
      /\ \A j \in 0..n : sum[j] \in Int
  BY SumsHold
<1>2. k \in 0..n /\ KwhOf(falls) - sum[k] <= kwh
  BY KeptHolds
<1> HIDE DEF n, sum, k
<1>3. left \in Int /\ KwhOf(falls) \in Int /\ k \in Nat /\ k <= n
  BY <1>1, <1>2
<1>4. \A i \in 1..n : falls[i] \in Fall
  BY DEF n
<1>5. \A i \in 1..k : i # k => rest[i] = falls[i]
  BY <1>3 DEF LeftFalls
<1>6. k > 0 => rest[k] = [falls[k] EXCEPT !.kwh = @ - left]
  BY <1>3 DEF LeftFalls
<1>11. rest = [i \in 1..k |-> rest[i]]
  BY DEF LeftFalls
<1> HIDE DEF rest, left
<1>7. k > 0 => rest[k] \in Fall /\ rest[k].kwh = falls[k].kwh - left
  <2>1. ASSUME NEW f \in Fall
        PROVE  LET g == [f EXCEPT !.kwh = @ - left] IN g \in Fall /\ g.kwh = f.kwh - left
    BY <1>3, FallTrimmed
  <2>2. k > 0 => falls[k] \in Fall
    BY <1>1, <1>3, <1>4
  <2> QED
    BY <1>6, <2>1, <2>2
<1>8. rest \in Seq(Fall) /\ Len(rest) = k
  <2>1. \A i \in 1..k : rest[i] \in Fall
    <3> SUFFICES ASSUME NEW i \in 1..k PROVE rest[i] \in Fall
      OBVIOUS
    <3>1. i \in 1..n /\ (i = k => k > 0)
      BY <1>1, <1>3
    <3>2. falls[i] \in Fall
      BY <1>4, <3>1
    <3> QED
      BY <1>5, <1>7, <3>1, <3>2
  <2>2. rest \in [1..k -> Fall]
    BY <1>11, <2>1
  <2> QED
    BY <1>3, <2>2
<1>9. CASE k = 0
  <2>1. KwhOf(rest) = 0
    BY <1>8, <1>9, SumsHold
  <2>2. KwhOf(falls) <= kwh
    BY <1>1, <1>2, <1>3, <1>9
  <2>3. KwhOf(falls) - kwh = 0
    BY <1>3, <2>2
  <2> QED
    BY <1>2, <1>8, <2>1, <2>3 DEF n, k, rest, left, sum
<1>10. CASE k > 0
  <2> DEFINE part == KwhOfFirst(rest)
  <2>1. part[k] = part[k - 1] + rest[k].kwh /\ KwhOf(rest) = part[k]
    BY <1>3, <1>8, <1>10, SumsHold
  <2>2. part[k - 1] = sum[k - 1]
    <3>1. /\ k - 1 \in Nat /\ k - 1 <= Len(falls) /\ k - 1 <= Len(rest)
          /\ \A i \in 1..k - 1 : rest[i].kwh = falls[i].kwh
      BY <1>3, <1>5, <1>8, <1>10 DEF n
    <3> QED
      BY <1>8, <3>1, SumsAlike DEF sum
  <2> HIDE DEF part
  <2>3. KwhOf(rest) = sum[k] - left
    <3>1. sum[k] = sum[k - 1] + falls[k].kwh /\ sum[k - 1] \in Int /\ falls[k].kwh \in Int
      BY <1>1, <1>3, <1>4, <1>10 DEF Fall
    <3> QED
      BY <1>3, <1>7, <1>10, <2>1, <2>2, <3>1
  <2>4. sum[k] - left = KwhOf(falls) - kwh
    BY <1>1, <1>2, <1>3 DEF left
  <2> QED
    BY <1>2, <1>8, <2>3, <2>4 DEF n, k, rest, left, sum
<1> QED
  BY <1>3, <1>9, <1>10

-------------------------------------------------------------------------------
(* What one step does to the stitcher. *)

Step == [pt : Nat, pv : Int, t : Nat, v : Int, dt : Nat]

Opened(t, o) == [s |-> t, e |-> Nil, a |-> o, b |-> o]
ClosedAt(g, t, b) == [g EXCEPT !.e = t, !.b = b]
Switched(segs, open, t, b, o) ==
  Put(IF open # Nil /\ t > open.s THEN Put(segs, ClosedAt(open, t, b)) ELSE segs, Opened(t, o))

\* n is st after a switch at t, on the ramp's end b.
SwitchedBy(st, n, t, b) ==
  /\ n \in State /\ n.open = Opened(t, Offset(n))
  /\ n.segs = Switched(st.segs, st.open, t, b, Offset(n))

LEMMA StateFields ==
  ASSUME NEW st \in State
  PROVE  /\ st = [base |-> st.base, falls |-> st.falls, jump |-> st.jump, open |-> st.open,
                  segs |-> st.segs, eps |-> st.eps]
         /\ st.base \in Int /\ st.falls \in Seq(Fall) /\ st.jump \in Fall \cup {Nil}
         /\ st.open \in Segment \cup {Nil} /\ st.segs \subseteq Segment /\ st.eps \subseteq Episode
BY DEF State

LEMMA OffsetTyped ==
  ASSUME NEW st \in State
  PROVE  pending(st) \in Int /\ Offset(st) = st.base + KwhOf(st.falls) /\ Offset(st) \in Int
<1>1. st.base \in Int /\ KwhOf(st.falls) \in Int
  <2>1. st.base \in Int /\ st.falls \in Seq(Fall)
    BY StateFields
  <2> QED
    BY <2>1, SumsHold
<1> QED
  BY <1>1 DEF pending, Offset

LEMMA SegmentFields ==
  ASSUME NEW g \in Segment
  PROVE  g = [s |-> g.s, e |-> g.e, a |-> g.a, b |-> g.b] /\ g.s \in Nat /\ g.e \in Nat \cup {Nil}
         /\ g.a \in Int /\ g.b \in Int
BY DEF Segment

LEMMA ClosedFields ==
  ASSUME NEW g \in Segment, NEW t \in Nat, NEW b \in Int
  PROVE  LET h == ClosedAt(g, t, b)
         IN  h \in Segment /\ h.s = g.s /\ h.e = t /\ h.a = g.a /\ h.b = b
BY DEF ClosedAt, Segment

LEMMA SwitchedTyped ==
  ASSUME NEW segs \in SUBSET Segment, NEW open \in Segment \cup {Nil}, NEW t \in Nat,
         NEW b \in Int, NEW o \in Int
  PROVE  Opened(t, o) \in Segment /\ Switched(segs, open, t, b, o) \subseteq Segment
<1>1. Opened(t, o) \in Segment
  BY DEF Opened, Segment
<1>2. open # Nil => ClosedAt(open, t, b) \in Segment
  BY ClosedFields
<1> QED
  BY <1>1, <1>2 DEF Switched, Put

LEMMA SwitchShape ==
  ASSUME NEW st \in State, NEW t \in Nat, NEW b \in Int
  PROVE  LET n == switchAt(st, t, b)
         IN  /\ n.base = st.base /\ n.falls = st.falls /\ n.jump = st.jump
             /\ Offset(n) = Offset(st) /\ SwitchedBy(st, n, t, b)
<1> DEFINE o == Offset(st)
           n == switchAt(st, t, b)
           g == Switched(st.segs, st.open, t, b, o)
<1>1. o \in Int /\ o = st.base + KwhOf(st.falls)
  BY OffsetTyped
<1>2. n = [st EXCEPT !.open = Opened(t, o), !.segs = g]
  BY DEF switchAt, Opened, Switched, ClosedAt
<1>3. Opened(t, o) \in Segment \cup {Nil} /\ g \in SUBSET Segment
  BY <1>1, StateFields, SwitchedTyped
<1> HIDE DEF n, o, g
<1>4. /\ n \in State /\ n.base = st.base /\ n.falls = st.falls /\ n.jump = st.jump
      /\ n.open = Opened(t, o) /\ n.segs = g
  BY <1>2, <1>3 DEF State
<1>5. Offset(n) = o
  BY <1>1, <1>4, OffsetTyped
<1>6. SwitchedBy(st, n, t, b)
  BY <1>4, <1>5 DEF SwitchedBy, g
<1> QED
  BY <1>4, <1>5, <1>6 DEF n, o

LEMMA EpisodeAdded ==
  ASSUME NEW st \in State, NEW kind, NEW from, NEW to, [s |-> from, kind |-> kind, e |-> to] \in Episode
  PROVE  LET n == addEpisode(st, kind, from, to)
         IN  /\ n \in State /\ n.base = st.base /\ n.falls = st.falls /\ n.jump = st.jump
             /\ n.open = st.open /\ n.segs = st.segs
<1> DEFINE E == Put(st.eps, [s |-> from, kind |-> kind, e |-> to])
           n == addEpisode(st, kind, from, to)
<1>1. E \subseteq Episode
  <2>1. st.eps \subseteq Episode
    BY StateFields
  <2> QED
    BY <2>1 DEF Put
<1>2. n = [st EXCEPT !.eps = E]
  BY DEF addEpisode
<1> HIDE DEF E, n
<1> QED
  BY <1>1, <1>2 DEF State, n

LEMMA OpenStartTyped ==
  ASSUME NEW st \in State
  PROVE  OpenStart(st) \in Int
BY StateFields, SegmentFields DEF OpenStart

\* A fall, taken for the end of a jump or for a dropout.
LEMMA FallShape ==
  ASSUME NEW st \in State, NEW s \in Step, NEW kwh \in Int
  PROVE  LET n == onFall(st, s, kwh)
             undo == UndoesJump(st, s, kwh)
             gap == IF undo THEN Atleast0(st.jump.kwh - kwh) ELSE 0
         IN  /\ gap \in Nat
             /\ n.base = IF undo THEN st.base + kwh + gap ELSE st.base
             /\ n.falls = IF undo THEN st.falls ELSE Append(st.falls, [s |-> s.t, kwh |-> kwh])
             /\ n.jump = IF undo THEN Nil ELSE st.jump
             /\ SwitchedBy(st, n, s.t, OpenStart(st) + gap)
<1> DEFINE undo == UndoesJump(st, s, kwh)
           n == onFall(st, s, kwh)
<1>1. s.t \in Nat /\ OpenStart(st) \in Int
  BY OpenStartTyped DEF Step
<1>2. CASE undo
  <2> DEFINE gap == Atleast0(st.jump.kwh - kwh)
             base == st.base + kwh + gap
             x == [st EXCEPT !.base = base, !.jump = Nil]
             y == addEpisode(x, "spike", st.jump.s, s.t)
  <2>1. st.jump \in Fall /\ st.base \in Int
    BY <1>2, StateFields DEF UndoesJump
  <2>2. gap \in Nat /\ st.jump.s \in Nat
    BY <2>1 DEF Atleast0, Fall
  <2>3. n = switchAt(y, s.t, OpenStart(st) + gap)
    BY <1>2 DEF onFall
  <2> HIDE DEF gap, n
  <2>4. base \in Int /\ Nil \in Fall \cup {Nil}
    BY <2>1, <2>2
  <2> HIDE DEF base
  <2>5. /\ x \in State /\ x.base = base /\ x.falls = st.falls /\ x.jump = Nil
        /\ x.open = st.open /\ x.segs = st.segs
    BY <2>4 DEF State
  <2> HIDE DEF x
  <2>6. /\ y \in State /\ y.base = base /\ y.falls = st.falls /\ y.jump = Nil
        /\ y.open = st.open /\ y.segs = st.segs
    <3>1. [s |-> st.jump.s, kind |-> "spike", e |-> s.t] \in Episode
      BY <1>1, <2>2 DEF Episode
    <3> QED
      BY <2>5, <3>1, EpisodeAdded
  <2> HIDE DEF y
  <2>7. /\ n.base = y.base /\ n.falls = y.falls /\ n.jump = y.jump
        /\ SwitchedBy(y, n, s.t, OpenStart(st) + gap)
    BY <1>1, <2>2, <2>3, <2>6, SwitchShape
  <2>8. SwitchedBy(st, n, s.t, OpenStart(st) + gap)
    BY <2>6, <2>7 DEF SwitchedBy
  <2> QED
    BY <1>2, <2>2, <2>6, <2>7, <2>8 DEF base, gap, n
<1>3. CASE ~undo
  <2> DEFINE f == [s |-> s.t, kwh |-> kwh]
             falls == Append(st.falls, f)
             x == [st EXCEPT !.falls = falls]
             y == addEpisode(x, "dropout", s.t, Nil)
  <2>1. f \in Fall /\ st.falls \in Seq(Fall)
    BY <1>1, StateFields DEF Fall
  <2>2. falls \in Seq(Fall)
    BY <2>1, FallAdded
  <2>3. n = switchAt(y, s.t, OpenStart(st))
    BY <1>3 DEF onFall
  <2> HIDE DEF n, f, falls
  <2>5. /\ x \in State /\ x.base = st.base /\ x.falls = falls
        /\ x.jump = st.jump /\ x.open = st.open /\ x.segs = st.segs
    BY <2>2 DEF State
  <2> HIDE DEF x
  <2>6. /\ y \in State /\ y.base = st.base /\ y.falls = falls /\ y.jump = st.jump
        /\ y.open = st.open /\ y.segs = st.segs
    <3>1. [s |-> s.t, kind |-> "dropout", e |-> Nil] \in Episode
      BY <1>1 DEF Episode
    <3> QED
      BY <2>5, <3>1, EpisodeAdded
  <2> HIDE DEF y
  <2>7. /\ n.base = y.base /\ n.falls = y.falls /\ n.jump = y.jump
        /\ SwitchedBy(y, n, s.t, OpenStart(st))
    BY <1>1, <2>3, <2>6, SwitchShape
  <2>8. SwitchedBy(st, n, s.t, OpenStart(st))
    BY <2>6, <2>7 DEF SwitchedBy
  <2> QED
    BY <1>1, <1>3, <2>6, <2>7, <2>8 DEF falls, f, n
<1> QED
  BY <1>2, <1>3

\* A jump that nothing explains.
LEMMA JumpShape ==
  ASSUME NEW st \in State, NEW s \in Step, NEW kwh \in Int
  PROVE  LET n == onJump(st, s, kwh)
         IN  /\ n.base = st.base - kwh /\ n.falls = st.falls
             /\ n.jump = [s |-> s.t, kwh |-> kwh]
             /\ SwitchedBy(st, n, s.t, OpenStart(st))
<1> DEFINE f == [s |-> s.t, kwh |-> kwh]
           base == st.base - kwh
           x == [st EXCEPT !.base = base, !.jump = f]
           y == addEpisode(x, "seam", s.t, s.t)
           n == onJump(st, s, kwh)
<1>1. s.t \in Nat /\ OpenStart(st) \in Int /\ base \in Int /\ f \in Fall \cup {Nil}
  BY OpenStartTyped, StateFields DEF Step, Fall
<1>2. n = switchAt(y, s.t, OpenStart(st))
  BY DEF onJump
<1> HIDE DEF n, f, base
<1>4. /\ x \in State /\ x.base = base /\ x.falls = st.falls /\ x.jump = f
      /\ x.open = st.open /\ x.segs = st.segs
  BY <1>1 DEF State
<1> HIDE DEF x
<1>5. /\ y \in State /\ y.base = base /\ y.falls = st.falls /\ y.jump = f
      /\ y.open = st.open /\ y.segs = st.segs
  <2>1. [s |-> s.t, kind |-> "seam", e |-> s.t] \in Episode
    BY <1>1 DEF Episode
  <2> QED
    BY <1>4, <2>1, EpisodeAdded
<1> HIDE DEF y
<1>6. /\ n.base = y.base /\ n.falls = y.falls /\ n.jump = y.jump
      /\ SwitchedBy(y, n, s.t, OpenStart(st))
  BY <1>1, <1>2, <1>5, SwitchShape
<1>7. SwitchedBy(st, n, s.t, OpenStart(st))
  BY <1>5, <1>6 DEF SwitchedBy
<1> QED
  BY <1>5, <1>6, <1>7 DEF base, f, n

\* The falls a return closes end with it, in the episodes.
LEMMA EpisodesEnded ==
  ASSUME NEW eps \in SUBSET Episode, NEW closed, ToSet(closed) \subseteq Fall, NEW t \in Nat
  PROVE  PutAll(eps, {[s |-> f.s, kind |-> "dropout", e |-> t] : f \in ToSet(closed)}) \subseteq Episode
<1>1. \A f \in ToSet(closed) : [s |-> f.s, kind |-> "dropout", e |-> t] \in Episode
  BY DEF Episode, Fall
<1> QED
  BY <1>1 DEF PutAll

Returned(st, kwh) == IF kwh < pending(st) THEN kwh ELSE pending(st)
Left(st, r) == LeftFalls(st.falls, Kept(st.falls, r), r - (pending(st) - KwhOfFirst(st.falls)[Kept(st.falls, r)]))
ClosedOf(st, r) == SubSeq(st.falls, Kept(st.falls, r) + 1, Len(st.falls))
Since(st, s, r) == IF ClosedOf(st, r) = <<>> THEN s.pt ELSE ClosedOf(st, r)[1].s
Over(st, s, kwh) == kwh - Returned(st, kwh) > ForwardLimitKwh(s.t - Since(st, s, Returned(st, kwh)))

LEMMA ReturnShape ==
  ASSUME NEW st \in State, NEW s \in Step, NEW kwh \in Int, kwh > 0, pending(st) > 0
  PROVE  LET n == onReturn(st, s, kwh)
             r == Returned(st, kwh)
             over == Over(st, s, kwh)
             gap == IF over THEN 0 ELSE kwh - r
         IN  /\ gap \in Nat /\ r \in Nat /\ r <= pending(st)
             /\ n.base = (IF over THEN st.base - (kwh - r) ELSE st.base)
             /\ n.falls = Left(st, r) /\ KwhOf(n.falls) = KwhOf(st.falls) - r
             /\ n.jump = st.jump
             /\ SwitchedBy(st, n, s.t, OpenStart(st) + gap)
<1> DEFINE r == Returned(st, kwh)
           over == Over(st, s, kwh)
           gap == IF over THEN 0 ELSE kwh - r
           falls == Left(st, r)
           closed == ClosedOf(st, r)
           base == IF over THEN st.base - (kwh - r) ELSE st.base
           n == onReturn(st, s, kwh)
           x1 == [st EXCEPT !.falls = falls, !.base = base]
           x2 == IF over THEN addEpisode(x1, "seam", s.t, s.t) ELSE x1
           E == PutAll(x2.eps, {[s |-> f.s, kind |-> "dropout", e |-> s.t] : f \in ToSet(closed)})
           x3 == [x2 EXCEPT !.eps = E]
<1>1. pending(st) \in Int /\ st.base \in Int /\ st.falls \in Seq(Fall) /\ s.t \in Nat /\ OpenStart(st) \in Int
      /\ pending(st) = KwhOf(st.falls)
  BY OffsetTyped, OpenStartTyped, StateFields DEF Step, pending
<1>2. r \in Nat /\ r <= pending(st) /\ r <= kwh
  BY <1>1 DEF Returned
<1>3. /\ Kept(st.falls, r) \in 0..Len(st.falls) /\ falls \in Seq(Fall)
      /\ KwhOf(falls) = KwhOf(st.falls) - r
  <2> HIDE DEF r
  <2>1. r \in Int /\ 0 <= r /\ r <= KwhOf(st.falls)
    BY <1>1, <1>2
  <2> QED
    BY <1>1, <2>1, FallsReturned DEF Left
<1>4. ToSet(closed) \subseteq Fall
  <2>1. closed \in Seq(Fall)
    <3> DEFINE k == Kept(st.falls, r)
               m == Len(st.falls)
    <3>1. k \in 0..m /\ m \in Nat
      BY <1>1, <1>3
    <3> HIDE DEF k
    <3>2. \A i \in k + 1..m : st.falls[i] \in Fall
      BY <1>1, <3>1
    <3>3. SubSeq(st.falls, k + 1, m) \in Seq(Fall)
      BY <1>1, <3>1, <3>2
    <3> QED
      BY <3>3 DEF ClosedOf, k
  <2> HIDE DEF closed
  <2> QED
    BY <2>1 DEF ToSet
<1>5. n = switchAt(x3, s.t, OpenStart(st) + gap)
  BY DEF onReturn, Returned, Left, LeftFalls, ClosedOf, Since, Over
<1>6. base \in Int /\ gap \in Nat
  BY <1>1, <1>2
<1> HIDE DEF n, base, falls, closed, gap, r
<1>7. /\ x1 \in State /\ x1.base = base /\ x1.falls = falls /\ x1.jump = st.jump
      /\ x1.open = st.open /\ x1.segs = st.segs
  BY <1>3, <1>6 DEF State
<1> HIDE DEF x1, over
<1>8. /\ x2 \in State /\ x2.base = base /\ x2.falls = falls /\ x2.jump = st.jump
      /\ x2.open = st.open /\ x2.segs = st.segs
  <2>1. [s |-> s.t, kind |-> "seam", e |-> s.t] \in Episode
    BY <1>1 DEF Episode
  <2>2. LET y == addEpisode(x1, "seam", s.t, s.t)
        IN  /\ y \in State /\ y.base = base /\ y.falls = falls /\ y.jump = st.jump
            /\ y.open = st.open /\ y.segs = st.segs
    BY <1>7, <2>1, EpisodeAdded
  <2> QED
    BY <1>7, <2>2
<1> HIDE DEF x2
<1>9. E \subseteq Episode
  <2>1. x2.eps \in SUBSET Episode
    BY <1>8, StateFields
  <2> QED
    BY <1>1, <1>4, <2>1, EpisodesEnded
<1> HIDE DEF E
<1>10. /\ x3 \in State /\ x3.base = base /\ x3.falls = falls /\ x3.jump = st.jump
       /\ x3.open = st.open /\ x3.segs = st.segs
  BY <1>8, <1>9 DEF State
<1> HIDE DEF x3
<1>11. /\ n.base = x3.base /\ n.falls = x3.falls /\ n.jump = x3.jump
       /\ SwitchedBy(x3, n, s.t, OpenStart(st) + gap)
  BY <1>1, <1>5, <1>6, <1>10, SwitchShape
<1>12. SwitchedBy(st, n, s.t, OpenStart(st) + gap)
  BY <1>10, <1>11 DEF SwitchedBy
<1> QED
  BY <1>1, <1>2, <1>3, <1>6, <1>10, <1>11, <1>12 DEF n, base, gap, falls, over, r

Forgets(st, s) == IF st.jump # Nil /\ s.t - st.jump.s > SpikeWindow THEN [st EXCEPT !.jump = Nil] ELSE st
Change(s) == s.v - s.pv
Fast(s) == Change(s) > ForwardLimitKwh(s.dt)
Falls(s) == Change(s) < -DropTolKwh
Returns(st, s) == Change(s) > 0 /\ pending(st) > 0 /\ (Fast(s) \/ 2 * Change(s) >= pending(st))
Jumps(st, s) == Fast(s) /\ ~(Change(s) > 0 /\ pending(st) > 0)

LEMMA ProductPositive ==
  ASSUME NEW m \in Nat, NEW n \in Nat
  PROVE  m * n \in Nat
OBVIOUS

LEMMA StepFields ==
  ASSUME NEW s \in Step
  PROVE  s.pt \in Nat /\ s.pv \in Int /\ s.t \in Nat /\ s.v \in Int /\ s.dt \in Nat
BY DEF Step

LEMMA ForwardLimitTyped ==
  ASSUME NEW s \in Step
  PROVE  Change(s) \in Int /\ ForwardLimitKwh(s.dt) \in Nat
<1>1. s.dt \in Nat /\ s.v \in Int /\ s.pv \in Int
  BY StepFields
<1>2. PowerKwh * s.dt \in Nat
  BY <1>1, StitchAssumption, ProductPositive
<1> QED
  BY <1>1, <1>2, StitchAssumption DEF Change, ForwardLimitKwh

LEMMA JumpForgotten ==
  ASSUME NEW st \in State, NEW s \in Step
  PROVE  LET f == Forgets(st, s)
         IN  /\ f \in State /\ f.base = st.base /\ f.falls = st.falls /\ f.open = st.open
             /\ f.segs = st.segs /\ Offset(f) = Offset(st) /\ pending(f) = pending(st)
             /\ OpenStart(f) = OpenStart(st)
             /\ f.jump = (IF st.jump # Nil /\ s.t - st.jump.s > SpikeWindow THEN Nil ELSE st.jump)
<1> DEFINE f == Forgets(st, s)
           j == IF st.jump # Nil /\ s.t - st.jump.s > SpikeWindow THEN Nil ELSE st.jump
           g == [st EXCEPT !.jump = Nil]
<1>1. /\ g \in State /\ g.base = st.base /\ g.falls = st.falls /\ g.open = st.open
      /\ g.segs = st.segs /\ g.jump = Nil
  BY DEF State
<1> HIDE DEF g
<1>2. f = IF st.jump # Nil /\ s.t - st.jump.s > SpikeWindow THEN g ELSE st
  BY DEF Forgets, g
<1> HIDE DEF f
<1>3. /\ f \in State /\ f.base = st.base /\ f.falls = st.falls /\ f.open = st.open
      /\ f.segs = st.segs /\ f.jump = j
  BY <1>1, <1>2
<1>4. Offset(f) = Offset(st) /\ pending(f) = pending(st) /\ OpenStart(f) = OpenStart(st)
  BY <1>3 DEF Offset, pending, OpenStart
<1> QED
  BY <1>3, <1>4 DEF f

\* The four things a step may be.
LEMMA StepIs ==
  ASSUME NEW st \in State, NEW s \in Step
  PROVE  LET f == Forgets(st, s)
             n == StepOnce(st, s)
             d == Change(s)
         IN  \/ Falls(s) /\ n = onFall(f, s, -d)
             \/ ~Falls(s) /\ Returns(st, s) /\ n = onReturn(f, s, d)
             \/ ~Falls(s) /\ ~Returns(st, s) /\ Jumps(st, s) /\ n = onJump(f, s, d)
             \/ ~Falls(s) /\ ~Returns(st, s) /\ ~Jumps(st, s) /\ n = f
<1> DEFINE f == Forgets(st, s)
           n == StepOnce(st, s)
           d == Change(s)
<1>1. d \in Int /\ ForwardLimitKwh(s.dt) \in Nat /\ DropTolKwh \in Nat
  BY ForwardLimitTyped, StitchAssumption
<1>2. pending(f) = pending(st)
  BY JumpForgotten
<1>3. n = CASE Falls(s) -> onFall(f, s, -d)
            [] Returns(f, s) -> onReturn(f, s, d)
            [] Jumps(f, s) -> onJump(f, s, d)
            [] OTHER -> f
  BY DEF StepOnce, Forgets, Change, Fast, Falls, Returns, Jumps
<1>4. (Returns(f, s) <=> Returns(st, s)) /\ (Jumps(f, s) <=> Jumps(st, s))
  BY <1>2 DEF Returns, Jumps
<1>5. Falls(s) => ~Returns(st, s) /\ ~Jumps(st, s)
  <2>1. Falls(s) => ~(d > 0) /\ ~Fast(s)
    BY <1>1 DEF Falls, Fast
  <2> QED
    BY <2>1 DEF Returns, Jumps
<1>6. Returns(st, s) => ~Jumps(st, s)
  BY DEF Returns, Jumps
<1> HIDE DEF n, f, d
<1> QED
  BY <1>3, <1>4, <1>5, <1>6 DEF n, f, d

\* No offset before the first segment, and the open one's is the offset.
Held(st) ==
  /\ st \in State
  /\ st.open = Nil => Offset(st) = 0 /\ KwhOf(st.falls) = 0 /\ st.jump = Nil
  /\ st.open # Nil => st.open = Opened(st.open.s, Offset(st))

LEMMA HeldStart ==
  ASSUME NEW st, Held(st)
  PROVE  OpenStart(st) = Offset(st) /\ Offset(st) \in Int
<1>1. Offset(st) \in Int
  BY OffsetTyped DEF Held
<1>2. CASE st.open = Nil
  BY <1>1, <1>2 DEF Held, OpenStart
<1>3. CASE st.open # Nil
  <2>1. st.open = Opened(st.open.s, Offset(st))
    BY <1>3 DEF Held
  <2>2. Opened(st.open.s, Offset(st)).a = Offset(st)
    BY DEF Opened
  <2>3. st.open.a = Offset(st)
    BY <2>1, <2>2
  <2> QED
    BY <1>1, <1>3, <2>3 DEF OpenStart
<1> QED
  BY <1>2, <1>3

LEMMA SwitchedHeld ==
  ASSUME NEW st \in State, NEW n, NEW t \in Nat, NEW b \in Int, SwitchedBy(st, n, t, b)
  PROVE  Held(n) /\ n.open # Nil /\ Offset(n) \in Int
<1>1. n \in State /\ n.open = Opened(t, Offset(n))
  BY DEF SwitchedBy
<1>2. Offset(n) \in Int
  BY <1>1, OffsetTyped
<1>3. Opened(t, Offset(n)).s = t
  BY DEF Opened
<1>4. Opened(t, Offset(n)) \in Segment
  BY <1>2 DEF Opened, Segment
<1>5. n.open # Nil
  BY <1>1, <1>4, StitchAssumption
<1>6. n.open.s = t
  BY <1>1, <1>3
<1> QED
  BY <1>1, <1>2, <1>5, <1>6 DEF Held

Stays(st, n) == n.open = st.open /\ n.segs = st.segs /\ Offset(n) = Offset(st)

\* What a step gives the counter, and takes from the offset, is the segment's.
Repairs(st, n, s, b) ==
  /\ SwitchedBy(st, n, s.t, b) /\ OpenStart(st) <= b
  /\ Change(s) + Offset(n) = b /\ (st.open = Nil => b = 0)

\* What a step is: nothing, or a switch at its time.
LEMMA StepOutcome ==
  ASSUME NEW st, Held(st), NEW s \in Step
  PROVE  LET n == StepOnce(st, s)
         IN  /\ Held(n)
             /\ \/ Stays(st, n) /\ Change(s) >= -DropTolKwh
                \/ \E b \in Int : Repairs(st, n, s, b)
<1> DEFINE f == Forgets(st, s)
           n == StepOnce(st, s)
           d == Change(s)
           o == Offset(st)
<1>1. /\ st \in State /\ d \in Int /\ DropTolKwh \in Nat /\ s.t \in Nat
      /\ o \in Int /\ o = st.base + KwhOf(st.falls) /\ pending(st) = KwhOf(st.falls)
      /\ pending(st) \in Int /\ st.base \in Int /\ OpenStart(st) = o
  BY ForwardLimitTyped, StitchAssumption, OffsetTyped, HeldStart, StateFields DEF Held, Step, pending
<1>2. /\ f \in State /\ f.base = st.base /\ f.falls = st.falls /\ f.open = st.open
      /\ f.segs = st.segs /\ Offset(f) = o /\ pending(f) = pending(st) /\ OpenStart(f) = o
      /\ (st.jump = Nil => f.jump = Nil)
  BY <1>1, JumpForgotten
<1>3. st.open = Nil => o = 0 /\ pending(st) = 0 /\ f.jump = Nil
  BY <1>1, <1>2 DEF Held
<1> DEFINE Out == Held(n) /\ (\/ Stays(st, n) /\ d >= -DropTolKwh
                              \/ \E b \in Int : Repairs(st, n, s, b))
<1> SUFFICES Out
  OBVIOUS
<1>4. ASSUME NEW b \in Int, SwitchedBy(f, n, s.t, b), o <= b, d + n.base + KwhOf(n.falls) = b,
             st.open = Nil => b = 0
      PROVE  Out
  <2>1. SwitchedBy(st, n, s.t, b)
    BY <1>2, <1>4 DEF SwitchedBy
  <2>2. Held(n)
    BY <1>1, <1>2, <1>4, SwitchedHeld
  <2>3. n \in State
    BY <2>2 DEF Held
  <2>4. Offset(n) = n.base + KwhOf(n.falls)
    BY <2>3, OffsetTyped
  <2>5. n.base \in Int /\ KwhOf(n.falls) \in Int
    BY <2>3, OffsetTyped, StateFields DEF pending
  <2> HIDE DEF n, d, o, f
  <2>6. d + Offset(n) = b
    BY <1>1, <1>4, <2>4, <2>5
  <2>7. Repairs(st, n, s, b)
    BY <1>1, <1>4, <2>1, <2>6 DEF Repairs, d, n
  <2> QED
    BY <2>2, <2>7
<1> HIDE DEF Out
<1>5. CASE Falls(s) /\ n = onFall(f, s, -d)
  <2> DEFINE kwh == -d
             undo == UndoesJump(f, s, kwh)
             gap == IF undo THEN Atleast0(f.jump.kwh - kwh) ELSE 0
             fall == [s |-> s.t, kwh |-> kwh]
  <2>1. kwh \in Int /\ kwh = -d /\ fall \in Fall /\ fall.kwh = kwh
    BY <1>1 DEF Fall
  <2> HIDE DEF kwh
  <2>2. LET m == onFall(f, s, kwh)
        IN  /\ gap \in Nat
            /\ m.base = IF undo THEN f.base + kwh + gap ELSE f.base
            /\ m.falls = IF undo THEN f.falls ELSE Append(f.falls, [s |-> s.t, kwh |-> kwh])
            /\ SwitchedBy(f, m, s.t, OpenStart(f) + gap)
    BY <1>2, <2>1, FallShape
  <2>3. n = onFall(f, s, kwh)
    BY <1>5 DEF kwh
  <2> HIDE DEF n, d, o, f, gap, fall
  <2>4. /\ gap \in Nat
        /\ n.base = IF undo THEN st.base + kwh + gap ELSE st.base
        /\ n.falls = IF undo THEN st.falls ELSE Append(st.falls, fall)
        /\ SwitchedBy(f, n, s.t, o + gap)
    BY <1>2, <2>2, <2>3 DEF fall
  <2>5. KwhOf(Append(st.falls, fall)) = KwhOf(st.falls) + kwh
    BY <1>1, <2>1, StateFields, FallAdded
  <2>6. undo => st.open # Nil
    BY <1>3 DEF UndoesJump
  <2>10. ~undo => gap = 0
    BY DEF gap
  <2> HIDE DEF undo
  <2>7. o + gap \in Int /\ o <= o + gap
    BY <1>1, <2>4
  <2>8. st.open = Nil => o + gap = 0
    BY <1>3, <2>6, <2>10
  <2>9. d + n.base + KwhOf(n.falls) = o + gap
    <3>1. CASE undo
      <4>1. n.base = st.base + kwh + gap /\ KwhOf(n.falls) = KwhOf(st.falls)
        BY <2>4, <3>1
      <4> HIDE DEF gap
      <4> QED
        BY <1>1, <2>1, <2>4, <4>1
    <3>2. CASE ~undo
      <4>1. n.base = st.base /\ KwhOf(n.falls) = KwhOf(st.falls) + kwh
        BY <2>4, <2>5, <3>2
      <4> QED
        BY <1>1, <2>1, <2>4, <2>10, <3>2, <4>1
    <3> QED
      BY <3>1, <3>2
  <2> QED
    BY <1>4, <2>4, <2>7, <2>8, <2>9
<1>6. CASE ~Falls(s) /\ Returns(st, s) /\ n = onReturn(f, s, d)
  <2> DEFINE r == Returned(f, d)
             over == Over(f, s, d)
             gap == IF over THEN 0 ELSE d - r
  <2>1. d > 0 /\ pending(f) > 0
    BY <1>2, <1>6 DEF Returns
  <2>2. LET m == onReturn(f, s, d)
        IN  /\ gap \in Nat /\ r \in Nat /\ r <= pending(f)
            /\ m.base = (IF over THEN f.base - (d - r) ELSE f.base)
            /\ KwhOf(m.falls) = KwhOf(f.falls) - r
            /\ SwitchedBy(f, m, s.t, OpenStart(f) + gap)
    <3> HIDE DEF d, f
    <3> QED
      BY <1>1, <1>2, <2>1, ReturnShape
  <2>3. n = onReturn(f, s, d)
    BY <1>6
  <2>10. (over => gap = 0) /\ (~over => gap = d - r)
    OBVIOUS
  <2> HIDE DEF n, d, o, f, gap, r
  <2>4. /\ gap \in Nat /\ r \in Nat
        /\ n.base = (IF over THEN st.base - (d - r) ELSE st.base)
        /\ KwhOf(n.falls) = KwhOf(st.falls) - r
        /\ SwitchedBy(f, n, s.t, o + gap)
    BY <1>2, <2>2, <2>3
  <2>6. st.open # Nil
    BY <1>2, <1>3, <2>1
  <2> HIDE DEF over
  <2>7. o + gap \in Int /\ o <= o + gap
    BY <1>1, <2>4
  <2>9. d + n.base + KwhOf(n.falls) = o + gap
    BY <1>1, <2>4, <2>10
  <2> QED
    BY <1>4, <2>4, <2>6, <2>7, <2>9
<1>7. CASE ~Falls(s) /\ Jumps(st, s) /\ n = onJump(f, s, d)
  <2>1. LET m == onJump(f, s, d)
        IN  /\ m.base = f.base - d /\ m.falls = f.falls /\ SwitchedBy(f, m, s.t, OpenStart(f))
    <3> HIDE DEF d, f
    <3> QED
      BY <1>1, <1>2, JumpShape
  <2>2. n = onJump(f, s, d)
    BY <1>7
  <2> HIDE DEF n, d, o, f
  <2>3. n.base = st.base - d /\ KwhOf(n.falls) = KwhOf(st.falls) /\ SwitchedBy(f, n, s.t, o)
    BY <1>2, <2>1, <2>2
  <2>4. d + n.base + KwhOf(n.falls) = o /\ o <= o
    BY <1>1, <2>3
  <2> QED
    BY <1>1, <1>3, <1>4, <2>3, <2>4
<1>8. CASE ~Falls(s) /\ n = f
  <2>1. d >= -DropTolKwh
    BY <1>1, <1>8 DEF Falls
  <2> HIDE DEF n, d, o, f
  <2>2. Stays(st, n)
    BY <1>2, <1>8 DEF Stays, o
  <2>3. Held(n)
    BY <1>2, <1>3, <1>8 DEF Held, o
  <2> QED
    BY <2>1, <2>2, <2>3 DEF Out, n, d
<1> HIDE DEF n, f, d
<1>9. \/ Falls(s) /\ n = onFall(f, s, -d)
      \/ ~Falls(s) /\ Returns(st, s) /\ n = onReturn(f, s, d)
      \/ ~Falls(s) /\ ~Returns(st, s) /\ Jumps(st, s) /\ n = onJump(f, s, d)
      \/ ~Falls(s) /\ ~Returns(st, s) /\ ~Jumps(st, s) /\ n = f
  BY <1>1, StepIs DEF n, f, d
<1> QED
  BY <1>5, <1>6, <1>7, <1>8, <1>9 DEF n, f, d

\* What a state is, the tables apart.
SameCore(x, y) == x.base = y.base /\ x.falls = y.falls /\ x.jump = y.jump /\ x.open = y.open

\* Two states step alike, and their tables take the same switch.
SwitchAlike(x, y, m, n) ==
  \/ m.segs = x.segs /\ n.segs = y.segs
  \/ \E t, b, o : /\ m.segs = Switched(x.segs, x.open, t, b, o)
                  /\ n.segs = Switched(y.segs, x.open, t, b, o)

LEMMA SwitchedAlike ==
  ASSUME NEW x, NEW y, NEW m, NEW n, SameCore(x, y), NEW t, NEW b,
         SwitchedBy(x, m, t, b), SwitchedBy(y, n, t, b),
         m.base = n.base, m.falls = n.falls, m.jump = n.jump
  PROVE  SameCore(m, n) /\ SwitchAlike(x, y, m, n)
<1>1. Offset(m) = Offset(n)
  BY DEF Offset, pending
<1>2. m.open = n.open
  BY <1>1 DEF SwitchedBy
<1>3. /\ m.segs = Switched(x.segs, x.open, t, b, Offset(m))
      /\ n.segs = Switched(y.segs, x.open, t, b, Offset(m))
  BY <1>1 DEF SwitchedBy, SameCore
<1> QED
  BY <1>2, <1>3 DEF SameCore, SwitchAlike

LEMMA StepsAlike ==
  ASSUME NEW x \in State, NEW y \in State, SameCore(x, y), NEW s \in Step
  PROVE  LET m == StepOnce(x, s)
             n == StepOnce(y, s)
         IN  SameCore(m, n) /\ SwitchAlike(x, y, m, n)
<1> DEFINE f == Forgets(x, s)
           g == Forgets(y, s)
           m == StepOnce(x, s)
           n == StepOnce(y, s)
           d == Change(s)
           Out == SameCore(m, n) /\ SwitchAlike(x, y, m, n)
<1> SUFFICES Out
  OBVIOUS
<1>1. d \in Int /\ DropTolKwh \in Nat
  BY ForwardLimitTyped, StitchAssumption
<1>2. /\ f \in State /\ f.open = x.open /\ f.segs = x.segs
      /\ g \in State /\ g.open = y.open /\ g.segs = y.segs
      /\ SameCore(f, g)
  BY JumpForgotten DEF SameCore
<1>3. pending(x) = pending(y) /\ pending(f) = pending(x)
  BY JumpForgotten DEF SameCore, pending
<1>4. (Returns(x, s) <=> Returns(y, s)) /\ (Jumps(x, s) <=> Jumps(y, s))
  BY <1>3 DEF Returns, Jumps
<1>5. /\ f.base = g.base /\ f.falls = g.falls /\ f.jump = g.jump /\ f.open = g.open
      /\ OpenStart(f) = OpenStart(g) /\ pending(f) = pending(g)
  BY <1>2 DEF SameCore, OpenStart, pending
<1> HIDE DEF f, g, m, n, d
<1>6. ASSUME NEW t, NEW b, SwitchedBy(f, m, t, b), SwitchedBy(g, n, t, b),
             m.base = n.base, m.falls = n.falls, m.jump = n.jump
      PROVE  Out
  <2>1. SameCore(m, n) /\ SwitchAlike(f, g, m, n)
    BY <1>2, <1>6, SwitchedAlike
  <2> QED
    BY <1>2, <2>1 DEF SwitchAlike
<1> HIDE DEF Out
<1>7. CASE m = onFall(f, s, -d) /\ n = onFall(g, s, -d)
  <2> DEFINE kwh == -d
             undo(v) == UndoesJump(v, s, kwh)
             gap(v) == IF undo(v) THEN Atleast0(v.jump.kwh - kwh) ELSE 0
  <2>1. kwh \in Int
    BY <1>1
  <2>2. undo(f) = undo(g) /\ gap(f) = gap(g)
    BY <1>5 DEF UndoesJump
  <2>3. m = onFall(f, s, kwh) /\ n = onFall(g, s, kwh)
    BY <1>7
  <2> HIDE DEF kwh
  <2>4. /\ m.base = (IF undo(f) THEN f.base + kwh + gap(f) ELSE f.base)
        /\ m.falls = (IF undo(f) THEN f.falls ELSE Append(f.falls, [s |-> s.t, kwh |-> kwh]))
        /\ m.jump = (IF undo(f) THEN Nil ELSE f.jump)
        /\ SwitchedBy(f, m, s.t, OpenStart(f) + gap(f))
    BY <1>2, <2>1, <2>3, FallShape
  <2>5. /\ n.base = (IF undo(g) THEN g.base + kwh + gap(g) ELSE g.base)
        /\ n.falls = (IF undo(g) THEN g.falls ELSE Append(g.falls, [s |-> s.t, kwh |-> kwh]))
        /\ n.jump = (IF undo(g) THEN Nil ELSE g.jump)
        /\ SwitchedBy(g, n, s.t, OpenStart(g) + gap(g))
    BY <1>2, <2>1, <2>3, FallShape
  <2> HIDE DEF undo, gap
  <2>6. m.base = n.base /\ m.falls = n.falls /\ m.jump = n.jump
        /\ SwitchedBy(g, n, s.t, OpenStart(f) + gap(f))
    BY <1>5, <2>2, <2>4, <2>5
  <2> QED
    BY <1>6, <2>4, <2>6
<1>8. CASE Returns(x, s) /\ m = onReturn(f, s, d) /\ n = onReturn(g, s, d)
  <2> DEFINE r(v) == Returned(v, d)
             over(v) == Over(v, s, d)
             gap(v) == IF over(v) THEN 0 ELSE d - r(v)
  <2>1. d > 0 /\ pending(f) > 0 /\ pending(g) > 0
    BY <1>3, <1>5, <1>8 DEF Returns, d
  <2>2. r(f) = r(g) /\ Left(f, r(f)) = Left(g, r(g)) /\ over(f) = over(g)
    BY <1>5 DEF Returned, Left, Over, Since, ClosedOf
  <2>3. gap(f) = gap(g)
    BY <2>2
  <2>4. /\ m.base = (IF over(f) THEN f.base - (d - r(f)) ELSE f.base)
        /\ m.falls = Left(f, r(f)) /\ m.jump = f.jump
        /\ SwitchedBy(f, m, s.t, OpenStart(f) + gap(f))
    BY <1>1, <1>2, <1>8, <2>1, ReturnShape
  <2>5. /\ n.base = (IF over(g) THEN g.base - (d - r(g)) ELSE g.base)
        /\ n.falls = Left(g, r(g)) /\ n.jump = g.jump
        /\ SwitchedBy(g, n, s.t, OpenStart(g) + gap(g))
    BY <1>1, <1>2, <1>8, <2>1, ReturnShape
  <2> HIDE DEF gap, over, r
  <2>6. m.base = n.base /\ m.falls = n.falls /\ m.jump = n.jump
        /\ SwitchedBy(g, n, s.t, OpenStart(f) + gap(f))
    BY <1>5, <2>2, <2>3, <2>4, <2>5
  <2> QED
    BY <1>6, <2>4, <2>6
<1>9. CASE m = onJump(f, s, d) /\ n = onJump(g, s, d)
  <2>1. /\ m.base = f.base - d /\ m.falls = f.falls /\ m.jump = [s |-> s.t, kwh |-> d]
        /\ SwitchedBy(f, m, s.t, OpenStart(f))
    BY <1>1, <1>2, <1>9, JumpShape
  <2>2. /\ n.base = g.base - d /\ n.falls = g.falls /\ n.jump = [s |-> s.t, kwh |-> d]
        /\ SwitchedBy(g, n, s.t, OpenStart(g))
    BY <1>1, <1>2, <1>9, JumpShape
  <2> QED
    BY <1>5, <1>6, <2>1, <2>2
<1>10. CASE m = f /\ n = g
  <2>1. SameCore(m, n) /\ m.segs = x.segs /\ n.segs = y.segs
    BY <1>2, <1>10
  <2> QED
    BY <2>1 DEF Out, SwitchAlike
<1>11. \/ Falls(s) /\ m = onFall(f, s, -d)
       \/ ~Falls(s) /\ Returns(x, s) /\ m = onReturn(f, s, d)
       \/ ~Falls(s) /\ ~Returns(x, s) /\ Jumps(x, s) /\ m = onJump(f, s, d)
       \/ ~Falls(s) /\ ~Returns(x, s) /\ ~Jumps(x, s) /\ m = f
  BY StepIs DEF m, f, d
<1>12. \/ Falls(s) /\ n = onFall(g, s, -d)
       \/ ~Falls(s) /\ Returns(y, s) /\ n = onReturn(g, s, d)
       \/ ~Falls(s) /\ ~Returns(y, s) /\ Jumps(y, s) /\ n = onJump(g, s, d)
       \/ ~Falls(s) /\ ~Returns(y, s) /\ ~Jumps(y, s) /\ n = g
  BY StepIs DEF n, g, d
<1> QED
  BY <1>4, <1>7, <1>8, <1>9, <1>10, <1>11, <1>12

-------------------------------------------------------------------------------
(* Tables *)

LEMMA PutAllPut ==
  ASSUME NEW A, NEW N, NEW z
  PROVE  PutAll(A, Put(N, z)) = Put(PutAll(A, N), z)
BY DEF Put, PutAll

\* A table written before is the one a switch finds.
LEMMA PutAllSwitched ==
  ASSUME NEW A, NEW N, NEW open, NEW t, NEW b, NEW o
  PROVE  PutAll(A, Switched(N, open, t, b, o)) = Switched(PutAll(A, N), open, t, b, o)
<1>1. CASE open # Nil /\ t > open.s
  BY <1>1, PutAllPut DEF Switched
<1>2. CASE ~(open # Nil /\ t > open.s)
  BY <1>2, PutAllPut DEF Switched
<1> QED
  BY <1>1, <1>2

LEMMA PutAllNone ==
  ASSUME NEW A
  PROVE  PutAll(A, {}) = A /\ PutAll({}, A) = A
BY DEF PutAll

-------------------------------------------------------------------------------
(* A run, step by step. *)

NextOf(steps, t, x) == IF t \in DOMAIN steps THEN StepOnce(x, steps[t]) ELSE x

RunUpTo(after, st, steps, n) ==
  after = [t \in 0..n |-> IF t = 0 THEN Carried(st) ELSE NextOf(steps, t - 1, after[t - 1])]

LEMMA RunsExist ==
  ASSUME NEW st, NEW steps, NEW n \in Nat
  PROVE  \E after : RunUpTo(after, st, steps, n)
<1> DEFINE G == {k \in Nat : \E after : RunUpTo(after, st, steps, k)}
<1>1. 0 \in G
  <2> DEFINE after == [t \in 0..0 |-> Carried(st)]
  <2>1. RunUpTo(after, st, steps, 0)
    BY DEF RunUpTo
  <2> QED
    BY <2>1
<1>2. ASSUME NEW k \in Nat, k \in G PROVE k + 1 \in G
  <2>1. PICK p : RunUpTo(p, st, steps, k)
    BY <1>2
  <2> DEFINE q == [t \in 0..k + 1 |-> IF t = k + 1 THEN NextOf(steps, k, p[k]) ELSE p[t]]
  <2>2. \A t \in 0..k + 1 : q[t] = IF t = 0 THEN Carried(st) ELSE NextOf(steps, t - 1, q[t - 1])
    BY <2>1 DEF RunUpTo
  <2>3. q = [t \in 0..k + 1 |-> q[t]]
    OBVIOUS
  <2> HIDE DEF q
  <2>4. RunUpTo(q, st, steps, k + 1)
    BY <2>2, <2>3 DEF RunUpTo
  <2> QED
    BY <2>4
<1> HIDE DEF G
<1>3. n \in G
  BY <1>1, <1>2, Inductive
<1> QED
  BY <1>3 DEF G

LEMMA RunsAgree ==
  ASSUME NEW st, NEW steps, NEW p, NEW q, NEW m \in Nat, NEW n \in Nat, m <= n,
         RunUpTo(p, st, steps, m), RunUpTo(q, st, steps, n)
  PROVE  p[m] = q[m]
<1> DEFINE G == {k \in Nat : k <= m => p[k] = q[k]}
<1>1. /\ \A t \in 0..m : p[t] = IF t = 0 THEN Carried(st) ELSE NextOf(steps, t - 1, p[t - 1])
      /\ \A t \in 0..n : q[t] = IF t = 0 THEN Carried(st) ELSE NextOf(steps, t - 1, q[t - 1])
  BY DEF RunUpTo
<1>2. 0 \in G
  BY <1>1
<1>3. ASSUME NEW k \in Nat, k \in G PROVE k + 1 \in G
  <2> SUFFICES ASSUME k + 1 <= m PROVE p[k + 1] = q[k + 1]
    OBVIOUS
  <2>1. p[k + 1] = NextOf(steps, k, p[k]) /\ q[k + 1] = NextOf(steps, k, q[k])
    BY <1>1
  <2> QED
    BY <1>3, <2>1
<1> HIDE DEF G
<1>4. m \in G
  BY <1>2, <1>3, Inductive
<1> QED
  BY <1>4 DEF G

\* A run up to the next time is the run before it and at most one step.
LEMMA RunUnfolds ==
  ASSUME NEW st, NEW steps
  PROVE  /\ Run(st, steps, 0) = Carried(st)
         /\ \A n \in Nat : Run(st, steps, n + 1) = NextOf(steps, n, Run(st, steps, n))
<1> DEFINE after(n) == CHOOSE after : RunUpTo(after, st, steps, n)
<1>1. \A n \in Nat : RunUpTo(after(n), st, steps, n)
  BY RunsExist
<1>2. \A n : Run(st, steps, n) = after(n)[n]
  BY DEF Run, RunUpTo, NextOf, Carried
<1> HIDE DEF after
<1>3. Run(st, steps, 0) = Carried(st)
  BY <1>1, <1>2 DEF RunUpTo
<1>4. ASSUME NEW n \in Nat PROVE Run(st, steps, n + 1) = NextOf(steps, n, Run(st, steps, n))
  <2> DEFINE p == after(n)
             q == after(n + 1)
  <2>1. RunUpTo(p, st, steps, n) /\ RunUpTo(q, st, steps, n + 1)
    BY <1>1
  <2> HIDE DEF p, q
  <2>2. p[n] = q[n]
    <3>1. n + 1 \in Nat /\ n <= n + 1
      OBVIOUS
    <3> DEFINE m == n + 1
    <3>2. m \in Nat /\ n <= m /\ RunUpTo(q, st, steps, m)
      BY <2>1, <3>1
    <3> HIDE DEF m
    <3> QED
      BY <2>1, <3>2, RunsAgree
  <2>3. q[n + 1] = NextOf(steps, n, q[n])
    BY <2>1 DEF RunUpTo
  <2> QED
    BY <1>2, <2>2, <2>3 DEF p, q
<1> QED
  BY <1>3, <1>4

\* Steps that agree so far give runs that agree.
LEMMA RunOfSame ==
  ASSUME NEW st, NEW a, NEW b, NEW m \in Nat,
         \A t \in 0..m - 1 : (t \in DOMAIN a <=> t \in DOMAIN b) /\ (t \in DOMAIN a => a[t] = b[t])
  PROVE  \A k \in 0..m : Run(st, a, k) = Run(st, b, k)
<1> DEFINE G == {k \in Nat : k <= m => Run(st, a, k) = Run(st, b, k)}
<1>1. 0 \in G
  BY RunUnfolds
<1>2. ASSUME NEW k \in Nat, k \in G PROVE k + 1 \in G
  <2> SUFFICES ASSUME k + 1 <= m PROVE Run(st, a, k + 1) = Run(st, b, k + 1)
    OBVIOUS
  <2>1. Run(st, a, k) = Run(st, b, k) /\ k \in 0..m - 1
    BY <1>2
  <2>2. NextOf(a, k, Run(st, a, k)) = NextOf(b, k, Run(st, b, k))
    BY <2>1 DEF NextOf
  <2> QED
    BY <2>2, RunUnfolds
<1> HIDE DEF G
<1>3. Nat \subseteq G
  BY <1>1, <1>2, Inductive
<1> QED
  BY <1>3 DEF G

LEMMA CarriedFields ==
  ASSUME NEW st \in State
  PROVE  LET c == Carried(st)
         IN  /\ c \in State /\ SameCore(c, st) /\ c.segs = {} /\ c.eps = {}
             /\ Offset(c) = Offset(st)
<1> DEFINE c == Carried(st)
<1>1. c \in State /\ SameCore(c, st) /\ c.segs = {} /\ c.eps = {}
  BY DEF Carried, State, SameCore
<1>2. Offset(c) = Offset(st)
  BY <1>1 DEF SameCore, Offset, pending
<1> QED
  BY <1>1, <1>2

LEMMA CarriedOfSame ==
  ASSUME NEW x \in State, NEW y \in State, SameCore(x, y)
  PROVE  Carried(x) = Carried(y)
<1>1. /\ x = [base |-> x.base, falls |-> x.falls, jump |-> x.jump, open |-> x.open,
              segs |-> x.segs, eps |-> x.eps]
      /\ y = [base |-> y.base, falls |-> y.falls, jump |-> y.jump, open |-> y.open,
              segs |-> y.segs, eps |-> y.eps]
  BY StateFields
<1> QED
  BY <1>1 DEF Carried, SameCore

LEMMA CarriedHeld ==
  ASSUME NEW st, Held(st)
  PROVE  Held(Carried(st))
<1> DEFINE c == Carried(st)
<1>1. st \in State
  BY DEF Held
<1>2. c \in State /\ SameCore(c, st) /\ Offset(c) = Offset(st)
  BY <1>1, CarriedFields
<1> HIDE DEF c
<1>3. Held(c)
  BY <1>2 DEF Held, SameCore
<1> QED
  BY <1>3 DEF c

\* A run that starts before its steps do starts from what it was given.
LEMMA RunIdles ==
  ASSUME NEW st, NEW steps, NEW f \in Nat, \A t \in 0..f - 1 : t \notin DOMAIN steps
  PROVE  Run(st, steps, f) = Carried(st)
<1> DEFINE G == {k \in Nat : k <= f => Run(st, steps, k) = Carried(st)}
<1>1. 0 \in G
  BY RunUnfolds
<1>2. ASSUME NEW k \in Nat, k \in G PROVE k + 1 \in G
  BY <1>2, RunUnfolds DEF NextOf
<1> HIDE DEF G
<1>3. f \in G
  BY <1>1, <1>2, Inductive
<1> QED
  BY <1>3 DEF G

\* A run that goes on from f with what was carried there.
LEMMA RunGoesOn ==
  ASSUME NEW st, NEW all, NEW rest, NEW f \in Nat, NEW u \in Nat, f <= u,
         Held(Run(st, all, f)), \A t \in DOMAIN all : all[t] \in Step,
         \A t \in 0..f - 1 : t \notin DOMAIN rest,
         \A t \in f..u - 1 : (t \in DOMAIN all <=> t \in DOMAIN rest) /\ (t \in DOMAIN all => all[t] = rest[t])
  PROVE  LET y == Run(st, all, u)
             x == Run(Carried(Run(st, all, f)), rest, u)
         IN  /\ x \in State /\ y \in State /\ Carried(x) = Carried(y)
             /\ PutAll(Run(st, all, f).segs, x.segs) = y.segs
<1> DEFINE Y(k) == Run(st, all, k)
           c == Carried(Y(f))
           X(k) == Run(c, rest, k)
           A == Y(f).segs
           Like(k) == /\ Held(X(k)) /\ Held(Y(k)) /\ SameCore(X(k), Y(k))
                      /\ PutAll(A, X(k).segs) = Y(k).segs
           G == {i \in Nat : f + i <= u => Like(f + i)}
<1>1. Held(Y(f)) /\ Y(f) \in State
  BY DEF Held
<1>2. Held(c) /\ c \in State /\ SameCore(c, Y(f)) /\ c.segs = {} /\ c.eps = {}
  BY <1>1, CarriedFields, CarriedHeld
<1>3. X(f) = c
  <2>1. X(f) = Carried(c)
    BY RunIdles
  <2>2. Carried(c) = c
    BY DEF Carried
  <2> QED
    BY <2>1, <2>2
<1>4. 0 \in G
  <2>1. f + 0 = f
    OBVIOUS
  <2>2. PutAll(A, {}) = A
    BY PutAllNone
  <2> HIDE DEF X, Y, c, A
  <2>3. PutAll(A, X(f).segs) = Y(f).segs
    BY <1>2, <1>3, <2>2 DEF A
  <2> QED
    BY <1>1, <1>2, <1>3, <2>1, <2>3
<1>5. ASSUME NEW i \in Nat, i \in G PROVE i + 1 \in G
  <2> DEFINE k == f + i
             x == X(k)
             y == Y(k)
  <2> SUFFICES ASSUME k + 1 <= u PROVE Like(k + 1)
    OBVIOUS
  <2>1. Like(k) /\ k \in f..u - 1 /\ k \in Nat
    BY <1>5
  <2>2. X(k + 1) = NextOf(rest, k, x) /\ Y(k + 1) = NextOf(all, k, y)
    BY <2>1, RunUnfolds
  <2> HIDE DEF X, Y, k, A
  <2>3. Held(x) /\ Held(y) /\ SameCore(x, y) /\ PutAll(A, x.segs) = y.segs
    BY <2>1
  <2> HIDE DEF x, y
  <2>4. CASE k \notin DOMAIN all
    <3>1. X(k + 1) = x /\ Y(k + 1) = y
      BY <2>1, <2>2, <2>4 DEF NextOf
    <3> QED
      BY <2>3, <3>1
  <2>5. CASE k \in DOMAIN all
    <3> DEFINE s == all[k]
               m == StepOnce(x, s)
               n == StepOnce(y, s)
    <3>1. X(k + 1) = m /\ Y(k + 1) = n /\ s \in Step
      BY <2>1, <2>2, <2>5 DEF NextOf
    <3> HIDE DEF s
    <3>2. Held(m) /\ Held(n)
      BY <2>3, <3>1, StepOutcome
    <3>3. SameCore(m, n) /\ SwitchAlike(x, y, m, n)
      BY <2>3, <3>1, StepsAlike DEF Held
    <3> HIDE DEF m, n
    <3>4. PutAll(A, m.segs) = n.segs
      <4>1. CASE m.segs = x.segs /\ n.segs = y.segs
        BY <2>3, <4>1
      <4>2. ASSUME NEW t, NEW b, NEW o, m.segs = Switched(x.segs, x.open, t, b, o),
                   n.segs = Switched(y.segs, x.open, t, b, o)
            PROVE  PutAll(A, m.segs) = n.segs
        <5>1. PutAll(A, Switched(x.segs, x.open, t, b, o)) = Switched(PutAll(A, x.segs), x.open, t, b, o)
          BY PutAllSwitched
        <5> QED
          BY <2>3, <4>2, <5>1
      <4> QED
        BY <3>3, <4>1, <4>2 DEF SwitchAlike
    <3> QED
      BY <3>1, <3>2, <3>3, <3>4
  <2> QED
    BY <2>4, <2>5
<1>6. Like(u)
  <2> HIDE DEF G, Like
  <2>1. Nat \subseteq G
    BY <1>4, <1>5, Inductive
  <2>2. u - f \in Nat /\ f + (u - f) = u
    OBVIOUS
  <2> QED
    BY <2>1, <2>2 DEF G
<1> HIDE DEF X, Y
<1>7. Carried(X(u)) = Carried(Y(u)) /\ X(u) \in State /\ Y(u) \in State
  BY <1>6, CarriedOfSame DEF Held
<1> QED
  BY <1>6, <1>7 DEF X, Y

-------------------------------------------------------------------------------
(* What a pass reads, as a function of the samples: T their times, smp their *)
(* values. *)

Sampling(T, smp) == T \in SUBSET Nat /\ 0 \in T /\ \A t \in T : smp[t] \in Int

Previous(T, t) == CHOOSE p \in T : p < t /\ \A q \in T : q < t => q <= p

SeenBy(T, t, from) ==
  {q \in T : q < t /\ (q >= from - CoarseUpdate \/ \A r \in T : r < from - CoarseUpdate => r <= q)}
ChangedIn(T, smp, seen) == {q \in seen : (\E r \in seen : r < q) => smp[Previous(T, q)] # smp[q]}
SettledOf(T, smp, t, from) ==
  LET changed == ChangedIn(T, smp, SeenBy(T, t, from))
  IN IF changed = {} THEN Previous(T, t) ELSE CHOOSE q \in changed : \A r \in changed : r <= q
StepOf(T, smp, t, from) ==
  LET p == Previous(T, t)
  IN [pt |-> p, pv |-> smp[p], t |-> t, v |-> smp[t], dt |-> Duration(t, p, SettledOf(T, smp, t, from))]
Worth(s) == Falls(s) \/ Change(s) >= CandidateFloorKwh \/ Fast(s)
Candidates(T, smp, from, to) ==
  [t \in {u \in T : from <= u /\ u < to /\ u > 0 /\ Worth(StepOf(T, smp, u, from))} |-> StepOf(T, smp, t, from)]

LEMMA LastHolds ==
  ASSUME NEW T \in SUBSET Nat, 0 \in T, NEW t \in Nat, t > 0
  PROVE  /\ Previous(T, t) \in T /\ Previous(T, t) < t
         /\ \A q \in T : q < t => q <= Previous(T, t)
<1> DEFINE S == {q \in T : q < t}
<1>1. S \in SUBSET (0..t) /\ S # {}
  <2>1. (\A q \in S : q \in 0..t) /\ 0 \in S
    OBVIOUS
  <2> QED
    BY <2>1
<1>2. \E x \in S : \A y \in S : y <= x
  BY <1>1, GreatestNumber
<1>3. \E p \in T : p < t /\ \A q \in T : q < t => q <= p
  BY <1>2
<1> QED
  BY <1>3 DEF Previous

LEMMA LastIs ==
  ASSUME NEW T \in SUBSET Nat, 0 \in T, NEW t \in Nat, NEW p \in T,
         p < t, \A q \in T : q < t => q <= p
  PROVE  Previous(T, t) = p
<1> DEFINE l == Previous(T, t)
<1>1. l \in T /\ l < t /\ \A q \in T : q < t => q <= l
  BY LastHolds
<1> HIDE DEF l
<1>2. l <= p /\ p <= l /\ l \in Nat /\ p \in Nat
  BY <1>1
<1>3. l = p
  BY <1>2
<1> QED
  BY <1>3 DEF l

LEMMA GreatestIs ==
  ASSUME NEW S \in SUBSET Nat, NEW x \in S, \A y \in S : y <= x
  PROVE  (CHOOSE q \in S : \A r \in S : r <= q) = x
<1> DEFINE z == CHOOSE q \in S : \A r \in S : r <= q
<1>1. z \in S /\ \A y \in S : y <= z
  OBVIOUS
<1> HIDE DEF z
<1>2. z <= x /\ x <= z /\ z \in Nat /\ x \in Nat
  BY <1>1
<1>3. z = x
  BY <1>2
<1> QED
  BY <1>3 DEF z

LEMMA SettledHolds ==
  ASSUME NEW T \in SUBSET Nat, 0 \in T, NEW smp, NEW t \in Nat, t > 0, NEW f
  PROVE  LET C == ChangedIn(T, smp, SeenBy(T, t, f))
             z == SettledOf(T, smp, t, f)
         IN  /\ z \in T /\ z < t
             /\ C # {} => z \in C /\ \A q \in C : q <= z
<1> DEFINE C == ChangedIn(T, smp, SeenBy(T, t, f))
           z == SettledOf(T, smp, t, f)
<1>1. \A q \in C : q \in T /\ q < t
  BY DEF ChangedIn, SeenBy
<1>2. z = IF C = {} THEN Previous(T, t) ELSE CHOOSE q \in C : \A r \in C : r <= q
  BY DEF SettledOf
<1> HIDE DEF C, z
<1>3. CASE C = {}
  BY <1>2, <1>3, LastHolds DEF C, z
<1>4. CASE C # {}
  <2>1. C \in SUBSET (0..t)
    <3>1. ASSUME NEW q \in C PROVE q \in 0..t
      <4>1. q \in T /\ q < t
        BY <1>1
      <4>2. q \in Nat
        BY <4>1
      <4> QED
        BY <4>1, <4>2
    <3> QED
      BY <3>1
  <2>2. \E x \in C : \A y \in C : y <= x
    BY <1>4, <2>1, GreatestNumber
  <2>3. z \in C /\ \A q \in C : q <= z
    BY <1>2, <1>4, <2>2
  <2> QED
    BY <1>1, <2>3 DEF C, z
<1> QED
  BY <1>3, <1>4

\* What the window does not see is longer ago than any energy is spread.
LEMMA WindowSuffices ==
  ASSUME NEW T \in SUBSET Nat, 0 \in T, NEW smp, NEW t \in T, t > 0, NEW f \in Nat, f <= t
  PROVE  StepOf(T, smp, t, f) = StepOf(T, smp, t, 0)
<1> DEFINE seen == SeenBy(T, t, f)
           every == SeenBy(T, t, 0)
           C == ChangedIn(T, smp, seen)
           D == ChangedIn(T, smp, every)
           a == SettledOf(T, smp, t, f)
           z == SettledOf(T, smp, t, 0)
           low == {r \in T : r < f - CoarseUpdate}
           Outside == a = z \/ (t - a > CoarseUpdate /\ t - z > CoarseUpdate)
<1>1. t \in Nat /\ CoarseUpdate \in Nat
  BY StitchAssumption
<1>2. every = {q \in T : q < t}
  <2>1. \A q \in T : q >= 0 - CoarseUpdate
    BY <1>1
  <2> QED
    BY <2>1 DEF SeenBy
<1>3. /\ a \in T /\ a < t /\ (C # {} => a \in C /\ \A q \in C : q <= a)
      /\ z \in T /\ z < t /\ (D # {} => z \in D /\ \A q \in D : q <= z)
  BY <1>1, SettledHolds
<1>4. Outside
  <2>1. CASE low = {}
    <3>1. seen = every
      BY <1>2, <2>1 DEF SeenBy
    <3> QED
      BY <3>1 DEF SettledOf
  <2>2. CASE low # {}
    <3>1. low \in SUBSET (0..f)
      <4>1. \A q \in low : q \in 0..f
        BY <1>1
      <4> QED
        BY <4>1
    <3>2. PICK m \in low : \A r \in low : r <= m
      BY <2>2, <3>1, GreatestNumber
    <3>3. m \in T /\ m < f - CoarseUpdate /\ m \in Nat /\ m < t
      BY <1>1
    <3>4. \A q \in T : q \in seen <=> q < t /\ m <= q
      <4> SUFFICES ASSUME NEW q \in T PROVE q \in seen <=> q < t /\ m <= q
        OBVIOUS
      <4>1. q >= f - CoarseUpdate => m <= q
        BY <1>1, <3>3
      <4>2. (\A r \in T : r < f - CoarseUpdate => r <= q) <=> m <= q
        <5>1. m <= q => \A r \in low : r <= q
          BY <3>2, <3>3
        <5> QED
          BY <3>3, <5>1
      <4> QED
        BY <4>1, <4>2 DEF SeenBy
    <3>5. seen \subseteq T
      BY DEF SeenBy
    <3> HIDE DEF seen, every, a, z, low
    <3>6. m \in C
      <4>1. m \in seen /\ ~(\E r \in seen : r < m)
        BY <3>3, <3>4, <3>5
      <4> QED
        BY <4>1 DEF ChangedIn
    <3>7. 0 \in D
      <4>1. 0 \in every /\ ~(\E r \in every : r < 0)
        BY <1>1, <1>2
      <4> QED
        BY <4>1 DEF ChangedIn
    <3>8. \A q \in T : m < q => (q \in C <=> q \in D)
      <4> SUFFICES ASSUME NEW q \in T, m < q PROVE q \in C <=> q \in D
        OBVIOUS
      <4>1. (q \in seen <=> q \in every) /\ m \in seen /\ m \in every
        BY <1>2, <3>3, <3>4
      <4> QED
        BY <4>1 DEF ChangedIn
    <3>9. a \in C /\ (\A q \in C : q <= a) /\ z \in D /\ (\A q \in D : q <= z)
      BY <1>3, <3>6, <3>7
    <3>10. m <= a /\ a \in Nat /\ z \in Nat
      BY <1>3, <3>6, <3>9
    <3> HIDE DEF C, D
    <3>11. CASE m < a
      <4>1. a \in D /\ a <= z
        BY <1>3, <3>8, <3>9, <3>11
      <4>2. m < z
        BY <3>3, <3>10, <3>11, <4>1
      <4>3. z <= a
        BY <1>3, <3>8, <3>9, <4>2
      <4> QED
        BY <3>10, <4>1, <4>3
    <3>12. CASE a = m
      <4>1. ~(m < z)
        <5> SUFFICES ASSUME m < z PROVE FALSE
          OBVIOUS
        <5>1. z \in C
          BY <1>3, <3>8, <3>9
        <5>2. z <= m
          BY <3>9, <3>12, <5>1
        <5> QED
          BY <3>3, <3>10, <5>2
      <4> QED
        BY <1>1, <3>3, <3>10, <3>12, <4>1
    <3> QED
      BY <3>3, <3>10, <3>11, <3>12
  <2> QED
    BY <2>1, <2>2
<1>5. Duration(t, Previous(T, t), a) = Duration(t, Previous(T, t), z)
  <2> HIDE DEF a, z
  <2> QED
    BY <1>4 DEF Duration
<1> QED
  BY <1>5 DEF StepOf

LEMMA StepTyped ==
  ASSUME NEW T, NEW smp, Sampling(T, smp), NEW t \in T, t > 0
  PROVE  /\ StepOf(T, smp, t, 0) \in Step
         /\ StepOf(T, smp, t, 0).t = t
         /\ Change(StepOf(T, smp, t, 0)) = smp[t] - smp[Previous(T, t)]
<1> DEFINE p == Previous(T, t)
           z == SettledOf(T, smp, t, 0)
           w == Duration(t, p, z)
<1>1. t \in Nat /\ T \in SUBSET Nat /\ 0 \in T
  BY DEF Sampling
<1>2. p \in T /\ p < t /\ z \in T /\ z < t
  BY <1>1, LastHolds, SettledHolds
<1> HIDE DEF p, z
<1>3. w \in Nat
  BY <1>1, <1>2, StitchAssumption DEF Duration
<1> HIDE DEF w
<1>4. StepOf(T, smp, t, 0) = [pt |-> p, pv |-> smp[p], t |-> t, v |-> smp[t], dt |-> w]
  BY DEF StepOf, p, z, w
<1>5. p \in Nat /\ smp[p] \in Int /\ smp[t] \in Int
  BY <1>1, <1>2 DEF Sampling
<1> QED
  BY <1>1, <1>3, <1>4, <1>5 DEF Step, Change, p

LEMMA CandidateIs ==
  ASSUME NEW T, NEW smp, Sampling(T, smp), NEW f \in Nat, NEW u \in Nat, NEW t \in Nat, f <= t
  PROVE  LET C == Candidates(T, smp, f, u)
             s == StepOf(T, smp, t, 0)
         IN  /\ t \in DOMAIN C <=> t \in T /\ t < u /\ t > 0 /\ Worth(s)
             /\ t \in DOMAIN C => C[t] = s
<1>1. T \in SUBSET Nat /\ 0 \in T
  BY DEF Sampling
<1>2. t \in T /\ t > 0 => StepOf(T, smp, t, f) = StepOf(T, smp, t, 0)
  BY <1>1, WindowSuffices
<1> QED
  BY <1>2 DEF Candidates

LEMMA CandidatesFrom ==
  ASSUME NEW T, NEW smp, Sampling(T, smp), NEW f \in Nat, NEW u \in Nat
  PROVE  LET C == Candidates(T, smp, f, u)
             D == Candidates(T, smp, 0, u)
         IN  /\ \A t \in DOMAIN D : D[t] \in Step
             /\ \A t \in 0..f - 1 : t \notin DOMAIN C
             /\ \A t \in f..u - 1 : (t \in DOMAIN D <=> t \in DOMAIN C) /\ (t \in DOMAIN D => D[t] = C[t])
<1> DEFINE C == Candidates(T, smp, f, u)
           D == Candidates(T, smp, 0, u)
<1>1. T \in SUBSET Nat /\ 0 \in T
  BY DEF Sampling
<1>2. ASSUME NEW t \in DOMAIN D PROVE D[t] \in Step
  <2>1. t \in T /\ t \in Nat /\ 0 <= t /\ t > 0
    BY <1>1 DEF Candidates
  <2>2. D[t] = StepOf(T, smp, t, 0)
    BY <2>1, CandidateIs
  <2> QED
    BY <2>1, <2>2, StepTyped
<1>3. \A t \in 0..f - 1 : t \notin DOMAIN C
  BY DEF Candidates
<1>4. ASSUME NEW t \in f..u - 1
      PROVE  (t \in DOMAIN D <=> t \in DOMAIN C) /\ (t \in DOMAIN D => D[t] = C[t])
  <2>1. t \in Nat /\ f <= t /\ 0 <= t /\ 0 \in Nat
    OBVIOUS
  <2>2. /\ t \in DOMAIN C <=> t \in T /\ t < u /\ t > 0 /\ Worth(StepOf(T, smp, t, 0))
        /\ t \in DOMAIN C => C[t] = StepOf(T, smp, t, 0)
    BY <2>1, CandidateIs
  <2>3. /\ t \in DOMAIN D <=> t \in T /\ t < u /\ t > 0 /\ Worth(StepOf(T, smp, t, 0))
        /\ t \in DOMAIN D => D[t] = StepOf(T, smp, t, 0)
    BY <2>1, CandidateIs
  <2> QED
    BY <2>2, <2>3
<1> QED
  BY <1>2, <1>3, <1>4

LEMMA CandidatesUpTo ==
  ASSUME NEW T, NEW smp, Sampling(T, smp), NEW f \in Nat, NEW u \in Nat, f <= u
  PROVE  LET C == Candidates(T, smp, 0, f)
             D == Candidates(T, smp, 0, u)
         IN  \A t \in 0..f - 1 : (t \in DOMAIN C <=> t \in DOMAIN D) /\ (t \in DOMAIN C => C[t] = D[t])
<1> DEFINE C == Candidates(T, smp, 0, f)
           D == Candidates(T, smp, 0, u)
<1> SUFFICES ASSUME NEW t \in 0..f - 1
             PROVE  (t \in DOMAIN C <=> t \in DOMAIN D) /\ (t \in DOMAIN C => C[t] = D[t])
  OBVIOUS
<1>1. t \in Nat /\ 0 <= t /\ 0 \in Nat /\ t < f /\ t < u
  OBVIOUS
<1>2. /\ t \in DOMAIN C <=> t \in T /\ t < f /\ t > 0 /\ Worth(StepOf(T, smp, t, 0))
      /\ t \in DOMAIN C => C[t] = StepOf(T, smp, t, 0)
  BY <1>1, CandidateIs
<1>3. /\ t \in DOMAIN D <=> t \in T /\ t < u /\ t > 0 /\ Worth(StepOf(T, smp, t, 0))
      /\ t \in DOMAIN D => D[t] = StepOf(T, smp, t, 0)
  BY <1>1, CandidateIs
<1> QED
  BY <1>1, <1>2, <1>3

WholeOf(T, smp, u) == Run(Fresh, Candidates(T, smp, 0, u), u)

\* Samples that agree before n.
SameBefore(T, smp, R, rd, n) ==
  \A t \in Nat : t < n => (t \in T <=> t \in R) /\ (t \in T => smp[t] = rd[t])

LEMMA FreshHeld == Held(Fresh) /\ Carried(Fresh) = Fresh /\ Fresh.open = Nil /\ Fresh.segs = {}
<1>1. Fresh \in State
  <2>1. <<>> \in Seq(Fall)
    OBVIOUS
  <2> QED
    BY <2>1 DEF Fresh, State
<1>2. /\ Fresh.base = 0 /\ Fresh.falls = <<>> /\ Fresh.open = Nil /\ Fresh.jump = Nil
      /\ Fresh.segs = {} /\ Fresh.eps = {}
  BY DEF Fresh
<1>3. Carried(Fresh) = Fresh
  <2> DEFINE c == Carried(Fresh)
             f == Fresh
  <2>1. c \in State /\ SameCore(c, f) /\ c.segs = {} /\ c.eps = {}
    BY <1>1, CarriedFields
  <2> HIDE DEF c
  <2>2. c = [base |-> c.base, falls |-> c.falls, jump |-> c.jump, open |-> c.open,
             segs |-> c.segs, eps |-> c.eps]
    BY <2>1, StateFields
  <2>3. f = [base |-> f.base, falls |-> f.falls, jump |-> f.jump, open |-> f.open,
             segs |-> f.segs, eps |-> f.eps]
    BY <1>1, StateFields
  <2>4. c = f
    BY <1>2, <2>1, <2>2, <2>3 DEF SameCore
  <2> QED
    BY <2>4 DEF c
<1>4. Offset(Fresh) = 0 /\ KwhOf(Fresh.falls) = 0
  BY <1>1, <1>2, NoFalls, OffsetTyped
<1> QED
  BY <1>1, <1>2, <1>3, <1>4 DEF Held

LEMMA RunHeld ==
  ASSUME NEW st, Held(st), NEW steps, \A t \in DOMAIN steps : steps[t] \in Step
  PROVE  \A k \in Nat : Held(Run(st, steps, k))
<1> DEFINE G == {k \in Nat : Held(Run(st, steps, k))}
<1>1. 0 \in G
  BY RunUnfolds, CarriedHeld
<1>2. ASSUME NEW k \in Nat, k \in G PROVE k + 1 \in G
  <2> DEFINE x == Run(st, steps, k)
  <2>1. Run(st, steps, k + 1) = NextOf(steps, k, x) /\ Held(x)
    BY <1>2, RunUnfolds
  <2> HIDE DEF x
  <2>2. Held(NextOf(steps, k, x))
    <3>1. k \in DOMAIN steps => Held(StepOnce(x, steps[k]))
      BY <2>1, StepOutcome
    <3> QED
      BY <2>1, <3>1 DEF NextOf
  <2> QED
    BY <2>1, <2>2
<1> HIDE DEF G
<1>3. Nat \subseteq G
  BY <1>1, <1>2, Inductive
<1> QED
  BY <1>3 DEF G

LEMMA LastSame ==
  ASSUME NEW T, NEW smp, Sampling(T, smp), NEW R, NEW rd, Sampling(R, rd), NEW n \in Nat,
         SameBefore(T, smp, R, rd, n), NEW t \in Nat, 0 < t, t <= n
  PROVE  Previous(T, t) = Previous(R, t)
<1> DEFINE p == Previous(R, t)
<1>1. T \in SUBSET Nat /\ 0 \in T /\ R \in SUBSET Nat /\ 0 \in R
  BY DEF Sampling
<1>2. p \in R /\ p < t /\ \A q \in R : q < t => q <= p
  BY <1>1, LastHolds
<1> HIDE DEF p
<1>3. \A q \in Nat : q < t => (q \in T <=> q \in R)
  BY DEF SameBefore
<1>4. p \in T /\ \A q \in T : q < t => q <= p
  BY <1>1, <1>2, <1>3
<1>5. Previous(T, t) = p
  BY <1>1, <1>2, <1>4, LastIs
<1> QED
  BY <1>5 DEF p

LEMMA SeenWhole ==
  ASSUME NEW T \in SUBSET Nat, NEW t
  PROVE  SeenBy(T, t, 0) = {q \in T : q < t}
<1>1. \A q \in T : q >= 0 - CoarseUpdate
  BY StitchAssumption
<1> QED
  BY <1>1 DEF SeenBy

Greatest(S) == CHOOSE q \in S : \A r \in S : r <= q

LEMMA StepSame ==
  ASSUME NEW T, NEW smp, Sampling(T, smp), NEW R, NEW rd, Sampling(R, rd), NEW n \in Nat,
         SameBefore(T, smp, R, rd, n), NEW t \in T, 0 < t, t < n
  PROVE  StepOf(T, smp, t, 0) = StepOf(R, rd, t, 0)
<1> DEFINE seen == SeenBy(T, t, 0)
           every == SeenBy(R, t, 0)
<1>1. T \in SUBSET Nat /\ 0 \in T /\ R \in SUBSET Nat /\ 0 \in R /\ t \in Nat
  BY DEF Sampling
<1>2. \A q \in Nat : q < n => (q \in T <=> q \in R) /\ (q \in T => smp[q] = rd[q])
  BY DEF SameBefore
<1>3. seen = every /\ \A q \in seen : q \in T /\ q \in Nat /\ q < t
  <2>1. seen = {q \in T : q < t} /\ every = {q \in R : q < t}
    BY <1>1, SeenWhole
  <2>2. \A q \in Nat : q < t => q < n
    BY <1>1
  <2> HIDE DEF seen, every
  <2> QED
    BY <1>1, <1>2, <2>1, <2>2
<1> HIDE DEF seen, every
<1>4. \A q \in Nat : 0 < q /\ q <= t => Previous(T, q) = Previous(R, q) /\ Previous(T, q) \in T /\ Previous(T, q) < q
  <2> SUFFICES ASSUME NEW q \in Nat, 0 < q, q <= t
               PROVE  Previous(T, q) = Previous(R, q) /\ Previous(T, q) \in T /\ Previous(T, q) < q
    OBVIOUS
  <2>1. q <= n
    BY <1>1
  <2> QED
    BY <1>1, <2>1, LastSame, LastHolds
<1>5. ChangedIn(T, smp, seen) = ChangedIn(R, rd, every)
  <2> DEFINE P(q) == (\E r \in seen : r < q) => smp[Previous(T, q)] # smp[q]
             Q(q) == (\E r \in seen : r < q) => rd[Previous(R, q)] # rd[q]
  <2>1. ASSUME NEW q \in seen PROVE P(q) <=> Q(q)
    <3>1. q \in T /\ q \in Nat /\ q < t /\ q < n /\ q <= t
      BY <1>1, <1>3
    <3>2. smp[q] = rd[q]
      BY <1>2, <3>1
    <3>3. CASE q = 0
      BY <1>3, <3>3
    <3>4. CASE 0 < q
      <4> DEFINE l == Previous(T, q)
      <4>1. l = Previous(R, q) /\ l \in T /\ l < q
        BY <1>4, <3>1, <3>4
      <4> HIDE DEF l
      <4>2. l \in Nat /\ l < n
        BY <1>1, <3>1, <4>1
      <4>3. smp[l] = rd[l]
        BY <1>2, <4>1, <4>2
      <4> QED
        BY <3>2, <4>1, <4>3 DEF l
    <3> QED
      BY <3>1, <3>3, <3>4
  <2> HIDE DEF P, Q
  <2>2. {q \in seen : P(q)} = {q \in seen : Q(q)}
    BY <2>1
  <2> QED
    BY <1>3, <2>2 DEF ChangedIn, P, Q
<1>6. Previous(T, t) = Previous(R, t) /\ Previous(T, t) \in T /\ Previous(T, t) < t
  BY <1>1, <1>4
<1>7. SettledOf(T, smp, t, 0) = SettledOf(R, rd, t, 0)
  <2> DEFINE C == ChangedIn(T, smp, seen)
             D == ChangedIn(R, rd, every)
  <2>1. SettledOf(T, smp, t, 0) = IF C = {} THEN Previous(T, t) ELSE Greatest(C)
    BY DEF SettledOf, seen, Greatest
  <2>2. SettledOf(R, rd, t, 0) = IF D = {} THEN Previous(R, t) ELSE Greatest(D)
    BY DEF SettledOf, every, Greatest
  <2>3. C = D
    BY <1>5
  <2> HIDE DEF C, D
  <2> QED
    BY <1>6, <2>1, <2>2, <2>3
<1>8. smp[t] = rd[t] /\ smp[Previous(T, t)] = rd[Previous(T, t)]
  <2> DEFINE l == Previous(T, t)
  <2>1. l \in T /\ l < t
    BY <1>6
  <2> HIDE DEF l
  <2>2. l \in Nat /\ l < n
    BY <1>1, <2>1
  <2>3. smp[t] = rd[t] /\ smp[l] = rd[l]
    BY <1>1, <1>2, <2>1, <2>2
  <2> QED
    BY <2>3 DEF l
<1> QED
  BY <1>6, <1>7, <1>8 DEF StepOf

\* What is stitched of the samples before u, only they decide.
LEMMA WholeSame ==
  ASSUME NEW T, NEW smp, Sampling(T, smp), NEW R, NEW rd, Sampling(R, rd), NEW u \in Nat,
         SameBefore(T, smp, R, rd, u)
  PROVE  WholeOf(T, smp, u) = WholeOf(R, rd, u)
<1> DEFINE C == Candidates(T, smp, 0, u)
           D == Candidates(R, rd, 0, u)
<1>1. ASSUME NEW t \in 0..u - 1
      PROVE  (t \in DOMAIN C <=> t \in DOMAIN D) /\ (t \in DOMAIN C => C[t] = D[t])
  <2> DEFINE s == StepOf(T, smp, t, 0)
             r == StepOf(R, rd, t, 0)
  <2>1. t \in Nat /\ 0 <= t /\ 0 \in Nat /\ t < u
    OBVIOUS
  <2>2. (t \in DOMAIN C <=> t \in T /\ t < u /\ t > 0 /\ Worth(s)) /\ (t \in DOMAIN C => C[t] = s)
    BY <2>1, CandidateIs
  <2>3. (t \in DOMAIN D <=> t \in R /\ t < u /\ t > 0 /\ Worth(r)) /\ (t \in DOMAIN D => D[t] = r)
    BY <2>1, CandidateIs
  <2>4. t \in T /\ t > 0 => s = r
    BY <2>1, StepSame
  <2>5. t \in T <=> t \in R
    BY <2>1 DEF SameBefore
  <2> HIDE DEF C, D, s, r
  <2> QED
    BY <2>2, <2>3, <2>4, <2>5
<1> HIDE DEF C, D
<1>2. \A k \in 0..u : Run(Fresh, C, k) = Run(Fresh, D, k)
  BY <1>1, RunOfSame
<1>3. Run(Fresh, C, u) = Run(Fresh, D, u)
  BY <1>2
<1> QED
  BY <1>3 DEF WholeOf, C, D

LEMMA WholeHeld ==
  ASSUME NEW T, NEW smp, Sampling(T, smp), NEW u \in Nat
  PROVE  Held(WholeOf(T, smp, u)) /\ WholeOf(T, smp, u) \in State
<1> DEFINE D == Candidates(T, smp, 0, u)
<1>1. \A t \in DOMAIN D : D[t] \in Step
  BY CandidatesFrom
<1> HIDE DEF D
<1>2. Held(Run(Fresh, D, u))
  BY <1>1, FreshHeld, RunHeld
<1> QED
  BY <1>2 DEF WholeOf, D, Held

\* A pass that goes on from a whole history's state at f ends in a whole
\* history's at u, and completes its table.
LEMMA PassGoesOn ==
  ASSUME NEW T, NEW smp, Sampling(T, smp), NEW f \in Nat, NEW u \in Nat, f <= u
  PROVE  LET x == Run(Carried(WholeOf(T, smp, f)), Candidates(T, smp, f, u), u)
             y == WholeOf(T, smp, u)
         IN  /\ x \in State /\ Carried(x) = Carried(y)
             /\ PutAll(WholeOf(T, smp, f).segs, x.segs) = y.segs
<1> DEFINE all == Candidates(T, smp, 0, u)
           rest == Candidates(T, smp, f, u)
           first == Candidates(T, smp, 0, f)
<1>1. \A t \in 0..f - 1 : (t \in DOMAIN first <=> t \in DOMAIN all) /\ (t \in DOMAIN first => first[t] = all[t])
  BY CandidatesUpTo
<1>2. /\ \A t \in DOMAIN all : all[t] \in Step
      /\ \A t \in 0..f - 1 : t \notin DOMAIN rest
      /\ \A t \in f..u - 1 : (t \in DOMAIN all <=> t \in DOMAIN rest) /\ (t \in DOMAIN all => all[t] = rest[t])
  BY CandidatesFrom
<1>3. Held(WholeOf(T, smp, f))
  BY WholeHeld
<1>4. WholeOf(T, smp, f) = Run(Fresh, first, f) /\ WholeOf(T, smp, u) = Run(Fresh, all, u)
  BY DEF WholeOf
<1> HIDE DEF all, rest, first
<1>5. Run(Fresh, first, f) = Run(Fresh, all, f)
  <2>1. \A k \in 0..f : Run(Fresh, first, k) = Run(Fresh, all, k)
    BY <1>1, RunOfSame
  <2> QED
    BY <2>1
<1>6. LET y == Run(Fresh, all, u)
          x == Run(Carried(Run(Fresh, all, f)), rest, u)
      IN  /\ x \in State /\ y \in State /\ Carried(x) = Carried(y)
          /\ PutAll(Run(Fresh, all, f).segs, x.segs) = y.segs
  <2>1. Held(Run(Fresh, all, f))
    BY <1>3, <1>4, <1>5
  <2> QED
    BY <1>2, <2>1, RunGoesOn
<1> QED
  BY <1>4, <1>5, <1>6 DEF rest

-------------------------------------------------------------------------------
(* The shape of a table of offsets: its segments follow one another, each     *)
(* ending where another starts, the open one last, and none falls.            *)

EndsIn(segs, g) ==
  /\ g.e \in Nat /\ g.s < g.e /\ \E h \in segs : h.s = g.e
  /\ \A h \in segs : h.s <= g.s \/ g.e <= h.s

Chain(T, segs, open, n) ==
  /\ segs \subseteq Segment
  /\ open = Nil => segs = {}
  /\ open # Nil => open \in segs /\ open.e = Nil /\ \A g \in segs : g.s <= open.s
  /\ \A g \in segs : g.s \in T /\ 0 < g.s /\ g.s < n /\ g.a <= g.b
  /\ \A g, h \in segs : g.s = h.s => g = h
  /\ \A g \in segs : g = open \/ EndsIn(segs, g)

LEMMA ChainLonger ==
  ASSUME NEW T, NEW segs, NEW open, NEW n \in Nat, NEW m \in Nat, n <= m, NEW R, T \subseteq R,
         Chain(T, segs, open, n)
  PROVE  Chain(R, segs, open, m)
<1>1. \A g \in segs : g.s \in Nat
  BY SegmentFields DEF Chain
<1>2. \A g \in segs : g.s \in R /\ 0 < g.s /\ g.s < m /\ g.a <= g.b
  BY <1>1 DEF Chain
<1> QED
  BY <1>2 DEF Chain

LEMMA OpenedFields ==
  ASSUME NEW t \in Nat, NEW o \in Int
  PROVE  LET g == Opened(t, o)
         IN  g \in Segment /\ g.s = t /\ g.e = Nil /\ g.a = o /\ g.b = o
BY DEF Opened, Segment

LEMMA SwitchedHas ==
  ASSUME NEW segs, NEW open, NEW t, NEW b, NEW o, NEW g \in Switched(segs, open, t, b, o)
  PROVE  g = Opened(t, o) \/ (open # Nil /\ g = ClosedAt(open, t, b)) \/ g \in segs
<1>1. CASE open # Nil /\ t > open.s
  BY <1>1 DEF Switched, Put
<1>2. CASE ~(open # Nil /\ t > open.s)
  BY <1>2 DEF Switched, Put
<1> QED
  BY <1>1, <1>2

LEMMA ChainStep ==
  ASSUME NEW T, NEW segs, NEW open, NEW n \in Nat, Chain(T, segs, open, n), n \in T, 0 < n,
         NEW o \in Int, NEW b \in Int, open # Nil => open.a <= b
  PROVE  Chain(T, Switched(segs, open, n, b, o), Opened(n, o), n + 1)
<1> DEFINE new == Opened(n, o)
           closed == ClosedAt(open, n, b)
           B == Switched(segs, open, n, b, o)
<1>1. /\ segs \subseteq Segment /\ (open = Nil => segs = {})
      /\ open # Nil => open \in segs /\ open.e = Nil /\ \A g \in segs : g.s <= open.s
      /\ \A g \in segs : g.s \in T /\ 0 < g.s /\ g.s < n /\ g.a <= g.b
      /\ \A g, h \in segs : g.s = h.s => g = h
      /\ \A g \in segs : g = open \/ EndsIn(segs, g)
  BY DEF Chain
<1>2. new \in Segment /\ new.s = n /\ new.e = Nil /\ new.a = o /\ new.b = o /\ new # Nil
  BY OpenedFields, StitchAssumption
<1>3. \A g \in segs : g.s \in Nat /\ g.a \in Int
  BY <1>1, SegmentFields
<1>4. CASE open = Nil
  <2>1. B = {new}
    BY <1>1, <1>4 DEF Switched, Put
  <2> HIDE DEF new, B
  <2>2. Chain(T, B, new, n + 1)
    BY <1>2, <2>1 DEF Chain
  <2> QED
    BY <2>2 DEF new, B
<1>5. CASE open # Nil
  <2>1. /\ closed \in Segment /\ closed.s = open.s /\ closed.e = n /\ closed.a = open.a /\ closed.b = b
        /\ open \in segs /\ open.s < n /\ open.s \in Nat
    <3>1. open \in segs /\ open \in Segment /\ open.s < n /\ open.s \in Nat
      BY <1>1, <1>3, <1>5
    <3>2. /\ closed \in Segment /\ closed.s = open.s /\ closed.e = n
          /\ closed.a = open.a /\ closed.b = b
      BY <3>1 DEF ClosedAt, Segment
    <3> QED
      BY <3>1, <3>2
  <2>2. B = {y \in {z \in segs : z.s # open.s} \cup {closed} : y.s # n} \cup {new}
    BY <1>2, <1>5, <2>1 DEF Switched, Put
  <2> HIDE DEF new, closed, B
  <2>3. \A g : g \in B <=> \/ g = new \/ g = closed
                           \/ g \in segs /\ g.s # open.s
    BY <1>1, <1>3, <2>1, <2>2
  <2>4. \A g \in segs : g.s # open.s => g.s < open.s /\ EndsIn(segs, g)
    BY <1>1, <1>3, <1>5, <2>1
  <2>5. B \subseteq Segment
    BY <1>1, <1>2, <2>1, <2>3
  <2>6. new \in B /\ \A g \in B : g.s <= new.s
    BY <1>1, <1>2, <1>3, <2>1, <2>3
  <2>7. \A g \in B : g.s \in T /\ 0 < g.s /\ g.s < n + 1 /\ g.a <= g.b
    <3>1. new.s \in T /\ 0 < new.s /\ new.s < n + 1 /\ new.a <= new.b
      BY <1>2
    <3>2. closed.s \in T /\ 0 < closed.s /\ closed.s < n + 1 /\ closed.a <= closed.b
      BY <1>1, <1>3, <1>5, <2>1
    <3>3. \A g \in segs : g.s < n + 1
      BY <1>1, <1>3
    <3> QED
      BY <1>1, <2>3, <3>1, <3>2, <3>3
  <2>8. \A g, h \in B : g.s = h.s => g = h
    <3>1. \A g \in segs : g.s # n
      BY <1>1, <1>3
    <3> QED
      BY <1>1, <1>2, <2>1, <2>3, <3>1
  <2>9. \A g \in B : g = new \/ EndsIn(B, g)
    <3>1. EndsIn(B, closed)
      <4>1. \A h \in B : h.s <= closed.s \/ closed.e <= h.s
        BY <1>1, <1>2, <1>3, <1>5, <2>1, <2>3
      <4> QED
        BY <1>2, <2>1, <2>6, <4>1 DEF EndsIn
    <3>2. ASSUME NEW g \in segs, g.s # open.s PROVE EndsIn(B, g)
      <4>1. g.e \in Nat /\ g.s < g.e /\ (\E h \in segs : h.s = g.e) /\ \A h \in segs : h.s <= g.s \/ g.e <= h.s
        BY <2>4, <3>2 DEF EndsIn
      <4>2. \E h \in B : h.s = g.e
        BY <2>1, <2>3, <4>1
      <4>3. \A h \in B : h.s <= g.s \/ g.e <= h.s
        <5>1. g.e <= n
          BY <1>1, <1>3, <4>1
        <5> QED
          BY <1>2, <2>1, <2>3, <4>1, <5>1
      <4> QED
        BY <4>1, <4>2, <4>3 DEF EndsIn
    <3> QED
      BY <2>3, <3>1, <3>2
  <2>10. Chain(T, B, new, n + 1)
    BY <1>2, <2>5, <2>6, <2>7, <2>8, <2>9 DEF Chain
  <2> QED
    BY <2>10 DEF new, B
<1> QED
  BY <1>4, <1>5

\* What a pass from f adds to a table A: segments from f on, and A's open one closed.
Adds(A, N, f) ==
  \A g \in N : f <= g.s \/ (g.e \in Nat /\ \E h \in A : h.e = Nil /\ h.s = g.s /\ h.a = g.a)

PassHolds(T, A, x, f, k) ==
  /\ Held(x) /\ Chain(T, PutAll(A, x.segs), x.open, k) /\ Adds(A, x.segs, f)
  /\ x.open # Nil /\ x.open.s < f => x.open \in A

\* A run leaves the table it is added to a chain.
LEMMA RunChain ==
  ASSUME NEW T, NEW smp, Sampling(T, smp), NEW f \in Nat, NEW u \in Nat, f <= u,
         NEW c, Held(c), Carried(c) = c, NEW A, Chain(T, A, c.open, f)
  PROVE  LET x == Run(c, Candidates(T, smp, f, u), u)
         IN  PassHolds(T, A, x, f, u)
<1> DEFINE C == Candidates(T, smp, f, u)
           X(k) == Run(c, C, k)
           G == {i \in Nat : f + i <= u => PassHolds(T, A, X(f + i), f, f + i)}
<1>1. T \in SUBSET Nat /\ 0 \in T
  BY DEF Sampling
<1>2. 0 \in G
  <2>1. \A t \in 0..f - 1 : t \notin DOMAIN C
    BY CandidatesFrom
  <2>2. X(f) = c /\ f + 0 = f
    <3> HIDE DEF C
    <3> QED
      BY <2>1, RunIdles
  <2>3. c.segs = {}
    <3>1. c \in State
      BY DEF Held
    <3> QED
      BY <3>1, CarriedFields
  <2>4. PutAll(A, c.segs) = A
    BY <2>3, PutAllNone
  <2>5. PassHolds(T, A, c, f, f)
    BY <2>3, <2>4 DEF PassHolds, Adds, Chain
  <2> HIDE DEF X
  <2> QED
    BY <2>2, <2>5
<1>3. ASSUME NEW i \in Nat, i \in G PROVE i + 1 \in G
  <2> DEFINE k == f + i
             x == X(k)
             B == PutAll(A, x.segs)
  <2> SUFFICES ASSUME k + 1 <= u PROVE PassHolds(T, A, X(k + 1), f, k + 1)
    OBVIOUS
  <2>1. PassHolds(T, A, x, f, k) /\ k \in Nat /\ f <= k /\ k + 1 \in Nat /\ k <= k + 1
    BY <1>3
  <2>2. X(k + 1) = NextOf(C, k, x)
    BY <2>1, RunUnfolds
  <2>3. /\ k \in DOMAIN C => k \in T /\ k > 0
        /\ k \in DOMAIN C => C[k] = StepOf(T, smp, k, 0)
    BY <2>1, CandidateIs
  <2> HIDE DEF X, k, C
  <2>4. Held(x) /\ Chain(T, B, x.open, k) /\ Adds(A, x.segs, f)
        /\ (x.open # Nil /\ x.open.s < f => x.open \in A)
    BY <2>1 DEF PassHolds
  <2> HIDE DEF x
  <2>5. Chain(T, B, x.open, k + 1)
    BY <2>1, <2>4, ChainLonger
  <2>6. CASE k \notin DOMAIN C
    BY <2>2, <2>4, <2>5, <2>6 DEF NextOf, PassHolds
  <2>7. CASE k \in DOMAIN C
    <3> DEFINE s == C[k]
               m == StepOnce(x, s)
    <3>1. X(k + 1) = m
      BY <2>2, <2>7 DEF NextOf
    <3>2. s \in Step /\ s.t = k
      BY <2>3, <2>7, StepTyped
    <3> HIDE DEF s
    <3>3. Held(m) /\ (Stays(x, m) \/ \E b \in Int : Repairs(x, m, s, b))
      BY <2>4, <3>2, StepOutcome
    <3> HIDE DEF m
    <3>4. CASE Stays(x, m)
      <4>1. m.open = x.open /\ m.segs = x.segs
        BY <3>4 DEF Stays
      <4> QED
        BY <2>4, <2>5, <3>1, <3>3, <4>1 DEF PassHolds
    <3>5. ASSUME NEW b \in Int, Repairs(x, m, s, b) PROVE PassHolds(T, A, X(k + 1), f, k + 1)
      <4> DEFINE o == Offset(m)
      <4>1. /\ m.open = Opened(k, o) /\ m.segs = Switched(x.segs, x.open, k, b, o)
            /\ OpenStart(x) <= b
        BY <3>2, <3>5 DEF Repairs, SwitchedBy
      <4>2. o \in Int
        BY <3>3, OffsetTyped DEF Held
      <4> HIDE DEF o
      <4>3. PutAll(A, m.segs) = Switched(B, x.open, k, b, o)
        BY <4>1, PutAllSwitched
      <4> HIDE DEF B
      <4>4. Chain(T, Switched(B, x.open, k, b, o), Opened(k, o), k + 1)
        <5>1. x.open # Nil => x.open.a <= b
          BY <4>1 DEF OpenStart
        <5>2. k \in T /\ 0 < k
          BY <2>1, <2>3, <2>7
        <5> QED
          BY <2>1, <2>4, <4>2, <5>1, <5>2, ChainStep
      <4>5. Opened(k, o).s = k
        BY <2>1, <4>2, OpenedFields
      <4>6. Adds(A, m.segs, f)
        <5> SUFFICES ASSUME NEW g \in m.segs
                     PROVE  f <= g.s \/ (g.e \in Nat /\ \E h \in A : h.e = Nil /\ h.s = g.s /\ h.a = g.a)
          BY DEF Adds
        <5>1. g = Opened(k, o) \/ (x.open # Nil /\ g = ClosedAt(x.open, k, b)) \/ g \in x.segs
          <6> DEFINE S == Switched(x.segs, x.open, k, b, o)
          <6>1. g \in S
            BY <4>1
          <6>2. \A h \in S : h = Opened(k, o) \/ (x.open # Nil /\ h = ClosedAt(x.open, k, b)) \/ h \in x.segs
            BY SwitchedHas
          <6> HIDE DEF S
          <6> QED
            BY <6>1, <6>2
        <5>2. CASE g = Opened(k, o)
          BY <2>1, <4>5, <5>2
        <5>3. CASE x.open # Nil /\ g = ClosedAt(x.open, k, b)
          <6>1. x.open \in Segment /\ x.open.e = Nil
            BY <2>4, <5>3 DEF Chain
          <6>2. g.s = x.open.s /\ g.e = k /\ g.a = x.open.a /\ g.s \in Nat
            <7> DEFINE h == ClosedAt(x.open, k, b)
            <7>1. h.s = x.open.s /\ h.e = k /\ h.a = x.open.a
              BY <2>1, <6>1 DEF ClosedAt, Segment
            <7>2. x.open.s \in Nat
              BY <6>1, SegmentFields
            <7> HIDE DEF h
            <7>3. g = h
              BY <5>3 DEF h
            <7> QED
              BY <7>1, <7>2, <7>3
          <6>3. x.open.s < f => x.open \in A
            BY <2>4, <5>3
          <6> QED
            BY <2>1, <6>1, <6>2, <6>3
        <5>4. CASE g \in x.segs
          BY <2>4, <5>4 DEF Adds
        <5> QED
          BY <5>1, <5>2, <5>3, <5>4
      <4>7. ~(m.open.s < f)
        BY <2>1, <4>1, <4>5
      <4> QED
        BY <3>1, <3>3, <4>1, <4>3, <4>4, <4>6, <4>7 DEF PassHolds
    <3> QED
      BY <3>3, <3>4, <3>5
  <2> QED
    BY <2>6, <2>7
<1>4. PassHolds(T, A, X(u), f, u)
  <2> HIDE DEF G, X
  <2>1. Nat \subseteq G
    BY <1>2, <1>3, Inductive
  <2>2. u - f \in Nat /\ f + (u - f) = u
    OBVIOUS
  <2> QED
    BY <2>1, <2>2 DEF G
<1> QED
  BY <1>4

-------------------------------------------------------------------------------
(* What the offset is at a time. *)

Latest(B, t, g) == g \in B /\ g.s <= t /\ \A h \in B : h.s <= t => h.s <= g.s

RampAt(g, t) == g.a * Scale + (g.b - g.a) * (t - g.s) * (Scale \div (g.e - g.s))

LEMMA LatestExists ==
  ASSUME NEW B \in SUBSET Segment, NEW t \in Nat, NEW x \in B, x.s <= t
  PROVE  \E g \in B : Latest(B, t, g)
<1> DEFINE S == {g.s : g \in {h \in B : h.s <= t}}
<1>1. \A g \in B : g.s \in Nat
  BY SegmentFields
<1>2. S \in SUBSET (0..t) /\ S # {}
  <2>1. ASSUME NEW i \in S PROVE i \in 0..t
    <3>1. PICK g \in B : g.s <= t /\ i = g.s
      OBVIOUS
    <3> QED
      BY <1>1, <3>1
  <2>2. x.s \in S
    OBVIOUS
  <2> HIDE DEF S
  <2> QED
    BY <2>1, <2>2
<1>3. PICK m \in S : \A i \in S : i <= m
  BY <1>2, GreatestNumber
<1>4. PICK g \in B : g.s <= t /\ m = g.s
  OBVIOUS
<1>5. \A h \in B : h.s <= t => h.s <= g.s
  BY <1>3, <1>4
<1> QED
  BY <1>4, <1>5 DEF Latest

LEMMA OffsetThere ==
  ASSUME NEW B, NEW t \in Nat, NEW g, Latest(B, t, g), B \subseteq Segment,
         \A x, y \in B : x.s = y.s => x = y
  PROVE  OffsetAt(B, t) = IF g.e = Nil \/ t <= g.s THEN g.a * Scale
                          ELSE IF t >= g.e THEN g.b * Scale ELSE RampAt(g, t)
<1> DEFINE begun == {x \in B : x.s <= t}
           l == CHOOSE x \in begun : \A y \in begun : y.s <= x.s
<1>1. g \in begun /\ \A y \in begun : y.s <= g.s
  BY DEF Latest
<1>2. l \in begun /\ \A y \in begun : y.s <= l.s
  BY <1>1
<1>3. \A x \in B : x.s \in Nat
  BY SegmentFields
<1>6. OffsetAt(B, t) =
        CASE begun = {} -> 0
          [] begun # {} /\ (l.e = Nil \/ t <= l.s) -> l.a * Scale
          [] begun # {} /\ l.e # Nil /\ t > l.s /\ t >= l.e -> l.b * Scale
          [] OTHER -> l.a * Scale + (l.b - l.a) * (t - l.s) * (Scale \div (l.e - l.s))
  BY DEF OffsetAt
<1>7. \A x \in begun : x \in B
  OBVIOUS
<1> HIDE DEF l, begun
<1>4. l = g
  <2>1. l \in B /\ g \in B /\ l.s <= g.s /\ g.s <= l.s
    BY <1>1, <1>2, <1>7
  <2>2. l.s = g.s
    BY <1>3, <2>1
  <2> QED
    BY <2>1, <2>2
<1>5. begun # {}
  BY <1>1
<1>8. t <= g.s \/ t > g.s
  <2>1. g.s \in Nat
    BY <1>1, <1>3, <1>7
  <2> QED
    BY <2>1
<1>9. t > g.s => ~(t <= g.s)
  <2>1. g.s \in Nat
    BY <1>1, <1>3, <1>7
  <2> QED
    BY <2>1
<1>10. OffsetAt(B, t) =
        CASE g.e = Nil \/ t <= g.s -> g.a * Scale
          [] g.e # Nil /\ t > g.s /\ t >= g.e -> g.b * Scale
          [] OTHER -> RampAt(g, t)
  BY <1>4, <1>5, <1>6 DEF RampAt
<1> QED
  BY <1>8, <1>9, <1>10

LEMMA OffsetNone ==
  ASSUME NEW B, NEW t, \A g \in B : ~(g.s <= t)
  PROVE  OffsetAt(B, t) = 0
<1>1. {x \in B : x.s <= t} = {}
  OBVIOUS
<1> QED
  BY <1>1 DEF OffsetAt

\* The offset is decided by what has begun.
LEMMA OffsetOfBegun ==
  ASSUME NEW A, NEW B, NEW t, {x \in A : x.s <= t} = {x \in B : x.s <= t}
  PROVE  OffsetAt(A, t) = OffsetAt(B, t)
BY DEF OffsetAt

LEMMA ChainOffset ==
  ASSUME NEW T, NEW B, NEW open, NEW n, Chain(T, B, open, n), NEW t \in Nat, NEW g, Latest(B, t, g)
  PROVE  /\ g.s \in Nat /\ g.s <= t /\ g.a \in Int /\ g.b \in Int /\ g.a <= g.b
         /\ \/ g.e = Nil /\ OffsetAt(B, t) = g.a * Scale
            \/ /\ g.e \in Nat /\ g.s < g.e /\ t < g.e /\ g.e # Nil
               /\ OffsetAt(B, t) = IF t = g.s THEN g.a * Scale ELSE RampAt(g, t)
<1>1. g \in B /\ g.s <= t /\ B \subseteq Segment /\ (\A x, y \in B : x.s = y.s => x = y) /\ g.a <= g.b
  BY DEF Latest, Chain
<1>2. g.s \in Nat /\ g.a \in Int /\ g.b \in Int
  BY <1>1, SegmentFields
<1>3. OffsetAt(B, t) = IF g.e = Nil \/ t <= g.s THEN g.a * Scale
                       ELSE IF t >= g.e THEN g.b * Scale ELSE RampAt(g, t)
  BY <1>1, OffsetThere
<1>4. CASE g = open
  <2>1. g.e = Nil
    <3>1. open # Nil
      <4>1. open \in Segment
        BY <1>1, <1>4
      <4> QED
        BY <4>1, StitchAssumption
    <3> QED
      BY <1>4, <3>1 DEF Chain
  <2> QED
    BY <1>1, <1>2, <1>3, <2>1
<1>5. CASE EndsIn(B, g)
  <2>1. g.e \in Nat /\ g.s < g.e
    BY <1>5 DEF EndsIn
  <2>2. PICK h \in B : h.s = g.e
    BY <1>5 DEF EndsIn
  <2>3. t < g.e
    <3>1. h.s <= t => h.s <= g.s
      BY DEF Latest
    <3> QED
      BY <1>2, <2>1, <2>2, <3>1
  <2>4. g.e # Nil
    BY <2>1, StitchAssumption
  <2>5. (t <= g.s <=> t = g.s) /\ ~(t >= g.e)
    BY <1>1, <1>2, <2>1, <2>3
  <2> QED
    BY <1>1, <1>2, <1>3, <2>1, <2>3, <2>4, <2>5
<1>6. g = open \/ EndsIn(B, g)
  BY <1>1 DEF Chain
<1> QED
  BY <1>4, <1>5, <1>6

-------------------------------------------------------------------------------
(* Ramps *)

LEMMA Monotone ==
  ASSUME NEW x \in Int, NEW y \in Int, NEW z \in Nat, x <= y
  PROVE  x * z <= y * z
OBVIOUS

LEMMA PartOfScale ==
  ASSUME NEW n \in Nat, n > 0
  PROVE  (Scale \div n) \in Nat /\ n * (Scale \div n) <= Scale
<1>1. Scale \in Nat
  BY StitchAssumption
<1> QED
  BY <1>1

LEMMA RampRises ==
  ASSUME NEW g, g.s \in Nat, g.e \in Nat, g.s < g.e, g.a \in Int, g.b \in Int, g.a <= g.b,
         NEW i \in Nat, NEW j \in Nat, g.s <= i, i <= j, j <= g.e
  PROVE  /\ RampAt(g, i) \in Int /\ g.a * Scale <= RampAt(g, i)
         /\ RampAt(g, i) <= RampAt(g, j) /\ RampAt(g, j) <= g.b * Scale
<1> DEFINE q == Scale \div (g.e - g.s)
           d == g.b - g.a
           n == g.e - g.s
           v == i - g.s
           w == j - g.s
<1>1. n \in Nat /\ n > 0 /\ d \in Nat /\ v \in Nat /\ w \in Nat /\ v <= w /\ w <= n
      /\ g.a \in Int /\ g.b \in Int /\ Scale \in Nat /\ g.b = g.a + d
  BY StitchAssumption
<1>2. q \in Nat /\ n * q <= Scale
  BY <1>1, PartOfScale
<1>3. RampAt(g, i) = g.a * Scale + d * v * q /\ RampAt(g, j) = g.a * Scale + d * w * q
  BY DEF RampAt
<1> HIDE DEF q, d, n, v, w
<1>4. d * v \in Nat /\ d * w \in Nat /\ d * n \in Nat /\ d * v <= d * w /\ d * w <= d * n
  <2>1. v * d <= w * d /\ w * d <= n * d
    BY <1>1, Monotone
  <2> QED
    BY <1>1, <2>1
<1>5. d * v * q \in Nat /\ d * v * q <= d * w * q /\ d * w * q \in Nat /\ d * w * q <= d * n * q
  BY <1>2, <1>4, Monotone, ProductPositive
<1>6. d * n * q <= d * Scale
  <2>1. (n * q) * d <= Scale * d
    <3>1. n * q \in Int
      BY <1>1, <1>2
    <3> QED
      BY <1>1, <1>2, <3>1, Monotone
  <2>2. d * n * q = (n * q) * d /\ d * Scale = Scale * d
    BY <1>1, <1>2
  <2> QED
    BY <2>1, <2>2
<1>7. g.b * Scale = g.a * Scale + d * Scale
  BY <1>1
<1>8. g.a * Scale \in Int /\ d * Scale \in Int
  BY <1>1
<1>9. ASSUME NEW V \in Int, NEW U \in Int, NEW P \in Int, NEW Q \in Int, NEW R \in Int,
             0 <= P, P <= Q, Q <= R, R <= U
      PROVE  V + P \in Int /\ V <= V + P /\ V + P <= V + Q /\ V + Q <= V + U
  BY <1>9
<1>10. d * n * q \in Int
  BY <1>2, <1>4
<1>11. 0 <= d * v * q
  BY <1>5
<1> QED
  BY <1>3, <1>5, <1>6, <1>7, <1>8, <1>9, <1>10, <1>11

-------------------------------------------------------------------------------
(* How the offsets fit the samples they were made of. *)

Diff(T, smp, t) == smp[t] - smp[Previous(T, t)]

\* Where no segment starts the counter may fall by a resync only; where one
\* starts, the offset takes back what the counter gained, from the end of the
\* segment before.
Fits(B, d, t) ==
  /\ (\A g \in B : g.s # t) => d >= -DropTolKwh
  /\ \A g \in B : g.s = t => \/ \E h \in B : h.e = t /\ d + g.a = h.b
                             \/ d + g.a = 0 /\ \A h \in B : t <= h.s

FitsBefore(T, smp, B, n) == \A t \in T : 0 < t /\ t < n => Fits(B, Diff(T, smp, t), t)

LEMMA SwitchedIs ==
  ASSUME NEW T, NEW B, NEW open, NEW n \in Nat, Chain(T, B, open, n), open # Nil,
         NEW b \in Int, NEW o \in Int
  PROVE  LET S == Switched(B, open, n, b, o)
         IN  /\ open.s \in Nat /\ open.s < n
             /\ \A g : g \in S <=> \/ g = Opened(n, o) \/ g = ClosedAt(open, n, b)
                                   \/ g \in B /\ g.s # open.s
<1> DEFINE new == Opened(n, o)
           closed == ClosedAt(open, n, b)
           S == Switched(B, open, n, b, o)
<1>1. open \in B /\ B \subseteq Segment /\ open \in Segment /\ open.s < n /\ open.s \in Nat
  BY SegmentFields DEF Chain
<1>2. closed.s = open.s
  BY <1>1 DEF ClosedAt, Segment
<1>3. new.s = n
  BY OpenedFields
<1>4. S = {y \in {z \in B : z.s # open.s} \cup {closed} : y.s # n} \cup {new}
  BY <1>1, <1>2, <1>3 DEF Switched, Put
<1>5. \A g \in B : g.s # n
  <2>1. \A g \in B : g.s \in Nat /\ g.s < n
    BY <1>1, SegmentFields DEF Chain
  <2> QED
    BY <2>1
<1> HIDE DEF new, closed, S
<1>6. \A g : g \in S <=> (g = new \/ g = closed \/ (g \in B /\ g.s # open.s))
  BY <1>1, <1>2, <1>4, <1>5
<1> QED
  BY <1>1, <1>6 DEF new, closed, S

LEMMA FitsStep ==
  ASSUME NEW T, NEW B, NEW open, NEW n \in Nat, Chain(T, B, open, n),
         NEW b \in Int, NEW o \in Int
  PROVE  LET S == Switched(B, open, n, b, o)
         IN  /\ \A t \in Nat, d \in Int : t < n /\ Fits(B, d, t) => Fits(S, d, t)
             /\ \A d \in Int : d + o = b /\ (open = Nil => b = 0) => Fits(S, d, n)
<1> DEFINE new == Opened(n, o)
           closed == ClosedAt(open, n, b)
           S == Switched(B, open, n, b, o)
<1>1. new.s = n /\ new.a = o
  BY OpenedFields
<1>2. B \subseteq Segment /\ (open = Nil => B = {}) /\ (\A g, h \in B : g.s = h.s => g = h)
      /\ (open # Nil => open \in B /\ open \in Segment /\ open.e = Nil)
      /\ \A g \in B : g.s \in Nat /\ g.s < n
  BY SegmentFields DEF Chain
<1>3. CASE open = Nil
  <2>1. S = {new}
    BY <1>2, <1>3 DEF Switched, Put
  <2> HIDE DEF S, new
  <2>2. ASSUME NEW t \in Nat, NEW d \in Int, t < n, Fits(B, d, t) PROVE Fits(S, d, t)
    <3>1. d >= -DropTolKwh
      BY <1>2, <1>3, <2>2 DEF Fits
    <3>2. \A g \in S : g.s # t
      BY <1>1, <2>1, <2>2
    <3> QED
      BY <3>1, <3>2 DEF Fits
  <2>3. ASSUME NEW d \in Int, d + o = b, b = 0 PROVE Fits(S, d, n)
    <3>1. d + new.a = 0 /\ \A h \in S : h.s = n /\ h = new
      BY <1>1, <2>1, <2>3
    <3>2. \A h \in S : n <= h.s
      BY <3>1
    <3> QED
      BY <1>1, <2>1, <3>1, <3>2 DEF Fits
  <2> QED
    BY <1>3, <2>2, <2>3 DEF S, new
<1>4. CASE open # Nil
  <2>1. /\ closed.s = open.s /\ closed.e = n /\ closed.a = open.a /\ closed.b = b
        /\ open \in B /\ open.e = Nil
    <3>1. open \in Segment
      BY <1>2, <1>4
    <3>2. closed.s = open.s /\ closed.e = n /\ closed.a = open.a /\ closed.b = b
      BY <3>1 DEF ClosedAt, Segment
    <3> QED
      BY <1>2, <1>4, <3>2
  <2>2. \A g : g \in S <=> (g = new \/ g = closed \/ (g \in B /\ g.s # open.s))
    BY <1>4, SwitchedIs
  <2>6. open.s \in Nat /\ open.s < n
    BY <1>2, <2>1
  <2> HIDE DEF S, new, closed
  <2>3. ASSUME NEW t \in Nat, NEW d \in Int, t < n, Fits(B, d, t) PROVE Fits(S, d, t)
    <3>1. (\A g \in S : g.s # t) => \A g \in B : g.s # t
      BY <2>1, <2>2
    <3>2. ASSUME NEW g \in S, g.s = t
          PROVE  (\E h \in S : h.e = t /\ d + g.a = h.b) \/ (d + g.a = 0 /\ \A h \in S : t <= h.s)
      <4>1. g # new
        BY <1>1, <2>3, <3>2
      <4>2. PICK f \in B : f.s = t /\ f.a = g.a
        <5>1. CASE g = closed
          BY <2>1, <3>2, <5>1
        <5>2. CASE g \in B
          BY <3>2, <5>2
        <5> QED
          BY <2>2, <4>1, <5>1, <5>2
      <4>3. (\E h \in B : h.e = t /\ d + f.a = h.b) \/ (d + f.a = 0 /\ \A h \in B : t <= h.s)
        BY <2>3, <4>2 DEF Fits
      <4>4. ASSUME NEW h \in B, h.e = t, d + f.a = h.b PROVE \E x \in S : x.e = t /\ d + g.a = x.b
        <5>1. h.e # Nil
          BY <4>4, StitchAssumption
        <5>2. h.s # open.s
          BY <1>2, <2>1, <5>1
        <5> QED
          BY <2>2, <4>2, <4>4, <5>2
      <4>5. ASSUME \A h \in B : t <= h.s PROVE \A h \in S : t <= h.s
        <5>1. t <= closed.s /\ t <= new.s
          BY <1>1, <2>1, <2>3, <4>5
        <5> QED
          BY <2>2, <4>5, <5>1
      <4> QED
        BY <4>2, <4>3, <4>4, <4>5
    <3> QED
      BY <2>3, <3>1, <3>2 DEF Fits
  <2>4. ASSUME NEW d \in Int, d + o = b PROVE Fits(S, d, n)
    <3>1. new \in S /\ closed \in S
      BY <2>2
    <3>2. \A g \in S : g.s = n => g = new
      BY <1>2, <2>1, <2>2, <2>6
    <3>3. closed.e = n /\ d + new.a = closed.b
      BY <1>1, <2>1, <2>4
    <3>4. ~\A g \in S : g.s # n
      BY <1>1, <3>1
    <3>5. \A g \in S : g.s = n => \E h \in S : h.e = n /\ d + g.a = h.b
      BY <3>1, <3>2, <3>3
    <3> QED
      BY <3>4, <3>5 DEF Fits
  <2> QED
    BY <1>4, <2>3, <2>4 DEF S
<1> QED
  BY <1>3, <1>4

LEMMA DiffTyped ==
  ASSUME NEW T, NEW smp, Sampling(T, smp), NEW t \in T, t > 0
  PROVE  /\ Diff(T, smp, t) \in Int /\ t \in Nat /\ smp[t] \in Int
         /\ Previous(T, t) \in T /\ Previous(T, t) < t /\ smp[Previous(T, t)] \in Int /\ Previous(T, t) \in Nat
         /\ \A q \in T : q < t => q <= Previous(T, t)
<1> DEFINE p == Previous(T, t)
<1>1. T \in SUBSET Nat /\ 0 \in T /\ t \in Nat
  BY DEF Sampling
<1>2. p \in T /\ p < t /\ p \in Nat /\ \A q \in T : q < t => q <= p
  BY <1>1, LastHolds
<1> HIDE DEF p
<1>3. smp[p] \in Int /\ smp[t] \in Int
  BY <1>2 DEF Sampling
<1>4. smp[t] - smp[p] \in Int
  BY <1>3
<1> QED
  BY <1>1, <1>2, <1>3, <1>4 DEF p, Diff

\* The offsets of a whole run fit the samples: no interval before its end falls.
LEMMA WholeFits ==
  ASSUME NEW T, NEW smp, Sampling(T, smp), NEW u \in Nat
  PROVE  LET w == WholeOf(T, smp, u)
         IN  Held(w) /\ Chain(T, w.segs, w.open, u) /\ FitsBefore(T, smp, w.segs, u)
<1> DEFINE D == Candidates(T, smp, 0, u)
           W(k) == Run(Fresh, D, k)
           G == {k \in Nat : k <= u => FitsBefore(T, smp, W(k).segs, k)}
<1>1. T \in SUBSET Nat
  BY DEF Sampling
<1>2. \A k \in 0..u : WholeOf(T, smp, k) = W(k)
  <2> SUFFICES ASSUME NEW k \in 0..u PROVE WholeOf(T, smp, k) = W(k)
    OBVIOUS
  <2> DEFINE C == Candidates(T, smp, 0, k)
  <2>1. k \in Nat /\ k <= u
    OBVIOUS
  <2>2. \A t \in 0..k - 1 : (t \in DOMAIN C <=> t \in DOMAIN D) /\ (t \in DOMAIN C => C[t] = D[t])
    BY <2>1, CandidatesUpTo
  <2> HIDE DEF C, D
  <2>3. \A j \in 0..k : Run(Fresh, C, j) = Run(Fresh, D, j)
    BY <2>1, <2>2, RunOfSame
  <2>4. Run(Fresh, C, k) = Run(Fresh, D, k)
    BY <2>1, <2>3
  <2> QED
    BY <2>4 DEF WholeOf, C
<1>3. \A k \in 0..u : Held(W(k)) /\ Chain(T, W(k).segs, W(k).open, k)
  <2> SUFFICES ASSUME NEW k \in 0..u PROVE Held(W(k)) /\ Chain(T, W(k).segs, W(k).open, k)
    OBVIOUS
  <2> DEFINE w == WholeOf(T, smp, k)
  <2>1. k \in Nat /\ 0 \in Nat /\ 0 <= k /\ w = W(k)
    BY <1>2
  <2>2. Held(Fresh) /\ Carried(Fresh) = Fresh /\ Chain(T, {}, Fresh.open, 0)
    BY FreshHeld DEF Chain
  <2>3. PassHolds(T, {}, w, 0, k)
    BY <2>1, <2>2, RunChain DEF WholeOf
  <2> HIDE DEF w, W
  <2>4. PutAll({}, w.segs) = w.segs
    BY PutAllNone
  <2> QED
    BY <2>1, <2>3, <2>4 DEF PassHolds
<1>4. 0 \in G
  BY <1>1 DEF FitsBefore
<1>5. ASSUME NEW k \in Nat, k \in G PROVE k + 1 \in G
  <2> DEFINE x == W(k)
             n == W(k + 1)
  <2> SUFFICES ASSUME k + 1 <= u PROVE FitsBefore(T, smp, n.segs, k + 1)
    OBVIOUS
  <2>1. /\ FitsBefore(T, smp, x.segs, k) /\ Held(x) /\ Chain(T, x.segs, x.open, k)
        /\ n = NextOf(D, k, x) /\ 0 <= k /\ k < u
    <3>1. k \in 0..u
      OBVIOUS
    <3>2. Held(x) /\ Chain(T, x.segs, x.open, k)
      BY <1>3, <3>1
    <3>3. n = NextOf(D, k, x)
      BY RunUnfolds
    <3>4. FitsBefore(T, smp, x.segs, k)
      BY <1>5
    <3> HIDE DEF x, n, W, D
    <3> QED
      BY <3>2, <3>3, <3>4
  <2>2. /\ k \in DOMAIN D <=> k \in T /\ k > 0 /\ Worth(StepOf(T, smp, k, 0))
        /\ k \in DOMAIN D => D[k] = StepOf(T, smp, k, 0)
    BY <2>1, CandidateIs
  <2>3. k \in T /\ k > 0 => /\ StepOf(T, smp, k, 0) \in Step /\ StepOf(T, smp, k, 0).t = k
                            /\ Change(StepOf(T, smp, k, 0)) = Diff(T, smp, k) /\ Diff(T, smp, k) \in Int
    BY StepTyped, DiffTyped DEF Diff
  <2>4. \A t \in T : t \in Nat /\ (t < k + 1 <=> t < k \/ t = k)
    BY <1>1
  <2> HIDE DEF D, W, x, n
  <2>5. \A g \in x.segs : g.s # k
    <3>1. \A g \in x.segs : g.s \in Nat /\ g.s < k
      BY <2>1, SegmentFields DEF Chain
    <3> QED
      BY <3>1
  <2>6. ASSUME n.segs = x.segs, k \in T /\ k > 0 => Diff(T, smp, k) >= -DropTolKwh
        PROVE  FitsBefore(T, smp, n.segs, k + 1)
    <3>1. k \in T /\ k > 0 => Fits(x.segs, Diff(T, smp, k), k)
      BY <2>5, <2>6 DEF Fits
    <3> QED
      BY <2>1, <2>4, <2>6, <3>1 DEF FitsBefore
  <2>7. CASE k \notin DOMAIN D
    <3>1. n = x
      BY <2>1, <2>7 DEF NextOf
    <3>2. k \in T /\ k > 0 => Diff(T, smp, k) >= -DropTolKwh
      <4>1. k \in T /\ k > 0 => ~(Diff(T, smp, k) < -DropTolKwh)
        BY <2>2, <2>3, <2>7 DEF Worth, Falls
      <4>2. -DropTolKwh \in Int
        BY StitchAssumption
      <4> QED
        BY <2>3, <4>1, <4>2
    <3> QED
      BY <2>6, <3>1, <3>2
  <2>8. CASE k \in DOMAIN D
    <3> DEFINE s == StepOf(T, smp, k, 0)
               d == Diff(T, smp, k)
    <3>1. n = StepOnce(x, s) /\ s \in Step /\ s.t = k /\ Change(s) = d /\ d \in Int /\ k \in T /\ k > 0
      BY <2>1, <2>2, <2>3, <2>8 DEF NextOf
    <3> HIDE DEF s, d
    <3>2. Held(n) /\ ((Stays(x, n) /\ d >= -DropTolKwh) \/ \E b \in Int : Repairs(x, n, s, b))
      BY <2>1, <3>1, StepOutcome
    <3>3. CASE Stays(x, n) /\ d >= -DropTolKwh
      BY <2>6, <3>3 DEF Stays, d
    <3>4. ASSUME NEW b \in Int, Repairs(x, n, s, b) PROVE FitsBefore(T, smp, n.segs, k + 1)
      <4> DEFINE o == Offset(n)
                 S == Switched(x.segs, x.open, k, b, o)
      <4>1. n.segs = S /\ d + o = b /\ (x.open = Nil => b = 0)
        BY <3>1, <3>4 DEF Repairs, SwitchedBy
      <4>2. o \in Int
        BY <3>2, OffsetTyped DEF Held
      <4> HIDE DEF o
      <4>3. /\ \A t \in Nat, c \in Int : t < k /\ Fits(x.segs, c, t) => Fits(S, c, t)
            /\ \A c \in Int : c + o = b /\ (x.open = Nil => b = 0) => Fits(S, c, k)
        BY <2>1, <4>2, FitsStep
      <4> HIDE DEF S
      <4>4. Fits(S, d, k)
        BY <3>1, <4>1, <4>3
      <4>5. ASSUME NEW t \in T, 0 < t, t < k PROVE Fits(S, Diff(T, smp, t), t)
        <5>1. Fits(x.segs, Diff(T, smp, t), t)
          BY <2>1, <4>5 DEF FitsBefore
        <5>2. Diff(T, smp, t) \in Int /\ t \in Nat
          BY <2>4, <4>5, DiffTyped
        <5> QED
          BY <4>3, <4>5, <5>1, <5>2
      <4> QED
        BY <2>4, <4>1, <4>4, <4>5 DEF FitsBefore, d
    <3> QED
      BY <3>2, <3>3, <3>4
  <2> QED
    BY <2>7, <2>8
<1> HIDE DEF G, W
<1>6. u \in G /\ u \in 0..u
  BY <1>4, <1>5, Inductive
<1>7. FitsBefore(T, smp, W(u).segs, u) /\ Held(W(u)) /\ Chain(T, W(u).segs, W(u).open, u) /\ WholeOf(T, smp, u) = W(u)
  BY <1>2, <1>3, <1>6 DEF G
<1> QED
  BY <1>7

\* A time with nothing starting at it or after the sample before it stands on
\* the same segment as that sample.
LEMMA LatestBefore ==
  ASSUME NEW T, NEW B, NEW open, NEW n, Chain(T, B, open, n), NEW t \in Nat, NEW p \in Nat, p < t,
         \A q \in T : q < t => q <= p, NEW g, Latest(B, t, g), g.s # t
  PROVE  Latest(B, p, g) /\ g.s <= p
<1>1. g \in B /\ g.s <= t /\ g.s \in Nat /\ g.s \in T /\ \A h \in B : h.s <= t => h.s <= g.s
  BY SegmentFields DEF Latest, Chain
<1>2. g.s < t
  BY <1>1
<1>3. g.s <= p
  BY <1>1, <1>2
<1>4. \A h \in B : h.s \in Nat /\ (h.s <= p => h.s <= t)
  BY SegmentFields DEF Chain
<1> QED
  BY <1>1, <1>3, <1>4 DEF Latest

\* On one segment the offset does not fall.
LEMMA OffsetRises ==
  ASSUME NEW T, NEW B, NEW open, NEW n, Chain(T, B, open, n), NEW t \in Nat, NEW p \in Nat, p <= t,
         NEW g, Latest(B, t, g), Latest(B, p, g)
  PROVE  /\ OffsetAt(B, t) \in Int /\ OffsetAt(B, p) \in Int /\ OffsetAt(B, p) <= OffsetAt(B, t)
         /\ g.e = Nil \/ g.a = g.b => OffsetAt(B, p) = g.a * Scale /\ OffsetAt(B, t) = g.a * Scale
         /\ g.e = Nil \/ t < g.e
<1>1. /\ g.s \in Nat /\ g.s <= t /\ g.a \in Int /\ g.b \in Int /\ g.a <= g.b
      /\ \/ g.e = Nil /\ OffsetAt(B, t) = g.a * Scale
         \/ /\ g.e \in Nat /\ g.s < g.e /\ t < g.e /\ g.e # Nil
            /\ OffsetAt(B, t) = IF t = g.s THEN g.a * Scale ELSE RampAt(g, t)
  BY ChainOffset
<1>2. /\ g.s <= p
      /\ \/ g.e = Nil /\ OffsetAt(B, p) = g.a * Scale
         \/ /\ g.e \in Nat /\ g.s < g.e /\ p < g.e /\ g.e # Nil
            /\ OffsetAt(B, p) = IF p = g.s THEN g.a * Scale ELSE RampAt(g, p)
  BY ChainOffset
<1>3. Scale \in Nat /\ g.a * Scale \in Int
  BY <1>1, StitchAssumption
<1>4. CASE g.e = Nil
  BY <1>1, <1>2, <1>3, <1>4
<1>5. CASE g.e # Nil
  <2>1. g.e \in Nat /\ g.s < g.e /\ t < g.e
    BY <1>1, <1>5
  <2>2. /\ RampAt(g, p) \in Int /\ g.a * Scale <= RampAt(g, p)
        /\ RampAt(g, p) <= RampAt(g, t) /\ RampAt(g, t) <= g.b * Scale
    BY <1>1, <1>2, <2>1, RampRises
  <2>3. RampAt(g, t) \in Int
    BY <1>1, <2>1, RampRises
  <2>4. OffsetAt(B, t) = IF t = g.s THEN g.a * Scale ELSE RampAt(g, t)
    BY <1>1, <1>5
  <2>5. OffsetAt(B, p) = IF p = g.s THEN g.a * Scale ELSE RampAt(g, p)
    BY <1>2, <1>5
  <2>6. t = g.s => p = g.s
    BY <1>1, <1>2
  <2>7. g.a = g.b => RampAt(g, p) = g.a * Scale /\ RampAt(g, t) = g.a * Scale
    BY <1>3, <2>2, <2>3
  <2> HIDE DEF RampAt
  <2>8. g.a * Scale <= RampAt(g, t)
    BY <1>3, <2>2, <2>3
  <2> DEFINE x == g.a * Scale
             y == RampAt(g, p)
             z == RampAt(g, t)
             v == OffsetAt(B, p)
             w == OffsetAt(B, t)
  <2>9. /\ x \in Int /\ y \in Int /\ z \in Int /\ x <= y /\ y <= z /\ x <= z
        /\ w = (IF t = g.s THEN x ELSE z) /\ v = (IF p = g.s THEN x ELSE y)
        /\ (g.a = g.b => y = x /\ z = x)
    BY <1>3, <2>2, <2>3, <2>4, <2>5, <2>7, <2>8
  <2> HIDE DEF x, y, z, v, w
  <2>10. w \in Int /\ v \in Int /\ v <= w /\ (g.a = g.b => v = x /\ w = x)
    BY <2>6, <2>9
  <2> QED
    BY <1>5, <2>1, <2>10 DEF v, w, x
<1> QED
  BY <1>4, <1>5

\* So the counter never falls by more than a resync.
LEMMA StitchedRises ==
  ASSUME NEW T, NEW smp, Sampling(T, smp), NEW B, NEW open, NEW n \in Nat, Chain(T, B, open, n),
         FitsBefore(T, smp, B, n), NEW t \in T, 0 < t, t < n
  PROVE  LET p == Previous(T, t)
         IN  (smp[t] * Scale + OffsetAt(B, t)) - (smp[p] * Scale + OffsetAt(B, p)) >= -DropTolKwh * Scale
<1> DEFINE p == Previous(T, t)
           d == Diff(T, smp, t)
           Out == (smp[t] * Scale + OffsetAt(B, t)) - (smp[p] * Scale + OffsetAt(B, p)) >= -DropTolKwh * Scale
<1> SUFFICES Out
  OBVIOUS
<1>1. /\ d \in Int /\ d = smp[t] - smp[p] /\ t \in Nat /\ p \in T /\ p < t /\ p \in Nat
      /\ smp[t] \in Int /\ smp[p] \in Int /\ \A q \in T : q < t => q <= p
  BY DiffTyped DEF Diff
<1>2. Scale \in Nat /\ DropTolKwh \in Nat
  BY StitchAssumption
<1>3. Fits(B, d, t)
  BY DEF FitsBefore
<1>4. /\ B \subseteq Segment /\ (\A g \in B : g.s \in Nat /\ g.s \in T)
      /\ \A g, h \in B : g.s = h.s => g = h
  BY SegmentFields DEF Chain
<1> HIDE DEF p, d
\* The scaled counter moves by d and the offset by y - x.
<1>5. ASSUME NEW x \in Int, NEW y \in Int, OffsetAt(B, p) = x, OffsetAt(B, t) = y,
             d * Scale + y - x >= -DropTolKwh * Scale
      PROVE  Out
  <2>1. smp[t] * Scale - smp[p] * Scale = d * Scale /\ smp[t] * Scale \in Int /\ smp[p] * Scale \in Int
        /\ d * Scale \in Int
    BY <1>1, <1>2
  <2>2. (smp[t] * Scale + y) - (smp[p] * Scale + x) = d * Scale + y - x
    BY <2>1
  <2> QED
    BY <1>5, <2>2
<1> HIDE DEF Out
<1>6. -DropTolKwh * Scale <= 0 /\ -DropTolKwh * Scale \in Int
  <2>1. DropTolKwh * Scale \in Nat
    BY <1>2, ProductPositive
  <2>2. -DropTolKwh * Scale = -(DropTolKwh * Scale)
    BY <1>2
  <2> QED
    BY <2>1, <2>2
<1>7. CASE \E g \in B : g.s = t
  <2>1. PICK g \in B : g.s = t
    BY <1>7
  <2>2. Latest(B, t, g)
    BY <1>1, <1>4, <2>1 DEF Latest
  <2>3. OffsetAt(B, t) = g.a * Scale /\ g.a \in Int /\ g.a * Scale \in Int
    BY <1>1, <1>2, <2>1, <2>2, ChainOffset
  <2>4. (\E h \in B : h.e = t /\ d + g.a = h.b) \/ (d + g.a = 0 /\ \A h \in B : t <= h.s)
    BY <1>3, <2>1 DEF Fits
  <2>5. ASSUME NEW h \in B, h.e = t, d + g.a = h.b PROVE Out
    <3>1. h # open
      <4>1. open = h => h.e = Nil
        <5>1. h # Nil
          BY <1>4, StitchAssumption
        <5> QED
          BY <5>1 DEF Chain
      <4> QED
        BY <1>1, <2>5, <4>1, StitchAssumption
    <3>2. EndsIn(B, h)
      BY <3>1 DEF Chain
    <3>3. h.s < t /\ \A x \in B : x.s <= h.s \/ t <= x.s
      BY <2>5, <3>2 DEF EndsIn
    <3>4. h.s <= p
      BY <1>1, <1>4, <3>3
    <3>5. Latest(B, p, h)
      <4>1. \A x \in B : x.s <= p => ~(t <= x.s)
        BY <1>1, <1>4
      <4> QED
        BY <3>3, <3>4, <4>1 DEF Latest
    <3>6. /\ h.s \in Nat /\ h.a \in Int /\ h.b \in Int /\ h.a <= h.b
          /\ \/ h.e = Nil /\ OffsetAt(B, p) = h.a * Scale
             \/ /\ h.e \in Nat /\ h.s < h.e /\ p < h.e /\ h.e # Nil
                /\ OffsetAt(B, p) = IF p = h.s THEN h.a * Scale ELSE RampAt(h, p)
      BY <1>1, <3>5, ChainOffset
    <3>7. h.e \in Nat /\ h.e # Nil /\ h.s < h.e /\ p <= h.e
      BY <1>1, <2>5, <3>3, StitchAssumption
    <3>8. /\ RampAt(h, p) \in Int /\ h.a * Scale <= RampAt(h, p)
          /\ RampAt(h, p) <= h.b * Scale
      BY <1>1, <3>4, <3>6, <3>7, RampRises
    <3> HIDE DEF RampAt
    <3> DEFINE x == OffsetAt(B, p)
               y == g.a * Scale
    <3>9. x \in Int /\ x <= h.b * Scale
      <4>1. h.a * Scale \in Int /\ h.b * Scale \in Int
        BY <1>2, <3>6
      <4>2. h.a * Scale <= h.b * Scale
        BY <3>8, <4>1
      <4> QED
        BY <3>6, <3>7, <3>8, <4>1, <4>2
    <3>10. d * Scale + y = h.b * Scale /\ d * Scale \in Int /\ h.b * Scale \in Int
      BY <1>1, <1>2, <2>3, <2>5, <3>6
    <3> HIDE DEF x, y
    <3>11. d * Scale + y - x >= -DropTolKwh * Scale /\ y \in Int
      BY <1>6, <2>3, <3>9, <3>10 DEF y
    <3>12. OffsetAt(B, p) = x /\ OffsetAt(B, t) = y
      BY <2>3 DEF x, y
    <3> QED
      BY <1>5, <3>9, <3>11, <3>12
  <2>6. ASSUME d + g.a = 0, \A h \in B : t <= h.s PROVE Out
    <3>1. OffsetAt(B, p) = 0
      <4>1. \A h \in B : ~(h.s <= p)
        BY <1>1, <1>4, <2>6
      <4> QED
        BY <4>1, OffsetNone
    <3>2. d * Scale + g.a * Scale - 0 >= -DropTolKwh * Scale
      <4>1. d * Scale + g.a * Scale = 0
        <5>1. (d + g.a) * Scale = d * Scale + g.a * Scale
          BY <1>1, <1>2, <2>3
        <5> QED
          BY <1>2, <2>6, <5>1
      <4> DEFINE y == d * Scale
                 z == g.a * Scale
      <4>2. y \in Int /\ z \in Int /\ y + z = 0
        BY <1>1, <1>2, <2>3, <4>1
      <4> HIDE DEF y, z
      <4>3. y + z - 0 = 0
        BY <4>2
      <4>4. y + z - 0 >= -DropTolKwh * Scale
        BY <1>6, <4>3
      <4> QED
        BY <4>4 DEF y, z
    <3> QED
      BY <1>5, <2>3, <3>1, <3>2
  <2> QED
    BY <2>4, <2>5, <2>6
<1>8. CASE \A g \in B : g.s # t
  <2>1. d >= -DropTolKwh
    BY <1>3, <1>8 DEF Fits
  <2>2. d * Scale >= -DropTolKwh * Scale /\ d * Scale \in Int
    <3>1. -DropTolKwh \in Int /\ -DropTolKwh <= d
      BY <1>1, <1>2, <2>1
    <3>2. (-DropTolKwh) * Scale <= d * Scale
      BY <1>1, <1>2, <3>1, Monotone
    <3> QED
      BY <1>1, <1>2, <3>2
  <2>3. CASE \A g \in B : ~(g.s <= t)
    <3>1. OffsetAt(B, t) = 0 /\ OffsetAt(B, p) = 0
      <4>1. \A g \in B : ~(g.s <= p)
        BY <1>1, <1>4, <2>3
      <4> QED
        BY <2>3, <4>1, OffsetNone
    <3>2. d * Scale + 0 - 0 >= -DropTolKwh * Scale
      BY <2>2
    <3> QED
      BY <1>5, <3>1, <3>2
  <2>4. CASE \E g \in B : g.s <= t
    <3>1. PICK g \in B : Latest(B, t, g)
      BY <1>1, <1>4, <2>4, LatestExists
    <3>2. Latest(B, p, g)
      BY <1>1, <1>8, <3>1, LatestBefore
    <3> DEFINE x == OffsetAt(B, p)
               y == OffsetAt(B, t)
    <3>3. x \in Int /\ y \in Int /\ x <= y
      BY <1>1, <3>1, <3>2, OffsetRises
    <3> HIDE DEF x, y
    <3>4. d * Scale + y - x >= -DropTolKwh * Scale
      BY <1>6, <2>2, <3>3
    <3>5. OffsetAt(B, p) = x /\ OffsetAt(B, t) = y
      BY DEF x, y
    <3> QED
      BY <1>5, <3>3, <3>4, <3>5
  <2> QED
    BY <2>3, <2>4
<1> QED
  BY <1>7, <1>8

SpanOf(g, f) ==
  CASE g.s < f /\ g.e # Nil /\ g.a = g.b -> Span(g.e, g.e)
    [] g.e # Nil /\ g.a # g.b -> Span(g.s, g.e)
    [] OTHER -> Span(g.s, g.s)

Covers(sp, t) == sp.from <= t /\ t <= sp.to

LEMMA SpanCovers ==
  ASSUME NEW g \in Segment, NEW f \in Nat, NEW t \in Nat, g.s <= t, g.e \in Nat => g.s <= g.e
  PROVE  /\ g.s = t /\ f <= g.s => Covers(SpanOf(g, f), t)
         /\ g.e \in Nat /\ g.a # g.b /\ t <= g.e => Covers(SpanOf(g, f), t)
<1>1. g.s \in Nat /\ g.e \in Nat \cup {Nil} /\ Nil \notin Int
  BY SegmentFields, StitchAssumption
<1>2. ASSUME g.e \in Nat, g.a # g.b, t <= g.e PROVE Covers(SpanOf(g, f), t)
  <2>1. SpanOf(g, f) = [from |-> g.s, to |-> g.e]
    BY <1>1, <1>2 DEF SpanOf, Span
  <2> QED
    BY <1>2, <2>1 DEF Covers
<1>3. ASSUME g.s = t, f <= g.s PROVE Covers(SpanOf(g, f), t)
  <2>1. CASE g.e # Nil /\ g.a # g.b
    BY <1>1, <1>2, <1>3, <2>1
  <2>2. CASE ~(g.e # Nil /\ g.a # g.b)
    <3>1. ~(g.s < f)
      BY <1>1, <1>3
    <3>2. SpanOf(g, f) = [from |-> g.s, to |-> g.s]
      BY <2>2, <3>1 DEF SpanOf, Span
    <3> QED
      BY <1>1, <1>3, <3>2 DEF Covers
  <2> QED
    BY <2>1, <2>2
<1> QED
  BY <1>2, <1>3

\* Where the new segments change what an interval gains, one of their spans is.
LEMMA ChangesSpanned ==
  ASSUME NEW T, NEW smp, Sampling(T, smp), NEW f \in Nat, NEW u \in Nat,
         NEW A, NEW oa, Chain(T, A, oa, f), NEW N, NEW ob, Chain(T, PutAll(A, N), ob, u),
         Adds(A, N, f), NEW t \in T, 0 < t,
         LET p == Previous(T, t)
             B == PutAll(A, N)
         IN  ~(OffsetAt(A, t) = OffsetAt(B, t) /\ OffsetAt(A, p) = OffsetAt(B, p))
             /\ ~(OffsetAt(A, t) = OffsetAt(A, p) /\ OffsetAt(B, t) = OffsetAt(B, p))
  PROVE  \E g \in N : Covers(SpanOf(g, f), t)
<1> DEFINE p == Previous(T, t)
           B == PutAll(A, N)
<1>1. /\ t \in Nat /\ p \in T /\ p < t /\ p \in Nat /\ \A q \in T : q < t => q <= p
  BY DiffTyped
<1>2. /\ A \subseteq Segment /\ (\A g \in A : g.s \in Nat /\ g.s < f)
      /\ (\A g, h \in A : g.s = h.s => g = h)
      /\ (oa = Nil => A = {})
      /\ (oa # Nil => oa \in A /\ oa.e = Nil /\ \A g \in A : g.s <= oa.s)
  BY SegmentFields DEF Chain
<1>3. /\ B \subseteq Segment /\ (\A g \in B : g.s \in Nat /\ g.s \in T)
      /\ \A g, h \in B : g.s = h.s => g = h
  BY SegmentFields DEF Chain
<1>4. \A g : g \in B <=> (g \in N \/ (g \in A /\ \A x \in N : x.s # g.s))
  BY DEF PutAll
<1>5. \A g \in N : f <= g.s \/ (g.e \in Nat /\ \E h \in A : h.e = Nil /\ h.s = g.s /\ h.a = g.a)
  BY DEF Adds
<1>6. ~(OffsetAt(A, t) = OffsetAt(B, t) /\ OffsetAt(A, p) = OffsetAt(B, p))
      /\ ~(OffsetAt(A, t) = OffsetAt(A, p) /\ OffsetAt(B, t) = OffsetAt(B, p))
  OBVIOUS
<1>7. Chain(T, B, ob, u)
  OBVIOUS
<1> HIDE DEF p, B
\* The only segment of A that is open is oa.
<1>8. \A h \in A : h.e = Nil => h = oa /\ oa # Nil
  <2> SUFFICES ASSUME NEW h \in A, h.e = Nil PROVE h = oa /\ oa # Nil
    OBVIOUS
  <2>1. ~EndsIn(A, h)
    BY StitchAssumption DEF EndsIn
  <2>2. h = oa
    BY <2>1 DEF Chain
  <2> QED
    BY <1>2, <2>2
<1>9. \A g \in N : f <= g.s \/ (oa # Nil /\ g.s = oa.s /\ g.a = oa.a /\ g.e \in Nat)
  BY <1>5, <1>8
\* Before all that is new the tables agree.
<1>10. ASSUME NEW i \in Nat, \A g \in N : ~(g.s <= i) PROVE OffsetAt(A, i) = OffsetAt(B, i)
  <2>1. \A g : g \in A /\ g.s <= i <=> g \in B /\ g.s <= i
    BY <1>4, <1>10
  <2>2. {x \in A : x.s <= i} = {x \in B : x.s <= i}
    BY <2>1
  <2> QED
    BY <2>2, OffsetOfBegun
<1>11. PICK x \in N : x.s <= t
  <2> SUFFICES ASSUME \A g \in N : ~(g.s <= t) PROVE FALSE
    OBVIOUS
  <2>1. \A g \in N : g.s \in Nat
    BY <1>3, <1>4
  <2>2. \A g \in N : ~(g.s <= p)
    BY <1>1, <2>1
  <2> QED
    BY <1>1, <1>6, <1>10, <2>2
<1>12. PICK g \in B : Latest(B, t, g)
  <2>1. x \in B
    BY <1>4
  <2> QED
    BY <1>1, <1>3, <1>11, <2>1, LatestExists
<1>13. /\ g.s \in Nat /\ g \in Segment /\ g.s <= t /\ \A h \in B : h.s <= t => h.s <= g.s
  BY <1>3, <1>12 DEF Latest
\* It is one of the new ones: the others start before them.
<1>14. g \in N
  <2> SUFFICES ASSUME g \notin N PROVE FALSE
    OBVIOUS
  <2>1. g \in A /\ \A y \in N : y.s # g.s
    BY <1>4, <1>12
  <2>2. x \in B /\ x.s <= g.s /\ x.s # g.s /\ x.s \in Nat
    BY <1>3, <1>4, <1>11, <1>13, <2>1
  <2>3. g.s < f /\ x.s < g.s
    BY <1>2, <1>13, <2>1, <2>2
  <2>4. oa # Nil /\ x.s = oa.s
    BY <1>2, <1>9, <2>1, <2>2, <2>3
  <2>5. g.s <= oa.s
    BY <1>2, <2>1, <2>4
  <2> QED
    BY <1>13, <2>2, <2>3, <2>4, <2>5
<1>15. /\ g.e = Nil \/ (g.e \in Nat /\ g.s < g.e /\ t < g.e)
       /\ g.a \in Int
       /\ g.s = t => OffsetAt(B, t) = g.a * Scale
  <2>1. /\ g.s \in Nat /\ g.s <= t /\ g.a \in Int /\ g.b \in Int /\ g.a <= g.b
        /\ \/ g.e = Nil /\ OffsetAt(B, t) = g.a * Scale
           \/ /\ g.e \in Nat /\ g.s < g.e /\ t < g.e /\ g.e # Nil
              /\ OffsetAt(B, t) = IF t = g.s THEN g.a * Scale ELSE RampAt(g, t)
    BY <1>1, <1>7, <1>12, ChainOffset
  <2> QED
    BY <2>1
<1>16. g.e \in Nat => g.s <= g.e /\ t <= g.e
  BY <1>1, <1>13, <1>15, StitchAssumption
<1>17. CASE g.s = t
  <2>1. CASE f <= g.s
    <3>1. Covers(SpanOf(g, f), t)
      BY <1>1, <1>13, <1>16, <1>17, <2>1, SpanCovers
    <3> QED
      BY <1>14, <3>1
  <2>2. CASE ~(f <= g.s)
    <3>1. oa # Nil /\ oa.s = t /\ oa.a = g.a /\ oa \in A
      BY <1>2, <1>9, <1>14, <1>17, <2>2
    <3>2. OffsetAt(A, t) = g.a * Scale
      <4>1. Latest(A, t, oa)
        BY <1>1, <1>2, <3>1 DEF Latest
      <4>2. oa.e = Nil /\ OffsetAt(A, t) = oa.a * Scale
        <5>1. oa.e = Nil
          BY <1>2, <3>1
        <5>2. \/ oa.e = Nil /\ OffsetAt(A, t) = oa.a * Scale
              \/ oa.e # Nil
          BY <1>1, <4>1, ChainOffset
        <5> QED
          BY <5>1, <5>2
      <4> QED
        BY <3>1, <4>2
    <3>3. OffsetAt(A, p) = OffsetAt(B, p)
      <4>1. \A y \in N : ~(y.s <= p)
        <5> SUFFICES ASSUME NEW y \in N, y.s <= p PROVE FALSE
          OBVIOUS
        <5>1. y.s \in Nat /\ y.s < t /\ t < f
          BY <1>1, <1>3, <1>4, <1>17, <2>2
        <5>2. y.s = oa.s
          BY <1>1, <1>9, <5>1
        <5> QED
          BY <3>1, <5>1, <5>2
      <4> QED
        BY <1>1, <1>10, <4>1
    <3> QED
      BY <1>6, <1>15, <1>17, <3>2, <3>3
  <2> QED
    BY <2>1, <2>2
<1>18. CASE g.s # t
  <2>1. Latest(B, p, g) /\ g.s <= p
    BY <1>1, <1>7, <1>12, <1>18, LatestBefore
  <2>2. CASE g.e \in Nat /\ g.a # g.b
    <3>1. Covers(SpanOf(g, f), t)
      BY <1>1, <1>13, <1>16, <2>2, SpanCovers
    <3> QED
      BY <1>14, <3>1
  <2>3. CASE g.e = Nil \/ g.a = g.b
    <3>1. OffsetAt(B, p) = g.a * Scale /\ OffsetAt(B, t) = g.a * Scale
      BY <1>1, <1>7, <1>12, <2>1, <2>3, OffsetRises
    <3>2. OffsetAt(A, t) = OffsetAt(A, p)
      <4>1. CASE oa = Nil
        <5>1. OffsetAt(A, t) = 0 /\ OffsetAt(A, p) = 0
          BY <1>2, <4>1, OffsetNone
        <5> QED
          BY <5>1
      <4>2. CASE oa # Nil
        <5>1. oa \in A /\ oa.e = Nil /\ oa.s \in Nat /\ oa.s < f /\ \A y \in A : y.s <= oa.s
          BY <1>2, <4>2
        <5>2. oa.s <= p
          BY <1>1, <1>9, <1>13, <1>14, <2>1, <5>1
        <5>3. oa.s <= t
          BY <1>1, <5>1, <5>2
        <5>4. Latest(A, t, oa) /\ Latest(A, p, oa)
          BY <5>1, <5>2, <5>3 DEF Latest
        <5>5. p <= t
          BY <1>1
        <5>6. OffsetAt(A, p) = oa.a * Scale /\ OffsetAt(A, t) = oa.a * Scale
          BY <1>1, <5>1, <5>4, <5>5, OffsetRises
        <5> QED
          BY <5>6
      <4> QED
        BY <4>1, <4>2
    <3> QED
      BY <1>6, <3>1, <3>2
  <2>4. g.e = Nil \/ g.e \in Nat
    BY <1>15
  <2> QED
    BY <2>2, <2>3, <2>4
<1> QED
  BY <1>17, <1>18

-------------------------------------------------------------------------------
(* The invariant of the passes. *)

Passes == [at : {"stitching", "saving", "clearing"}, from : Nat, until : Nat, replace : BOOLEAN,
           served : Request \cup {Nil}, st : State]

SamplesTyped ==
  /\ clock \in Nat /\ clock <= MaxTicks
  /\ samples \in [0..MaxTicks -> Int \cup {Nil}] /\ samples[0] \in Int

StitchTyped ==
  /\ saved \in SavedState \cup {Nil} /\ rebuild \in Request \cup {Nil} /\ asked \in Nat
  /\ import \in Nat \cup {Nil} /\ spent \in [imports : Nat, failures : Nat, lost : BOOLEAN]
  /\ pass = NoPass \/ pass \in Passes
  /\ rebuild # Nil => rebuild.at <= asked
  /\ saved # Nil => saved.until <= clock + 1
  /\ pass # NoPass => pass.until <= clock + 1 /\ pass.from < pass.until
                      /\ (pass.served # Nil => pass.served.at <= asked)

\* What is carried over is a stitcher's state, and the offsets end in its
\* open segment.
SavedChain ==
  /\ saved = Nil => offsets = {}
  /\ saved # Nil => Held(saved.st) /\ Carried(saved.st) = saved.st
                    /\ Chain(Times, offsets, saved.st.open, saved.until)

\* The table a pass adds to: a rebuild starts a new one.
Base == IF pass.replace THEN {} ELSE offsets

PassStarts ==
  pass # NoPass /\ pass.at # "clearing" =>
    /\ pass.replace => pass.from = 0 /\ (pass.served = Nil => saved = Nil)
    /\ ~pass.replace => saved # Nil /\ pass.served = Nil /\ pass.from = saved.until
    /\ pass.at = "stitching" => pass.st = IF pass.replace THEN Fresh ELSE saved.st
    /\ pass.at = "saving" => PassHolds(Times, Base, pass.st, pass.from, pass.until)

\* No import has changed the past since the pass in progress read it.
Unchanged == import = Nil /\ ~spent.lost
ServedAll == pass # NoPass /\ pass.served # Nil /\ rebuild # Nil /\ rebuild.at <= pass.served.at

SavedRight ==
  saved # Nil /\ Unchanged /\ (rebuild = Nil \/ (pass.at = "clearing" /\ ServedAll)) =>
    LET w == WholeOf(Times, samples, saved.until)
    IN offsets = w.segs /\ saved.st = Carried(w)

PassRight ==
  pass.at = "saving" /\ Unchanged /\ (rebuild = Nil \/ ServedAll) =>
    LET w == WholeOf(Times, samples, pass.until)
    IN Carried(pass.st) = Carried(w) /\ PutAll(Base, pass.st.segs) = w.segs

StitchInv == SamplesTyped /\ StitchTyped /\ SavedChain /\ PassStarts /\ SavedRight /\ PassRight

-------------------------------------------------------------------------------

\* The history as the lemmas about runs take it.
LEMMA SamplesAre ==
  ASSUME SamplesTyped
  PROVE  /\ Sampling(Times, samples)
         /\ \A t : t \in Times <=> t \in 0..clock /\ samples[t] # Nil
<1>1. 0 \in Times
  BY StitchAssumption DEF Times, SamplesTyped
<1>2. \A t \in Times : samples[t] \in Int
  BY StitchAssumption DEF Times, SamplesTyped
<1>3. Times \in SUBSET Nat
  BY DEF Times
<1> QED
  BY <1>1, <1>2, <1>3 DEF Sampling, Times

LEMMA SamplesArePrimed ==
  ASSUME SamplesTyped'
  PROVE  /\ Sampling(Times', samples')
         /\ \A t : t \in Times' <=> t \in 0..clock' /\ samples'[t] # Nil
<1>1. 0 \in Times'
  BY StitchAssumption DEF Times, SamplesTyped
<1>2. \A t \in Times' : samples'[t] \in Int
  BY StitchAssumption DEF Times, SamplesTyped
<1>3. Times' \in SUBSET Nat
  BY DEF Times
<1> QED
  BY <1>1, <1>2, <1>3 DEF Sampling, Times

LEMMA BeforeIs ==
  ASSUME NEW t
  PROVE  Before(t) = Previous(Times, t)
BY DEF Before, Previous

LEMMA PassFields ==
  ASSUME NEW p \in Passes
  PROVE  /\ p.at \in {"stitching", "saving", "clearing"} /\ p.from \in Nat /\ p.until \in Nat
         /\ p.replace \in BOOLEAN /\ p.served \in Request \cup {Nil} /\ p.st \in State
BY DEF Passes

LEMMA NoPassIdle == NoPass.at = "idle" /\ NoPass \notin Passes
<1>1. NoPass.at = "idle"
  BY DEF NoPass
<1>2. \A p \in Passes : p.at # "idle"
  BY PassFields
<1> QED
  BY <1>1, <1>2

LEMMA PassIs ==
  ASSUME StitchTyped
  PROVE  /\ pass.at = "idle" <=> pass = NoPass
         /\ pass # NoPass => pass \in Passes
BY NoPassIdle, PassFields DEF StitchTyped

LEMMA SavedFields ==
  ASSUME NEW s \in SavedState
  PROVE  s.until \in Nat /\ s.st \in State
BY DEF SavedState

LEMMA CandidatesAre ==
  ASSUME NEW f, NEW u
  PROVE  CounterStepCandidates(f, u) = Candidates(Times, samples, f, u)
<1>1. \A t : Settled(t, f) = SettledOf(Times, samples, t, f)
  BY DEF Settled, SettledOf, SeenBy, ChangedIn, Before, Previous
<1>2. \A t : StepAt(t, f) = StepOf(Times, samples, t, f)
  BY <1>1, BeforeIs DEF StepAt, StepOf
<1> QED
  BY <1>2 DEF CounterStepCandidates, Candidates, Worth, Falls, Fast, Change

LEMMA StitchStarts == StitchInit => StitchInv
<1> SUFFICES ASSUME StitchInit PROVE StitchInv
  OBVIOUS
<1> USE DEF StitchInit
<1>1. SamplesTyped
  BY StitchAssumption DEF SamplesTyped
<1>2. StitchTyped
  BY DEF StitchTyped
<1>3. SavedChain /\ PassStarts /\ SavedRight /\ PassRight
  BY NoPassIdle DEF SavedChain, PassStarts, SavedRight, PassRight
<1> QED
  BY <1>1, <1>2, <1>3 DEF StitchInv

\* A table keeps its shape when times are added.
LEMMA ChainGrows ==
  ASSUME NEW T, NEW R, T \subseteq R, NEW segs, NEW open, NEW n, Chain(T, segs, open, n)
  PROVE  Chain(R, segs, open, n)
BY DEF Chain

LEMMA PassHoldsGrows ==
  ASSUME NEW T, NEW R, T \subseteq R, NEW A, NEW x, NEW f, NEW k, PassHolds(T, A, x, f, k)
  PROVE  PassHolds(R, A, x, f, k)
BY ChainGrows DEF PassHolds

LEMMA CollectKeeps ==
  ASSUME StitchInv, Collect
  PROVE  StitchInv'
<1> USE DEF StitchInv
<1>1. /\ clock < MaxTicks /\ clock' = clock + 1 /\ clock \in Nat /\ MaxTicks \in Nat
      /\ UNCHANGED <<offsets, episodes, saved, rebuild, asked, pass, import, spent>>
  BY StitchAssumption DEF Collect, SamplesTyped
<1>2. PICK d \in Deltas \union {Nil} :
        samples' = [samples EXCEPT ![clock + 1] = IF d = Nil THEN Nil ELSE samples[Before(clock + 1)] + d]
  BY DEF Collect
<1> DEFINE v == IF d = Nil THEN Nil ELSE samples[Before(clock + 1)] + d
           T == Times
           R == Times'
<1>3. v \in Int \cup {Nil}
  <2> DEFINE p == Previous(Times, clock + 1)
  <2>1. p \in Times
    <3>1. clock + 1 \in Nat /\ clock + 1 > 0 /\ Times \in SUBSET Nat /\ 0 \in Times
      BY <1>1, SamplesAre DEF Sampling
    <3> QED
      BY <3>1, LastHolds
  <2>2. Before(clock + 1) = p
    BY BeforeIs
  <2> HIDE DEF p
  <2>3. samples[p] \in Int
    BY <2>1, SamplesAre DEF Sampling
  <2>4. d # Nil => d \in Int
    BY StitchAssumption
  <2> QED
    BY <2>2, <2>3, <2>4
<1> HIDE DEF v
<1>4. samples' = [samples EXCEPT ![clock + 1] = v]
  BY <1>2 DEF v
<1>5. SamplesTyped'
  BY <1>1, <1>3, <1>4 DEF SamplesTyped
<1>6. \A t \in 0..clock : samples'[t] = samples[t]
  BY <1>1, <1>4 DEF SamplesTyped
<1>7. Sampling(T, samples) /\ Sampling(R, samples')
  BY <1>5, SamplesAre, SamplesArePrimed
<1>8. T \subseteq R /\ \A n \in Nat : n <= clock + 1 => SameBefore(T, samples, R, samples', n)
  <2>1. \A t : t \in T <=> t \in 0..clock /\ samples[t] # Nil
    BY SamplesAre
  <2>2. \A t : t \in R <=> t \in 0..clock' /\ samples'[t] # Nil
    BY <1>5, SamplesArePrimed
  <2> HIDE DEF T, R
  <2>3. \A t \in 0..clock : t \in 0..clock' /\ (t \in T <=> t \in R)
    BY <1>1, <1>6, <2>1, <2>2
  <2>4. T \subseteq R
    BY <2>1, <2>3
  <2>5. ASSUME NEW n \in Nat, n <= clock + 1 PROVE SameBefore(T, samples, R, samples', n)
    <3>1. \A t \in Nat : t < n => t \in 0..clock
      BY <1>1, <2>5
    <3> QED
      BY <1>6, <2>3, <3>1 DEF SameBefore
  <2> QED
    BY <2>4, <2>5
<1>9. \A u \in Nat : u <= clock + 1 => WholeOf(T, samples, u) = WholeOf(R, samples', u)
  BY <1>7, <1>8, WholeSame
<1> HIDE DEF T, R
<1>10. StitchTyped'
  <2>1. \A u \in Nat : u <= clock + 1 => u <= clock' + 1
    BY <1>1
  <2>2. saved' # Nil => saved' \in SavedState /\ saved'.until \in Nat /\ saved'.until <= clock + 1
    BY <1>1, SavedFields DEF StitchTyped
  <2>3. pass' # NoPass => pass'.until \in Nat /\ pass'.until <= clock + 1
    BY <1>1, PassIs, PassFields DEF StitchTyped
  <2> QED
    BY <1>1, <2>1, <2>2, <2>3 DEF StitchTyped
<1>11. SavedChain'
  <2>1. saved # Nil => Chain(R, offsets, saved.st.open, saved.until)
    BY <1>8, ChainGrows DEF SavedChain, T
  <2> QED
    BY <1>1, <2>1 DEF SavedChain, R
<1>12. PassStarts'
  <2>1. pass # NoPass /\ pass.at = "saving" => PassHolds(R, Base, pass.st, pass.from, pass.until)
    BY <1>8, PassHoldsGrows DEF PassStarts, T
  <2>2. Base' = Base
    BY <1>1 DEF Base
  <2> QED
    BY <1>1, <2>1, <2>2 DEF PassStarts, R
<1>13. SavedRight'
  <2>1. saved # Nil => WholeOf(T, samples, saved.until) = WholeOf(R, samples', saved.until)
    BY <1>9, SavedFields DEF StitchTyped
  <2>2. Unchanged' = Unchanged /\ ServedAll' = ServedAll
    BY <1>1 DEF Unchanged, ServedAll
  <2> QED
    BY <1>1, <2>1, <2>2 DEF SavedRight, T, R
<1>14. PassRight'
  <2>1. pass.at = "saving" => WholeOf(T, samples, pass.until) = WholeOf(R, samples', pass.until)
    BY <1>9, PassIs, PassFields, NoPassIdle DEF StitchTyped
  <2>2. Unchanged' = Unchanged /\ ServedAll' = ServedAll /\ Base' = Base
    BY <1>1 DEF Unchanged, ServedAll, Base
  <2> QED
    BY <1>1, <2>1, <2>2 DEF PassRight, T, R
<1> QED
  BY <1>5, <1>10, <1>11, <1>12, <1>13, <1>14

\* The samples stay.
LEMMA SamplesStay ==
  ASSUME UNCHANGED <<clock, samples>>
  PROVE  Times' = Times /\ (SamplesTyped => SamplesTyped')
BY DEF Times, SamplesTyped

LEMMA SyncBeginsKeeps ==
  ASSUME StitchInv, SyncBegins
  PROVE  StitchInv'
<1> USE DEF StitchInv
<1> DEFINE replace == rebuild # Nil \/ saved = Nil
           from == IF replace THEN 0 ELSE saved.until
           until == clock + 1 - SettleDelay
           st == IF replace THEN Fresh ELSE saved.st
           p == [at |-> "stitching", from |-> from, until |-> until, replace |-> replace,
                 served |-> rebuild, st |-> st]
<1>1. /\ from < until /\ pass' = p /\ pass.at = "idle"
      /\ UNCHANGED <<clock, samples, offsets, episodes, saved, rebuild, asked, import, spent>>
  BY DEF SyncBegins
<1>2. from \in Nat /\ st \in State
  BY SavedFields, FreshHeld DEF StitchTyped, Held
<1>3. until \in Nat /\ until <= clock + 1
  <2>1. clock \in Nat /\ SettleDelay \in Nat
    BY StitchAssumption DEF SamplesTyped
  <2> HIDE DEF from
  <2> QED
    BY <1>1, <1>2, <2>1
<1>4. replace \in BOOLEAN /\ rebuild \in Request \cup {Nil}
  BY DEF StitchTyped
<1>5. (replace => from = 0 /\ st = Fresh /\ (rebuild = Nil => saved = Nil))
      /\ (~replace => from = saved.until /\ st = saved.st /\ saved # Nil /\ rebuild = Nil)
  OBVIOUS
<1> HIDE DEF replace, from, until, st
<1>6. p \in Passes /\ p.at = "stitching" /\ p.from = from /\ p.until = until /\ p.replace = replace
      /\ p.served = rebuild /\ p.st = st
  BY <1>2, <1>3, <1>4 DEF Passes
<1> HIDE DEF p
<1>7. p # NoPass
  BY <1>6, NoPassIdle
<1>8. Times' = Times /\ SamplesTyped'
  BY <1>1, SamplesStay
<1>9. StitchTyped'
  BY <1>1, <1>3, <1>6, <1>7 DEF StitchTyped
<1>10. SavedChain'
  BY <1>1, <1>8 DEF SavedChain
<1>11. PassStarts'
  BY <1>1, <1>5, <1>6 DEF PassStarts
<1>12. SavedRight'
  <2>1. pass'.at # "clearing"
    BY <1>1, <1>6
  <2> QED
    BY <1>1, <1>8, <2>1 DEF SavedRight, Unchanged
<1>13. PassRight'
  BY <1>1, <1>6 DEF PassRight
<1> QED
  BY <1>8, <1>9, <1>10, <1>11, <1>12, <1>13

LEMMA StitchKeeps ==
  ASSUME StitchInv, Stitch
  PROVE  StitchInv'
<1> USE DEF StitchInv
<1> DEFINE x == Run(pass.st, CounterStepCandidates(pass.from, pass.until), pass.until)
           w == WholeOf(Times, samples, pass.until)
<1>1. /\ pass.at = "stitching" /\ pass' = [pass EXCEPT !.at = "saving", !.st = x]
      /\ UNCHANGED <<clock, samples, offsets, episodes, saved, rebuild, asked, import, spent>>
  BY DEF Stitch
<1>2. /\ pass # NoPass /\ pass \in Passes /\ pass.from \in Nat /\ pass.until \in Nat /\ pass.from <= pass.until
      /\ pass.replace \in BOOLEAN
  <2>1. pass # NoPass /\ pass \in Passes
    BY <1>1, NoPassIdle DEF StitchTyped
  <2>2. pass.from \in Nat /\ pass.until \in Nat /\ pass.replace \in BOOLEAN
    BY <2>1, PassFields
  <2>3. pass.from < pass.until
    BY <2>1 DEF StitchTyped
  <2> QED
    BY <2>1, <2>2, <2>3
<1>3. Sampling(Times, samples)
  BY SamplesAre
<1>4. x = Run(pass.st, Candidates(Times, samples, pass.from, pass.until), pass.until)
  BY CandidatesAre
<1> HIDE DEF x
<1>5. /\ pass.replace => pass.from = 0 /\ (pass.served = Nil => saved = Nil) /\ pass.st = Fresh
      /\ ~pass.replace => saved # Nil /\ pass.served = Nil /\ pass.from = saved.until /\ pass.st = saved.st
  BY <1>1, <1>2 DEF PassStarts
<1>6. Held(pass.st) /\ Carried(pass.st) = pass.st /\ Chain(Times, Base, pass.st.open, pass.from)
  <2>1. CASE pass.replace
    <3>1. Base = {}
      BY <2>1 DEF Base
    <3>2. Chain(Times, {}, Nil, 0)
      BY DEF Chain
    <3> QED
      BY <1>5, <2>1, <3>1, <3>2, FreshHeld
  <2>2. CASE ~pass.replace
    <3>1. Base = offsets
      BY <2>2 DEF Base
    <3> QED
      BY <1>5, <2>2, <3>1 DEF SavedChain
  <2> QED
    BY <2>1, <2>2
<1>7. PassHolds(Times, Base, x, pass.from, pass.until)
  BY <1>2, <1>3, <1>4, <1>6, RunChain
<1>8. x \in State
  BY <1>7 DEF PassHolds, Held
\* What stands of the samples is what a run over all of them gives.
<1>9. ASSUME Unchanged, rebuild = Nil \/ ServedAll
      PROVE  Carried(x) = Carried(w) /\ PutAll(Base, x.segs) = w.segs
  <2>1. CASE pass.replace
    <3>1. x = w
      BY <1>4, <1>5, <2>1 DEF WholeOf
    <3>2. Base = {}
      BY <2>1 DEF Base
    <3> HIDE DEF w
    <3> QED
      BY <3>1, <3>2, PutAllNone
  <2>2. CASE ~pass.replace
    <3> DEFINE v == WholeOf(Times, samples, saved.until)
               y == Run(Carried(v), Candidates(Times, samples, saved.until, pass.until), pass.until)
    <3>1. rebuild = Nil /\ saved # Nil /\ pass.from = saved.until /\ pass.st = saved.st
      BY <1>5, <1>9, <2>2 DEF ServedAll
    <3>2. offsets = v.segs /\ saved.st = Carried(v)
      BY <1>9, <3>1 DEF SavedRight
    <3>3. x = y
      BY <1>4, <3>1, <3>2
    <3>4. saved.until \in Nat /\ saved.until <= pass.until
      BY <1>2, <3>1
    <3>5. Carried(y) = Carried(w) /\ PutAll(v.segs, y.segs) = w.segs
      BY <1>2, <1>3, <3>4, PassGoesOn
    <3>6. Base = offsets
      BY <2>2 DEF Base
    <3> HIDE DEF v, y, w
    <3> QED
      BY <3>2, <3>3, <3>5, <3>6
  <2> QED
    BY <1>2, <2>1, <2>2
<1> HIDE DEF w
<1>10. /\ pass' \in Passes /\ pass'.at = "saving" /\ pass'.from = pass.from /\ pass'.until = pass.until
       /\ pass'.replace = pass.replace /\ pass'.served = pass.served /\ pass'.st = x
  BY <1>1, <1>2, <1>8 DEF Passes
<1>11. pass' # NoPass
  BY <1>10, NoPassIdle
<1>12. Times' = Times /\ SamplesTyped'
  BY <1>1, SamplesStay
<1>13. Base' = Base /\ Unchanged' = Unchanged /\ ServedAll' = ServedAll
  BY <1>1, <1>2, <1>10, <1>11 DEF Base, Unchanged, ServedAll
<1>14. StitchTyped'
  BY <1>1, <1>2, <1>10, <1>11 DEF StitchTyped
<1>15. SavedChain'
  BY <1>1, <1>12 DEF SavedChain
<1>16. PassStarts'
  BY <1>1, <1>5, <1>7, <1>10, <1>12, <1>13 DEF PassStarts
<1>17. SavedRight'
  BY <1>1, <1>10, <1>12, <1>13 DEF SavedRight
<1>18. PassRight'
  BY <1>1, <1>9, <1>10, <1>12, <1>13 DEF PassRight, w
<1> QED
  BY <1>12, <1>14, <1>15, <1>16, <1>17, <1>18

LEMMA SaveKeeps ==
  ASSUME StitchInv, SaveCounterStitch
  PROVE  StitchInv'
<1> USE DEF StitchInv
<1> DEFINE new == [until |-> pass.until, st |-> Carried(pass.st)]
<1>1. /\ pass.at = "saving" /\ pass' = [pass EXCEPT !.at = "clearing"]
      /\ offsets' = PutAll(Base, pass.st.segs) /\ saved' = new
      /\ UNCHANGED <<clock, samples, rebuild, asked, import, spent>>
  BY DEF SaveCounterStitch, Base
<1>2. /\ pass # NoPass /\ pass \in Passes /\ pass.until \in Nat /\ pass.st \in State
      /\ pass.until <= clock + 1
  <2>1. pass # NoPass /\ pass \in Passes
    BY <1>1, NoPassIdle DEF StitchTyped
  <2>2. pass.until \in Nat /\ pass.st \in State
    BY <2>1, PassFields
  <2> QED
    BY <2>1, <2>2 DEF StitchTyped
<1>3. /\ Held(pass.st) /\ Chain(Times, PutAll(Base, pass.st.segs), pass.st.open, pass.until)
  BY <1>1, <1>2 DEF PassStarts, PassHolds
<1> DEFINE c == Carried(pass.st)
<1>4. /\ Held(c) /\ Carried(c) = c /\ c.open = pass.st.open /\ c \in State
  <2>1. Carried(c) = c
    BY DEF Carried
  <2>2. c \in State /\ c.open = pass.st.open
    BY <1>2, CarriedFields DEF SameCore
  <2> QED
    BY <1>3, <2>1, <2>2, CarriedHeld
<1> HIDE DEF c
<1>5. new = [until |-> pass.until, st |-> c]
  BY DEF c
<1> HIDE DEF new
<1>6. new \in SavedState /\ new # Nil /\ new.until = pass.until /\ new.st = c
  <2>1. new \in SavedState /\ new.until = pass.until /\ new.st = c
    BY <1>2, <1>4, <1>5 DEF SavedState
  <2> QED
    BY <2>1, StitchAssumption
<1>7. /\ pass' \in Passes /\ pass'.at = "clearing" /\ pass'.from = pass.from /\ pass'.until = pass.until
      /\ pass'.replace = pass.replace /\ pass'.served = pass.served /\ pass'.st = pass.st
  BY <1>1, <1>2 DEF Passes
<1>8. pass' # NoPass
  BY <1>7, NoPassIdle
<1>9. Times' = Times /\ SamplesTyped'
  BY <1>1, SamplesStay
<1>10. Unchanged' = Unchanged /\ ServedAll' = ServedAll
  BY <1>1, <1>2, <1>7, <1>8 DEF Unchanged, ServedAll
<1>11. StitchTyped'
  <2>1. saved' \in SavedState \cup {Nil} /\ saved'.until <= clock' + 1
    BY <1>1, <1>2, <1>6
  <2> QED
    BY <1>1, <1>2, <1>7, <1>8, <2>1 DEF StitchTyped
<1>12. SavedChain'
  BY <1>1, <1>3, <1>4, <1>6, <1>9 DEF SavedChain
<1>13. PassStarts'
  BY <1>7 DEF PassStarts
<1>14. SavedRight'
  <2> DEFINE w == WholeOf(Times, samples, pass.until)
  <2>1. Unchanged /\ (rebuild = Nil \/ ServedAll) => c = Carried(w) /\ PutAll(Base, pass.st.segs) = w.segs
    BY <1>1 DEF PassRight, c
  <2>2. WholeOf(Times', samples', saved'.until) = w
    BY <1>1, <1>6, <1>9
  <2> HIDE DEF w
  <2>3. offsets' = PutAll(Base, pass.st.segs) /\ saved'.st = c /\ rebuild' = rebuild
    BY <1>1, <1>6
  <2> QED
    BY <1>10, <2>1, <2>2, <2>3 DEF SavedRight
<1>15. PassRight'
  BY <1>7 DEF PassRight
<1> QED
  BY <1>9, <1>11, <1>12, <1>13, <1>14, <1>15

\* The pass ends, and the tables stay.
LEMMA PassEndsKeeps ==
  ASSUME StitchInv, pass' = NoPass, rebuild' \in {rebuild, Nil},
         Unchanged' => Unchanged, spent' \in [imports : Nat, failures : Nat, lost : BOOLEAN],
         rebuild' = Nil => rebuild = Nil \/ (pass.at = "clearing" /\ ServedAll),
         UNCHANGED <<clock, samples, offsets, saved, asked, import>>
  PROVE  StitchInv'
<1> USE DEF StitchInv
<1>1. Times' = Times /\ SamplesTyped'
  BY SamplesStay
<1>2. StitchTyped'
  BY DEF StitchTyped
<1>3. SavedChain'
  BY <1>1 DEF SavedChain
<1>4. PassStarts'
  BY DEF PassStarts
<1>5. SavedRight'
  <2>1. pass'.at # "clearing"
    BY NoPassIdle
  <2> QED
    BY <1>1, <2>1 DEF SavedRight
<1>6. PassRight'
  BY NoPassIdle DEF PassRight
<1> QED
  BY <1>1, <1>2, <1>3, <1>4, <1>5, <1>6

LEMMA ClearKeeps ==
  ASSUME StitchInv, ClearCounterRebuild
  PROVE  StitchInv'
<1> USE DEF StitchInv
<1>1. /\ pass.at = "clearing" /\ rebuild' = AfterClear(pass.served) /\ pass' = NoPass
      /\ UNCHANGED <<clock, samples, offsets, episodes, saved, asked, import, spent>>
  BY DEF ClearCounterRebuild
<1>2. rebuild' \in {rebuild, Nil} /\ (rebuild' = Nil => rebuild = Nil \/ (pass.at = "clearing" /\ ServedAll))
  BY <1>1, NoPassIdle DEF AfterClear, ServedAll
<1>3. spent' \in [imports : Nat, failures : Nat, lost : BOOLEAN] /\ (Unchanged' => Unchanged)
  BY <1>1 DEF StitchTyped, Unchanged
<1> QED
  BY <1>1, <1>2, <1>3, PassEndsKeeps

LEMMA FailsKeeps ==
  ASSUME StitchInv, SyncFails
  PROVE  StitchInv'
<1> USE DEF StitchInv
<1>1. /\ pass' = NoPass /\ spent' = [spent EXCEPT !.failures = @ + 1]
      /\ UNCHANGED <<clock, samples, offsets, episodes, saved, rebuild, asked, import>>
  BY DEF SyncFails
<1>2. spent' \in [imports : Nat, failures : Nat, lost : BOOLEAN] /\ spent'.lost = spent.lost
  BY <1>1 DEF StitchTyped
<1>3. Unchanged' => Unchanged
  BY <1>1, <1>2 DEF Unchanged
<1> QED
  BY <1>1, <1>2, <1>3, PassEndsKeeps

LEMMA RequestKeeps ==
  ASSUME StitchInv, RequestCounterRebuild
  PROVE  StitchInv'
<1> USE DEF StitchInv
<1> DEFINE r == [from |-> IF rebuild # Nil /\ rebuild.from < import THEN rebuild.from ELSE import,
                 at |-> asked + 1]
<1>1. /\ import # Nil /\ asked' = asked + 1 /\ rebuild' = r /\ import' = Nil
      /\ UNCHANGED <<clock, samples, offsets, episodes, saved, pass, spent>>
  BY DEF RequestCounterRebuild
<1>2. r \in Request /\ r # Nil /\ r.at = asked + 1 /\ asked \in Nat
  <2> DEFINE f == IF rebuild # Nil /\ rebuild.from < import THEN rebuild.from ELSE import
  <2>1. f \in Nat /\ asked \in Nat
    BY <1>1 DEF StitchTyped, Request
  <2> HIDE DEF f
  <2>2. r = [from |-> f, at |-> asked + 1]
    BY DEF f
  <2> HIDE DEF r
  <2>3. r \in Request /\ r.at = asked + 1
    BY <2>1, <2>2 DEF Request
  <2> QED
    BY <2>1, <2>3, StitchAssumption
<1> HIDE DEF r
<1>3. Times' = Times /\ SamplesTyped'
  BY <1>1, SamplesStay
<1>4. pass # NoPass /\ pass.served # Nil => pass.served.at \in Nat /\ pass.served.at <= asked
  <2>1. pass # NoPass /\ pass.served # Nil => pass.served \in Request
    BY PassIs, PassFields
  <2> QED
    BY <2>1 DEF StitchTyped, Request
<1>5. StitchTyped'
  <2>1. rebuild' \in Request \cup {Nil} /\ rebuild'.at <= asked' /\ asked' \in Nat /\ import' \in Nat \cup {Nil}
    BY <1>1, <1>2
  <2>2. pass' # NoPass => pass'.until <= clock' + 1 /\ pass'.from < pass'.until
                          /\ (pass'.served # Nil => pass'.served.at <= asked')
    <3>1. pass # NoPass /\ pass.served # Nil => pass.served.at <= asked + 1
      BY <1>2, <1>4
    <3> QED
      BY <1>1, <3>1 DEF StitchTyped
  <2> QED
    BY <1>1, <2>1, <2>2 DEF StitchTyped
\* The new request is younger than the one the pass serves.
<1>6. rebuild' # Nil /\ ~ServedAll'
  <2>1. pass # NoPass /\ pass.served # Nil => ~(rebuild'.at <= pass.served.at)
    BY <1>1, <1>2, <1>4
  <2> QED
    BY <1>1, <1>2, <2>1 DEF ServedAll
<1>7. SavedChain'
  BY <1>1, <1>3 DEF SavedChain
<1>8. PassStarts'
  BY <1>1, <1>3 DEF PassStarts, Base
<1>9. SavedRight' /\ PassRight'
  BY <1>6 DEF SavedRight, PassRight
<1> QED
  BY <1>3, <1>5, <1>7, <1>8, <1>9

LEMMA ImportFailsKeeps ==
  ASSUME StitchInv, ImportFails
  PROVE  StitchInv'
<1> USE DEF StitchInv
<1>1. /\ import' = Nil /\ spent' = [spent EXCEPT !.failures = @ + 1, !.lost = TRUE]
      /\ UNCHANGED <<clock, samples, offsets, episodes, saved, rebuild, asked, pass>>
  BY DEF ImportFails
<1>2. spent' \in [imports : Nat, failures : Nat, lost : BOOLEAN] /\ spent'.lost = TRUE
  <2>1. spent = [imports |-> spent.imports, failures |-> spent.failures, lost |-> spent.lost]
        /\ spent.imports \in Nat /\ spent.failures \in Nat
    BY DEF StitchTyped
  <2>2. spent' = [imports |-> spent.imports, failures |-> spent.failures + 1, lost |-> TRUE]
    BY <1>1, <2>1
  <2> QED
    BY <2>1, <2>2
<1>3. Times' = Times /\ SamplesTyped'
  BY <1>1, SamplesStay
<1>4. StitchTyped'
  BY <1>1, <1>2 DEF StitchTyped
<1>5. SavedChain'
  BY <1>1, <1>3 DEF SavedChain
<1>6. PassStarts'
  BY <1>1, <1>3 DEF PassStarts, Base
<1>7. SavedRight' /\ PassRight'
  BY <1>2 DEF SavedRight, PassRight, Unchanged
<1> QED
  BY <1>3, <1>4, <1>5, <1>6, <1>7

LEMMA ImportKeeps ==
  ASSUME StitchInv, NEW t \in 1..MaxTicks, ImportRows(t)
  PROVE  StitchInv'
<1> USE DEF StitchInv
<1>1. /\ samples[t] = Nil /\ import' = t /\ spent' = [spent EXCEPT !.imports = @ + 1]
      /\ UNCHANGED <<clock, offsets, episodes, saved, rebuild, asked, pass>>
      /\ \E d \in Deltas : samples' = [samples EXCEPT ![t] = samples[Before(t)] + d]
  BY DEF ImportRows, Missed
<1>2. PICK d \in Deltas : samples' = [samples EXCEPT ![t] = samples[Before(t)] + d]
  BY <1>1
<1> DEFINE v == samples[Before(t)] + d
<1>3. v \in Int /\ t \in Nat /\ t > 0
  <2> DEFINE p == Previous(Times, t)
  <2>1. p \in Times
    <3>1. t \in Nat /\ t > 0 /\ Times \in SUBSET Nat /\ 0 \in Times
      BY StitchAssumption, SamplesAre DEF Sampling
    <3> QED
      BY <3>1, LastHolds
  <2>2. Before(t) = p
    BY BeforeIs
  <2> HIDE DEF p
  <2>3. samples[p] \in Int
    BY <2>1, SamplesAre DEF Sampling
  <2>4. d \in Int
    BY StitchAssumption
  <2> QED
    BY <2>2, <2>3, <2>4, StitchAssumption
<1>4. samples' = [samples EXCEPT ![t] = v]
  BY <1>2
<1> HIDE DEF v
<1>5. SamplesTyped'
  BY <1>1, <1>3, <1>4 DEF SamplesTyped
<1>6. Times \subseteq Times'
  <2>1. \A q : q \in Times <=> q \in 0..clock /\ samples[q] # Nil
    BY SamplesAre
  <2>2. \A q : q \in Times' <=> q \in 0..clock' /\ samples'[q] # Nil
    BY <1>5, SamplesArePrimed
  <2>3. \A q \in Times : samples'[q] = samples[q]
    BY <1>1, <1>4, <2>1 DEF SamplesTyped
  <2> QED
    BY <1>1, <2>1, <2>2, <2>3
<1>7. spent' \in [imports : Nat, failures : Nat, lost : BOOLEAN] /\ import' \in Nat \cup {Nil} /\ import' # Nil
  BY <1>1, <1>3, StitchAssumption DEF StitchTyped
<1>8. StitchTyped'
  BY <1>1, <1>7 DEF StitchTyped
<1> DEFINE R == Times'
<1>12. R = Times'
  OBVIOUS
<1> HIDE DEF R
<1>9. SavedChain'
  <2>1. saved # Nil => Chain(R, offsets, saved.st.open, saved.until)
    BY <1>6, <1>12, ChainGrows DEF SavedChain
  <2> QED
    BY <1>1, <1>12, <2>1 DEF SavedChain
<1>10. PassStarts'
  <2>1. pass # NoPass /\ pass.at = "saving" => PassHolds(R, Base, pass.st, pass.from, pass.until)
    BY <1>6, <1>12, PassHoldsGrows DEF PassStarts
  <2>2. Base' = Base
    BY <1>1 DEF Base
  <2> QED
    BY <1>1, <1>12, <2>1, <2>2 DEF PassStarts
<1>11. SavedRight' /\ PassRight'
  BY <1>7 DEF SavedRight, PassRight, Unchanged
<1> QED
  BY <1>5, <1>8, <1>9, <1>10, <1>11

LEMMA NothingKeeps ==
  ASSUME StitchInv, UNCHANGED stitchVars
  PROVE  StitchInv'
BY DEF StitchInv, stitchVars, SamplesTyped, StitchTyped, SavedChain, PassStarts, SavedRight, PassRight,
       Times, Base, Unchanged, ServedAll

\* However samples, passes, their failures, imports and their requests
\* interleave, the table of offsets stays a chain, and whenever the past stands
\* as a pass read it, what is stored, and what the pass is about to store, is
\* what one stitch of the whole history gives (runner.go Sync,
\* storage/counters.go SaveCounterStitch, ClearCounterRebuild).
THEOREM StitchInvariant == StitchSpec => []StitchInv
<1>1. StitchInv /\ [StitchNext]_stitchVars => StitchInv'
  BY CollectKeeps, SyncBeginsKeeps, StitchKeeps, SaveKeeps, ClearKeeps, FailsKeeps, ImportKeeps,
     RequestKeeps, ImportFailsKeeps, NothingKeeps DEF StitchNext
<1> QED
  BY <1>1, StitchStarts, PTL DEF StitchSpec

\* Every offset of a table is a number.
LEMMA ChainOffsetTyped ==
  ASSUME NEW T, NEW B, NEW open, NEW n, Chain(T, B, open, n), NEW t \in Nat
  PROVE  OffsetAt(B, t) \in Int
<1>1. CASE \A g \in B : ~(g.s <= t)
  BY <1>1, OffsetNone
<1>2. CASE ~(\A g \in B : ~(g.s <= t))
  <2>1. PICK x \in B : x.s <= t
    BY <1>2
  <2>2. B \in SUBSET Segment
    BY DEF Chain
  <2>3. PICK g \in B : Latest(B, t, g)
    BY <2>1, <2>2, LatestExists
  <2>4. /\ g.s \in Nat /\ g.s <= t /\ g.a \in Int /\ g.b \in Int /\ g.a <= g.b
        /\ \/ g.e = Nil /\ OffsetAt(B, t) = g.a * Scale
           \/ /\ g.e \in Nat /\ g.s < g.e /\ t < g.e /\ g.e # Nil
              /\ OffsetAt(B, t) = IF t = g.s THEN g.a * Scale ELSE RampAt(g, t)
    BY <2>3, ChainOffset
  <2>5. Scale \in Nat
    BY StitchAssumption
  <2>6. ASSUME g.e \in Nat, t < g.e, g.s < g.e PROVE RampAt(g, t) \in Int
    BY <2>4, <2>6, t <= t, t <= g.e, RampRises
  <2> QED
    BY <2>4, <2>5, <2>6
<1> QED
  BY <1>1, <1>2

\* In an up-to-date state the table is the one of a single pass, and the
\* counter it corrects never falls by more than a resync.
LEMMA InvRepairs ==
  ASSUME StitchInv
  PROVE  OffsetsRepair
<1> USE DEF StitchInv
<1> DEFINE w == WholeOf(Times, samples, saved.until)
<1> SUFFICES ASSUME UpToDate PROVE OffsetsRepair
  BY DEF OffsetsRepair, OffsetsAreOfOnePass, StitchedNeverFalls
<1>1. saved # Nil /\ rebuild = Nil /\ Unchanged
  BY DEF UpToDate, Unchanged
<1>2. saved.until \in Nat
  BY <1>1, SavedFields DEF StitchTyped
<1>3. Sampling(Times, samples)
  BY SamplesAre
<1>4. offsets = w.segs /\ saved.st = Carried(w)
  BY <1>1 DEF SavedRight
<1>5. OffsetsAreOfOnePass
  BY <1>4, CandidatesAre DEF OffsetsAreOfOnePass, WholeOf
<1>6. Chain(Times, w.segs, w.open, saved.until) /\ FitsBefore(Times, samples, w.segs, saved.until)
  BY <1>2, <1>3, WholeFits
<1> HIDE DEF w
<1>7. ASSUME NEW t \in Times, t > 0, t < saved.until
      PROVE  Stitched(offsets, t) - Stitched(offsets, Before(t)) >= -DropTolKwh * Scale
  <2>1. t \in Nat /\ 0 < t
    BY <1>3, <1>7 DEF Sampling
  <2> DEFINE p == Previous(Times, t)
  <2>2. (samples[t] * Scale + OffsetAt(offsets, t)) - (samples[p] * Scale + OffsetAt(offsets, p))
          >= -DropTolKwh * Scale
    BY <1>2, <1>3, <1>4, <1>6, <1>7, <2>1, StitchedRises
  <2>3. Before(t) = p
    BY BeforeIs
  <2> HIDE DEF p
  <2> QED
    BY <2>2, <2>3 DEF Stitched
<1>8. StitchedNeverFalls
  BY <1>7 DEF StitchedNeverFalls
<1> QED
  BY <1>5, <1>8 DEF OffsetsRepair

\* In every up-to-date state the stored offsets are those of one pass over the
\* history, and the counter they correct never falls by more than a register's
\* resync: for every history, tolerance and cut into passes (stitch.go Run,
\* runner.go Sync).
THEOREM StitchRepairs == StitchSpec => []OffsetsRepair
BY StitchInvariant, InvRepairs, PTL

\* Only a save ends in "clearing".
LEMMA OnlySaveSaves ==
  ASSUME StitchInv, [StitchNext]_stitchVars, SavesAs(FALSE)
  PROVE  SaveCounterStitch
<1> USE DEF StitchInv
<1>1. pass.at = "saving" /\ pass'.at = "clearing"
  BY DEF SavesAs
<1>2. pass' # pass
  BY <1>1
<1>3. pass' # NoPass
  BY <1>1, NoPassIdle
<1>4. ~Collect /\ ~RequestCounterRebuild /\ ~ImportFails /\ ~UNCHANGED stitchVars
      /\ \A t \in 1..MaxTicks : ~ImportRows(t)
  BY <1>2 DEF Collect, RequestCounterRebuild, ImportFails, ImportRows, stitchVars
<1>5. ~SyncBegins /\ ~Stitch
  BY <1>1 DEF SyncBegins, Stitch
<1>6. ~ClearCounterRebuild /\ ~SyncFails
  BY <1>3 DEF ClearCounterRebuild, SyncFails
<1> QED
  BY <1>4, <1>5, <1>6 DEF StitchNext

\* What an ordinary pass adds to.
LEMMA OrdinaryBase ==
  ASSUME StitchInv, pass.at = "saving", pass.served = Nil
  PROVE  Base = offsets /\ \E oa : Chain(Times, offsets, oa, pass.from)
<1> USE DEF StitchInv
<1>1. pass # NoPass /\ pass.at # "clearing"
  BY NoPassIdle
<1>2. CASE pass.replace
  <2>1. saved = Nil /\ pass.from = 0
    BY <1>1, <1>2 DEF PassStarts
  <2>2. offsets = {}
    BY <2>1 DEF SavedChain
  <2>3. Chain(Times, {}, Nil, 0)
    BY DEF Chain
  <2> QED
    BY <1>2, <2>1, <2>2, <2>3 DEF Base
<1>3. CASE ~pass.replace
  <2>1. saved # Nil /\ pass.from = saved.until
    BY <1>1, <1>3 DEF PassStarts
  <2> QED
    BY <1>3, <2>1 DEF Base, SavedChain
<1> QED
  BY <1>2, <1>3

\* Of two numbers that gain the same, the sums do.
LEMMA SameGain ==
  ASSUME NEW x \in Int, NEW y \in Int, NEW a \in Int, NEW b \in Int
  PROVE  (x + a) - (y + a) = (x + b) - (y + b)
OBVIOUS

\* What a save changes is in the spans of the segments it adds.
LEMMA SaveCovers ==
  ASSUME StitchInv, SaveCounterStitch, SavesAs(FALSE), NEW t \in Times, t < pass.until, Moved(t)
  PROVE  \E g \in changeSpans(pass.st, pass.from, pass.until) : g.from <= t /\ t <= g.to
<1> USE DEF StitchInv
<1> DEFINE p == Previous(Times, t)
           N == pass.st.segs
           B == PutAll(offsets, N)
<1>1. pass.at = "saving" /\ pass.served = Nil
  BY DEF SavesAs
<1>2. Base = offsets /\ \E oa : Chain(Times, offsets, oa, pass.from)
  BY <1>1, OrdinaryBase
<1>3. PICK oa : Chain(Times, offsets, oa, pass.from)
  BY <1>2
<1>4. offsets' = B
  BY <1>1, <1>2 DEF SaveCounterStitch, Base
<1>5. pass # NoPass /\ pass \in Passes /\ pass.from \in Nat /\ pass.until \in Nat
  BY <1>1, NoPassIdle, PassIs, PassFields
<1>6. /\ Chain(Times, B, pass.st.open, pass.until) /\ Adds(offsets, N, pass.from)
  BY <1>1, <1>2, <1>5 DEF PassStarts, PassHolds
<1>7. Sampling(Times, samples)
  BY SamplesAre
<1>8. t > 0 /\ t \in Nat /\ p \in Nat /\ samples[t] \in Int /\ samples[p] \in Int /\ Before(t) = p
  <2>1. t > 0
    BY DEF Moved
  <2> QED
    BY <1>7, <2>1, DiffTyped, BeforeIs
<1> HIDE DEF p, B
<1>9. /\ OffsetAt(offsets, t) \in Int /\ OffsetAt(offsets, p) \in Int
      /\ OffsetAt(B, t) \in Int /\ OffsetAt(B, p) \in Int
  BY <1>3, <1>6, <1>8, ChainOffsetTyped
<1>10. samples[t] * Scale \in Int /\ samples[p] * Scale \in Int
  BY <1>8, StitchAssumption
<1>11. (samples[t] * Scale + OffsetAt(offsets, t)) - (samples[p] * Scale + OffsetAt(offsets, p))
         # (samples[t] * Scale + OffsetAt(B, t)) - (samples[p] * Scale + OffsetAt(B, p))
  BY <1>4, <1>8 DEF Moved, Stitched
<1>12. ~(OffsetAt(offsets, t) = OffsetAt(B, t) /\ OffsetAt(offsets, p) = OffsetAt(B, p))
       /\ ~(OffsetAt(offsets, t) = OffsetAt(offsets, p) /\ OffsetAt(B, t) = OffsetAt(B, p))
  BY <1>9, <1>10, <1>11, SameGain
<1>13. PICK g \in N : Covers(SpanOf(g, pass.from), t)
  BY <1>3, <1>5, <1>6, <1>7, <1>8, <1>12, ChangesSpanned DEF p, B
<1> HIDE DEF N
<1>14. SpanOf(g, pass.from) \in changeSpans(pass.st, pass.from, pass.until)
  BY <1>13 DEF changeSpans, SpanOf, N
<1> QED
  BY <1>13, <1>14 DEF Covers

\* Every interval whose corrected energy an ordinary pass changes lies in a
\* span the pass returns, so the economics of its day are computed anew
\* (runner.go changeSpans).
THEOREM StitchSpansCover == StitchSpec => SpansCoverChanges
<1> DEFINE A == SavesAs(FALSE) =>
                  \A t \in Times : t < pass.until /\ Moved(t) =>
                    \E g \in changeSpans(pass.st, pass.from, pass.until) : g.from <= t /\ t <= g.to
<1>1. StitchInv /\ [StitchNext]_stitchVars => A
  BY OnlySaveSaves, SaveCovers
<1> HIDE DEF A
<1>2. StitchSpec => [][A]_stitchVars
  BY <1>1, StitchInvariant, PTL DEF StitchSpec
<1> QED
  BY <1>2 DEF SpansCoverChanges, A
==============================================================================
