----------------------------- MODULE UserSessions -----------------------------
(***************************************************************************)
(* Accounts and signed-in sessions of the cloud API (internal/api/auth.go, *)
(* auth_session.go, users_handlers.go; internal/storage/auth.go).          *)
(*                                                                         *)
(* Requests interleave between their queries.  A session is served from a  *)
(* cache in memory for CacheTTL, guarded by a revision that grows on every *)
(* removal; account changes commit first and clear the cache after.        *)
(*                                                                         *)
(* An account's version stands for all that a principal copies from it.    *)
(* Password hashing and the permission tables are left out.                *)
(***************************************************************************)
EXTENDS Integers, Optional

CONSTANTS
  Users, Tokens,
  Visitors,             \* requests that sign in, act and sign out
  Managers,             \* requests of the user-management page
  ActsAs,               \* the administrator behind each of them
  CacheTTL,             \* sessionCacheTTL, in ticks
  SessionTTL,           \* sessionTTL
  MaxVersion            \* bound on changes of one account

ASSUME SessionsAssumption ==
  /\ CacheTTL \in Nat \ {0} /\ SessionTTL \in Nat \ {0} /\ MaxVersion \in Nat
  /\ Visitors \cap Managers = {} /\ ActsAs \in [Managers -> Users]

VARIABLES
  users,                \* table users with its grants: [disabled, admin, ver], Nil when deleted
  sessionRows,          \* table sessions: [user, left], Nil without a row
  cache,                \* Auth.sessions: [user, ver, age, left, by]
  req,                  \* what each request is doing, with its locals
  since,                \* history: ticks since each account last changed
  unforgotten           \* history: accounts changed and not yet dropped from the cache

sessionVars == <<users, sessionRows, cache, req, since, unforgotten>>

Idle == [at |-> "idle"]

Account == [disabled |-> FALSE, admin |-> TRUE, ver |-> 0]

SessionsInit ==
  /\ users = [u \in Users |-> Account]
  /\ sessionRows = [t \in Tokens |-> Nil] /\ cache = sessionRows
  /\ req = [r \in Visitors \cup Managers |-> Idle]
  /\ since = [u \in Users |-> CacheTTL]
  /\ unforgotten = {}

Goto(r, locals) == req' = [req EXCEPT ![r] = locals]
Finish(r) == Goto(r, Idle)
CappedAge(n) == IF n < CacheTTL THEN n ELSE CacheTTL

\* revision++ : whoever looked at the cache before must not store into it.
Raced(except) ==
  [r \in DOMAIN req |->
     IF r # except /\ "raced" \in DOMAIN req[r] THEN [req[r] EXCEPT !.raced = TRUE] ELSE req[r]]

-------------------------------------------------------------------------------
(* login: the account, then its grants, then the row, then the cache. *)

Login(r, u, t) ==
  /\ req[r] = Idle /\ users[u] # Nil /\ ~users[u].disabled
  /\ sessionRows[t] = Nil /\ ~\E q \in Visitors : req[q] # Idle /\ req[q].token = t
  /\ Goto(r, [at |-> "granted", user |-> u, token |-> t, age |-> 0, ver |-> Nil])
  /\ UNCHANGED <<users, sessionRows, cache, since, unforgotten>>

ReadGrants(r) ==
  /\ req[r].at = "granted" /\ req[r].ver = Nil
  /\ IF users[req[r].user] = Nil THEN Finish(r)
     ELSE Goto(r, [req[r] EXCEPT !.ver = users[req[r].user].ver])
  /\ UNCHANGED <<users, sessionRows, cache, since, unforgotten>>

\* The row refers to the account; the insert fails once it is deleted.
CreateSession(r) ==
  /\ req[r].at = "granted" /\ req[r].ver # Nil
  /\ IF users[req[r].user] = Nil THEN Finish(r) /\ UNCHANGED sessionRows
     ELSE /\ Goto(r, [req[r] EXCEPT !.at = "created"])
          /\ sessionRows' =
               [sessionRows EXCEPT ![req[r].token] = [user |-> req[r].user, left |-> SessionTTL]]
  /\ UNCHANGED <<users, cache, since, unforgotten>>

CacheLogin(r) ==
  /\ req[r].at = "created"
  /\ cache' = [cache EXCEPT ![req[r].token] =
                 [user |-> req[r].user, ver |-> req[r].ver, age |-> req[r].age,
                  left |-> SessionTTL, by |-> "login"]]
  /\ Finish(r)
  /\ UNCHANGED <<users, sessionRows, since, unforgotten>>

-------------------------------------------------------------------------------
(* authenticate. *)

Served(t) == cache[t] # Nil /\ cache[t].age < CacheTTL

\* The cache and the revision are read under one lock.
Authenticate(r, t) ==
  /\ req[r] = Idle
  /\ Goto(r, [at |-> IF Served(t) THEN "have" ELSE "load", token |-> t, raced |-> FALSE,
              age |-> 0, s |-> IF Served(t) THEN cache[t] ELSE Nil])
  /\ UNCHANGED <<users, sessionRows, cache, since, unforgotten>>

Forget(r, t) ==
  /\ cache' = [cache EXCEPT ![t] = Nil]
  /\ req' = [Raced(r) EXCEPT ![r] = Idle]

\* loadSession: the row.
LoadRow(r) ==
  LET row == sessionRows[req[r].token]
  IN /\ req[r].at = "load"
     /\ IF row = Nil \/ row.left = 0 THEN Forget(r, req[r].token)
        ELSE /\ Goto(r, [req[r] EXCEPT !.at = "account", !.s =
                           [user |-> row.user, ver |-> Nil, age |-> req[r].age,
                            left |-> row.left, by |-> "request"]])
             /\ UNCHANGED cache
     /\ UNCHANGED <<users, sessionRows, since, unforgotten>>

\* loadSession: the account and its grants.
LoadAccount(r) ==
  LET account == users[req[r].s.user]
  IN /\ req[r].at = "account"
     /\ IF account = Nil \/ account.disabled THEN Forget(r, req[r].token)
        ELSE /\ Goto(r, [req[r] EXCEPT !.at = "have", !.s.ver = account.ver])
             /\ UNCHANGED cache
     /\ UNCHANGED <<users, sessionRows, since, unforgotten>>

\* The sliding expiry: written back now and then, or not at all when that fails.
Touch(r) ==
  LET t == req[r].token
  IN /\ req[r].at = "have" /\ req[r].s.left > 0
     /\ sessionRows' =
          [sessionRows EXCEPT ![t] = IF @ = Nil THEN Nil ELSE [@ EXCEPT !.left = SessionTTL]]
     /\ Goto(r, [req[r] EXCEPT !.at = "touched", !.s.left = SessionTTL])
     /\ UNCHANGED <<users, cache, since, unforgotten>>

\* Mutant of Keep: what was loaded is stored whatever happened since.
KeepAnyway(r) ==
  /\ req[r].at \in {"have", "touched"} /\ req[r].s.left > 0
  /\ cache' = [cache EXCEPT ![req[r].token] = req[r].s]
  /\ Finish(r)
  /\ UNCHANGED <<users, sessionRows, since, unforgotten>>

\* Mutant of Keep: every use starts the cache's time anew.
KeepSliding(r) ==
  /\ req[r].at \in {"have", "touched"} /\ req[r].s.left > 0
  /\ cache' = IF req[r].raced THEN cache
              ELSE [cache EXCEPT ![req[r].token] = [req[r].s EXCEPT !.age = 0]]
  /\ Finish(r)
  /\ UNCHANGED <<users, sessionRows, since, unforgotten>>

\* The request is served; the entry goes back unless the revision has grown.
Keep(r) ==
  /\ req[r].at \in {"have", "touched"} /\ req[r].s.left > 0
  /\ cache' = IF req[r].raced THEN cache ELSE [cache EXCEPT ![req[r].token] = req[r].s]
  /\ Finish(r)
  /\ UNCHANGED <<users, sessionRows, since, unforgotten>>

Expired(r) ==
  /\ req[r].at = "have" /\ req[r].s.left = 0
  /\ Forget(r, req[r].token)
  /\ UNCHANGED <<users, sessionRows, since, unforgotten>>

\* logout: the cache, then the row.
Logout(r, t) ==
  /\ req[r] = Idle
  /\ cache' = [cache EXCEPT ![t] = Nil]
  /\ req' = [Raced(r) EXCEPT ![r] = [at |-> "out", token |-> t]]
  /\ UNCHANGED <<users, sessionRows, since, unforgotten>>

DropRow(r) ==
  /\ req[r].at = "out"
  /\ sessionRows' = [sessionRows EXCEPT ![req[r].token] = Nil]
  /\ Finish(r)
  /\ UNCHANGED <<users, cache, since, unforgotten>>

-------------------------------------------------------------------------------
(* updateUser, deleteUser, authPassword. *)

GlobalAdmin(a) == a # Nil /\ a.admin /\ ~a.disabled

\* The account and its grants as first read; want says what is to become of it.
Manage(r, u, want) ==
  /\ req[r] = Idle /\ users[u] # Nil /\ GlobalAdmin(users[ActsAs[r]])
  /\ ~(want = "delete" /\ u = ActsAs[r])
  /\ Goto(r, [at |-> "check", user |-> u, seen |-> users[u], want |-> want])
  /\ UNCHANGED <<users, sessionRows, cache, since, unforgotten>>

Loses(want) == want \in {"disable", "demote", "delete"}

\* Mutant of LastGlobalAdmin: disabled administrators count as others.
LastGlobalAdminAny(u, seen) ==
  GlobalAdmin(seen) /\ ~\E v \in Users \ {u} : users[v] # Nil /\ users[v].admin

\* The only enabled administrator of every organization, as of now.
LastGlobalAdmin(u, seen) ==
  GlobalAdmin(seen) /\ ~\E v \in Users \ {u} : GlobalAdmin(users[v])

CheckLast(r) ==
  /\ req[r].at = "check"
  /\ IF Loses(req[r].want) /\ LastGlobalAdmin(req[r].user, req[r].seen) THEN Finish(r)
     ELSE Goto(r, [req[r] EXCEPT !.at = "commit"])
  /\ UNCHANGED <<users, sessionRows, cache, since, unforgotten>>

After(a, want) ==
  IF want = "delete" THEN Nil
  ELSE [disabled |-> IF want = "disable" THEN TRUE ELSE IF want = "restore" THEN FALSE ELSE a.disabled,
        admin |-> IF want = "demote" THEN FALSE ELSE IF want = "restore" THEN TRUE ELSE a.admin,
        ver |-> a.ver + 1]

\* Sessions end with a change of grants or password and when the account is
\* newly disabled; a name or a release alone leaves them.
Revokes(seen, want) ==
  \/ want \in {"password", "delete"}
  \/ want = "disable" /\ ~seen.disabled
  \/ want = "demote" /\ seen.admin
  \/ want = "restore" /\ ~seen.admin

\* One transaction: the account, its grants, and its sessions with them.
Commit(r) ==
  LET u == req[r].user
  IN /\ req[r].at = "commit"
     /\ IF users[u] = Nil THEN Finish(r) /\ UNCHANGED <<users, sessionRows, since, unforgotten>>
        ELSE /\ users[u].ver < MaxVersion
             /\ users' = [users EXCEPT ![u] = After(@, req[r].want)]
             /\ sessionRows' =
                  [t \in Tokens |->
                     IF /\ sessionRows[t] # Nil /\ sessionRows[t].user = u
                        /\ Revokes(req[r].seen, req[r].want)
                     THEN Nil ELSE sessionRows[t]]
             /\ since' = [since EXCEPT ![u] = 0]
             /\ unforgotten' = unforgotten \cup {u}
             /\ Goto(r, [at |-> "forget", user |-> u])
     /\ UNCHANGED cache

ForgetUser(r) ==
  /\ req[r].at = "forget"
  /\ cache' =
       [t \in Tokens |-> IF cache[t] # Nil /\ cache[t].user = req[r].user THEN Nil ELSE cache[t]]
  /\ req' = [Raced(r) EXCEPT ![r] = Idle]
  /\ unforgotten' = unforgotten \ {req[r].user}
  /\ UNCHANGED <<users, sessionRows, since>>

-------------------------------------------------------------------------------

OlderEntry(s) == [s EXCEPT !.age = CappedAge(@ + 1), !.left = IF @ > 0 THEN @ - 1 ELSE 0]

\* Time passes for rows, cache and requests; a request is shorter than a session.
Tick ==
  /\ \A r \in Visitors : "age" \in DOMAIN req[r] => req[r].age < CacheTTL
  /\ sessionRows' = [t \in Tokens |-> IF sessionRows[t] = Nil THEN Nil
                               ELSE [sessionRows[t] EXCEPT !.left = IF @ > 0 THEN @ - 1 ELSE 0]]
  /\ cache' = [t \in Tokens |-> IF cache[t] = Nil THEN Nil ELSE OlderEntry(cache[t])]
  /\ since' = [u \in Users |-> CappedAge(since[u] + 1)]
  /\ req' = [r \in DOMAIN req |->
       IF "age" \notin DOMAIN req[r] THEN req[r]
       ELSE IF req[r].at \in {"account", "have", "touched"}
            THEN [req[r] EXCEPT !.age = @ + 1, !.s = OlderEntry(@)]
            ELSE [req[r] EXCEPT !.age = @ + 1]]
  /\ UNCHANGED <<users, unforgotten>>

Visit(r) ==
  \/ \E t \in Tokens : Authenticate(r, t) \/ Logout(r, t) \/ \E u \in Users : Login(r, u, t)
  \/ ReadGrants(r) \/ CreateSession(r) \/ CacheLogin(r)
  \/ LoadRow(r) \/ LoadAccount(r) \/ Touch(r) \/ Keep(r) \/ Expired(r) \/ DropRow(r)

Administer(r) ==
  \/ \E u \in Users, want \in {"disable", "demote", "password", "delete", "restore"} :
       Manage(r, u, want)
  \/ CheckLast(r) \/ Commit(r) \/ ForgetUser(r)

SessionsNext ==
  \/ \E r \in Visitors : Visit(r)
  \/ \E r \in Managers : Administer(r)
  \/ Tick

SessionsSpec == SessionsInit /\ [][SessionsNext]_sessionVars

-------------------------------------------------------------------------------
(* Properties. *)

StaleEntry(s) == s # Nil /\ (users[s.user] = Nil \/ users[s.user].ver # s.ver)

\* A principal that no longer matches its account is served for CacheTTL after
\* the change at most, by whatever interleaving of lookups, sign-ins, touches
\* and changes it came to be in the cache.
StaleNoLongerThanTTL ==
  \A t \in Tokens : Served(t) /\ StaleEntry(cache[t]) => since[cache[t].user] <= cache[t].age

\* "A lookup that raced a revocation doesn't put the revoked session back": once
\* a change has cleared the cache, only a sign-in that was under way can leave
\* an outdated entry in it.
RacedNotCached ==
  \A t \in Tokens :
    cache[t] # Nil /\ cache[t].by = "request" /\ StaleEntry(cache[t]) => cache[t].user \in unforgotten

\* The cache of sessions follows the accounts (auth_session.go).
CacheFollowsAccounts == StaleNoLongerThanTTL /\ RacedNotCached

\* "The last enabled administrator of every organization can be neither
\* disabled, demoted nor deleted."
AdministratorRemains == \E u \in Users : GlobalAdmin(users[u])

===============================================================================
