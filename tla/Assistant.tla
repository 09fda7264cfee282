------------------------------ MODULE Assistant ------------------------------
(***************************************************************************)
(* The assistant of the dashboard (internal/api/chat_handlers.go,          *)
(* ai_settings.go, internal/aichat/chat.go, internal/storage/ai_chat.go):  *)
(* settings that are read through a cache and saved under it, and the      *)
(* turns of users, counted against a daily limit before they run and       *)
(* logged after.                                                           *)
(*                                                                         *)
(* Every query and every section under the lock is a step.  The process    *)
(* may restart between any two, a client may hang up, a query may fail.    *)
(* Texts and tools are left out; a turn is what it costs.                  *)
(***************************************************************************)
EXTENDS Naturals, FiniteSets, Optional

CONSTANTS
  Askers, Requests,     \* users; requests that may be open at once
  AskerOf,              \* [Requests -> Askers]
  Savers,               \* open PUTs of the settings
  Wishes,               \* what they save: [limit, enabled, key : {"keep", "clear", "set"}]
  MaxToolRounds,
  LastDate, MaxTurns, MaxSaves, MaxCrashes    \* bounds; turns by user

ASSUME AssistantAssumption ==
  /\ AskerOf \in [Requests -> Askers] /\ MaxToolRounds \in Nat
  /\ Wishes \subseteq [limit : Nat \ {0}, enabled : BOOLEAN, key : {"keep", "clear", "set"}]
  /\ LastDate \in Nat /\ MaxTurns \in Nat /\ MaxSaves \in Nat /\ MaxCrashes \in Nat

VARIABLES
  settings, key,        \* the row of ai_settings: [limit, enabled], whether a key is stored
  live, fresh,          \* the cache, and whether it is younger than aiSettingsTTL
  request,              \* the open requests
  busy,                 \* users with a turn in flight
  usage,                \* rows of ai_chat_usage by user: which turn it was, and its date
  saving,               \* the open PUTs
  date, saves, crashes,
  turns, lost,          \* history: turns that asked the model, turns that left no row
  unseen           \* history: a save went through that its handler saw fail

turnVars == <<request, busy, usage, date, turns, lost>>
settingVars == <<settings, key, saving, saves>>
cacheVars == <<live, fresh, unseen>>
assistantVars == <<turnVars, settingVars, cacheVars, crashes>>

Closed == [at |-> "closed", live |-> Nil, raced |-> FALSE, round |-> 0, left |-> FALSE,
           since |-> 0]
NotSaving == [at |-> "idle", wish |-> Nil]
LiveOf(row, stored) == [limit |-> row.limit, on |-> row.enabled /\ stored]

AssistantInit ==
  /\ settings = [limit |-> 1, enabled |-> TRUE] /\ key = TRUE
  /\ live = Nil /\ fresh = FALSE /\ unseen = FALSE
  /\ request = [q \in Requests |-> Closed] /\ busy = {}
  /\ usage = [u \in Askers |-> {}]
  /\ saving = [p \in Savers |-> NotSaving]
  /\ date = 0 /\ saves = 0 /\ crashes = 0
  /\ turns = [u \in Askers |-> 0] /\ lost = [u \in Askers |-> 0]

Goes(q, new) == request' = [request EXCEPT ![q] = new]
Closes(q) == Goes(q, Closed)

-------------------------------------------------------------------------------
(* The settings of a request: from the cache or, outside the lock, read. *)

Open(q) ==
  /\ request[q].at = "closed"
  /\ Goes(q, [Closed EXCEPT !.at = IF live # Nil /\ fresh THEN "ready" ELSE "settings",
                            !.live = IF live # Nil /\ fresh THEN live ELSE Nil])
  /\ UNCHANGED <<settingVars, cacheVars, busy, usage, date, turns, lost, crashes>>

\* The key itself is read by a second query, where one is needed and stored.
ReadSettings(q) ==
  /\ request[q].at = "settings"
  /\ \/ Goes(q, [request[q] EXCEPT !.at = IF settings.enabled /\ key THEN "key"
                                          ELSE "store",
                                   !.live = LiveOf(settings, FALSE)])
     \/ Closes(q)
  /\ UNCHANGED <<settingVars, cacheVars, busy, usage, date, turns, lost, crashes>>

ReadKey(q) ==
  /\ request[q].at = "key"
  /\ Goes(q, [request[q] EXCEPT !.at = "store", !.live = [@ EXCEPT !.on = key]]) \/ Closes(q)
  /\ UNCHANGED <<settingVars, cacheVars, busy, usage, date, turns, lost, crashes>>

\* Mutant of Caches: what was read is cached, whatever was saved meanwhile.
CachesAnyway(q) == TRUE

\* The revision is that of before the reads.
Caches(q) == ~request[q].raced

StoreLive(q) ==
  /\ request[q].at = "store"
  /\ Goes(q, [request[q] EXCEPT !.at = "ready"])
  /\ IF Caches(q) THEN live' = request[q].live /\ fresh' = TRUE ELSE UNCHANGED <<live, fresh>>
  /\ UNCHANGED <<settingVars, unseen, busy, usage, date, turns, lost, crashes>>

\* /auth/me wanted to know no more; a turn needs the assistant on.
Told(q) ==
  /\ request[q].at = "ready" /\ Closes(q)
  /\ UNCHANGED <<settingVars, cacheVars, busy, usage, date, turns, lost, crashes>>

-------------------------------------------------------------------------------
(* A turn. *)

\* A user has one turn at a time; its day is the one it begins on.
BeginTurn(q) ==
  /\ request[q].at = "ready" /\ request[q].live.on
  /\ IF AskerOf[q] \in busy THEN Closes(q) /\ UNCHANGED busy
     ELSE /\ busy' = busy \cup {AskerOf[q]}
          /\ Goes(q, [request[q] EXCEPT !.at = "count", !.since = date])
  /\ UNCHANGED <<settingVars, cacheVars, usage, date, turns, lost, crashes>>

Used(u, since) == Cardinality({row \in usage[u] : row.date >= since})

Count(q) ==
  LET u == AskerOf[q]
  IN /\ request[q].at = "count"
     /\ \/ /\ turns[u] < MaxTurns /\ Used(u, request[q].since) < request[q].live.limit
           /\ Goes(q, [request[q] EXCEPT !.at = "run"])
           /\ turns' = [turns EXCEPT ![u] = @ + 1] /\ UNCHANGED busy
        \/ Closes(q) /\ busy' = busy \ {u} /\ UNCHANGED turns
     /\ UNCHANGED <<settingVars, cacheVars, usage, date, lost, crashes>>

HangUp(q) ==
  /\ request[q].at = "run" /\ ~request[q].left
  /\ Goes(q, [request[q] EXCEPT !.left = TRUE])
  /\ UNCHANGED <<settingVars, cacheVars, busy, usage, date, turns, lost, crashes>>

\* Mutant of TurnOver: the user is free before the turn is logged.
TurnOverFree(q) ==
  Goes(q, [request[q] EXCEPT !.at = "record"]) /\ busy' = busy \ {AskerOf[q]}

TurnOver(q) == Goes(q, [request[q] EXCEPT !.at = "record"]) /\ UNCHANGED busy

\* The model answers, fails or calls tools; after the last round it may not.
Respond(q) ==
  /\ request[q].at = "run"
  /\ \/ TurnOver(q)
     \/ /\ ~request[q].left /\ request[q].round < MaxToolRounds
        /\ Goes(q, [request[q] EXCEPT !.round = @ + 1]) /\ UNCHANGED busy
  /\ UNCHANGED <<settingVars, cacheVars, usage, date, turns, lost, crashes>>

Row(u) == [turn |-> turns[u], date |-> date]

\* Mutant of Logged: the row is written under the request's own context.
LoggedUnlessLeft(q) ==
  IF request[q].left THEN UNCHANGED <<usage, lost>>
  ELSE usage' = [usage EXCEPT ![AskerOf[q]] = @ \cup {Row(AskerOf[q])}] /\ UNCHANGED lost

\* context.WithoutCancel: also for a client that has left.
Logged(q) ==
  usage' = [usage EXCEPT ![AskerOf[q]] = @ \cup {Row(AskerOf[q])}] /\ UNCHANGED lost

NotLogged(q) == lost' = [lost EXCEPT ![AskerOf[q]] = @ + 1] /\ UNCHANGED usage

Record(q) ==
  /\ request[q].at = "record"
  /\ Logged(q) \/ NotLogged(q)
  /\ Goes(q, [request[q] EXCEPT !.at = "end"])
  /\ UNCHANGED <<settingVars, cacheVars, busy, date, turns, crashes>>

End(q) ==
  /\ request[q].at = "end" /\ Closes(q) /\ busy' = busy \ {AskerOf[q]}
  /\ UNCHANGED <<settingVars, cacheVars, usage, date, turns, lost, crashes>>

-------------------------------------------------------------------------------
(* A save. *)

\* An assistant that is on needs a key, typed now or stored.
Accepts(wish) == wish.enabled => wish.key = "set" \/ (wish.key = "keep" /\ key)

CheckSave(p) ==
  /\ saving[p].at = "idle" /\ saves < MaxSaves
  /\ \E wish \in Wishes :
       /\ Accepts(wish)
       /\ saving' = [saving EXCEPT ![p] = [at |-> "commit", wish |-> wish]]
  /\ saves' = saves + 1
  /\ UNCHANGED <<turnVars, cacheVars, settings, key, crashes>>

\* The answer of the database may be lost, and then nothing is forgotten.
CommitSettings(p) ==
  LET wish == saving[p].wish
  IN /\ saving[p].at = "commit"
     /\ settings' = [limit |-> wish.limit, enabled |-> wish.enabled]
     /\ key' = IF wish.key = "keep" THEN key ELSE wish.key = "set"
     /\ \/ saving' = [saving EXCEPT ![p].at = "forget"] /\ UNCHANGED unseen
        \/ saving' = [saving EXCEPT ![p] = NotSaving] /\ unseen' = TRUE
     /\ UNCHANGED <<turnVars, live, fresh, saves, crashes>>

SaveFails(p) ==
  /\ saving[p].at = "commit" /\ saving' = [saving EXCEPT ![p] = NotSaving]
  /\ UNCHANGED <<turnVars, cacheVars, settings, key, saves, crashes>>

\* The revision grows: no read under way is cached.
ForgetLive(p) ==
  /\ saving[p].at = "forget" /\ saving' = [saving EXCEPT ![p] = NotSaving]
  /\ live' = Nil /\ fresh' = FALSE /\ unseen' = FALSE
  /\ request' = [q \in Requests |->
                   IF request[q].at \in {"settings", "key", "store"}
                   THEN [request[q] EXCEPT !.raced = TRUE] ELSE request[q]]
  /\ UNCHANGED <<busy, usage, date, turns, lost, settings, key, saves, crashes>>

-------------------------------------------------------------------------------

Expire ==
  /\ fresh /\ fresh' = FALSE
  /\ UNCHANGED <<turnVars, settingVars, live, unseen, crashes>>

NextDate ==
  /\ date < LastDate /\ date' = date + 1
  /\ UNCHANGED <<settingVars, cacheVars, request, busy, usage, turns, lost, crashes>>

\* The turns of a user that have asked the model and are not logged yet.
Turning(u) == {q \in Requests : AskerOf[q] = u /\ request[q].at \in {"run", "record"}}

\* A turn that ends without its row stays without.
Crash ==
  /\ crashes < MaxCrashes /\ crashes' = crashes + 1
  /\ request' = [q \in Requests |-> Closed] /\ busy' = {}
  /\ saving' = [p \in Savers |-> NotSaving]
  /\ live' = Nil /\ fresh' = FALSE /\ unseen' = FALSE
  /\ lost' = [u \in Askers |->
                lost[u] + Cardinality(Turning(u))]
  /\ UNCHANGED <<settings, key, usage, date, saves, turns>>

AssistantNext ==
  \/ \E q \in Requests :
       \/ Open(q) \/ ReadSettings(q) \/ ReadKey(q) \/ StoreLive(q) \/ Told(q)
       \/ BeginTurn(q) \/ Count(q) \/ HangUp(q) \/ Respond(q) \/ Record(q) \/ End(q)
  \/ \E p \in Savers : CheckSave(p) \/ CommitSettings(p) \/ SaveFails(p) \/ ForgetLive(p)
  \/ Expire \/ NextDate \/ Crash

AssistantSpec == AssistantInit /\ [][AssistantNext]_assistantVars

-------------------------------------------------------------------------------
(* Properties. *)

\* The cache is the saved row, but for the moment between a save and its
\* forgetting: a read that raced a save does not bring the old one back.
CacheIsSaved ==
  live # Nil =>
    \/ live = LiveOf(settings, key) \/ unseen
    \/ \E p \in Savers : saving[p].at = "forget"

\* A turn runs while its user's rows of the day leave room for it.
LimitKept ==
  \A u \in Askers : \A q \in Turning(u) : Used(u, request[q].since) < request[q].live.limit

\* A turn that asked the model is logged, under way, or lost to a failed
\* insert or a crash: hanging up does not take it off the account.
TurnsAccounted ==
  \A u \in Askers :
    turns[u] = Used(u, 0) + lost[u]
               + Cardinality(Turning(u))

AssistantKeepsBooks == CacheIsSaved /\ LimitKept /\ TurnsAccounted

\* The assistant is not switched on without a key (ai_settings.go:211-223); a
\* save checks it on a row it has read before another save.
OnHasKey == settings.enabled => key
===============================================================================
