------------------------------ MODULE EdgeControl ------------------------------
(***************************************************************************)
(* What an edge device follows (internal/edge/service.go, manifest.go,     *)
(* localui.go): the manifest its fetcher takes from the cloud and caches   *)
(* on disk, the emergency override of its console, and the ticks of its    *)
(* core loop, which choose between them and journal what changed.          *)
(*                                                                         *)
(* Four goroutines share the atomic pointers manifest and override and the *)
(* events channel: the core loop, the manifest fetcher, a console request  *)
(* and, behind the fetcher's request, the cloud.  The process may restart  *)
(* between any two steps.                                                  *)
(*                                                                         *)
(* Time is the edge's clock, in minutes; the cloud's runs Lead ahead.      *)
(***************************************************************************)
EXTENDS Naturals, Sequences

CONSTANTS
  Plans,                \* manifest ids: a hash of the plan, so an old one can return
  Gated,                \* ids of manifests that ValidateForEdge refuses
  Modes,                \* override modes the console asks for
  Validity,             \* from publication to valid_until
  Lead,                 \* cloud clock minus edge clock
  TTL,                  \* of an override
  Dedup,                \* the five minutes of writeEventDeduped
  EventCap,             \* room in the events channel
  SaveMayFail,          \* whether the cache file can fail to be written
  MaxPubs, MaxOrders, MaxRestarts, MaxClock    \* bounds

ASSUME ControlAssumption ==
  /\ Gated \subseteq Plans /\ SaveMayFail \in BOOLEAN
  /\ Modes \subseteq {"fallback_safe", "monitor"}
  /\ Validity \in Nat /\ Lead \in Nat /\ Dedup \in Nat /\ EventCap \in Nat \ {0}
  /\ TTL \in Nat \ {0} /\ "none" \notin Plans
  /\ MaxPubs \in Nat /\ MaxOrders \in Nat /\ MaxRestarts \in Nat /\ MaxClock \in Nat \ {0}

VARIABLES
  now,                  \* the edge's clock
  latest,               \* newest row of edge_manifests
  confirmed,            \* ids with a MANIFEST_APPLIED event in edge_events
  manifest, cache,      \* the pointer, the file
  fpc, curID, got,      \* manifest fetcher
  override,             \* the pointer
  unpushed,             \* the console request's event, before pushEvent
  events,               \* the channel
  pc, tickAt, cur,      \* core loop: the tick's clock and the manifest it loaded
  lastManifestID, manifestExpired, eventLastWritten,   \* core loop
  decision,             \* the last decision
  orders, restarts,     \* counters behind the bounds
  followed,             \* history: newest publication a tick has acted on
  reached,              \* history: a tick has seen the newest manifest since it was issued
  unsaved,              \* history: publications the cache file could not take
  ordered               \* history: the override the operator has asked for

cloudVars == <<latest, confirmed>>
fetchVars == <<cache, fpc, curID, got, unsaved>>
consoleVars == <<orders, ordered, unpushed>>
coreVars == <<pc, tickAt, cur, lastManifestID, manifestExpired, eventLastWritten,
              decision, followed, reached>>
vars == <<now, cloudVars, manifest, fetchVars, override, consoleVars, events,
          coreVars, restarts>>

\* pub orders publications by issued_at; 0 is no manifest at all.
NoManifest == [id |-> "none", from |-> 0, until |-> 0, pub |-> 0]
NoOverride == [mode |-> "none", until |-> 0]
NoDecision == [source |-> "none", caps |-> "none", at |-> 0, until |-> 0]

\* What the five-minute rule compares: code and message.
EventKeys ==
  [code : {"applied", "expired", "rejected"}, about : Plans]
    \cup [code : {"set"}, about : Modes]
    \cup [code : {"cleared"}, about : {"expired", "console"}]
Key(code, about) == [code |-> code, about |-> about]
Never == 0

Init ==
  /\ now = 1
  /\ latest = NoManifest /\ confirmed = {}
  /\ manifest = NoManifest /\ cache = NoManifest
  /\ fpc = "idle" /\ curID = "none" /\ got = NoManifest
  /\ override = NoOverride /\ unpushed = <<>> /\ events = <<>>
  /\ pc = "idle" /\ tickAt = 0 /\ cur = NoManifest
  /\ lastManifestID = "none" /\ manifestExpired = FALSE
  /\ eventLastWritten = [k \in EventKeys |-> Never]
  /\ decision = NoDecision
  /\ orders = 0 /\ restarts = 0
  /\ followed = 0 /\ reached = FALSE /\ unsaved = {}
  /\ ordered = NoOverride

-------------------------------------------------------------------------------
(* The cloud and the clock. *)

\* UpsertEdgeManifest: a plan that comes back is the newest row again.
Publish(id) ==
  /\ latest.pub < MaxPubs /\ id # latest.id
  /\ latest' = [id |-> id, from |-> now + Lead, until |-> now + Lead + Validity,
                pub |-> latest.pub + 1]
  /\ reached' = FALSE
  /\ UNCHANGED <<now, confirmed, manifest, fetchVars, override, consoleVars, events,
                 pc, tickAt, cur, lastManifestID, manifestExpired, eventLastWritten,
                 decision, followed, restarts>>

Advance ==
  /\ now < MaxClock
  /\ now' = now + 1
  /\ UNCHANGED <<cloudVars, manifest, fetchVars, override, consoleVars, events,
                 coreVars, restarts>>

-------------------------------------------------------------------------------
(* The manifest fetcher. *)

ActiveAt(m, t) == m.id # "none" /\ m.from <= t /\ t <= m.until

ValidForEdge(m) == m.id \notin Gated

FetchDone == fpc' = "idle" /\ curID' = "none" /\ got' = NoManifest

\* The poll comes round a minute later, the tick a second: each manifest is
\* seen by a tick before the next one is asked for.
FetchStart ==
  /\ fpc = "idle" /\ manifest.id \in {"none", lastManifestID}
  /\ curID' = manifest.id /\ fpc' = "asked"
  /\ UNCHANGED <<now, cloudVars, manifest, cache, got, unsaved, override,
                 consoleVars, events, coreVars, restarts>>

\* No answer, an error status, 404, 304, or the id it already has.
FetchNothing ==
  /\ fpc = "asked" /\ FetchDone
  /\ UNCHANGED <<now, cloudVars, manifest, cache, unsaved, override,
                 consoleVars, events, coreVars, restarts>>

\* Mutant of FetchAnswer: an id the edge has confirmed before is not news.
FetchAnswerOnce ==
  /\ fpc = "asked" /\ latest.id \notin {"none", curID}
  /\ IF latest.id \in confirmed
     THEN FetchDone
     ELSE fpc' = "check" /\ got' = latest /\ UNCHANGED curID
  /\ UNCHANGED <<now, cloudVars, manifest, cache, unsaved, override,
                 consoleVars, events, coreVars, restarts>>

\* Mutant of FetchAnswer: the answer is taken without ValidateForEdge.
FetchAnswerTrusted ==
  /\ fpc = "asked" /\ latest.id \notin {"none", curID}
  /\ fpc' = "store" /\ got' = latest
  /\ UNCHANGED <<now, cloudVars, manifest, cache, curID, unsaved, override,
                 consoleVars, events, coreVars, restarts>>

\* A manifest with another id arrives.
FetchAnswer ==
  /\ fpc = "asked" /\ latest.id \notin {"none", curID}
  /\ fpc' = "check" /\ got' = latest
  /\ UNCHANGED <<now, cloudVars, manifest, cache, curID, unsaved, override,
                 consoleVars, events, coreVars, restarts>>

\* ValidateForEdge fails; emitEvent waits for room in the channel.
Reject ==
  /\ fpc = "check" /\ ~ValidForEdge(got) /\ Len(events) < EventCap
  /\ events' = Append(events, [key |-> Key("rejected", got.id), ts |-> now])
  /\ FetchDone
  /\ UNCHANGED <<now, cloudVars, manifest, cache, unsaved, override, consoleVars,
                 coreVars, restarts>>

\* Mutant of SaveCache: the file is written before the manifest is checked.
SaveCacheUnchecked ==
  /\ fpc = "check" /\ cache # got
  /\ cache' = got /\ UNCHANGED unsaved
  /\ fpc' = IF ValidForEdge(got) THEN "store" ELSE "check"
  /\ UNCHANGED <<now, cloudVars, manifest, curID, got, override, consoleVars, events,
                 coreVars, restarts>>

\* saveManifestCache: tmp + rename, so the file holds the old manifest or
\* the new one; an error is only logged.
SaveCache ==
  /\ fpc = "check" /\ ValidForEdge(got)
  /\ \/ cache' = got /\ UNCHANGED unsaved
     \/ SaveMayFail /\ UNCHANGED cache /\ unsaved' = unsaved \cup {got.pub}
  /\ fpc' = "store"
  /\ UNCHANGED <<now, cloudVars, manifest, curID, got, override, consoleVars, events,
                 coreVars, restarts>>

StoreManifest ==
  /\ fpc = "store"
  /\ manifest' = got /\ FetchDone
  /\ UNCHANGED <<now, cloudVars, cache, unsaved, override, consoleVars, events,
                 coreVars, restarts>>

-------------------------------------------------------------------------------
(* The console: uiOverride answers one request at a time. *)

\* The pointer is stored first, the event handed over afterwards.
SetOverride(mode) ==
  /\ unpushed = <<>> /\ orders < MaxOrders
  /\ override' = [mode |-> mode, until |-> now + TTL]
  /\ ordered' = override' /\ orders' = orders + 1
  /\ unpushed' = <<[key |-> Key("set", mode), ts |-> now]>>
  /\ UNCHANGED <<now, cloudVars, manifest, fetchVars, events, coreVars, restarts>>

ClearOverride ==
  /\ unpushed = <<>> /\ orders < MaxOrders
  /\ override' = NoOverride /\ ordered' = NoOverride /\ orders' = orders + 1
  /\ unpushed' = <<[key |-> Key("cleared", "console"), ts |-> now]>>
  /\ UNCHANGED <<now, cloudVars, manifest, fetchVars, events, coreVars, restarts>>

\* A full channel drops the event instead of blocking the request.
PushEvent ==
  /\ unpushed # <<>> /\ unpushed' = <<>>
  /\ events' = IF Len(events) < EventCap THEN events \o unpushed ELSE events
  /\ UNCHANGED <<now, cloudVars, manifest, fetchVars, override, orders, ordered,
                 coreVars, restarts>>

-------------------------------------------------------------------------------
(* The core loop. *)

\* writeEventDeduped on a set of events with the same timestamp: the clock
\* each key was last written at.
Written(keys, ts) ==
  [k \in EventKeys |->
     IF k \in keys /\ (eventLastWritten[k] = Never \/ ts >= eventLastWritten[k] + Dedup)
     THEN ts ELSE eventLastWritten[k]]

ConsumeEvent ==
  /\ pc = "idle" /\ events # <<>>
  /\ events' = Tail(events)
  /\ eventLastWritten' = Written({Head(events).key}, Head(events).ts)
  /\ UNCHANGED <<now, cloudVars, manifest, fetchVars, override, consoleVars, pc,
                 tickAt, cur, lastManifestID, manifestExpired, decision, followed,
                 reached, restarts>>

\* Mutant of TickManifest: a new manifest does not clear the expiry flag.
TickManifestKeepFlag ==
  /\ pc = "idle" /\ pc' = "override"
  /\ tickAt' = now /\ cur' = manifest
  /\ lastManifestID' = IF manifest.id # "none" THEN manifest.id ELSE lastManifestID
  /\ LET isNew == manifest.id \notin {"none", lastManifestID}
         isExpired == manifest.id # "none" /\ ~ActiveAt(manifest, now) /\ ~manifestExpired
     IN
     /\ manifestExpired' = (manifestExpired \/ isExpired)
     /\ eventLastWritten' =
          Written((IF isNew THEN {Key("applied", manifest.id)} ELSE {})
                    \cup (IF isExpired THEN {Key("expired", manifest.id)} ELSE {}), now)
     /\ confirmed' = confirmed \cup (IF isNew THEN {manifest.id} ELSE {})
  /\ followed' = IF manifest.pub > followed THEN manifest.pub ELSE followed
  /\ reached' = (reached \/ manifest.id = latest.id)
  /\ UNCHANGED <<now, latest, manifest, fetchVars, override, consoleVars, events,
                 decision, restarts>>

\* The tick is built and the manifest loaded, once; its change and its
\* expiry are journalled.  Events reach the cloud through the black box.
TickManifest ==
  /\ pc = "idle" /\ pc' = "override"
  /\ tickAt' = now /\ cur' = manifest
  /\ lastManifestID' = IF manifest.id # "none" THEN manifest.id ELSE lastManifestID
  /\ LET isNew == manifest.id \notin {"none", lastManifestID}
         wasExpired == manifestExpired /\ ~isNew
         isExpired == manifest.id # "none" /\ ~ActiveAt(manifest, now) /\ ~wasExpired
     IN
     /\ manifestExpired' = (wasExpired \/ isExpired)
     /\ eventLastWritten' =
          Written((IF isNew THEN {Key("applied", manifest.id)} ELSE {})
                    \cup (IF isExpired THEN {Key("expired", manifest.id)} ELSE {}), now)
     /\ confirmed' = confirmed \cup (IF isNew THEN {manifest.id} ELSE {})
  /\ followed' = IF manifest.pub > followed THEN manifest.pub ELSE followed
  /\ reached' = (reached \/ manifest.id = latest.id)
  /\ UNCHANGED <<now, latest, manifest, fetchVars, override, consoleVars, events,
                 decision, restarts>>

\* Mutant of InForce: an override has no end.
InForceForever(ov, t) == ov.mode # "none"

InForce(ov, t) == ov.mode # "none" /\ t < ov.until

\* resolveParams and onTick: which source the decision follows, and whose
\* power limits cap it.  Under fallback_safe the engine is given a synthetic
\* manifest; under monitor it decides nothing.
Decided(ov) ==
  IF ~InForce(ov, tickAt)
  THEN [source |-> CASE cur.id = "none" -> "config"
                     [] ActiveAt(cur, tickAt) -> "manifest"
                     [] OTHER -> "fallback",
        caps |-> cur.id, at |-> tickAt, until |-> cur.until]
  ELSE IF ov.mode = "monitor" THEN decision
  ELSE [source |-> "override", caps |-> "none", at |-> tickAt, until |-> ov.until]

TickDone == pc' = "idle" /\ tickAt' = 0 /\ cur' = NoManifest

\* The override is loaded.  Unless it has run out, the tick decides with it.
TickOverride ==
  /\ pc = "override"
  /\ IF override.mode = "none" \/ InForce(override, tickAt)
     THEN TickDone /\ decision' = Decided(override)
     ELSE pc' = "clear" /\ UNCHANGED <<tickAt, cur, decision>>
  /\ UNCHANGED <<now, cloudVars, manifest, fetchVars, override, consoleVars, events,
                 lastManifestID, manifestExpired, eventLastWritten, followed,
                 reached, restarts>>

\* override.Store(nil): whatever the pointer holds by now.
TickClear ==
  /\ pc = "clear" /\ TickDone
  /\ override' = NoOverride
  /\ eventLastWritten' = Written({Key("cleared", "expired")}, tickAt)
  /\ decision' = Decided(NoOverride)
  /\ UNCHANGED <<now, cloudVars, manifest, fetchVars, consoleVars, events,
                 lastManifestID, manifestExpired, followed, reached, restarts>>

\* The process stops and starts again: only the cache file survives, and
\* loadManifestCache validates it.
Restart ==
  /\ restarts < MaxRestarts /\ restarts' = restarts + 1
  /\ manifest' = IF ValidForEdge(cache) THEN cache ELSE NoManifest
  /\ FetchDone /\ TickDone
  /\ override' = NoOverride /\ unpushed' = <<>> /\ events' = <<>>
  /\ lastManifestID' = "none" /\ manifestExpired' = FALSE
  /\ eventLastWritten' = [k \in EventKeys |-> Never]
  /\ decision' = NoDecision
  /\ UNCHANGED <<now, cloudVars, cache, unsaved, orders, ordered, followed, reached>>

-------------------------------------------------------------------------------

Fetcher == FetchStart \/ FetchNothing \/ FetchAnswer \/ Reject \/ SaveCache \/ StoreManifest
Core == ConsumeEvent \/ TickManifest \/ TickOverride \/ TickClear

Next ==
  \/ Advance \/ Restart
  \/ \E id \in Plans : Publish(id)
  \/ \E mode \in Modes : SetOverride(mode)
  \/ ClearOverride \/ PushEvent
  \/ Fetcher \/ Core

Spec == Init /\ [][Next]_vars

\* The goroutines keep running, and of the polls that never stop some are
\* answered.  The loop's select chooses at random between an event and a tick,
\* and a sender that waits for the channel is served in its turn.
Fairness ==
  /\ WF_vars(Fetcher) /\ SF_vars(FetchAnswer) /\ SF_vars(Reject)
  /\ SF_vars(ConsumeEvent) /\ SF_vars(TickManifest)
  /\ WF_vars(TickOverride) /\ WF_vars(TickClear) /\ WF_vars(Advance)

LiveSpec == Spec /\ Fairness

-------------------------------------------------------------------------------
(* Properties. *)

Manifests == [id : Plans, from : Nat, until : Nat, pub : 1..MaxPubs] \cup {NoManifest}
Overrides == [mode : Modes, until : Nat] \cup {NoOverride}
Events == [key : EventKeys, ts : Nat]

\* Every variable has its type.
TypeOK ==
  /\ now \in 0..MaxClock /\ {latest, manifest, cache, got, cur} \subseteq Manifests
  /\ confirmed \subseteq Plans
  /\ fpc \in {"idle", "asked", "check", "store"}
  /\ {curID, lastManifestID} \subseteq Plans \cup {"none"}
  /\ {override, ordered} \subseteq Overrides
  /\ unpushed \in Seq(Events) /\ Len(unpushed) <= 1
  /\ events \in Seq(Events) /\ Len(events) <= EventCap
  /\ pc \in {"idle", "override", "clear"} /\ tickAt \in 0..now
  /\ eventLastWritten \in [EventKeys -> 0..now]
  /\ decision.source \in {"none", "config", "manifest", "fallback", "override"}
  /\ decision.caps \in Plans \cup {"none"} /\ decision.at \in 0..now
  /\ manifestExpired \in BOOLEAN /\ reached \in BOOLEAN /\ unsaved \subseteq 1..MaxPubs
  /\ followed \in 0..MaxPubs /\ orders \in 0..MaxOrders /\ restarts \in 0..MaxRestarts

\* A device never goes back to an older publication than one it has acted
\* on, nor loses it, over restarts, rejected manifests and republished ids,
\* unless the cache file could not take that publication.
NoOlderPlan == manifest.pub >= followed \/ followed \in unsaved

\* No manifest that fails the MVP gate is ever acted on or cached: the
\* cached plan stays usable while the cloud offers one that is refused.
GatedNeverFollowed == ValidForEdge(manifest) /\ ValidForEdge(cache) /\ ValidForEdge(cur)

\* A plan that ran out is announced: when a tick falls back because
\* valid_until has passed, a MANIFEST_EXPIRED event of that manifest has been
\* written after valid_until or, for an earlier publication of the same plan,
\* less than Dedup before, whatever expired, returned or restarted meanwhile.
ExpiryAnnounced ==
  pc = "idle" /\ decision.source = "fallback" /\ decision.at > decision.until
    => LET written == eventLastWritten[Key("expired", decision.caps)]
       IN written # Never /\ written + Dedup > decision.until

\* What writeEventDeduped says of repeats, that they are dropped "within 5
\* minutes": once Dedup has passed, a fallback has an announcement of its own.
ExpiryAnnouncedAnew ==
  pc = "idle" /\ decision.source = "fallback" /\ decision.at > decision.until
    => LET written == eventLastWritten[Key("expired", decision.caps)]
       IN written # Never /\ (written > decision.until \/ decision.at < written + Dedup)

\* The engine falls back only once valid_until has passed: manifest.go says
\* of FallbackPreset that it runs "when no valid manifest is available (never
\* received one, or valid_until passed)".
FallbackOnlyAfterExpiry == decision.source = "fallback" => decision.at > decision.until

\* While an override is active the shadow engine ignores the manifest, and
\* it expires at Until: no tick within it follows the manifest unless the
\* operator has withdrawn it.  The tick must have begun after the request.
OverrideHolds ==
  pc = "idle" /\ InForce(ordered, decision.at) /\ decision.at + TTL > ordered.until
    => decision.source = "override" /\ ordered.mode = "fallback_safe"

\* buildEdgeSiteStatus of the newest manifest.
ShownApplied == latest.id \in confirmed /\ now + Lead <= latest.until

\* The console shows "applied" only for a manifest the edge has confirmed
\* since it was published; before that it is pending.
AppliedIsConfirmed == ShownApplied => reached

\* Once the cloud has stopped publishing the device gets the newest
\* manifest, unless it must refuse it, and follows it or falls back.
NewestFollowed ==
  <>[](latest.id \in Plans \ Gated => lastManifestID = latest.id)

\* An override ends by itself: once the operator's last order has run out or
\* been withdrawn, decisions come from the manifest or the fallback again.
OverrideEnds == <>[](ordered.until <= now => decision.source # "override")

===============================================================================
