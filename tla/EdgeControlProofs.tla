--------------------------- MODULE EdgeControlProofs ---------------------------
(***************************************************************************)
(* Theorems of EdgeControl for every set of manifests and every bound: a   *)
(* device keeps the newest plan it has acted on, never touches one the     *)
(* gate refuses, and announces each plan it falls back from.               *)
(*                                                                         *)
(* None is inductive.  A restart brings back the cache, so the file must   *)
(* be as new as what the ticks have seen, at each moment between the       *)
(* fetcher's three writes: PlanInv.  That the file can be loaded again     *)
(* needs what is in the fetcher's hands to have passed the gate: GateInv.  *)
(* The expiry flag is about whatever the pointer held at some tick, and    *)
(* stands for the manifest of now only while the fetcher takes no other    *)
(* one under the same id (FetchInv): ExpiryInv follows an announcement     *)
(* from the flag over the manifest a tick has loaded to its decision.      *)
(***************************************************************************)
EXTENDS EdgeControl, EdgePolls, SequenceTheorems, FiniteSetTheorems, TLAPS

\* What has passed ValidateForEdge, and what has not yet.
GateInv ==
  /\ GatedNeverFollowed
  /\ fpc = "store" => ValidForEdge(got)

\* How new each copy of a manifest is.
PlanInv ==
  /\ latest.pub \in Nat /\ manifest.pub \in Nat /\ cache.pub \in Nat
  /\ got.pub \in Nat /\ followed \in Nat
  /\ manifest.pub <= latest.pub /\ cache.pub <= latest.pub /\ got.pub <= latest.pub
  /\ fpc \in {"check", "store"} => got.pub >= manifest.pub
  /\ fpc = "store" => cache = got \/ got.pub \in unsaved
  /\ cache.pub >= manifest.pub \/ manifest.pub \in unsaved
  /\ cache.pub >= followed \/ followed \in unsaved
  /\ NoOlderPlan

planVars == <<latest, manifest, cache, fpc, curID, got, unsaved, followed>>

\* Having no manifest is valid.
LEMMA NoManifestValid == ValidForEdge(NoManifest)
BY ControlAssumption DEF ControlAssumption, ValidForEdge, NoManifest

LEMMA GateInit == Init => GateInv
BY NoManifestValid DEF Init, GateInv, GatedNeverFollowed

LEMMA GateStep == GateInv /\ [Next]_vars => GateInv'
<1> SUFFICES ASSUME GateInv, [Next]_vars PROVE GateInv'
  OBVIOUS
<1> USE NoManifestValid DEF GateInv, GatedNeverFollowed, ValidForEdge
<1>1. CASE Advance
  BY <1>1 DEF Advance, fetchVars, coreVars
<1>2. CASE Restart
  BY <1>2 DEF Restart, FetchDone, TickDone
<1>3. CASE \E id \in Plans : Publish(id)
  BY <1>3 DEF Publish, fetchVars
<1>4. CASE (\E mode \in Modes : SetOverride(mode)) \/ ClearOverride \/ PushEvent
  BY <1>4 DEF SetOverride, ClearOverride, PushEvent, fetchVars, coreVars
<1>5. CASE FetchStart
  BY <1>5 DEF FetchStart, coreVars
<1>6. CASE FetchNothing
  BY <1>6 DEF FetchNothing, FetchDone, coreVars
<1>7. CASE FetchAnswer
  BY <1>7 DEF FetchAnswer, coreVars
<1>8. CASE Reject
  BY <1>8 DEF Reject, FetchDone, coreVars
<1>9. CASE SaveCache
  BY <1>9 DEF SaveCache, coreVars
<1>10. CASE StoreManifest
  BY <1>10 DEF StoreManifest, FetchDone, coreVars
<1>11. CASE ConsumeEvent
  BY <1>11 DEF ConsumeEvent, fetchVars
<1>12. CASE TickManifest
  BY <1>12 DEF TickManifest, fetchVars
<1>13. CASE TickOverride
  BY <1>13 DEF TickOverride, TickDone, fetchVars
<1>14. CASE TickClear
  BY <1>14 DEF TickClear, TickDone, fetchVars
<1>15. CASE UNCHANGED vars
  BY <1>15 DEF vars, fetchVars, coreVars
<1> QED
  BY <1>1, <1>2, <1>3, <1>4, <1>5, <1>6, <1>7, <1>8, <1>9, <1>10, <1>11, <1>12,
     <1>13, <1>14, <1>15 DEF Next, Fetcher, Core

LEMMA PlanInit == Init => PlanInv
BY DEF Init, PlanInv, NoOlderPlan, NoManifest

LEMMA PlanStep == GateInv /\ PlanInv /\ [Next]_vars => PlanInv'
<1> SUFFICES ASSUME GateInv, PlanInv, [Next]_vars PROVE PlanInv'
  OBVIOUS
<1> USE DEF PlanInv, NoOlderPlan
<1>1. CASE UNCHANGED planVars
  BY <1>1 DEF planVars
<1>2. CASE Restart
  <2>1. manifest' = cache
    BY <1>2 DEF Restart, GateInv, GatedNeverFollowed
  <2> QED
    BY <1>2, <2>1 DEF Restart, FetchDone, NoManifest, cloudVars
<1>3. CASE \E id \in Plans : Publish(id)
  BY <1>3 DEF Publish, fetchVars
<1>4. CASE FetchStart
  BY <1>4 DEF FetchStart, coreVars, cloudVars
<1>5. CASE FetchNothing
  BY <1>5 DEF FetchNothing, FetchDone, NoManifest, coreVars, cloudVars
<1>6. CASE FetchAnswer
  BY <1>6 DEF FetchAnswer, coreVars, cloudVars
<1>7. CASE Reject
  BY <1>7 DEF Reject, FetchDone, NoManifest, coreVars, cloudVars
<1>8. CASE SaveCache
  BY <1>8 DEF SaveCache, coreVars, cloudVars
<1>9. CASE StoreManifest
  BY <1>9 DEF StoreManifest, FetchDone, NoManifest, coreVars, cloudVars
<1>10. CASE TickManifest
  BY <1>10 DEF TickManifest, fetchVars
<1>11. Advance \/ (\E mode \in Modes : SetOverride(mode)) \/ ClearOverride
          \/ PushEvent \/ ConsumeEvent \/ TickOverride \/ TickClear \/ UNCHANGED vars
         => UNCHANGED planVars
  BY DEF Advance, SetOverride, ClearOverride, PushEvent, ConsumeEvent, TickOverride,
         TickClear, vars, planVars, cloudVars, fetchVars, coreVars
<1> QED
  BY <1>1, <1>2, <1>3, <1>4, <1>5, <1>6, <1>7, <1>8, <1>9, <1>10, <1>11
     DEF Next, Fetcher, Core

\* Whatever the cloud publishes and wherever the process stops, no manifest
\* refused by the gate is acted on or cached.
THEOREM ControlGatedNeverFollowed == Spec => []GatedNeverFollowed
<1>1. GateInv => GatedNeverFollowed
  BY DEF GateInv
<1> QED
  BY GateInit, GateStep, <1>1, PTL DEF Spec

\* The device never goes back behind a publication a tick has acted on,
\* except one its cache file could not take.
THEOREM ControlNoOlderPlan == Spec => []NoOlderPlan
<1>1. PlanInv => NoOlderPlan
  BY DEF PlanInv
<1> QED
  BY GateInit, GateStep, PlanInit, PlanStep, <1>1, PTL DEF Spec

-------------------------------------------------------------------------------
(* Types. *)

\* Events bear the clock of the moment they were made.
ChannelInv ==
  /\ \A i \in 1..Len(events) : events[i].ts \in 1..now
  /\ \A i \in 1..Len(unpushed) : unpushed[i].ts \in 1..now

\* While the fetcher works, pointer and core loop are at what it asked with,
\* and what it holds is another plan.
FetchInv ==
  /\ manifest.id = "none" => lastManifestID = "none"
  /\ fpc # "idle" => curID = manifest.id /\ curID = lastManifestID
  /\ fpc \in {"check", "store"} => got.id \notin {"none", curID}

\* A tick that is under way has its clock.
TickInv == pc # "idle" => tickAt > 0

ControlTypes == TypeOK /\ ChannelInv /\ FetchInv /\ TickInv /\ now > 0

LEMMA ControlTypesInit == Init => ControlTypes
<1> SUFFICES ASSUME Init PROVE ControlTypes
  OBVIOUS
<1> USE ControlAssumption DEF ControlAssumption
<1>1. ChannelInv /\ FetchInv /\ TickInv /\ now > 0
  BY DEF Init, ChannelInv, FetchInv, TickInv, NoManifest
<1>2. eventLastWritten \in [EventKeys -> 0..now]
  BY DEF Init, Never
<1>3. NoManifest \in Manifests /\ NoOverride \in Overrides
  BY DEF Manifests, Overrides
<1>4. now \in 0..MaxClock /\ tickAt \in 0..now /\ decision.at \in 0..now
  BY DEF Init, NoDecision
<1>5. {latest, manifest, cache, got, cur} \subseteq Manifests /\ {override, ordered} \subseteq Overrides
  BY <1>3 DEF Init
<1>6. /\ unpushed \in Seq(Events) /\ Len(unpushed) <= 1
      /\ events \in Seq(Events) /\ Len(events) <= EventCap
  BY DEF Init
<1>7. /\ {curID, lastManifestID} \subseteq Plans \cup {"none"} /\ confirmed \subseteq Plans
      /\ decision.source = "none" /\ decision.caps = "none"
  BY DEF Init, NoDecision
<1>8. manifestExpired \in BOOLEAN /\ reached \in BOOLEAN
  BY Zenon DEF Init
<1>9. unsaved \subseteq 1..MaxPubs
  BY DEF Init
<1>10. followed \in 0..MaxPubs /\ orders \in 0..MaxOrders
  BY DEF Init
<1>11. fpc = "idle" /\ pc = "idle" /\ restarts \in 0..MaxRestarts
  BY DEF Init
<1> QED
  BY <1>1, <1>2, <1>4, <1>5, <1>6, <1>7, <1>8, <1>9, <1>10, <1>11 DEF ControlTypes, TypeOK

\* The keys of the journal.
LEMMA KnownKeys ==
  /\ \A id \in Plans :
       /\ Key("applied", id) \in EventKeys /\ Key("expired", id) \in EventKeys
       /\ Key("rejected", id) \in EventKeys
  /\ \A mode \in Modes : Key("set", mode) \in EventKeys
  /\ Key("cleared", "expired") \in EventKeys /\ Key("cleared", "console") \in EventKeys
BY DEF Key, EventKeys

\* The five-minute rule writes an event, or finds one less than Dedup old; the
\* clock of a key only moves forward.
LEMMA WrittenClocks ==
  ASSUME eventLastWritten \in [EventKeys -> 0..now], now \in Nat,
         NEW keys, NEW ts \in 1..now
  PROVE /\ Written(keys, ts) \in [EventKeys -> 0..now]
        /\ \A k \in EventKeys :
             /\ Written(keys, ts)[k] >= eventLastWritten[k]
             /\ k \in keys =>
                  /\ Written(keys, ts)[k] # Never
                  /\ Written(keys, ts)[k] = ts \/ ts < Written(keys, ts)[k] + Dedup
BY ControlAssumption DEF ControlAssumption, Written, Never

\* Handing an event over keeps the channel's order, its bound and its stamps.
LEMMA Appended ==
  ASSUME TypeOK, ChannelInv, Len(events) < EventCap,
         NEW ev \in Events, ev.ts \in 1..now
  PROVE /\ Append(events, ev) \in Seq(Events) /\ Len(Append(events, ev)) <= EventCap
        /\ \A i \in 1..Len(Append(events, ev)) : Append(events, ev)[i].ts \in 1..now
BY ControlAssumption DEF ControlAssumption, TypeOK, ChannelInv

LEMMA Pushed ==
  ASSUME TypeOK, ChannelInv, Len(events) < EventCap
  PROVE /\ events \o unpushed \in Seq(Events) /\ Len(events \o unpushed) <= EventCap
        /\ \A i \in 1..Len(events \o unpushed) : (events \o unpushed)[i].ts \in 1..now
<1>1. /\ unpushed \in Seq(Events) /\ events \in Seq(Events) /\ Len(unpushed) <= 1
      /\ Len(events) \in Nat /\ Len(unpushed) \in Nat /\ EventCap \in Nat
  BY ControlAssumption, LenProperties DEF ControlAssumption, TypeOK
<1>2. /\ events \o unpushed \in Seq(Events)
      /\ Len(events \o unpushed) = Len(events) + Len(unpushed)
      /\ \A i \in 1 .. Len(events) + Len(unpushed) :
           (events \o unpushed)[i] = IF i <= Len(events) THEN events[i]
                                     ELSE unpushed[i - Len(events)]
  BY <1>1, ConcatProperties
<1> QED
  BY <1>1, <1>2 DEF ChannelInv

\* The loop takes the oldest event.
LEMMA Taken ==
  ASSUME TypeOK, ChannelInv, events # <<>>
  PROVE /\ Tail(events) \in Seq(Events) /\ Len(Tail(events)) <= EventCap
        /\ \A i \in 1..Len(Tail(events)) : Tail(events)[i].ts \in 1..now
        /\ Head(events).ts \in 1..now /\ Head(events) \in Events
<1>1. events \in Seq(Events) /\ Len(events) \in Nat /\ Len(events) <= EventCap
      /\ EventCap \in Nat
  BY ControlAssumption, LenProperties DEF ControlAssumption, TypeOK
<1>2. /\ Head(events) \in Events /\ Tail(events) \in Seq(Events)
      /\ Len(Tail(events)) = Len(events) - 1 /\ Len(events) # 0
      /\ \A i \in 1..Len(Tail(events)) : Tail(events)[i] = events[i + 1]
  BY <1>1, HeadTailProperties, EmptySeq
<1>3. Head(events) = events[1]
  BY <1>1, <1>2
<1> QED
  BY <1>1, <1>2, <1>3 DEF ChannelInv

\* TypeOK by the parts that change together.
CopyTypes ==
  /\ {latest, manifest, cache, got, cur} \subseteq Manifests
  /\ confirmed \subseteq Plans /\ fpc \in {"idle", "asked", "check", "store"}
  /\ {curID, lastManifestID} \subseteq Plans \cup {"none"}
  /\ unsaved \subseteq 1..MaxPubs /\ followed \in 0..MaxPubs

ConsoleTypes ==
  /\ {override, ordered} \subseteq Overrides /\ orders \in 0..MaxOrders
  /\ unpushed \in Seq(Events) /\ Len(unpushed) <= 1
  /\ events \in Seq(Events) /\ Len(events) <= EventCap

LoopTypes ==
  /\ now \in 0..MaxClock /\ restarts \in 0..MaxRestarts
  /\ pc \in {"idle", "override", "clear"} /\ tickAt \in 0..now
  /\ eventLastWritten \in [EventKeys -> 0..now]
  /\ decision.source \in {"none", "config", "manifest", "fallback", "override"}
  /\ decision.caps \in Plans \cup {"none"} /\ decision.at \in 0..now

LEMMA TypesOfParts ==
  TypeOK <=> /\ CopyTypes /\ ConsoleTypes /\ LoopTypes
             /\ manifestExpired \in BOOLEAN /\ reached \in BOOLEAN
BY Zenon DEF TypeOK, CopyTypes, ConsoleTypes, LoopTypes

copyVars == <<latest, confirmed, manifest, cache, fpc, curID, got, unsaved, cur,
              lastManifestID, followed>>

LEMMA CopyTypesStep == ControlTypes /\ [Next]_vars => CopyTypes'
<1> SUFFICES ASSUME TypeOK, FetchInv, [Next]_vars PROVE CopyTypes'
  BY DEF ControlTypes
<1> USE ControlAssumption DEF ControlAssumption
<1>1. NoManifest \in Manifests /\ NoManifest.id = "none"
  BY DEF Manifests, NoManifest
<1>2. CopyTypes
  BY TypesOfParts
<1>3. CASE UNCHANGED copyVars
  BY <1>2, <1>3 DEF CopyTypes, copyVars
<1>4. ASSUME NEW id \in Plans, Publish(id) PROVE CopyTypes'
  <2>1. latest.pub \in 0..MaxPubs /\ now \in Nat
    <3>1. latest \in Manifests
      BY <1>2 DEF CopyTypes
    <3>2. now \in 0..MaxClock
      BY TypesOfParts DEF LoopTypes
    <3> QED
      BY <3>1, <3>2 DEF Manifests, NoManifest
  <2>2. latest' \in Manifests
    BY <1>4, <2>1 DEF Publish, Manifests
  <2> QED
    BY <1>2, <1>4, <2>2 DEF CopyTypes, Publish, fetchVars
<1>5. CASE FetchStart \/ FetchNothing \/ FetchAnswer \/ Reject \/ StoreManifest
  BY <1>1, <1>2, <1>5
     DEF CopyTypes, FetchStart, FetchNothing, FetchAnswer, Reject, StoreManifest, FetchDone,
         Manifests, cloudVars, coreVars
<1>6. CASE SaveCache
  <2>1. got.pub \in 1..MaxPubs
    BY <1>2, <1>6 DEF SaveCache, FetchInv, CopyTypes, Manifests, NoManifest
  <2> QED
    BY <1>2, <1>6, <2>1 DEF CopyTypes, SaveCache, cloudVars, coreVars
<1>7. CASE TickManifest
  <2>1. manifest.id \in Plans \cup {"none"} /\ manifest.pub \in 0..MaxPubs
    BY <1>2 DEF CopyTypes, Manifests, NoManifest
  <2>2. confirmed' \subseteq Plans
    BY <1>2, <1>7, <2>1 DEF CopyTypes, TickManifest
  <2> QED
    BY <1>2, <1>7, <2>1, <2>2 DEF CopyTypes, TickManifest, fetchVars
<1>8. CASE TickOverride \/ TickClear
  BY <1>1, <1>2, <1>8 DEF CopyTypes, TickOverride, TickClear, TickDone, cloudVars, fetchVars
<1>9. CASE Restart
  BY <1>1, <1>2, <1>9 DEF CopyTypes, Restart, FetchDone, TickDone, cloudVars
<1>10. Advance \/ (\E mode \in Modes : SetOverride(mode)) \/ ClearOverride
          \/ PushEvent \/ ConsumeEvent \/ UNCHANGED vars
         => UNCHANGED copyVars
  BY DEF Advance, SetOverride, ClearOverride, PushEvent, ConsumeEvent,
         vars, copyVars, cloudVars, fetchVars, coreVars
<1> QED
  BY <1>3, <1>4, <1>5, <1>6, <1>7, <1>8, <1>9, <1>10 DEF Next, Fetcher, Core

LEMMA ConsoleTypesStep == ControlTypes /\ [Next]_vars => (ConsoleTypes /\ ChannelInv)'
<1> SUFFICES ASSUME ControlTypes, TypeOK, ChannelInv, [Next]_vars
             PROVE (ConsoleTypes /\ ChannelInv)'
  BY DEF ControlTypes
<1> USE ControlAssumption DEF ControlAssumption
<1>1. NoOverride \in Overrides /\ now \in Nat \ {0}
  BY DEF Overrides, NoOverride, TypeOK, ControlTypes
<1>2. ConsoleTypes
  BY TypesOfParts
<1>3. CASE UNCHANGED <<override, consoleVars, events>>
  <2>1. now' \in Nat /\ now' >= now
    BY <1>1 DEF Next, vars, Advance, Restart, Publish, SetOverride, ClearOverride, PushEvent,
           Fetcher, FetchStart, FetchNothing, FetchAnswer, Reject, SaveCache, StoreManifest,
           Core, ConsumeEvent, TickManifest, TickOverride, TickClear
  <2> QED
    BY <1>1, <1>2, <1>3, <2>1 DEF ConsoleTypes, ChannelInv, consoleVars
<1>4. ASSUME NEW mode \in Modes, SetOverride(mode) PROVE (ConsoleTypes /\ ChannelInv)'
  <2>1. override' \in Overrides
    BY <1>1, <1>4 DEF SetOverride, Overrides
  <2>2. [key |-> Key("set", mode), ts |-> now] \in Events
    BY <1>1, KnownKeys DEF Events
  <2> QED
    BY <1>1, <1>2, <1>4, <2>1, <2>2 DEF ConsoleTypes, ChannelInv, SetOverride
<1>5. CASE ClearOverride
  <2>1. [key |-> Key("cleared", "console"), ts |-> now] \in Events
    BY <1>1, KnownKeys DEF Events
  <2> QED
    BY <1>1, <1>2, <1>5, <2>1 DEF ConsoleTypes, ChannelInv, ClearOverride
<1>6. CASE PushEvent
  BY <1>1, <1>2, <1>6, Pushed DEF ConsoleTypes, ChannelInv, PushEvent
<1>7. CASE Reject
  <2>1. got.id \in Plans
    BY <1>7 DEF Reject, FetchInv, ControlTypes, TypeOK, Manifests, NoManifest
  <2>2. [key |-> Key("rejected", got.id), ts |-> now] \in Events
    BY <1>1, <2>1, KnownKeys DEF Events
  <2> QED
    BY <1>1, <1>2, <1>7, <2>2, Appended DEF ConsoleTypes, ChannelInv, Reject, consoleVars
<1>8. CASE ConsumeEvent
  BY <1>1, <1>2, <1>8, Taken DEF ConsoleTypes, ChannelInv, ConsumeEvent, consoleVars
<1>9. CASE TickClear
  BY <1>1, <1>2, <1>9 DEF ConsoleTypes, ChannelInv, TickClear, consoleVars
<1>10. CASE Restart
  BY <1>1, <1>2, <1>10 DEF ConsoleTypes, ChannelInv, Restart
<1>11. Advance \/ (\E id \in Plans : Publish(id)) \/ FetchStart \/ FetchNothing \/ FetchAnswer
          \/ SaveCache \/ StoreManifest \/ TickManifest \/ TickOverride \/ UNCHANGED vars
         => UNCHANGED <<override, consoleVars, events>>
  BY DEF Advance, Publish, FetchStart, FetchNothing, FetchAnswer, SaveCache, StoreManifest,
         TickManifest, TickOverride, vars, consoleVars
<1> QED
  BY <1>3, <1>4, <1>5, <1>6, <1>7, <1>8, <1>9, <1>10, <1>11 DEF Next, Fetcher, Core

LEMMA LoopTypesStep == ControlTypes /\ [Next]_vars => LoopTypes'
<1> SUFFICES ASSUME ControlTypes, TypeOK, ChannelInv, [Next]_vars PROVE LoopTypes'
  BY DEF ControlTypes
<1> USE ControlAssumption DEF ControlAssumption
<1>1. now \in Nat \ {0} /\ NoManifest \in Manifests /\ cur \in Manifests /\ manifest \in Manifests
  BY DEF TypeOK, ControlTypes, Manifests, NoManifest
<1>2. LoopTypes
  BY TypesOfParts
<1>3. CASE Advance
  BY <1>1, <1>2, <1>3 DEF LoopTypes, Advance, coreVars
<1>4. CASE ConsumeEvent
  BY <1>1, <1>2, <1>4, Taken, WrittenClocks DEF LoopTypes, ConsumeEvent
<1>5. CASE TickManifest
  BY <1>1, <1>2, <1>5, WrittenClocks DEF LoopTypes, TickManifest
<1>6. \A ov : LET did == Decided(ov)
              IN /\ did.source \in {"none", "config", "manifest", "fallback", "override"}
                 /\ did.caps \in Plans \cup {"none"} /\ did.at \in 0..now
  BY <1>1, <1>2 DEF Decided, LoopTypes, Manifests, NoManifest
<1>7. CASE TickOverride
  BY <1>1, <1>2, <1>6, <1>7 DEF LoopTypes, TickOverride, TickDone
<1>8. CASE TickClear
  <2>1. tickAt \in 1..now
    BY <1>2, <1>8 DEF LoopTypes, TickClear, TickInv, ControlTypes
  <2>2. eventLastWritten' \in [EventKeys -> 0..now]
    BY <1>1, <1>2, <1>8, <2>1, WrittenClocks DEF LoopTypes, TickClear
  <2>3. pc' = "idle" /\ tickAt' = 0 /\ decision' = Decided(NoOverride)
        /\ UNCHANGED <<now, restarts>>
    BY <1>8 DEF TickClear, TickDone
  <2>4. /\ decision'.source \in {"none", "config", "manifest", "fallback", "override"}
        /\ decision'.caps \in Plans \cup {"none"} /\ decision'.at \in 0..now
    BY <1>6, <2>3
  <2> QED
    BY <1>1, <1>2, <2>2, <2>3, <2>4 DEF LoopTypes
<1>9. CASE Restart
  BY <1>1, <1>2, <1>9 DEF LoopTypes, Restart, TickDone, NoDecision, Never
<1>10. (\E id \in Plans : Publish(id)) \/ (\E mode \in Modes : SetOverride(mode))
          \/ ClearOverride \/ PushEvent \/ Fetcher \/ UNCHANGED vars
         => UNCHANGED <<now, restarts, pc, tickAt, eventLastWritten, decision>>
  BY DEF Publish, SetOverride, ClearOverride, PushEvent, Fetcher, FetchStart, FetchNothing,
         FetchAnswer, Reject, SaveCache, StoreManifest, vars, coreVars
<1>11. CASE UNCHANGED <<now, restarts, pc, tickAt, eventLastWritten, decision>>
  BY <1>2, <1>11 DEF LoopTypes
<1> QED
  BY <1>3, <1>4, <1>5, <1>7, <1>8, <1>9, <1>10, <1>11 DEF Next, Core

LEMMA FlagTypesStep ==
  ASSUME TypeOK, [Next]_vars
  PROVE manifestExpired' \in BOOLEAN /\ reached' \in BOOLEAN
<1>1. manifestExpired \in BOOLEAN /\ reached \in BOOLEAN
  BY Zenon DEF TypeOK
<1>2. \/ UNCHANGED <<manifestExpired, reached>> \/ TickManifest \/ Restart
      \/ \E id \in Plans : Publish(id)
  BY DEF Next, Advance, SetOverride, ClearOverride, PushEvent, Fetcher, FetchStart, FetchNothing,
         FetchAnswer, Reject, SaveCache, StoreManifest, Core, ConsumeEvent, TickOverride,
         TickClear, vars, coreVars
<1> QED
  BY <1>1, <1>2, Zenon DEF TickManifest, Restart, Publish

LEMMA FetchInvStep == ControlTypes /\ [Next]_vars => FetchInv'
<1> SUFFICES ASSUME TypeOK, FetchInv, [Next]_vars PROVE FetchInv'
  BY DEF ControlTypes
<1> USE ControlAssumption DEF ControlAssumption, FetchInv
<1>1. CASE UNCHANGED <<manifest, fpc, curID, got, lastManifestID>>
  BY <1>1
<1>2. CASE FetchStart
  BY <1>2 DEF FetchStart, coreVars
<1>3. CASE FetchNothing \/ Reject
  BY <1>3 DEF FetchNothing, Reject, FetchDone, coreVars
<1>4. CASE FetchAnswer
  BY <1>4 DEF FetchAnswer, coreVars
<1>5. CASE SaveCache
  BY <1>5 DEF SaveCache, coreVars
<1>6. CASE StoreManifest
  BY <1>6 DEF StoreManifest, FetchDone, coreVars
<1>7. CASE TickManifest
  BY <1>7 DEF TickManifest, fetchVars
<1>8. CASE Restart
  BY <1>8 DEF Restart, FetchDone
<1>9. Advance \/ (\E id \in Plans : Publish(id)) \/ (\E mode \in Modes : SetOverride(mode))
         \/ ClearOverride \/ PushEvent \/ ConsumeEvent \/ TickOverride \/ TickClear
         \/ UNCHANGED vars
        => UNCHANGED <<manifest, fpc, curID, got, lastManifestID>>
  BY DEF Advance, Publish, SetOverride, ClearOverride, PushEvent, ConsumeEvent, TickOverride,
         TickClear, vars, fetchVars, coreVars
<1> QED
  BY <1>1, <1>2, <1>3, <1>4, <1>5, <1>6, <1>7, <1>8, <1>9 DEF Next, Fetcher, Core

LEMMA TickInvStep == ControlTypes /\ [Next]_vars => TickInv' /\ now' > 0
<1> SUFFICES ASSUME TypeOK, TickInv, now > 0, [Next]_vars PROVE TickInv' /\ now' > 0
  BY DEF ControlTypes
<1>1. now \in Nat
  BY ControlAssumption DEF ControlAssumption, TypeOK
<1>2. CASE UNCHANGED <<now, pc, tickAt>>
  BY <1>2 DEF TickInv
<1>3. CASE Advance
  BY <1>1, <1>3 DEF Advance, TickInv, coreVars
<1>4. CASE TickManifest
  BY <1>1, <1>4 DEF TickManifest, TickInv
<1>5. CASE TickOverride
  BY <1>1, <1>5 DEF TickOverride, TickDone, TickInv
<1>6. CASE TickClear \/ Restart
  BY <1>1, <1>6 DEF TickClear, Restart, TickDone, TickInv
<1>7. (\E id \in Plans : Publish(id)) \/ (\E mode \in Modes : SetOverride(mode))
         \/ ClearOverride \/ PushEvent \/ Fetcher \/ ConsumeEvent \/ UNCHANGED vars
        => UNCHANGED <<now, pc, tickAt>>
  BY DEF Publish, SetOverride, ClearOverride, PushEvent, Fetcher, FetchStart, FetchNothing,
         FetchAnswer, Reject, SaveCache, StoreManifest, ConsumeEvent, vars, coreVars
<1> QED
  BY <1>2, <1>3, <1>4, <1>5, <1>6, <1>7 DEF Next, Core

LEMMA ControlTypesStep == ControlTypes /\ [Next]_vars => ControlTypes'
<1> SUFFICES ASSUME ControlTypes, TypeOK, [Next]_vars PROVE ControlTypes'
  BY DEF ControlTypes
<1>1. CopyTypes' /\ LoopTypes' /\ (ConsoleTypes /\ ChannelInv)'
  BY CopyTypesStep, ConsoleTypesStep, LoopTypesStep
<1>2. manifestExpired' \in BOOLEAN /\ reached' \in BOOLEAN
  BY FlagTypesStep
<1>3. TypeOK'
  BY <1>1, <1>2, Zenon DEF TypeOK, CopyTypes, ConsoleTypes, LoopTypes
<1>4. FetchInv' /\ TickInv' /\ now' > 0
  BY FetchInvStep, TickInvStep
<1> QED
  BY <1>1, <1>3, <1>4 DEF ControlTypes

\* Every variable has its type, for every set of plans and modes, every room
\* in the events channel and every bound.
THEOREM ControlTypeOK == Spec => []TypeOK
<1>1. ControlTypes => TypeOK
  BY DEF ControlTypes
<1> QED
  BY ControlTypesInit, ControlTypesStep, <1>1, PTL DEF Spec

-------------------------------------------------------------------------------
(* What a fallback has announced. *)

\* A manifest is valid from its publication on: with no lead of the cloud's
\* clock, from the moment anybody can hold it.
BegunInv == \A m \in {latest, manifest, cache, got} : m.from <= now

\* The expiry of m has been journalled no longer than Dedup before it.
Told(m) ==
  LET written == eventLastWritten[Key("expired", m.id)]
  IN written # Never /\ written + Dedup > m.until

\* The flag stands for an announcement of the manifest in force, what a tick
\* has loaded is announced if it has run out, and so is what the last
\* decision fell back from.
FlagInv ==
  manifestExpired /\ manifest.id # "none" /\ manifest.id = lastManifestID => Told(manifest)

LoadedInv ==
  pc # "idle" /\ cur.id # "none" => cur.from <= tickAt /\ (tickAt > cur.until => Told(cur))

FellBackInv ==
  decision.source = "fallback" /\ decision.at > decision.until
    => LET written == eventLastWritten[Key("expired", decision.caps)]
       IN /\ decision.caps \in Plans /\ decision.until \in Nat
          /\ written # Never /\ written + Dedup > decision.until

ExpiryInv == BegunInv /\ FlagInv /\ LoadedInv /\ FellBackInv

LEMMA BegunStep == Lead = 0 /\ ControlTypes /\ BegunInv /\ [Next]_vars => BegunInv'
<1> SUFFICES ASSUME Lead = 0, TypeOK, BegunInv, [Next]_vars PROVE BegunInv'
  BY DEF ControlTypes
<1>1. now \in Nat /\ NoManifest.from = 0
  BY ControlAssumption DEF ControlAssumption, TypeOK, NoManifest
<1>2. CASE UNCHANGED <<now, latest, manifest, cache, got>>
  BY <1>2 DEF BegunInv
<1>3. CASE Advance
  <2>1. \A m \in {latest, manifest, cache, got} : m \in Manifests
    BY DEF TypeOK
  <2>2. \A m \in Manifests : m.from \in Nat
    BY DEF Manifests, NoManifest
  <2> QED
    BY <1>1, <1>3, <2>1, <2>2 DEF Advance, BegunInv, cloudVars, fetchVars
<1>4. CASE \E id \in Plans : Publish(id)
  BY <1>1, <1>4 DEF Publish, BegunInv, fetchVars
<1>5. CASE FetchNothing \/ Reject \/ StoreManifest \/ FetchAnswer \/ SaveCache
  BY <1>1, <1>5 DEF FetchNothing, Reject, StoreManifest, FetchAnswer, SaveCache, FetchDone,
                    BegunInv, cloudVars
<1>6. CASE Restart
  BY <1>1, <1>6 DEF Restart, FetchDone, BegunInv, cloudVars
<1>7. (\E mode \in Modes : SetOverride(mode)) \/ ClearOverride \/ PushEvent \/ FetchStart
         \/ Core \/ UNCHANGED vars
        => UNCHANGED <<now, latest, manifest, cache, got>>
  BY DEF SetOverride, ClearOverride, PushEvent, FetchStart, Core, ConsumeEvent, TickManifest,
         TickOverride, TickClear, vars, cloudVars, fetchVars
<1> QED
  BY <1>2, <1>3, <1>4, <1>5, <1>6, <1>7 DEF Next, Fetcher

\* While the process runs, what the journal has of a key only gets newer: what
\* has been told stays told.
LEMMA StaysTold ==
  ASSUME ControlTypes, [Next]_vars, ~Restart, NEW id \in Plans, NEW until \in Nat,
         eventLastWritten[Key("expired", id)] # Never,
         eventLastWritten[Key("expired", id)] + Dedup > until
  PROVE /\ eventLastWritten'[Key("expired", id)] # Never
        /\ eventLastWritten'[Key("expired", id)] + Dedup > until
<1> DEFINE k == Key("expired", id)
<1>1. k \in EventKeys /\ Dedup \in Nat /\ now \in Nat /\ now > 0
      /\ eventLastWritten \in [EventKeys -> 0..now]
  BY KnownKeys, ControlAssumption DEF ControlAssumption, ControlTypes, TypeOK
<1>2. eventLastWritten'[k] \in Nat /\ eventLastWritten'[k] >= eventLastWritten[k]
  <2>1. CASE UNCHANGED eventLastWritten
    BY <1>1, <2>1
  <2>2. CASE ConsumeEvent
    <3>1. Head(events).ts \in 1..now
      BY <2>2, Taken DEF ConsumeEvent, ControlTypes
    <3> QED
      BY <1>1, <2>2, <3>1, WrittenClocks DEF ConsumeEvent
  <2>3. CASE TickManifest
    BY <1>1, <2>3, WrittenClocks DEF TickManifest
  <2>4. CASE TickClear
    <3>1. tickAt \in 1..now
      BY <2>4 DEF TickClear, TickInv, ControlTypes, TypeOK
    <3> QED
      BY <1>1, <2>4, <3>1, WrittenClocks DEF TickClear
  <2>5. \/ UNCHANGED eventLastWritten \/ ConsumeEvent \/ TickManifest \/ TickClear
    BY DEF Next, Advance, Publish, SetOverride, ClearOverride, PushEvent, Fetcher, FetchStart,
           FetchNothing, FetchAnswer, Reject, SaveCache, StoreManifest, Core, TickOverride,
           vars, coreVars
  <2> QED
    BY <2>1, <2>2, <2>3, <2>4, <2>5
<1>3. eventLastWritten[k] # Never /\ eventLastWritten[k] + Dedup > until
      /\ eventLastWritten[k] \in Nat
  BY <1>1
<1> QED
  BY <1>1, <1>2, <1>3 DEF Never

LEMMA WrittenNow ==
  ASSUME ControlTypes, NEW keys, NEW k \in EventKeys, k \in keys
  PROVE LET written == Written(keys, now)[k]
        IN /\ written \in Nat /\ written # Never
           /\ written = now \/ now < written + Dedup
<1>1. eventLastWritten \in [EventKeys -> 0..now] /\ now \in Nat /\ now \in 1..now
  BY ControlAssumption DEF ControlAssumption, ControlTypes, TypeOK
<1>2. Written(keys, now) \in [EventKeys -> 0..now]
  BY <1>1, WrittenClocks
<1> QED
  BY <1>1, <1>2, WrittenClocks

LEMMA ManifestTypes ==
  ASSUME ControlTypes, NEW m \in {latest, manifest, cache, got, cur}, m.id # "none"
  PROVE m.id \in Plans /\ m.from \in Nat /\ m.until \in Nat
<1>1. m \in Manifests
  BY DEF ControlTypes, TypeOK
<1> QED
  BY <1>1 DEF Manifests, NoManifest

\* A tick that loads a manifest which has run out finds it announced by the
\* flag, or announces it.
LEMMA LoadedTold ==
  ASSUME ControlTypes, BegunInv, FlagInv, TickManifest, manifest.id # "none"
  PROVE (manifestExpired' => Told(manifest)') /\ (now > manifest.until => Told(manifest)')
<1>1. /\ manifest.id \in Plans /\ manifest.from \in Nat /\ manifest.until \in Nat
      /\ manifest.from <= now /\ now \in Nat /\ now > 0 /\ manifest' = manifest
      /\ Dedup \in Nat /\ ~Restart
  BY ControlAssumption, ManifestTypes
     DEF ControlAssumption, ControlTypes, TypeOK, BegunInv, TickManifest, Restart, TickDone
<1> DEFINE isNew == manifest.id \notin {"none", lastManifestID}
           wasExpired == manifestExpired /\ ~isNew
           isExpired == manifest.id # "none" /\ ~ActiveAt(manifest, now) /\ ~wasExpired
<1>2. CASE isExpired
  <2>1. eventLastWritten' = Written((IF isNew THEN {Key("applied", manifest.id)} ELSE {})
                                      \cup {Key("expired", manifest.id)}, now)
    BY <1>2 DEF TickManifest
  <2>2. LET written == eventLastWritten'[Key("expired", manifest.id)]
        IN /\ written \in Nat /\ written # Never
           /\ written = now \/ now < written + Dedup
    BY <1>1, <2>1, KnownKeys, WrittenNow
  <2>3. now > manifest.until
    BY <1>1, <1>2 DEF ActiveAt
  <2> QED
    BY <1>1, <2>2, <2>3 DEF Told
<1>3. CASE wasExpired
  <2>1. Told(manifest)
    BY <1>1, <1>3 DEF FlagInv
  <2> QED
    BY <1>1, <2>1, StaysTold DEF Told, Next, Core
<1>4. CASE ~isExpired /\ ~wasExpired
  <2>1. ActiveAt(manifest, now)
    BY <1>4
  <2>2. ~(now > manifest.until)
    BY <1>1, <2>1 DEF ActiveAt
  <2>3. ~manifestExpired'
    BY <1>4, Zenon DEF TickManifest
  <2> QED
    BY <2>2, <2>3
<1> QED
  BY <1>2, <1>3, <1>4

LEMMA FlagStep == ControlTypes /\ BegunInv /\ FlagInv /\ [Next]_vars => FlagInv'
<1> SUFFICES ASSUME ControlTypes, BegunInv, FlagInv, [Next]_vars PROVE FlagInv'
  OBVIOUS
<1>1. CASE Restart
  BY <1>1 DEF Restart, FlagInv
<1>2. CASE TickManifest
  BY <1>2, LoadedTold DEF FlagInv, TickManifest
<1>3. CASE StoreManifest
  BY <1>3 DEF StoreManifest, FlagInv, FetchInv, ControlTypes, coreVars
<1>4. CASE UNCHANGED <<manifest, manifestExpired, lastManifestID>> /\ ~Restart
  <2>1. manifest.id # "none" => manifest.id \in Plans /\ manifest.until \in Nat
    BY ManifestTypes
  <2> QED
    BY <1>4, <2>1, StaysTold DEF FlagInv, Told
<1>5. \/ Restart \/ TickManifest \/ StoreManifest
      \/ UNCHANGED <<manifest, manifestExpired, lastManifestID>> /\ ~Restart
  BY DEF Next, Advance, Publish, SetOverride, ClearOverride, PushEvent, Fetcher, FetchStart,
         FetchNothing, FetchAnswer, Reject, SaveCache, Core, ConsumeEvent, TickOverride,
         TickClear, vars, fetchVars, coreVars
<1> QED
  BY <1>1, <1>2, <1>3, <1>4, <1>5

LEMMA LoadedStep == ControlTypes /\ BegunInv /\ FlagInv /\ LoadedInv /\ [Next]_vars => LoadedInv'
<1> SUFFICES ASSUME ControlTypes, BegunInv, FlagInv, LoadedInv, [Next]_vars PROVE LoadedInv'
  OBVIOUS
<1>1. CASE Restart
  BY <1>1 DEF Restart, TickDone, LoadedInv
<1>2. CASE TickManifest
  BY <1>2, LoadedTold DEF LoadedInv, Told, BegunInv, TickManifest
<1>3. CASE TickDone
  BY <1>3 DEF TickDone, LoadedInv
<1>4. CASE UNCHANGED <<tickAt, cur>> /\ ~Restart /\ (pc' # "idle" => pc # "idle")
  <2>1. cur.id # "none" => cur.id \in Plans /\ cur.until \in Nat
    BY ManifestTypes
  <2> QED
    BY <1>4, <2>1, StaysTold DEF LoadedInv, Told
<1>5. \/ Restart \/ TickManifest \/ TickDone
      \/ UNCHANGED <<tickAt, cur>> /\ ~Restart /\ (pc' # "idle" => pc # "idle")
  BY DEF Next, Advance, Publish, SetOverride, ClearOverride, PushEvent, Fetcher, FetchStart,
         FetchNothing, FetchAnswer, Reject, SaveCache, StoreManifest, Core, ConsumeEvent,
         TickOverride, TickClear, Restart, vars, coreVars
<1> QED
  BY <1>1, <1>2, <1>3, <1>4, <1>5

\* A decision that falls back has the announcement of what it loaded.
LEMMA DecidedTold ==
  ASSUME ControlTypes, LoadedInv, FellBackInv, pc # "idle", NEW ov,
         Decided(ov).source = "fallback", Decided(ov).at > Decided(ov).until
  PROVE LET written == eventLastWritten[Key("expired", Decided(ov).caps)]
        IN /\ Decided(ov).caps \in Plans /\ Decided(ov).until \in Nat
           /\ written # Never /\ written + Dedup > Decided(ov).until
<1>1. CASE ~InForce(ov, tickAt)
  <2>1. Decided(ov) = [source |-> CASE cur.id = "none" -> "config"
                                    [] ActiveAt(cur, tickAt) -> "manifest"
                                    [] OTHER -> "fallback",
                       caps |-> cur.id, at |-> tickAt, until |-> cur.until]
    BY <1>1 DEF Decided
  <2>2. cur.id # "none" /\ tickAt > cur.until
    BY <2>1
  <2> QED
    BY <2>1, <2>2, ManifestTypes DEF LoadedInv, Told
<1>2. CASE InForce(ov, tickAt) /\ ov.mode = "monitor"
  BY <1>2 DEF Decided, FellBackInv
<1>3. CASE InForce(ov, tickAt) /\ ov.mode # "monitor"
  BY <1>3 DEF Decided
<1> QED
  BY <1>1, <1>2, <1>3

LEMMA FellBackStep == ControlTypes /\ LoadedInv /\ FellBackInv /\ [Next]_vars => FellBackInv'
<1> SUFFICES ASSUME ControlTypes, LoadedInv, FellBackInv, [Next]_vars PROVE FellBackInv'
  OBVIOUS
<1>1. CASE Restart
  BY <1>1 DEF Restart, FellBackInv, NoDecision
<1>2. CASE decision' = decision /\ ~Restart
  BY <1>2, StaysTold DEF FellBackInv
<1>3. ASSUME NEW ov, decision' = Decided(ov), pc # "idle", ~Restart PROVE FellBackInv'
  BY <1>3, DecidedTold, StaysTold DEF FellBackInv
<1>4. restarts' = restarts => ~Restart
  BY DEF Restart, ControlTypes, TypeOK
<1>5. CASE TickOverride \/ TickClear
  <2>1. ~Restart
    BY <1>4, <1>5 DEF TickOverride, TickClear
  <2>2. pc # "idle" /\ (decision' = decision \/ \E ov : decision' = Decided(ov))
    BY <1>5 DEF TickOverride, TickClear
  <2> QED
    BY <1>2, <1>3, <2>1, <2>2
<1>6. Restart \/ TickOverride \/ TickClear \/ (decision' = decision /\ ~Restart)
  BY DEF Next, Advance, Publish, SetOverride, ClearOverride, PushEvent, Fetcher, FetchStart,
         FetchNothing, FetchAnswer, Reject, SaveCache, StoreManifest, Core, ConsumeEvent,
         TickManifest, vars, coreVars
<1> QED
  BY <1>1, <1>2, <1>5, <1>6

LEMMA ExpiryInit == Init => ExpiryInv
BY ControlAssumption
   DEF ControlAssumption, Init, ExpiryInv, BegunInv, FlagInv, LoadedInv, FellBackInv,
       NoManifest, NoDecision

\* With no lead of the cloud's clock, a fallback from a plan that ran out is
\* always announced, however long the plans last and the five minutes are.
THEOREM ControlExpiryAnnounced == Lead = 0 => (Spec => []ExpiryAnnounced)
<1> SUFFICES ASSUME Lead = 0 PROVE Spec => []ExpiryAnnounced
  OBVIOUS
<1>1. ExpiryInv => ExpiryAnnounced
  BY DEF ExpiryInv, FellBackInv, ExpiryAnnounced
<1>2. ControlTypes /\ ExpiryInv /\ [Next]_vars => ExpiryInv'
  BY BegunStep, FlagStep, LoadedStep, FellBackStep DEF ExpiryInv
<1> QED
  BY ControlTypesInit, ControlTypesStep, ExpiryInit, <1>1, <1>2, PTL DEF Spec

-------------------------------------------------------------------------------
(* The pollers.                                                            *)
(*                                                                         *)
(* The counter of one logger follows the attempts over any number of       *)
(* sessions, its flag the counter and the journal its flag.  A key is in   *)
(* one request, so one answer decides what is held of it and whether it is *)
(* asked for again.  A sweep blames a unit for the link only after the     *)
(* link was seen down, also by a session that broke before the sweep.      *)

CountInv ==
  /\ failures \in 0..PollFailThreshold /\ silent = failures
  /\ failEventSent <=> failures >= PollFailThreshold
  /\ open = IF failures >= PollFailThreshold THEN 1 ELSE 0

AnswersInv ==
  /\ DOMAIN newest = AllKeys /\ readable \subseteq AllKeys /\ held \subseteq AllKeys
  /\ HeldAsAnswered

LEMMA CountStep == CountInv /\ [PollerNext]_pollerVars => CountInv'
<1> SUFFICES ASSUME CountInv, [PollerNext]_pollerVars PROVE CountInv'
  OBVIOUS
<1>1. PollFailThreshold \in Nat /\ PollFailThreshold > 0
  BY PollerAssumption DEF PollerAssumption
<1>2. CASE Fails
  <2> DEFINE enough == Counted(failures) >= PollFailThreshold
  <2>1. /\ failures' = Counted(failures) /\ silent' = Counted(silent)
        /\ failEventSent' = (failEventSent \/ (~failEventSent /\ enough))
        /\ open' = IF ~failEventSent /\ enough THEN open + 1 ELSE open
    BY <1>2, Zenon DEF Fails
  <2>2. failEventSent' <=> failEventSent \/ enough
    BY <2>1, Zenon
  <2>3. Counted(failures) \in 0..PollFailThreshold /\ Counted(failures) >= failures
    BY <1>1 DEF CountInv, Counted
  <2>4. open' = IF enough THEN 1 ELSE 0
    <3>1. CASE failEventSent
      BY <1>1, <2>1, <2>3, <3>1 DEF CountInv
    <3>2. CASE ~failEventSent
      BY <1>1, <2>1, <2>3, <3>2 DEF CountInv
    <3> QED BY <3>1, <3>2
  <2>5. failEventSent \/ enough <=> enough
    BY <1>1, <2>3 DEF CountInv
  <2>6. /\ failures' \in 0..PollFailThreshold /\ silent' = failures'
        /\ enough <=> failures' >= PollFailThreshold
    BY <2>1, <2>3 DEF CountInv
  <2>7. failEventSent' <=> failures' >= PollFailThreshold
    BY <2>2, <2>5, <2>6, Zenon
  <2>8. open' = IF failures' >= PollFailThreshold THEN 1 ELSE 0
    BY <2>1, <2>4
  <2> QED
    BY <2>6, <2>7, <2>8, Zenon DEF CountInv
<1>3. CASE PollSucceeds
  <2>1. /\ failures' = 0 /\ silent' = 0 /\ failEventSent' = FALSE
        /\ open' = IF failEventSent THEN open - 1 ELSE open
    BY <1>3, Zenon DEF PollSucceeds
  <2>2. open' = 0
    <3>1. CASE failEventSent
      BY <2>1, <3>1 DEF CountInv
    <3>2. CASE ~failEventSent
      BY <2>1, <3>2 DEF CountInv
    <3> QED BY <3>1, <3>2
  <2> QED
    BY <1>1, <2>1, <2>2 DEF CountInv
<1>4. CASE UNCHANGED failVars
  BY <1>4 DEF CountInv, failVars
<1> QED
  BY <1>2, <1>3, <1>4
  DEF PollerNext, DialFails, PollFails, Send, NotYet, ReadGroup, pollerVars

\* An answer is about one request, so a key has one.
LEMMA OneAnswer ==
  ASSUME NEW g \in GroupIds, NEW answers \in [Planned(g) -> {"value", "refused", "io"}],
         NEW a, NEW b, NEW k, k \in KeysWith(g, answers, a), k \in KeysWith(g, answers, b)
  PROVE  a = b
<1>1. PICK i \in Planned(g) : k \in Chunks[g][i] /\ answers[i] = a
  BY DEF KeysWith
<1>2. PICK j \in Planned(g) : k \in Chunks[g][j] /\ answers[j] = b
  BY DEF KeysWith
<1>3. i = j
  BY <1>1, <1>2, PollerAssumption DEF PollerAssumption, Planned
<1> QED
  BY <1>1, <1>2, <1>3

LEMMA AnsweredKeys ==
  ASSUME NEW g \in GroupIds, NEW answers \in [Planned(g) -> {"value", "refused", "io"}], NEW a
  PROVE  KeysWith(g, answers, a) \subseteq GroupKeys(g) \cap readable
BY DEF KeysWith, GroupKeys, Planned

LEMMA AnswersStep == AnswersInv /\ [PollerNext]_pollerVars => AnswersInv'
<1> SUFFICES ASSUME AnswersInv, [PollerNext]_pollerVars PROVE AnswersInv'
  OBVIOUS
<1>1. ASSUME NEW g \in GroupIds, ReadGroup(g) PROVE AnswersInv'
  <2>1. PICK answers \in [Planned(g) -> {"value", "refused", "io"}] :
          /\ held' = HeldAfter(g, answers)
          /\ readable' = ReadableAfter(g, answers)
          /\ newest' = [k \in AllKeys |->
                          IF \E a \in {"value", "refused", "io"} : k \in KeysWith(g, answers, a)
                          THEN CHOOSE a \in {"value", "refused", "io"} : k \in KeysWith(g, answers, a)
                          ELSE newest[k]]
    BY <1>1 DEF ReadGroup
  <2> DEFINE With(a) == KeysWith(g, answers, a)
  <2>2. \A a : With(a) \subseteq GroupKeys(g) \cap readable
    BY AnsweredKeys
  <2>3. \A a, b, k : k \in With(a) /\ k \in With(b) => a = b
    BY OneAnswer
  <2>4. ASSUME NEW k \in AllKeys, NEW a \in {"value", "refused", "io"}, k \in With(a)
        PROVE  newest'[k] = a
    <3> DEFINE b == CHOOSE b \in {"value", "refused", "io"} : k \in With(b)
    <3>1. b \in {"value", "refused", "io"} /\ k \in With(b)
      BY <2>4
    <3>2. newest'[k] = b
      BY <2>1, <2>4
    <3> QED
      BY <2>3, <2>4, <3>1, <3>2
  <2>5. ASSUME NEW k \in AllKeys, \A a \in {"value", "refused", "io"} : k \notin With(a)
        PROVE  newest'[k] = newest[k]
    BY <2>1, <2>5
  <2>6. held' = (held \ GroupKeys(g)) \cup With("value") /\ readable' = readable \ With("refused")
    BY <2>1 DEF HeldAfter, ReadableAfter
  <2>7. DOMAIN newest' = AllKeys
    BY <2>1
  <2> HIDE DEF With
  <2>8. HeldIsLatest'
    BY <2>2, <2>4, <2>5, <2>6 DEF HeldIsLatest, AnswersInv, HeldAsAnswered
  <2>9. ASSUME NEW k \in AllKeys PROVE (newest'[k] = "refused") = (k \notin readable')
    <3>1. (newest[k] = "refused") = (k \notin readable)
      BY DEF AnswersInv, HeldAsAnswered, OnlyRefusalsAreFinal
    <3>2. CASE k \in With("refused")
      BY <2>4, <2>6, <3>2
    <3>3. CASE k \in With("value") \/ k \in With("io")
      BY <2>2, <2>3, <2>4, <2>6, <3>3
    <3>4. CASE \A a \in {"value", "refused", "io"} : k \notin With(a)
      BY <2>5, <2>6, <3>1, <3>4
    <3> QED BY <3>2, <3>3, <3>4
  <2> QED
    BY <2>2, <2>6, <2>7, <2>8, <2>9 DEF AnswersInv, HeldAsAnswered, OnlyRefusalsAreFinal
<1>2. CASE UNCHANGED softVars
  BY <1>2 DEF AnswersInv, HeldAsAnswered, HeldIsLatest, OnlyRefusalsAreFinal, softVars
<1> QED
  BY <1>1, <1>2
  DEF PollerNext, DialFails, PollFails, PollSucceeds, Send, NotYet, pollerVars

LEMMA PollerStart == PollerInit => CountInv /\ AnswersInv
<1>1. PollerInit => CountInv
  BY PollerAssumption DEF PollerAssumption, PollerInit, CountInv
<1>2. PollerInit => AnswersInv
  BY DEF PollerInit, AnswersInv, HeldAsAnswered, HeldIsLatest, OnlyRefusalsAreFinal
<1> QED
  BY <1>1, <1>2

\* An SL_POLL_FAIL stands in the journal exactly during an outage, and what is
\* held of a key and asked again follows from its newest answer (poller.go).
THEOREM PollerTellsTruth == PollerSpec => []PollerTruthful
<1>1. CountInv /\ AnswersInv => PollerTruthful
  BY PollerAssumption
  DEF PollerAssumption, CountInv, AnswersInv, PollerTruthful, OutageJournalled
<1> QED
  BY <1>1, PollerStart, CountStep, AnswersStep, PTL DEF PollerSpec

\* What a sweep knows when it calls a unit unreachable.
Excused == linkLost \/ timeouts >= MaxTimeouts

SweepInv ==
  /\ timeouts \in Nat
  /\ DOMAIN rows \subseteq Ids /\ IsFiniteSet(DOMAIN rows)
  /\ ~link => linkLost
  /\ \A i \in Ids : unit[i] = "dead" => i \in wasDead
  /\ unit \in [Ids -> Classes \cup {"dead"}]
  /\ sess = "broken" => linkLost \/ DOMAIN rows = {}
  /\ dialErr => Excused
  /\ BadUnitsAlone

\* The unit a sweep turns to is one of its units, the first one first.
LEMMA TurnIsUnit ==
  ASSUME SweepInv, InSweep
  PROVE  Turn \in Ids /\ (DOMAIN rows = {} => Turn = Inverters[1])
<1>1. Inverters \in Seq(Int) /\ Len(Inverters) \in Nat /\ DOMAIN Inverters = 1..Len(Inverters)
  BY InvertersAssumption DEF InvertersAssumption
<1>3. Swept \in Nat
  BY FS_CardinalityType DEF SweepInv, Swept
<1>4. DOMAIN rows = {} => Swept = 0
  BY FS_EmptySet DEF Swept
<1> QED
  BY <1>1, <1>3, <1>4 DEF InSweep, Turn, Ids

LEMMA ReadStep == SweepInv /\ ReadNext => SweepInv'
<1> SUFFICES ASSUME SweepInv, ReadNext PROVE SweepInv'
  OBVIOUS
<1>1. /\ InSweep
      /\ prevClass' = prevClass /\ link' = link /\ unit' = unit
      /\ linkLost' = linkLost /\ wasDead' = wasDead /\ standing' = standing
  BY DEF ReadNext, SkipDeadHost, DialFailsNow, ReadFails, ReadSucceeds, worldVars2
<1>2. Turn \in Ids /\ (DOMAIN rows = {} => Turn = Inverters[1])
  BY <1>1, TurnIsUnit
<1>3. MaxTimeouts \in Nat /\ timeouts \in Nat
  BY InvertersAssumption DEF InvertersAssumption, SweepInv
<1>4. timeouts' \in Nat /\ timeouts' >= timeouts
  BY <1>3 DEF ReadNext, SkipDeadHost, DialFailsNow, ReadFails, ReadSucceeds
<1> DEFINE excused == linkLost \/ timeouts' >= MaxTimeouts
           blamed(i) == i \in wasDead \/ excused \/ i = Inverters[1]
           turn == Turn
<1>5. dialErr' => excused
  <2>1. MaxTimeouts \in Nat /\ (timeouts >= MaxTimeouts => timeouts' >= MaxTimeouts)
    BY <1>3, <1>4
  <2>2. dialErr => excused
    BY <2>1, Zenon DEF SweepInv, Excused
  <2>3. CASE DialFailsNow
    <3>1. ~link \/ ~InTime
      BY <2>3, Zenon DEF DialFailsNow
    <3>2. ~InTime => timeouts >= MaxTimeouts
      BY <1>3 DEF InTime
    <3> QED BY <2>1, <3>1, <3>2, Zenon DEF SweepInv
  <2>4. CASE dialErr' = dialErr
    BY <2>2, <2>4, Zenon
  <2> QED
    BY <2>3, <2>4, Zenon DEF ReadNext, SkipDeadHost, ReadFails, ReadSucceeds
<1>6. PICK class : Row(class) /\ (class = "unreachable" => blamed(turn))
  <2>1. CASE SkipDeadHost
    BY <1>5, <2>1 DEF SkipDeadHost
  <2>2. CASE DialFailsNow
    BY <1>5, <2>2 DEF DialFailsNow
  <2>3. CASE ReadFails
    <3>1. CASE ~link
      BY <2>3, <3>1 DEF ReadFails, SweepInv
    <3>2. CASE ~InTime
      BY <1>3, <1>4, <2>3, <3>2 DEF ReadFails, InTime
    <3>3. CASE unit[Turn] = "dead"
      BY <1>2, <2>3, <3>3 DEF ReadFails, SweepInv
    <3>4. CASE sess = "broken"
      BY <1>2, <2>3, <3>4 DEF ReadFails, SweepInv
    <3> QED
      BY <2>3, <3>1, <3>2, <3>3, <3>4 DEF ReadFails, Answered
  <2>4. CASE ReadSucceeds
    <3>1. unit[Turn] # "unreachable"
      BY <1>2 DEF SweepInv, Classes
    <3> QED BY <2>4, <3>1 DEF ReadSucceeds
  <2> QED
    BY <2>1, <2>2, <2>3, <2>4 DEF ReadNext
<1>7. rows' = [i \in DOMAIN rows \cup {turn} |-> IF i = turn THEN class ELSE rows[i]]
  BY <1>6 DEF Row
<1> HIDE DEF turn
<1>8. /\ DOMAIN rows' = DOMAIN rows \cup {turn} /\ rows'[turn] = class
      /\ \A i \in DOMAIN rows : i = turn \/ rows'[i] = rows[i]
  BY <1>7
<1>9. DOMAIN rows' \subseteq Ids /\ IsFiniteSet(DOMAIN rows')
  BY <1>2, <1>8, FS_AddElement DEF SweepInv, turn
<1>10. sess' # "broken"
  BY DEF ReadNext, SkipDeadHost, DialFailsNow, ReadFails, ReadSucceeds
<1>11. DeadUnitTakesNoOther'
  <2> SUFFICES ASSUME NEW i \in DOMAIN rows', rows'[i] = "unreachable" PROVE blamed(i)
    BY <1>1 DEF DeadUnitTakesNoOther
  <2>1. CASE i = turn
    BY <1>6, <1>8, <2>1
  <2>2. CASE i # turn
    BY <1>3, <1>4, <1>8, <2>2, InvertersAssumption
    DEF SweepInv, BadUnitsAlone, DeadUnitTakesNoOther, InvertersAssumption
  <2> QED BY <2>1, <2>2
<1>12. FaultStandsWhileBad'
  BY <1>1 DEF SweepInv, BadUnitsAlone, FaultStandsWhileBad
<1> QED
  BY <1>1, <1>4, <1>5, <1>9, <1>10, <1>11, <1>12 DEF SweepInv, BadUnitsAlone, Excused

LEMMA EndStep == SweepInv /\ EndSweep => SweepInv'
<1> SUFFICES ASSUME SweepInv, EndSweep PROVE SweepInv'
  OBVIOUS
<1>1. /\ rows' = NoRows /\ dialErr' = FALSE /\ timeouts' = 0 /\ sess' = sess
      /\ link' = link /\ unit' = unit /\ prevClass' = rows
      /\ linkLost' = ~link /\ wasDead' = {i \in Ids : unit[i] = "dead"}
      /\ standing' = [i \in Ids |-> standing[i] + Transition(i)]
  BY Zenon DEF EndSweep, worldVars2
<1>2. DOMAIN rows' = {} /\ IsFiniteSet(DOMAIN rows')
  BY <1>1, FS_EmptySet DEF NoRows
<1>3. ~link' => linkLost'
  BY <1>1, Zenon
<1>4. FaultStandsWhileBad'
  <2> SUFFICES ASSUME NEW i \in Ids PROVE standing'[i] = (IF Bad(prevClass'[i]) THEN 1 ELSE 0)
    BY DEF FaultStandsWhileBad, Bad
  <2>1. standing'[i] = standing[i] + Transition(i) /\ prevClass'[i] = rows[i]
    BY <1>1
  <2>2. standing[i] = IF Bad(prevClass[i]) THEN 1 ELSE 0
    BY DEF SweepInv, BadUnitsAlone, FaultStandsWhileBad
  <2>3. Transition(i) = IF Bad(rows[i]) /\ ~Bad(prevClass[i]) THEN 1
                        ELSE IF Bad(prevClass[i]) /\ ~Bad(rows[i]) THEN -1 ELSE 0
    BY DEF Transition
  <2>4. CASE Bad(rows[i])
    BY <2>1, <2>2, <2>3, <2>4
  <2>5. CASE ~Bad(rows[i])
    BY <2>1, <2>2, <2>3, <2>5
  <2> QED BY <2>4, <2>5
<1>5. DeadUnitTakesNoOther'
  BY <1>2 DEF DeadUnitTakesNoOther
<1> QED
  BY <1>1, <1>2, <1>3, <1>4, <1>5 DEF SweepInv, BadUnitsAlone, Excused

LEMMA PlantStep == SweepInv /\ (UnitChanges \/ LinkChanges \/ UNCHANGED inverterVars) => SweepInv'
<1> SUFFICES ASSUME SweepInv, UnitChanges \/ LinkChanges \/ UNCHANGED inverterVars
             PROVE  SweepInv'
  OBVIOUS
<1>1. /\ rows' = rows /\ timeouts' = timeouts /\ dialErr' = dialErr
      /\ prevClass' = prevClass /\ standing' = standing
  BY DEF UnitChanges, LinkChanges, inverterVars, sweepVars
<1>2. FaultStandsWhileBad'
  BY <1>1 DEF SweepInv, BadUnitsAlone, FaultStandsWhileBad
<1>3. CASE UnitChanges
  <2>1. /\ link' = link /\ linkLost' = linkLost /\ sess' = sess
        /\ wasDead' = wasDead \cup {i \in Ids : unit'[i] = "dead"}
        /\ unit' \in [Ids -> Classes \cup {"dead"}]
    BY <1>3 DEF UnitChanges, sweepVars, SweepInv
  <2>2. DeadUnitTakesNoOther'
    BY <1>1, <2>1 DEF SweepInv, BadUnitsAlone, DeadUnitTakesNoOther
  <2> QED
    BY <1>1, <1>2, <2>1, <2>2 DEF SweepInv, BadUnitsAlone, Excused
<1>4. CASE LinkChanges
  <2>1. linkLost' = TRUE /\ unit' = unit /\ wasDead' = wasDead
    BY <1>4 DEF LinkChanges
  <2>2. DeadUnitTakesNoOther'
    BY <2>1 DEF DeadUnitTakesNoOther
  <2> QED
    BY <1>1, <1>2, <2>1, <2>2 DEF SweepInv, BadUnitsAlone, Excused
<1>5. CASE UNCHANGED inverterVars
  BY <1>5 DEF inverterVars, sweepVars, worldVars2, SweepInv, BadUnitsAlone, Excused,
              FaultStandsWhileBad, DeadUnitTakesNoOther
<1> QED
  BY <1>3, <1>4, <1>5

LEMMA SweepStart == InvertersInit => SweepInv
<1> SUFFICES ASSUME InvertersInit PROVE SweepInv
  OBVIOUS
<1>1. DOMAIN rows = {} /\ IsFiniteSet(DOMAIN rows)
  BY FS_EmptySet DEF InvertersInit, NoRows
<1>2. FaultStandsWhileBad
  BY DEF InvertersInit, FaultStandsWhileBad, Bad, None
<1> QED
  BY <1>1, <1>2
  DEF InvertersInit, SweepInv, BadUnitsAlone, DeadUnitTakesNoOther, Classes

\* A fault stands in the journal for each bad unit and for no other, and a dead
\* unit takes no other down with it (inverters.go).
THEOREM InvertersBlameAlone == InvertersSpec => []BadUnitsAlone
<1>1. SweepInv /\ [InvertersNext]_inverterVars => SweepInv'
  BY ReadStep, EndStep, PlantStep DEF InvertersNext
<1>2. SweepInv => BadUnitsAlone
  BY DEF SweepInv
<1> QED
  BY <1>1, <1>2, SweepStart, PTL DEF InvertersSpec

\* Outages are told once, by the unit that failed, and held values are the
\* newest: the two goroutines share no state (poller.go, inverters.go).
THEOREM PollsTellOutages == PollerSpec /\ InvertersSpec => []OutagesTold
<1>1. PollerTruthful /\ BadUnitsAlone => OutagesTold
  BY DEF OutagesTold
<1> QED
  BY <1>1, PollerTellsTruth, InvertersBlameAlone, PTL

=============================================================================
