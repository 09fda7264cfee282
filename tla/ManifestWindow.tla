------------------------------ MODULE ManifestWindow ------------------------------
(***************************************************************************)
(* How long a published manifest lasts (internal/api/dispatch_publish.go,  *)
(* edge_planner.go: edgeManifestID, RunEdgePlannerLoop; internal/edge/     *)
(* service.go: runManifestFetcher).                                        *)
(*                                                                         *)
(* A manifest id is a hash of the plan plus the UTC date of valid_until.   *)
(* A publication under the id the cloud already has stores nothing, and    *)
(* the edge takes nothing under the id it already has, so an unchanged     *)
(* plan keeps the valid_until of its first publication until the date in   *)
(* the id rolls over.  The question is whether it rolls over in time.      *)
(*                                                                         *)
(* Times are minutes since a UTC midnight, on one clock.                   *)
(***************************************************************************)
EXTENDS Naturals

CONSTANTS
  LoopEvery,            \* at most this long between successful publications
  PollEvery,            \* at most this long between the edge's successful polls
  Steps,                \* by how many minutes the clock may advance at once
  StartAt,              \* when the site has its first manifest
  MaxNow                \* bound

Hour == 60
Day == 1440
FutureHours == 24       \* dispatchFutureHours
GraceHours == 1         \* dispatchManifestGraceHours

\* "the grace must outlast one planner-loop interval plus the edge poll"
ASSUME WindowAssumption ==
  /\ LoopEvery \in Nat /\ PollEvery \in Nat /\ StartAt \in Nat /\ MaxNow \in Nat
  /\ LoopEvery + PollEvery <= GraceHours * Hour
  /\ Steps \subseteq Nat \ {0}

VARIABLES
  now,
  known,                \* the applied version has load for the current hour
  latest,               \* the newest row of edge_manifests
  edge,                 \* the manifest the edge holds
  sinceLoop, sincePoll  \* time since the last publication, the last poll

vars == <<now, known, latest, edge, sinceLoop, sincePoll>>

StartHour(t) == t - (t % Hour)

\* Mutant of ValidUntil: no grace beyond the horizon.
ValidUntilNoGrace(t) == StartHour(t) + FutureHours * Hour

\* Grace on top of the planning horizon, from the start of the hour.
ValidUntil(t) == StartHour(t) + (FutureHours + GraceHours) * Hour

\* Mutant of ManifestId: the date is left out.
ManifestIdNoDate(t) == [hours |-> IF known THEN {StartHour(t)} ELSE {}, date |-> 0]

\* The planned intervals start at the current hour; without known load
\* there are none, and every hour's plan is the same.
ManifestId(t) ==
  [hours |-> IF known THEN {StartHour(t)} ELSE {}, date |-> ValidUntil(t) \div Day]

Doc(t) == [id |-> ManifestId(t), until |-> ValidUntil(t)]

Init ==
  /\ now = StartAt /\ known \in BOOLEAN
  /\ latest = Doc(now) /\ edge = latest
  /\ sinceLoop = 0 /\ sincePoll = 0

\* publishDispatch, from the loop, a confirmation or the publish button.
Publish ==
  /\ latest' = IF latest.id # ManifestId(now) THEN Doc(now) ELSE latest
  /\ sinceLoop' = 0
  /\ UNCHANGED <<now, known, edge, sincePoll>>

\* FetchManifest with the held id as its etag.
Poll ==
  /\ edge' = IF latest.id # edge.id THEN latest ELSE edge
  /\ sincePoll' = 0
  /\ UNCHANGED <<now, known, latest, sinceLoop>>

\* Time passes, by a step; publications and polls come in time.
Advance(m) ==
  /\ now + m <= MaxNow /\ sinceLoop + m <= LoopEvery /\ sincePoll + m <= PollEvery
  /\ now' = now + m
  /\ sinceLoop' = sinceLoop + m /\ sincePoll' = sincePoll + m
  /\ UNCHANGED <<known, latest, edge>>

\* Load is entered or its hours run out.
ChangeLoad ==
  /\ known' = ~known
  /\ UNCHANGED <<now, latest, edge, sinceLoop, sincePoll>>

Next == Publish \/ Poll \/ (\E m \in Steps : Advance(m)) \/ ChangeLoad

Spec == Init /\ [][Next]_vars

-------------------------------------------------------------------------------
(* Properties. *)

Manifest == [id : [hours : SUBSET Nat, date : Nat], until : Nat]

\* Every variable has its type.
TypeOK ==
  /\ now \in Nat /\ known \in BOOLEAN
  /\ latest \in Manifest /\ edge \in Manifest
  /\ sinceLoop \in 0..LoopEvery /\ sincePoll \in 0..PollEvery

\* The edge's manifest never runs out while the cloud publishes and the edge
\* polls on time: an unchanged plan is published again "the same instant a
\* manifest without grace would expire", and the grace covers the way to the
\* edge.
EdgeNeverLapses == now <= edge.until

(* The strengthening under which EdgeNeverLapses is inductive. *)

\* Whatever the first publication under an id was, its valid_until lies on
\* an hour of the id's date.
UntilOnDate(m) == m.until % Hour = 0 /\ m.until >= m.id.date * Day

\* The id published last is of a date that begins more than an hour later.
LatestFresh == latest.id.date * Day + sinceLoop > now + Hour

\* The edge lags by one publication and one poll at most.
EdgeFresh == edge.id.date * Day + sincePoll + LoopEvery > now + Hour

WindowInv == UntilOnDate(latest) /\ UntilOnDate(edge) /\ LatestFresh /\ EdgeFresh

===============================================================================
