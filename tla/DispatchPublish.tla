------------------------------ MODULE DispatchPublish ------------------------------
(***************************************************************************)
(* The manual-control desk (internal/api/dispatch_handlers.go:             *)
(* dispatchConfirm, dispatch_publish.go: publishDispatch, edge_planner.go: *)
(* edgeManifestPublish, RunEdgePlannerLoop; internal/storage/dispatch.go). *)
(*                                                                         *)
(* Operators confirm plan versions against the version their page was      *)
(* loaded with; every confirmation, the publish button and the planner     *)
(* loop run publishDispatch, which reads the site's inputs, the newest     *)
(* version and the newest manifest one after the other and writes a        *)
(* manifest and a run.  The database is read committed and nothing else    *)
(* orders the publishers, so each query is a step of its own.              *)
(***************************************************************************)
EXTENDS Naturals, Sequences

CONSTANTS
  Desks,                \* operators' sessions
  Loop,                 \* the planner goroutine
  Models,               \* what an operator can confirm
  Default,              \* the model of a site without a version
  Inputs,               \* hour, prices, forecast, SOC, limits: what the LP reads
  MaxVersions, MaxChanges, MaxFaults     \* bounds

ASSUME PublishAssumption ==
  /\ Loop \notin Desks /\ Inputs # {}
  /\ "none" \notin Models \cup {Default}
  /\ MaxVersions \in Nat /\ MaxChanges \in Nat /\ MaxFaults \in Nat

Procs == Desks \cup {Loop}

VARIABLES
  inputs, changes,      \* the site's inputs now; bound
  versions,             \* dispatch_versions, by version number
  latest, noted,        \* newest row of edge_manifests: id, version in its note
  issued,               \* ids of all its rows
  runs,                 \* manifest ids of dispatch_runs
  pc,                   \* where each process is
  page, draft,          \* version and model on an operator's page
  number,               \* version number a confirmation is going to insert
  env, ver,             \* inputs and version a publication has read
  faults                \* bound

siteVars == <<inputs, changes>>
deskVars == <<page, draft, number>>
readVars == <<env, ver>>
cloudVars == <<latest, noted, issued, runs>>
vars == <<siteVars, versions, cloudVars, pc, deskVars, readVars, faults>>

\* A manifest id is a hash of the planned intervals and limits, which the
\* model and the inputs determine; the version number is not part of it.
Id(model, in) == <<model, in>>
NoManifest == Id("none", "none")

ModelOf(v) == IF v = 0 THEN Default ELSE versions[v].model

Newest == Id(ModelOf(Len(versions)), inputs)

AnyInputs == CHOOSE x \in Inputs : TRUE

Init ==
  /\ inputs = AnyInputs /\ changes = 0
  /\ versions = <<>>
  /\ latest = NoManifest /\ noted = 0 /\ issued = {} /\ runs = {}
  /\ pc = [p \in Procs |-> "idle"]
  /\ page = [d \in Desks |-> 0] /\ number = [d \in Desks |-> 0]
  /\ draft = [d \in Desks |-> Default]
  /\ env = [p \in Procs |-> AnyInputs] /\ ver = [p \in Procs |-> 0]
  /\ faults = 0

Goto(p, from, to) == pc[p] = from /\ pc' = [pc EXCEPT ![p] = to]

\* What a finished request has read is forgotten.
ForgetReads(p) ==
  /\ env' = [env EXCEPT ![p] = AnyInputs]
  /\ ver' = [ver EXCEPT ![p] = 0]

ForgetPage(p) ==
  /\ page' = [d \in Desks |-> IF d = p THEN 0 ELSE page[d]]
  /\ draft' = [d \in Desks |-> IF d = p THEN Default ELSE draft[d]]
  /\ number' = [d \in Desks |-> IF d = p THEN 0 ELSE number[d]]

-------------------------------------------------------------------------------
(* The site and the desk. *)

\* The hour turns, a price, a forecast, a SOC sample or a setting arrives.
ChangeInputs ==
  /\ changes < MaxChanges /\ changes' = changes + 1
  /\ inputs' \in Inputs \ {inputs}
  /\ UNCHANGED <<versions, cloudVars, pc, deskVars, readVars, faults>>

\* dispatchState is shown; the operator edits the plan.
LoadPage(d) ==
  /\ Len(versions) < MaxVersions
  /\ Goto(d, "idle", "drafted")
  /\ page' = [page EXCEPT ![d] = Len(versions)]
  /\ \E m \in Models : draft' = [draft EXCEPT ![d] = m]
  /\ UNCHANGED <<siteVars, versions, cloudVars, number, readVars, faults>>

\* dispatchConfirm refuses a draft that is invalid or falls short (422).
Refuse(d) ==
  /\ Goto(d, "drafted", "idle")
  /\ ForgetPage(d)
  /\ UNCHANGED <<siteVars, versions, cloudVars, readVars, faults>>

\* Mutant of SelectMax: the base version is not compared.
SelectMaxUnchecked(d) ==
  /\ Goto(d, "drafted", "insert")
  /\ number' = [number EXCEPT ![d] = Len(versions) + 1]
  /\ UNCHANGED <<siteVars, versions, cloudVars, page, draft, readVars, faults>>

\* InsertDispatchVersion: SELECT max(version) against base_version.
SelectMax(d) ==
  /\ IF Len(versions) = page[d]
     THEN /\ Goto(d, "drafted", "insert")
          /\ number' = [number EXCEPT ![d] = Len(versions) + 1]
          /\ UNCHANGED <<page, draft>>
     ELSE Goto(d, "drafted", "idle") /\ ForgetPage(d)
  /\ UNCHANGED <<siteVars, versions, cloudVars, readVars, faults>>

Confirmed(d) == [model |-> draft[d], by |-> d, base |-> page[d]]

\* Mutant of InsertRow: ON CONFLICT DO UPDATE.
InsertOrUpdate(d) ==
  /\ Goto(d, "insert", "env")
  /\ versions' = [i \in (DOMAIN versions) \cup {number[d]} |->
                    IF i = number[d] THEN Confirmed(d) ELSE versions[i]]
  /\ ForgetPage(d)
  /\ UNCHANGED <<siteVars, cloudVars, readVars, faults>>

\* The INSERT and its commit; the primary key turns a second version of the
\* same number into a conflict.
InsertRow(d) ==
  /\ IF number[d] \in DOMAIN versions
     THEN Goto(d, "insert", "idle") /\ UNCHANGED versions
     ELSE Goto(d, "insert", "env") /\ versions' = Append(versions, Confirmed(d))
  /\ ForgetPage(d)
  /\ UNCHANGED <<siteVars, cloudVars, readVars, faults>>

-------------------------------------------------------------------------------
(* publishDispatch. *)

\* loadDispatchEnv: after a confirmation, or when the button is pressed
\* (edgeManifestPublish) or the loop's ticker fires.
ReadEnv(p) ==
  /\ Goto(p, "env", "version") \/ Goto(p, "idle", "version")
  /\ env' = [env EXCEPT ![p] = inputs]
  /\ UNCHANGED <<siteVars, versions, cloudVars, deskVars, ver, faults>>

\* appliedModel: LatestDispatchVersion.
ReadVersion(p) ==
  /\ Goto(p, "version", "compare")
  /\ ver' = [ver EXCEPT ![p] = Len(versions)]
  /\ UNCHANGED <<siteVars, versions, cloudVars, deskVars, env, faults>>

DocId(p) == Id(ModelOf(ver[p]), env[p])

\* Mutant of Compare: the id does not tell the inputs (as export_allowed was
\* once missing from the hash).
CompareModelOnly(p) ==
  /\ Goto(p, "compare", IF latest[1] = DocId(p)[1] THEN "run" ELSE "upsert")
  /\ UNCHANGED <<siteVars, versions, cloudVars, deskVars, readVars, faults>>

\* Mutant of Compare: the run is stored first.
CompareRunFirst(p) ==
  /\ Goto(p, "compare", IF latest = DocId(p) THEN "run" ELSE "upsert")
  /\ runs' = runs \cup {DocId(p)}
  /\ UNCHANGED <<siteVars, versions, latest, noted, issued, deskVars, readVars, faults>>

\* Simulate, buildDispatchManifest, LatestEdgeManifest.
Compare(p) ==
  /\ Goto(p, "compare", IF latest = DocId(p) THEN "run" ELSE "upsert")
  /\ UNCHANGED <<siteVars, versions, cloudVars, deskVars, readVars, faults>>

\* UpsertEdgeManifest: an old id becomes the newest row again.
Upsert(p) ==
  /\ Goto(p, "upsert", "run")
  /\ latest' = DocId(p) /\ noted' = ver[p]
  /\ issued' = issued \cup {DocId(p)}
  /\ UNCHANGED <<siteVars, versions, runs, deskVars, readVars, faults>>

\* InsertDispatchRun, once per manifest.
StoreRun(p) ==
  /\ Goto(p, "run", "idle")
  /\ runs' = runs \cup {DocId(p)}
  /\ ForgetReads(p)
  /\ UNCHANGED <<siteVars, versions, latest, noted, issued, deskVars, faults>>

\* A query fails, the request is cancelled or the API restarts.  A failing
\* InsertDispatchRun is only logged, with the same effect.
GiveUp(p) ==
  /\ pc[p] \notin {"idle", "drafted"}
  /\ faults < MaxFaults /\ faults' = faults + 1
  /\ pc' = [pc EXCEPT ![p] = "idle"]
  /\ ForgetReads(p) /\ ForgetPage(p)
  /\ UNCHANGED <<siteVars, versions, cloudVars>>

-------------------------------------------------------------------------------

Publication(p) ==
  ReadVersion(p) \/ Compare(p) \/ Upsert(p) \/ StoreRun(p)

Desk(d) == LoadPage(d) \/ Refuse(d) \/ SelectMax(d) \/ InsertRow(d)

Next ==
  \/ ChangeInputs
  \/ \E d \in Desks : Desk(d)
  \/ \E p \in Procs : ReadEnv(p) \/ Publication(p) \/ GiveUp(p)

Spec == Init /\ [][Next]_vars

\* The loop ticks for ever and requests that have begun go on; nobody needs
\* to press or confirm anything.
Fairness ==
  /\ WF_vars(ReadEnv(Loop))
  /\ \A p \in Procs : WF_vars(Publication(p))

LiveSpec == Spec /\ Fairness

-------------------------------------------------------------------------------
(* Properties. *)

Pcs == {"idle", "drafted", "insert", "env", "version", "compare", "upsert", "run"}
Ids == {Id(m, in) : m \in Models \cup {Default}, in \in Inputs}

\* Every variable has its type.
TypeOK ==
  /\ inputs \in Inputs /\ changes \in 0..MaxChanges /\ faults \in 0..MaxFaults
  /\ versions \in Seq([model : Models \cup {Default}, by : Desks, base : Nat])
  /\ issued \subseteq Ids /\ latest \in issued \cup {NoManifest} /\ runs \subseteq Ids
  /\ noted \in 0..Len(versions)
  /\ pc \in [Procs -> Pcs]
  /\ page \in [Desks -> Nat] /\ number \in [Desks -> Nat]
  /\ draft \in [Desks -> Models \cup {Default}]
  /\ env \in [Procs -> Inputs] /\ ver \in [Procs -> 0..Len(versions)]

\* ErrDispatchVersionConflict "means someone confirmed another version since
\* the caller loaded the plan": every version was written by an operator who
\* had its predecessor on the page, so no change is undone unseen.
BuiltOnPredecessor == \A i \in DOMAIN versions : versions[i].base = i - 1

\* A confirmed version stays what it was: two confirmations that pass the
\* check together do not replace one another.
ConfirmedForEver ==
  [][\A i \in DOMAIN versions : i \in DOMAIN versions' /\ versions'[i] = versions[i]]_vars

\* A run tells what the edge was asked to follow: its manifest was published.
RunsPublished == runs \subseteq issued

\* Once versions and inputs rest, the newest manifest is that of the newest
\* version under the current inputs, with its run on record, whatever was
\* published late, twice or not at all before.
NewestPublished == <>[](latest = Newest /\ latest \in runs)

(* The strengthening under which the two invariants are inductive. *)

\* A confirmation that passed the check goes on to insert the version after
\* the one on its page.
Insertable ==
  \A d \in Desks :
    pc[d] = "insert" => number[d] = page[d] + 1 /\ page[d] <= Len(versions)

\* A publication stores its run only for a manifest that has been published.
RunIssued == \A p \in Procs : pc[p] = "run" => DocId(p) \in issued

\* publishDispatch "republishes a site's plan: the latest confirmed version":
\* the manifest of a version is never replaced by that of an older one.
NeverOlderVersion == [][noted' >= noted]_vars

===============================================================================
