--------------------------- MODULE DispatchPublishProofs ---------------------------
(***************************************************************************)
(* Confirmations form a chain and runs tell published manifests, for any   *)
(* number of operators, versions and inputs.                               *)
(***************************************************************************)
EXTENDS DispatchPublish, TLAPS

Inv == TypeOK /\ Insertable /\ BuiltOnPredecessor /\ RunIssued /\ RunsPublished

Entry == [model : Models \cup {Default}, by : Desks, base : Nat]

\* Appending leaves what was there, adds one entry and keeps ids readable.
LEMMA AppendEntry ==
  ASSUME NEW s \in Seq(Entry), NEW e \in Entry
  PROVE  /\ Append(s, e) \in Seq(Entry)
         /\ Len(Append(s, e)) = Len(s) + 1 /\ Len(s) \in Nat
         /\ DOMAIN s = 1..Len(s) /\ DOMAIN Append(s, e) = 1..(Len(s) + 1)
         /\ \A i \in DOMAIN s : Append(s, e)[i] = s[i]
         /\ Append(s, e)[Len(s) + 1] = e
  OBVIOUS

\* The id a publication works on is one of the site's and not NoManifest.
LEMMA DocIdType ==
  ASSUME TypeOK, NEW p \in Procs
  PROVE  DocId(p) \in Ids /\ DocId(p) # NoManifest
<1>1. ver[p] \in 0..Len(versions) /\ env[p] \in Inputs /\ versions \in Seq(Entry)
  BY DEF TypeOK, Entry
<1>2. ModelOf(ver[p]) \in Models \cup {Default}
  <2>1. CASE ver[p] = 0
    BY <2>1 DEF ModelOf
  <2>2. CASE ver[p] # 0
    <3>1. versions[ver[p]] \in Entry
      BY <1>1, <2>2
    <3>. QED BY <2>2, <3>1 DEF ModelOf, Entry
  <2>. QED BY <2>1, <2>2
<1>. QED BY <1>1, <1>2, PublishAssumption DEF DocId, Ids, Id, NoManifest

LEMMA PublishInit == Init => Inv
<1>. SUFFICES ASSUME Init PROVE Inv
  OBVIOUS
<1>1. AnyInputs \in Inputs
  BY PublishAssumption DEF AnyInputs
<1>2. TypeOK
  BY <1>1, PublishAssumption DEF Init, TypeOK, Pcs, Procs
<1>. QED BY <1>2 DEF Init, Inv, Insertable, BuiltOnPredecessor, RunIssued, RunsPublished, Procs

\* A step that leaves the versions and what publications have read alone.
LEMMA SameReads ==
  ASSUME UNCHANGED <<versions, readVars>>, NEW p
  PROVE  DocId(p)' = DocId(p)
  BY DEF readVars, DocId, ModelOf, Id

LEMMA PublishStep == Inv /\ [Next]_vars => Inv'
<1>. SUFFICES ASSUME Inv, [Next]_vars PROVE Inv'
  OBVIOUS
<1>. USE PublishAssumption DEF Inv
<1>a. AnyInputs \in Inputs
  BY DEF AnyInputs
<1>b. Len(versions) \in Nat /\ DOMAIN versions = 1..Len(versions)
  BY DEF TypeOK
<1>1. CASE ChangeInputs
  <2>1. \A p : DocId(p)' = DocId(p)
    BY <1>1, SameReads DEF ChangeInputs
  <2>2. TypeOK'
    BY <1>1 DEF ChangeInputs, TypeOK, cloudVars, deskVars, readVars
  <2>. QED BY <1>1, <2>1, <2>2 DEF ChangeInputs, Insertable, BuiltOnPredecessor, RunIssued,
          RunsPublished, cloudVars, deskVars, readVars
<1>2. ASSUME NEW d \in Desks, LoadPage(d) PROVE Inv'
  <2>1. \A p : DocId(p)' = DocId(p)
    BY <1>2, SameReads DEF LoadPage
  <2>2. TypeOK'
    BY <1>2, <1>b DEF LoadPage, Goto, TypeOK, Pcs, siteVars, cloudVars, readVars, Procs
  <2>. QED BY <1>2, <2>1, <2>2, <1>b DEF LoadPage, Goto, Insertable, BuiltOnPredecessor, RunIssued,
          RunsPublished, cloudVars, readVars, TypeOK, Procs
<1>3. ASSUME NEW d \in Desks, SelectMax(d) PROVE Inv'
  <2>1. \A p : DocId(p)' = DocId(p)
    BY <1>3, SameReads DEF SelectMax
  <2>2. TypeOK' /\ Insertable'
    <3>1. CASE Len(versions) = page[d]
      <4>1. /\ pc' = [pc EXCEPT ![d] = "insert"]
            /\ number' = [number EXCEPT ![d] = Len(versions) + 1]
            /\ UNCHANGED <<page, draft, siteVars, versions, cloudVars, readVars, faults>>
        BY <1>3, <3>1 DEF SelectMax, Goto
      <4>2. TypeOK'
        BY <4>1, <1>b DEF TypeOK, Pcs, siteVars, cloudVars, readVars, Procs
      <4>3. ASSUME NEW e \in Desks, pc'[e] = "insert"
            PROVE  number'[e] = page'[e] + 1 /\ page'[e] <= Len(versions')
        <5>1. CASE e = d
          <6>1. number'[e] = Len(versions) + 1
            BY <4>1, <5>1 DEF TypeOK
          <6>. QED BY <3>1, <4>1, <5>1, <6>1, <1>b
        <5>2. CASE e # d
          <6>1. pc[e] = "insert" /\ number'[e] = number[e]
            BY <4>1, <4>3, <5>2 DEF TypeOK, Procs
          <6>. QED BY <4>1, <6>1 DEF Insertable
        <5>. QED BY <5>1, <5>2
      <4>. QED BY <4>2, <4>3 DEF Insertable
    <3>2. CASE Len(versions) # page[d]
      <4>1. /\ pc' = [pc EXCEPT ![d] = "idle"] /\ ForgetPage(d)
            /\ UNCHANGED <<siteVars, versions, cloudVars, readVars, faults>>
        BY <1>3, <3>2 DEF SelectMax, Goto
      <4>2. TypeOK'
        BY <4>1 DEF ForgetPage, TypeOK, Pcs, siteVars, cloudVars, readVars, Procs
      <4>. QED BY <4>1, <4>2, <1>b DEF Insertable, ForgetPage, TypeOK, Procs
    <3>. QED BY <3>1, <3>2
  <2>. QED BY <1>3, <2>1, <2>2 DEF SelectMax, Goto, BuiltOnPredecessor, RunIssued,
          RunsPublished, cloudVars, TypeOK, Procs
<1>3a. ASSUME NEW d \in Desks, Refuse(d) PROVE Inv'
  <2>1. /\ pc' = [pc EXCEPT ![d] = "idle"] /\ ForgetPage(d)
        /\ UNCHANGED <<siteVars, versions, cloudVars, readVars, faults>>
    BY <1>3a DEF Refuse, Goto
  <2>2. \A p : DocId(p)' = DocId(p)
    BY <2>1, SameReads
  <2>3. TypeOK'
    BY <2>1 DEF ForgetPage, TypeOK, Pcs, siteVars, cloudVars, readVars, Procs
  <2>4. Insertable'
    BY <2>1, <1>b DEF Insertable, ForgetPage, TypeOK, Procs
  <2>. QED BY <2>1, <2>2, <2>3, <2>4 DEF BuiltOnPredecessor, RunIssued, RunsPublished,
          cloudVars, TypeOK, Procs
<1>4. ASSUME NEW d \in Desks, InsertRow(d) PROVE Inv'
  <2>1. CASE number[d] \in DOMAIN versions
    <3>1. \A p : DocId(p)' = DocId(p)
      BY <1>4, <2>1, SameReads DEF InsertRow
    <3>2. TypeOK'
      BY <1>4, <2>1 DEF InsertRow, ForgetPage, Goto, TypeOK, Pcs, siteVars, cloudVars, readVars, Procs
    <3>. QED BY <1>4, <2>1, <3>1, <3>2 DEF InsertRow, ForgetPage, Goto, Insertable, BuiltOnPredecessor,
            RunIssued, RunsPublished, cloudVars, TypeOK, Procs
  <2>2. CASE number[d] \notin DOMAIN versions
    <3>1. /\ pc[d] = "insert" /\ pc' = [pc EXCEPT ![d] = "env"]
          /\ versions' = Append(versions, Confirmed(d))
          /\ ForgetPage(d) /\ UNCHANGED <<siteVars, cloudVars, readVars, faults>>
      BY <1>4, <2>2 DEF InsertRow, Goto
    <3>2. /\ number[d] = page[d] + 1 /\ page[d] = Len(versions)
      BY <3>1, <2>2, <1>b DEF Insertable, TypeOK
    <3>3. Confirmed(d) \in Entry /\ Confirmed(d).base = Len(versions) /\ versions \in Seq(Entry)
      BY <3>2 DEF Confirmed, Entry, TypeOK
    <3>4. /\ versions' \in Seq(Entry)
          /\ Len(versions') = Len(versions) + 1
          /\ DOMAIN versions' = 1..(Len(versions) + 1)
          /\ \A i \in DOMAIN versions : versions'[i] = versions[i]
          /\ versions'[Len(versions) + 1] = Confirmed(d)
      BY <3>1, <3>3, AppendEntry
    <3>5. \A p \in Procs : DocId(p)' = DocId(p)
      BY <3>1, <3>4, <1>b DEF DocId, ModelOf, Id, readVars, TypeOK
    <3>6. TypeOK'
      <4>1. /\ page' \in [Desks -> Nat] /\ number' \in [Desks -> Nat]
            /\ draft' \in [Desks -> Models \cup {Default}]
        BY <3>1 DEF ForgetPage, TypeOK
      <4>2. ver' \in [Procs -> 0..Len(versions')]
        BY <3>1, <3>4, <1>b DEF TypeOK, readVars
      <4>3. noted' \in 0..Len(versions')
        BY <3>1, <3>4, <1>b DEF TypeOK, cloudVars
      <4>. QED BY <3>1, <3>4, <4>1, <4>2, <4>3 DEF TypeOK, Pcs, Entry, siteVars, cloudVars, readVars, Procs
    <3>7. BuiltOnPredecessor'
      BY <3>3, <3>4, <1>b DEF BuiltOnPredecessor
    <3>8. Insertable'
      BY <3>1, <3>4, <1>b DEF Insertable, ForgetPage, TypeOK, Procs
    <3>. QED BY <3>1, <3>5, <3>6, <3>7, <3>8 DEF RunIssued, RunsPublished, cloudVars, TypeOK, Procs
  <2>. QED BY <2>1, <2>2
<1>5. ASSUME NEW p \in Procs, ReadEnv(p) PROVE Inv'
  <2>1. /\ pc' = [pc EXCEPT ![p] = "version"] /\ env' = [env EXCEPT ![p] = inputs]
        /\ UNCHANGED <<siteVars, versions, cloudVars, deskVars, ver, faults>>
    BY <1>5 DEF ReadEnv, Goto
  <2>2. TypeOK'
    BY <2>1 DEF TypeOK, Pcs, siteVars, cloudVars, deskVars, Procs
  <2>3. \A q \in Procs : q # p => DocId(q)' = DocId(q)
    BY <2>1 DEF DocId, ModelOf, Id, TypeOK
  <2>. QED BY <2>1, <2>2, <2>3 DEF Insertable, BuiltOnPredecessor, RunIssued, RunsPublished,
          cloudVars, deskVars, TypeOK, Procs
<1>6. ASSUME NEW p \in Procs, ReadVersion(p) PROVE Inv'
  <2>1. /\ pc' = [pc EXCEPT ![p] = "compare"] /\ ver' = [ver EXCEPT ![p] = Len(versions)]
        /\ UNCHANGED <<siteVars, versions, cloudVars, deskVars, env, faults>>
    BY <1>6 DEF ReadVersion, Goto
  <2>2. TypeOK'
    BY <2>1, <1>b DEF TypeOK, Pcs, siteVars, cloudVars, deskVars, Procs
  <2>3. \A q \in Procs : q # p => DocId(q)' = DocId(q)
    BY <2>1 DEF DocId, ModelOf, Id, TypeOK
  <2>. QED BY <2>1, <2>2, <2>3 DEF Insertable, BuiltOnPredecessor, RunIssued, RunsPublished,
          cloudVars, deskVars, TypeOK, Procs
<1>7. ASSUME NEW p \in Procs, Compare(p) PROVE Inv'
  <2>1. \A q : DocId(q)' = DocId(q)
    BY <1>7, SameReads DEF Compare
  <2>2. latest = DocId(p) => DocId(p) \in issued
    BY DocIdType DEF TypeOK
  <2>3. TypeOK'
    BY <1>7 DEF Compare, Goto, TypeOK, Pcs, siteVars, cloudVars, deskVars, readVars
  <2>4. RunIssued'
    BY <1>7, <2>1, <2>2 DEF Compare, Goto, RunIssued, cloudVars, TypeOK
  <2>. QED BY <1>7, <2>3, <2>4 DEF Compare, Goto, Insertable, BuiltOnPredecessor, RunsPublished,
          cloudVars, deskVars, TypeOK, Procs
<1>8. ASSUME NEW p \in Procs, Upsert(p) PROVE Inv'
  <2>1. \A q : DocId(q)' = DocId(q)
    BY <1>8, SameReads DEF Upsert
  <2>2. TypeOK'
    BY <1>8, DocIdType DEF Upsert, Goto, TypeOK, Pcs, siteVars, deskVars, readVars
  <2>3. RunIssued'
    BY <1>8, <2>1 DEF Upsert, Goto, RunIssued, TypeOK
  <2>. QED BY <1>8, <2>2, <2>3 DEF Upsert, Goto, Insertable, BuiltOnPredecessor, RunsPublished,
          deskVars, TypeOK, Procs
<1>9. ASSUME NEW p \in Procs, StoreRun(p) PROVE Inv'
  <2>1. /\ pc[p] = "run" /\ pc' = [pc EXCEPT ![p] = "idle"] /\ runs' = runs \cup {DocId(p)}
        /\ env' = [env EXCEPT ![p] = AnyInputs] /\ ver' = [ver EXCEPT ![p] = 0]
        /\ UNCHANGED <<siteVars, versions, latest, noted, issued, deskVars, faults>>
    BY <1>9 DEF StoreRun, Goto, ForgetReads
  <2>2. DocId(p) \in issued /\ DocId(p) \in Ids
    BY <2>1, DocIdType DEF RunIssued
  <2>3. TypeOK'
    BY <2>1, <2>2, <1>a, <1>b DEF TypeOK, Pcs, siteVars, deskVars
  <2>4. \A q \in Procs : q # p => DocId(q)' = DocId(q)
    BY <2>1 DEF DocId, ModelOf, Id, TypeOK
  <2>. QED BY <2>1, <2>2, <2>3, <2>4 DEF Insertable, BuiltOnPredecessor, RunIssued, RunsPublished,
          deskVars, TypeOK, Procs
<1>10. ASSUME NEW p \in Procs, GiveUp(p) PROVE Inv'
  <2>1. /\ pc' = [pc EXCEPT ![p] = "idle"] /\ faults' = faults + 1 /\ faults < MaxFaults
        /\ env' = [env EXCEPT ![p] = AnyInputs] /\ ver' = [ver EXCEPT ![p] = 0]
        /\ ForgetPage(p) /\ UNCHANGED <<siteVars, versions, cloudVars>>
    BY <1>10 DEF GiveUp, ForgetReads
  <2>2. TypeOK'
    <3>1. /\ page' \in [Desks -> Nat] /\ number' \in [Desks -> Nat]
          /\ draft' \in [Desks -> Models \cup {Default}]
      BY <2>1 DEF ForgetPage, TypeOK
    <3>. QED BY <2>1, <3>1, <1>a, <1>b DEF TypeOK, Pcs, siteVars, cloudVars
  <2>3. \A q \in Procs : q # p => DocId(q)' = DocId(q)
    BY <2>1 DEF DocId, ModelOf, Id, TypeOK
  <2>4. Insertable'
    BY <2>1, <1>b DEF Insertable, ForgetPage, TypeOK, Procs
  <2>. QED BY <2>1, <2>2, <2>3, <2>4 DEF BuiltOnPredecessor, RunIssued, RunsPublished, cloudVars, TypeOK
<1>11. CASE UNCHANGED vars
  <2>1. \A p : DocId(p)' = DocId(p)
    BY <1>11, SameReads DEF vars
  <2>. QED BY <1>11, <2>1 DEF vars, TypeOK, Insertable, BuiltOnPredecessor, RunIssued,
          RunsPublished, siteVars, cloudVars, deskVars, readVars
<1>. QED
  BY <1>1, <1>2, <1>3, <1>3a, <1>4, <1>5, <1>6, <1>7, <1>8, <1>9, <1>10, <1>11
     DEF Next, Desk, Publication

LEMMA PublishInvariant == Spec => []Inv
  BY PublishInit, PublishStep, PTL DEF Spec

\* Of any operators who confirm at the same time, every version that is stored
\* was written by one who had its predecessor on the page.
THEOREM PublishBuiltOnPredecessor == Spec => []BuiltOnPredecessor
  BY PublishInvariant, PTL DEF Inv

\* A run on record tells a manifest that was published.
THEOREM PublishRunsPublished == Spec => []RunsPublished
  BY PublishInvariant, PTL DEF Inv

\* A confirmed version is never changed or taken away.
THEOREM PublishConfirmedForEver == Spec => ConfirmedForEver
<1>. DEFINE Kept == \A i \in DOMAIN versions : i \in DOMAIN versions' /\ versions'[i] = versions[i]
<1>1. Inv /\ [Next]_vars => [Kept]_vars
  <2>. SUFFICES ASSUME Inv, Next PROVE Kept
    OBVIOUS
  <2>1. ASSUME NEW d \in Desks, InsertRow(d), number[d] \notin DOMAIN versions PROVE Kept
    <3>1. versions \in Seq(Entry) /\ Confirmed(d) \in Entry
      BY DEF Inv, TypeOK, Confirmed, Entry
    <3>. QED BY <2>1, <3>1, AppendEntry DEF InsertRow
  <2>2. ASSUME UNCHANGED versions PROVE Kept
    BY <2>2
  <2>. QED BY <2>1, <2>2 DEF Next, Desk, Publication, ChangeInputs, LoadPage, Refuse, SelectMax, InsertRow,
          ReadEnv, ReadVersion, Compare, Upsert, StoreRun, GiveUp
<1>. QED BY <1>1, PublishInvariant, PTL DEF Spec, ConfirmedForEver
===============================================================================
