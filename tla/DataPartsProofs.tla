--------------------------- MODULE DataPartsProofs ---------------------------
(***************************************************************************)
(* The solar plan and the feeds it depends on, for every length of a day   *)
(* and every number of runs, passports, rebuilds and faults: control acts  *)
(* on the freshest plan, no passport is forgotten, a day that has begun    *)
(* keeps its plan; prices are stored before their day begins, forecasts    *)
(* stay what they were when they mattered.                                 *)
(*                                                                         *)
(* One run at a time stores its two plans one after the other: FreshInv    *)
(* bounds what is stored by the weather of the run under way, FrozenInv    *)
(* says what the run still knows of the day it read from the clock.  The   *)
(* feeds and the days of the economics have their own parts below.         *)
(*                                                                         *)
(* Past days settle, for every calendar, every set of goroutines and every *)
(* number of computations under way, if the nightly run covers two days.   *)
(* A computation that began before midnight may store a part of the day    *)
(* after the nightly run of that day, but not after the next one: JobInv   *)
(* bounds what a goroutine still carries by the day it began on, NightInv  *)
(* counts what tonight's run has already been through.                     *)
(***************************************************************************)
EXTENDS PvPlan, Feeds, EconomicsDays, DayPlans, FiniteSetTheorems, TLAPS

Underway == {"days", "latest", "dayAhead"}

\* No stored plan is of newer weather than this.
PvBound == IF pvRun.at \in Underway THEN pvRun.weather ELSE pvClock

RunPlan == [passport |-> pvRun.passport, weather |-> pvRun.weather, archived |-> FALSE]

RunInv ==
  /\ pvClock \in 0 .. LastPvTick /\ runRequests \in Nat /\ pvFaults \in Nat
  /\ DOMAIN pvRun = {"at", "passport", "weather", "today", "has"}
  /\ pvRun.weather \in Nat /\ pvRun.weather <= pvClock
  /\ pvRun.at \in {"latest", "dayAhead"} => pvRun.today \in PvDays
  /\ latest = [d \in PvDays |-> latest[d]] /\ dayAhead = [d \in PvDays |-> dayAhead[d]]

FreshInv ==
  /\ \A d \in PvDays :
       /\ latest[d] # NoPlan => latest[d].weather \in Int /\ latest[d].weather <= PvBound
       /\ dayAhead[d] # NoPlan =>
            \/ dayAhead[d].archived
            \/ /\ dayAhead[d].weather \in Int /\ dayAhead[d].weather <= PvBound
               /\ latest[d] # NoPlan => dayAhead[d].weather <= latest[d].weather
  /\ pvRun.at = "dayAhead" =>
       \A d \in PvDays \cap {pvRun.today, pvRun.today + 1} \cap DaysOfWeather : latest[d] = RunPlan

FrozenInv ==
  pvRun.at \in {"latest", "dayAhead"} =>
    /\ pvRun.weather < (pvRun.today + 1) * PvTicks
    /\ ~pvRun.has =>
         dayAhead[pvRun.today] = NoPlan \/ dayAhead[pvRun.today].archived

-------------------------------------------------------------------------------
(* Days. *)

LEMMA DayHolds ==
  ASSUME NEW t \in Nat
  PROVE /\ PvDayOf(t) \in Nat /\ t < (PvDayOf(t) + 1) * PvTicks
        /\ \A u \in Nat : t <= u => PvDayOf(t) <= PvDayOf(u)
<1> DEFINE n == PvTicks
<1>1. n \in Nat \ {0}
  BY PvAssumption DEF PvAssumption
<1> HIDE DEF n
<1>2. \A u \in Nat : /\ u \div n \in Nat /\ u % n \in 0 .. n - 1
                     /\ u = n * (u \div n) + (u % n)
  BY <1>1
<1>3. \A u \in Nat : u < (u \div n + 1) * n
  BY <1>1, <1>2
<1>4. ASSUME NEW u \in Nat, t <= u PROVE t \div n <= u \div n
  <2> SUFFICES ASSUME u \div n + 1 <= t \div n PROVE FALSE
    BY <1>2
  <2>1. (u \div n + 1) * n <= (t \div n) * n
    BY <1>1, <1>2
  <2> QED
    BY <1>1, <1>2, <1>3, <1>4, <2>1
<1> QED
  BY <1>2, <1>3, <1>4 DEF PvDayOf, n

LEMMA ClockDay ==
  ASSUME RunInv
  PROVE PvDayOf(pvClock) \in PvDays
<1>1. pvClock \in Nat /\ LastPvTick \in Nat /\ pvClock <= LastPvTick
  BY PvAssumption DEF PvAssumption, RunInv
<1> QED
  BY <1>1, DayHolds DEF PvDays

-------------------------------------------------------------------------------
(* The run under way. *)

RunFields == {"at", "passport", "weather", "today", "has"}

\* What a step of the run changes of it besides its place.
LEMMA LoadPassportMoves ==
  ASSUME RunInv, LoadPassport
  PROVE /\ DOMAIN pvRun' = RunFields /\ pvRun'.at = "weather" /\ pvRun'.passport = passport
        /\ pvRun'.weather = pvRun.weather
BY DEF RunInv, LoadPassport, RunFields

LEMMA FetchWeatherMoves ==
  ASSUME RunInv, FetchWeather
  PROVE /\ DOMAIN pvRun' = RunFields /\ pvRun'.at = "days" /\ pvRun'.weather = pvClock
        /\ pvRun'.passport = pvRun.passport
BY DEF RunInv, FetchWeather, RunFields

LEMMA SortDaysMoves ==
  ASSUME RunInv, SortDays
  PROVE /\ DOMAIN pvRun' = RunFields /\ pvRun'.at = "latest" /\ pvRun'.today = PvDayOf(pvClock)
        /\ pvRun'.passport = pvRun.passport /\ pvRun'.weather = pvRun.weather
        /\ ~pvRun'.has => dayAhead[PvDayOf(pvClock)] = NoPlan
<1> DEFINE has == dayAhead[PvDayOf(pvClock)] # NoPlan
           Moved(h) == [pvRun EXCEPT !.at = "latest", !.today = PvDayOf(pvClock), !.has = h]
<1>1. pvRun' = Moved(has)
  BY DEF SortDays
<1>2. \A h : /\ DOMAIN Moved(h) = RunFields /\ Moved(h).at = "latest"
             /\ Moved(h).today = PvDayOf(pvClock) /\ Moved(h).has = h
             /\ Moved(h).passport = pvRun.passport /\ Moved(h).weather = pvRun.weather
  BY DEF RunInv, RunFields
<1> HIDE DEF has, Moved
<1>3. /\ DOMAIN pvRun' = RunFields /\ pvRun'.at = "latest" /\ pvRun'.today = PvDayOf(pvClock)
      /\ pvRun'.passport = pvRun.passport /\ pvRun'.weather = pvRun.weather
      /\ pvRun'.has = has
  BY <1>1, <1>2
<1> QED
  BY <1>3, Zenon DEF has

\* The steps that only change the place of the run.
Steps(at) ==
  /\ DOMAIN pvRun' = RunFields /\ pvRun'.at = at
  /\ pvRun'.passport = pvRun.passport /\ pvRun'.weather = pvRun.weather
  /\ pvRun'.today = pvRun.today /\ pvRun'.has = pvRun.has

LEMMA StepsOn ==
  ASSUME RunInv, NEW at, pvRun' = [pvRun EXCEPT !.at = at]
  PROVE Steps(at)
BY DEF RunInv, Steps, RunFields

\* A run begins, or none is left.
Fresh(at) ==
  DOMAIN pvRun' = RunFields /\ pvRun'.at = at /\ pvRun'.weather = 0

LEMMA FreshRun ==
  ASSUME pvRun' \in {IdleRun, [IdleRun EXCEPT !.at = "load"]}
  PROVE Fresh("idle") \/ Fresh("load")
<1>1. \A h : LET i == [at |-> "idle", passport |-> 0, weather |-> 0, today |-> 0, has |-> h]
                 l == [i EXCEPT !.at = "load"]
             IN /\ DOMAIN i = RunFields /\ i.at = "idle" /\ i.weather = 0
                /\ DOMAIN l = RunFields /\ l.at = "load" /\ l.weather = 0
  BY DEF RunFields
<1> DEFINE h == FALSE
           i == [at |-> "idle", passport |-> 0, weather |-> 0, today |-> 0, has |-> h]
           l == [i EXCEPT !.at = "load"]
<1>2. IdleRun = i
  BY Zenon DEF IdleRun
<1>3. /\ DOMAIN i = RunFields /\ i.at = "idle" /\ i.weather = 0
      /\ DOMAIN l = RunFields /\ l.at = "load" /\ l.weather = 0
  BY <1>1, Zenon
<1>4. pvRun' = i \/ pvRun' = l
  BY <1>2, Zenon
<1> HIDE DEF i, l
<1> QED
  BY <1>3, <1>4, Zenon DEF Fresh

\* What is stored of a run: hours of a complete day of its weather.
LEMMA RunPlanFields == RunPlan.weather = pvRun.weather /\ ~RunPlan.archived
BY Zenon DEF RunPlan

LEMMA PlannedDays ==
  ASSUME NEW days, NEW plans, NEW d \in PvDays
  PROVE Planned(days, plans)[d] = IF d \in days \cap DaysOfWeather THEN RunPlan ELSE plans[d]
BY Zenon DEF Planned, RunPlan

-------------------------------------------------------------------------------
(* The invariant, step by step. *)

PvInv == RunInv /\ FreshInv /\ FrozenInv

LEMMA PvInitially == PvInit => PvInv
<1> SUFFICES ASSUME PvInit PROVE PvInv
  OBVIOUS
<1>1. pvRun.at = "idle" /\ pvRun.weather = 0 /\ DOMAIN pvRun = RunFields
  <2>1. \A h : LET i == [at |-> "idle", passport |-> 0, weather |-> 0, today |-> 0, has |-> h]
               IN i.at = "idle" /\ i.weather = 0 /\ DOMAIN i = RunFields
    BY DEF RunFields
  <2> QED
    BY <2>1, Zenon DEF PvInit, IdleRun
<1>2. RunInv
  BY <1>1, PvAssumption DEF PvAssumption, PvInit, RunInv, RunFields
<1>3. FreshInv /\ FrozenInv
  BY <1>1, Zenon DEF PvInit, FreshInv, FrozenInv
<1> QED
  BY <1>2, <1>3 DEF PvInv

\* A step that stores nothing and does not bring the run to its stores.
LEMMA NothingStored ==
  ASSUME PvInv, UNCHANGED <<latest, dayAhead>>, RunInv',
         PvBound <= PvBound', pvRun'.at \notin {"latest", "dayAhead"}
  PROVE PvInv'
<1>1. PvBound \in Int /\ PvBound' \in Int
  BY DEF PvBound, RunInv, PvInv
<1>2. FreshInv'
  BY <1>1 DEF FreshInv, PvInv
<1> QED
  BY <1>2 DEF PvInv, FrozenInv

\* The run stays where it is while the clock may go on.
LEMMA RunWaits ==
  ASSUME PvInv, UNCHANGED <<pvRun, latest, dayAhead>>, pvClock' \in {pvClock, pvClock + 1},
         pvClock' \in 0 .. LastPvTick, runRequests' \in Nat, pvFaults' \in Nat
  PROVE PvInv'
<1>1. pvClock \in Nat /\ pvClock' \in Nat /\ pvClock <= pvClock'
  BY PvAssumption DEF PvAssumption, PvInv, RunInv
<1>2. RunInv'
  BY <1>1 DEF PvInv, RunInv
<1>3. PvBound \in Int /\ PvBound' \in Int /\ PvBound <= PvBound'
  BY <1>1 DEF PvBound, PvInv, RunInv
<1>4. DaysOfWeather' = DaysOfWeather /\ RunPlan' = RunPlan
  BY Zenon DEF DaysOfWeather, RunPlan
<1>5. FreshInv'
  BY <1>3, <1>4 DEF FreshInv, PvInv
<1>6. FrozenInv'
  BY Zenon DEF FrozenInv, PvInv
<1> QED
  BY <1>2, <1>5, <1>6 DEF PvInv

\* A run that begins, ends or breaks off.
LEMMA RunElsewhere ==
  ASSUME PvInv, UNCHANGED <<pvClock, latest, dayAhead>>, runRequests' \in Nat, pvFaults' \in Nat,
         DOMAIN pvRun' = RunFields, pvRun'.weather \in {0, pvRun.weather},
         pvRun'.at \notin Underway
  PROVE PvInv'
<1>1. RunInv'
  BY DEF PvInv, RunInv, RunFields, Underway
<1>2. PvBound <= PvBound' /\ pvRun'.at \notin {"latest", "dayAhead"}
  BY DEF PvBound, PvInv, RunInv, Underway
<1> QED
  BY <1>1, <1>2, NothingStored

LEMMA FetchKeeps ==
  ASSUME PvInv, FetchWeather
  PROVE PvInv'
<1>1. /\ DOMAIN pvRun' = RunFields /\ pvRun'.at = "days" /\ pvRun'.weather = pvClock
      /\ UNCHANGED <<pvClock, latest, dayAhead, runRequests, pvFaults>> /\ pvRun.at = "weather"
  BY FetchWeatherMoves DEF PvInv, FetchWeather
<1>2. RunInv'
  BY <1>1 DEF PvInv, RunInv, RunFields
<1>3. PvBound <= PvBound'
  BY <1>1 DEF PvBound, PvInv, RunInv, Underway
<1> QED
  BY <1>1, <1>2, <1>3, NothingStored

LEMMA SortKeeps ==
  ASSUME PvInv, SortDays
  PROVE PvInv'
<1>1. /\ DOMAIN pvRun' = RunFields /\ pvRun'.at = "latest" /\ pvRun'.today = PvDayOf(pvClock)
      /\ pvRun'.weather = pvRun.weather
      /\ UNCHANGED <<pvClock, latest, dayAhead, runRequests, pvFaults>> /\ pvRun.at = "days"
  BY SortDaysMoves DEF PvInv, SortDays
<1>2. RunInv'
  BY <1>1, ClockDay DEF PvInv, RunInv, RunFields
<1>3. PvBound' = PvBound
  BY <1>1 DEF PvBound, Underway
<1>4. FreshInv'
  BY <1>1, <1>3 DEF FreshInv, PvInv
<1>5. pvRun'.weather < (pvRun'.today + 1) * PvTicks
  <2>1. pvClock < (PvDayOf(pvClock) + 1) * PvTicks /\ PvDayOf(pvClock) \in Nat
    BY DayHolds DEF PvInv, RunInv
  <2>2. PvTicks \in Nat
    BY PvAssumption DEF PvAssumption
  <2>3. (PvDayOf(pvClock) + 1) * PvTicks \in Nat
    BY <2>1, <2>2
  <2> DEFINE end == (PvDayOf(pvClock) + 1) * PvTicks
  <2>4. (pvRun'.today + 1) * PvTicks = end
    BY <1>1
  <2> HIDE DEF end
  <2>5. /\ pvRun.weather <= pvClock /\ pvClock < end
        /\ {end, pvRun.weather, pvClock} \subseteq Nat
    BY <2>1, <2>3 DEF end, PvInv, RunInv
  <2>6. pvRun.weather < end
    BY <2>5
  <2> QED
    BY <1>1, <2>4, <2>6
<1>6. ~pvRun'.has => dayAhead'[pvRun'.today] = NoPlan
  BY <1>1, SortDaysMoves, Zenon DEF PvInv
<1>7. FrozenInv'
  BY <1>5, <1>6, Zenon DEF FrozenInv
<1> QED
  BY <1>2, <1>4, <1>7 DEF PvInv

LEMMA LatestKeeps ==
  ASSUME PvInv, SaveLatest
  PROVE PvInv'
<1> DEFINE days == {pvRun.today, pvRun.today + 1}
<1>1. /\ Steps("dayAhead") /\ latest' = Planned(days, latest) /\ pvRun.at = "latest"
      /\ UNCHANGED <<pvClock, dayAhead, runRequests, pvFaults>>
  BY StepsOn DEF PvInv, SaveLatest
<1>2. latest' = [d \in PvDays |-> latest'[d]]
  BY <1>1, Zenon DEF Planned
<1>3. RunInv'
  BY <1>1, <1>2 DEF PvInv, RunInv, RunFields, Steps
<1>4. PvBound' = pvRun.weather /\ PvBound = pvRun.weather /\ pvRun.weather \in Int
  BY <1>1 DEF PvBound, Underway, Steps, PvInv, RunInv
<1>5. DaysOfWeather' = DaysOfWeather /\ RunPlan' = RunPlan
  BY <1>1, Zenon DEF DaysOfWeather, RunPlan, Steps
<1>6. \A d \in PvDays : latest'[d] = IF d \in days \cap DaysOfWeather THEN RunPlan ELSE latest[d]
  BY <1>1, PlannedDays
<1> HIDE DEF days
<1>7. ASSUME NEW d \in PvDays
      PROVE /\ latest'[d] # NoPlan => latest'[d].weather \in Int /\ latest'[d].weather <= PvBound'
            /\ dayAhead[d] # NoPlan =>
                 \/ dayAhead[d].archived
                 \/ /\ dayAhead[d].weather \in Int /\ dayAhead[d].weather <= PvBound'
                    /\ latest'[d] # NoPlan => dayAhead[d].weather <= latest'[d].weather
  <2>1. CASE d \in days \cap DaysOfWeather
    <3>1. latest'[d] = RunPlan
      BY <1>6, <2>1
    <3> QED
      BY <1>4, <3>1, RunPlanFields DEF PvInv, FreshInv
  <2>2. CASE d \notin days \cap DaysOfWeather
    <3>1. latest'[d] = latest[d]
      BY <1>6, <2>2
    <3> QED
      BY <1>4, <3>1 DEF PvInv, FreshInv
  <2> QED
    BY <2>1, <2>2
<1>8. \A d \in PvDays \cap days \cap DaysOfWeather : latest'[d] = RunPlan
  BY <1>6
<1>9. {pvRun.today, pvRun.today + 1}' = days
  BY <1>1 DEF Steps, days
<1>10. FreshInv'
  BY <1>1, <1>5, <1>7, <1>8, <1>9, Zenon DEF FreshInv
<1>11. FrozenInv'
  BY <1>1, Zenon DEF FrozenInv, PvInv, Steps
<1> QED
  BY <1>3, <1>10, <1>11 DEF PvInv

LEMMA DayAheadKeeps ==
  ASSUME PvInv, SaveDayAhead
  PROVE PvInv'
<1>1. /\ Steps("again") /\ dayAhead' = Planned(DayAheadDays, dayAhead) /\ pvRun.at = "dayAhead"
      /\ UNCHANGED <<pvClock, latest, runRequests, pvFaults>>
  BY StepsOn DEF PvInv, SaveDayAhead
<1>2. dayAhead' = [d \in PvDays |-> dayAhead'[d]]
  BY <1>1, Zenon DEF Planned
<1>3. RunInv'
  BY <1>1, <1>2 DEF PvInv, RunInv, RunFields, Steps
<1>4. /\ PvBound = pvRun.weather /\ PvBound' = pvClock /\ pvRun.weather <= pvClock
      /\ pvRun.weather \in Int /\ pvClock \in Int
  BY <1>1 DEF PvBound, Underway, Steps, PvInv, RunInv
<1>5. \A d \in PvDays : dayAhead'[d] = IF d \in DayAheadDays \cap DaysOfWeather THEN RunPlan
                                        ELSE dayAhead[d]
  BY <1>1, PlannedDays
<1>6. ASSUME NEW d \in PvDays
      PROVE /\ latest[d] # NoPlan => latest[d].weather \in Int /\ latest[d].weather <= PvBound'
            /\ dayAhead'[d] # NoPlan =>
                 \/ dayAhead'[d].archived
                 \/ /\ dayAhead'[d].weather \in Int /\ dayAhead'[d].weather <= PvBound'
                    /\ latest[d] # NoPlan => dayAhead'[d].weather <= latest[d].weather
  <2>1. CASE d \in DayAheadDays \cap DaysOfWeather
    <3>1. dayAhead'[d] = RunPlan /\ d \in {pvRun.today, pvRun.today + 1}
      BY <1>5, <2>1 DEF DayAheadDays
    <3>2. latest[d] = RunPlan
      BY <1>1, <2>1, <3>1 DEF PvInv, FreshInv
    <3> QED
      BY <1>4, <3>1, <3>2, RunPlanFields
  <2>2. CASE d \notin DayAheadDays \cap DaysOfWeather
    <3>1. dayAhead'[d] = dayAhead[d]
      BY <1>5, <2>2
    <3> QED
      BY <1>4, <3>1 DEF PvInv, FreshInv
  <2> QED
    BY <2>1, <2>2
<1>7. FreshInv'
  BY <1>1, <1>6 DEF FreshInv, Steps
<1>8. FrozenInv'
  BY <1>1 DEF FrozenInv, Steps
<1> QED
  BY <1>3, <1>7, <1>8 DEF PvInv

LEMMA HistoryPlanFields ==
  \A d : HistoryPlan(d).weather = d * PvTicks - 1 /\ HistoryPlan(d).archived
BY Zenon DEF HistoryPlan

LEMMA HistoryKeeps ==
  ASSUME PvInv, SaveHistory
  PROVE PvInv'
<1> DEFINE days == rebuild.job.days
<1>1. /\ UNCHANGED <<pvClock, pvRun, latest, runRequests, pvFaults>>
      /\ dayAhead' = [d \in PvDays |-> IF d \in days THEN HistoryPlan(d) ELSE dayAhead[d]]
  BY DEF SaveHistory
<1>2. \A d \in PvDays : dayAhead'[d].archived \/ dayAhead'[d] = dayAhead[d]
  <2>1. \A d \in PvDays : dayAhead'[d] = HistoryPlan(d) \/ dayAhead'[d] = dayAhead[d]
    BY <1>1
  <2> QED
    BY <2>1, HistoryPlanFields, Zenon
<1>3. RunInv'
  BY <1>1 DEF PvInv, RunInv
<1>4. PvBound' = PvBound /\ DaysOfWeather' = DaysOfWeather /\ RunPlan' = RunPlan
  BY <1>1, Zenon DEF PvBound, DaysOfWeather, RunPlan
<1>5. FreshInv'
  BY <1>1, <1>2, <1>4, Zenon DEF FreshInv, PvInv
<1>6. FrozenInv'
  BY <1>1, <1>2, Zenon DEF FrozenInv, PvInv, RunInv
<1> QED
  BY <1>3, <1>5, <1>6 DEF PvInv

LEMMA PvStep ==
  ASSUME PvInv, [PvNext]_pvVars
  PROVE PvInv'
<1>1. /\ pvClock \in 0 .. LastPvTick /\ runRequests \in Nat /\ pvFaults \in Nat
      /\ LastPvTick \in Nat
  BY PvAssumption DEF PvAssumption, PvInv, RunInv
<1>2. CASE SaveStation \/ ScheduledRun \/ StartHistory
  <2>1. UNCHANGED <<pvClock, pvRun, latest, dayAhead, pvFaults>> /\ runRequests' \in Nat
    BY <1>1, <1>2 DEF SaveStation, ScheduledRun, StartHistory
  <2> QED
    BY <1>1, <2>1, RunWaits
<1>3. CASE PvTick \/ UNCHANGED pvVars
  <2>1. /\ UNCHANGED <<pvRun, latest, dayAhead, pvFaults, runRequests>>
        /\ pvClock' \in {pvClock, pvClock + 1} /\ pvClock' \in 0 .. LastPvTick
    BY <1>1, <1>3 DEF PvTick, pvVars
  <2> QED
    BY <1>1, <2>1, RunWaits
<1>4. CASE Claim
  <2>1. UNCHANGED <<pvClock, latest, dayAhead, pvFaults>> /\ runRequests' \in Nat
    BY <1>1, <1>4 DEF Claim
  <2>2. pvRun' = pvRun \/ pvRun' = [IdleRun EXCEPT !.at = "load"]
    BY <1>4, Zenon DEF Claim
  <2>3. CASE pvRun' = pvRun
    BY <1>1, <2>1, <2>3, RunWaits
  <2>4. CASE pvRun' = [IdleRun EXCEPT !.at = "load"]
    <3>1. Fresh("idle") \/ Fresh("load")
      BY <2>4, FreshRun
    <3> QED
      BY <1>1, <2>1, <3>1, RunElsewhere DEF Fresh, Underway
  <2> QED
    BY <2>2, <2>3, <2>4
<1>5. CASE LoadPassport
  <2>1. UNCHANGED <<pvClock, latest, dayAhead, pvFaults, runRequests>>
    BY <1>5 DEF LoadPassport
  <2> QED
    BY <1>1, <1>5, <2>1, LoadPassportMoves, RunElsewhere DEF Underway, PvInv
<1>6. CASE TakeRerun
  <2>1. UNCHANGED <<pvClock, latest, dayAhead, pvFaults, runRequests>>
    BY <1>6 DEF TakeRerun
  <2>2. pvRun' = [IdleRun EXCEPT !.at = "load"] \/ pvRun' = [pvRun EXCEPT !.at = "release"]
    BY <1>6, Zenon DEF TakeRerun
  <2>3. Fresh("idle") \/ Fresh("load") \/ Steps("release")
    BY <2>2, FreshRun, StepsOn DEF PvInv
  <2> QED
    BY <1>1, <2>1, <2>3, RunElsewhere DEF Fresh, Steps, Underway
<1>7. CASE Release \/ RunFails
  <2>1. UNCHANGED <<pvClock, latest, dayAhead, runRequests>> /\ pvFaults' \in Nat
    BY <1>1, <1>7 DEF Release, RunFails
  <2>2. Steps("idle") \/ Steps("again")
    BY <1>7, StepsOn DEF Release, RunFails, PvInv
  <2> QED
    BY <1>1, <2>1, <2>2, RunElsewhere DEF Steps, Underway
<1>8. CASE PvRestart
  <2>1. UNCHANGED <<pvClock, latest, dayAhead>> /\ pvFaults' \in Nat /\ runRequests' \in Nat
    BY <1>1, <1>8 DEF PvRestart
  <2>2. Fresh("idle") \/ Fresh("load")
    <3>1. pvRun' = IdleRun
      BY <1>8, Zenon DEF PvRestart
    <3> QED
      BY <3>1, FreshRun
  <2> QED
    BY <2>1, <2>2, RunElsewhere DEF Fresh, Underway
<1> QED
  BY <1>2, <1>3, <1>4, <1>5, <1>6, <1>7, <1>8, FetchKeeps, SortKeeps, LatestKeeps, DayAheadKeeps,
     HistoryKeeps DEF PvNext

LEMMA PvAlways == PvSpec => []PvInv
<1>1. PvInv /\ [PvNext]_pvVars => PvInv'
  BY PvStep
<1> QED
  BY <1>1, PvInitially, PTL DEF PvSpec

\* While the passport is newer than the run's, a run is still to come.
LEMMA PassportStep ==
  ASSUME RunInv, PassportNotForgotten, [PvNext]_pvVars
  PROVE PassportNotForgotten'
<1> USE DEF PassportNotForgotten
<1>1. runRequests \in Nat /\ pvFaults \in Nat
  BY DEF RunInv
<1>2. CASE SaveStation \/ ScheduledRun
  BY <1>1, <1>2 DEF SaveStation, ScheduledRun
<1>3. CASE StartHistory \/ SaveHistory \/ PvTick \/ UNCHANGED pvVars
  BY <1>3, Zenon DEF StartHistory, SaveHistory, PvTick, pvVars
<1>4. CASE Claim
  <2>1. CASE pvRun.at = "idle"
    <3>1. pvRun' = [IdleRun EXCEPT !.at = "load"]
      BY <1>4, <2>1, Zenon DEF Claim
    <3>2. pvRun'.at = "load"
      <4>1. \A h : [[at |-> "idle", passport |-> 0, weather |-> 0, today |-> 0, has |-> h]
                      EXCEPT !.at = "load"].at = "load"
        OBVIOUS
      <4> QED
        BY <3>1, <4>1, Zenon DEF IdleRun
    <3> QED
      BY <3>2
  <2>2. CASE pvRun.at # "idle"
    BY <1>4, <2>2, Zenon DEF Claim, Claimed
  <2> QED
    BY <2>1, <2>2
<1>5. CASE LoadPassport
  BY <1>5, LoadPassportMoves DEF LoadPassport
<1>6. CASE FetchWeather
  <2>1. UNCHANGED <<passport, rerun, runRequests, pvFaults>> /\ pvRun.at # "load"
    BY <1>6 DEF FetchWeather
  <2> QED
    BY <1>6, <2>1, FetchWeatherMoves, Zenon
<1>7. CASE SortDays
  <2>1. UNCHANGED <<passport, rerun, runRequests, pvFaults>> /\ pvRun.at # "load"
    BY <1>7 DEF SortDays
  <2>2. pvRun'.passport = pvRun.passport
    BY <1>7, SortDaysMoves
  <2> QED
    BY <2>1, <2>2, Zenon
<1>8. CASE SaveLatest \/ SaveDayAhead \/ Release
  <2>1. UNCHANGED <<passport, rerun, runRequests, pvFaults>> /\ pvRun.at # "load"
    BY <1>8 DEF SaveLatest, SaveDayAhead, Release
  <2>2. Steps("dayAhead") \/ Steps("again") \/ Steps("idle")
    BY <1>8, StepsOn DEF SaveLatest, SaveDayAhead, Release
  <2> QED
    BY <2>1, <2>2, Zenon DEF Steps
<1>9. CASE TakeRerun
  <2>1. UNCHANGED <<passport, runRequests, pvFaults>> /\ pvRun.at # "load"
    BY <1>9 DEF TakeRerun
  <2>2. CASE rerun
    <3>1. pvRun' = [IdleRun EXCEPT !.at = "load"]
      BY <1>9, <2>2, Zenon DEF TakeRerun
    <3>2. pvRun'.at = "load"
      <4>1. \A h : [[at |-> "idle", passport |-> 0, weather |-> 0, today |-> 0, has |-> h]
                      EXCEPT !.at = "load"].at = "load"
        OBVIOUS
      <4> QED
        BY <3>1, <4>1, Zenon DEF IdleRun
    <3> QED
      BY <3>2
  <2>3. CASE ~rerun
    <3>1. Steps("release")
      BY <1>9, <2>3, StepsOn DEF TakeRerun
    <3> QED
      BY <2>1, <2>3, <3>1, Zenon DEF Steps
  <2> QED
    BY <2>2, <2>3
<1>10. CASE RunFails \/ PvRestart
  BY <1>1, <1>10 DEF RunFails, PvRestart
<1> QED
  BY <1>2, <1>3, <1>4, <1>5, <1>6, <1>7, <1>8, <1>9, <1>10 DEF PvNext

\* Control's plan follows the newest run and every run the newest passport:
\* whichever run broke off between its two stores, control's plan is none
\* older than another run's, and a passport saved mid-run is not forgotten
\* (planner.go claim, forecastOnce, storage/pvplan.go pvPlanControlHours).
THEOREM PvPlanFollowsPassport == PvSpec => []PlanFollowsPassport
<1>1. PvInit => PassportNotForgotten
  BY DEF PvInit, PassportNotForgotten
<1>2. PvInv /\ PassportNotForgotten /\ [PvNext]_pvVars => PassportNotForgotten'
  BY PassportStep DEF PvInv
<1>3. PvInv => ControlIsFreshest
  BY DEF PvInv, FreshInv, ControlIsFreshest, ControlPlan
<1> QED
  BY <1>1, <1>2, <1>3, PvAlways, PTL DEF PvSpec, PlanFollowsPassport

\* Once a day has begun, the plan a run made for it gives way only to one of
\* weather from before the day: an archived one, or that of a run that read
\* the clock before midnight and stores after it (planner.go forecastOnce,
\* storage/pvplan.go).
THEOREM PvPlanFrozenOnceBegun == PvSpec => FrozenOnceBegun
<1> DEFINE Frozen == \A d \in PvDays :
             /\ d <= PvDayOf(pvClock) /\ dayAhead[d] # NoPlan /\ dayAhead'[d] # dayAhead[d]
             /\ ~dayAhead[d].archived
             => dayAhead'[d].weather < d * PvTicks
<1>1. ASSUME PvInv, [PvNext]_pvVars PROVE [Frozen]_dayAhead
  <2> SUFFICES ASSUME NEW d \in PvDays, dayAhead[d] # NoPlan, dayAhead'[d] # dayAhead[d],
                      ~dayAhead[d].archived
               PROVE dayAhead'[d].weather < d * PvTicks
    OBVIOUS
  <2>1. d \in Int /\ PvTicks \in Nat /\ d * PvTicks \in Int
    BY PvAssumption DEF PvAssumption, PvDays
  <2>2. CASE SaveDayAhead
    <3>1. dayAhead'[d] = RunPlan /\ d \in DayAheadDays
      BY <2>2, PlannedDays DEF SaveDayAhead
    <3>2. pvRun.at = "dayAhead"
      BY <2>2 DEF SaveDayAhead
    <3>3. d # pvRun.today \/ pvRun.has
      BY <1>1, <3>2 DEF PvInv, FrozenInv
    <3>4. d = pvRun.today + 1
      BY <3>1, <3>3 DEF DayAheadDays
    <3>5. pvRun.weather < (pvRun.today + 1) * PvTicks
      BY <1>1, <3>2 DEF PvInv, FrozenInv
    <3> QED
      BY <3>1, <3>4, <3>5, RunPlanFields
  <2>3. CASE SaveHistory
    <3>1. dayAhead'[d] = HistoryPlan(d)
      BY <2>3 DEF SaveHistory
    <3> DEFINE begun == d * PvTicks
    <3>2. dayAhead'[d].weather = begun - 1
      BY <3>1, HistoryPlanFields
    <3> HIDE DEF begun
    <3> QED
      BY <2>1, <3>2 DEF begun
  <2>4. ASSUME ~SaveDayAhead, ~SaveHistory PROVE dayAhead' = dayAhead
    BY <1>1, <2>4, Zenon
       DEF PvNext, SaveStation, ScheduledRun, Claim, LoadPassport, FetchWeather, SortDays,
           SaveLatest, TakeRerun, Release, RunFails, PvRestart, StartHistory, PvTick, pvVars
  <2> QED
    BY <2>2, <2>3, <2>4
<1> QED
  BY <1>1, PvAlways, PTL DEF PvSpec, FrozenOnceBegun

-------------------------------------------------------------------------------
(* The market's prices.  FetchInv bounds the daily run's wait, HealedInv follows the  *)
(* backfill over the days it owes, MidnightInv says where each attended day that has  *)
(* not been stored whole still is.                                                    *)

Fetching == {"fetch", "backoff", "wait"}
DamStored(d) == damRows[d] = AllHours
DamFaultSince(d) == wholeSince[d] <= damFaultAt
LateSheet(d) == d * DamDay <= damNow /\ d * DamDay <= wholeSince[d]

DamTypes ==
  /\ damNow \in 0 .. LastDamTick /\ damFaultAt \in Int /\ damFaultAt <= damNow
  /\ damFaults \in Nat
  /\ sheets \in [DamDays -> {"absent", "part", "whole"}]
  /\ wholeSince \in [DamDays -> Nat]
  /\ damRows \in [DamDays -> SUBSET AllHours]
  /\ dpc \in Fetching \union {"off", "backfill", "sleep"}
  /\ damRun \in [kind : {"none", "catchup", "daily", "backfill"}, target : Int, tries : Int,
                 until : Int]
  /\ wake \in Int
  /\ owed \subseteq DamDays /\ attended \subseteq DamDays
  /\ \A d \in DamDays : IF sheets[d] = "whole" THEN wholeSince[d] <= damNow
                                               ELSE wholeSince[d] = LastDamTick + 1

FetchInv ==
  /\ dpc \in Fetching => /\ damRun.target \in DamDays /\ damRun.target <= DamToday + 1
                         /\ damRun.kind \in {"catchup", "daily"}
  /\ dpc = "wait" => /\ damRun.kind = "daily" /\ damNow <= wake /\ wake <= damNow + DamRetry
                     /\ \/ DamFaultSince(damRun.target)
                        \/ wake <= wholeSince[damRun.target] + DamRetry

HealedInv ==
  \A d \in owed :
    /\ sheets[d] = "whole"
    /\ dpc = "sleep" => DamStored(d)
    /\ dpc = "backfill" => d <= damRun.until /\ (d < damRun.target => DamStored(d))

MidnightInv ==
  \A d \in attended \ partial :
    \/ DamStored(d) \/ DamFaultSince(d) \/ LateSheet(d)
    \/ dpc \in Fetching /\ damRun.kind = "daily" /\ damRun.target = d
    \/ dpc = "backfill" /\ d \in damRun.target .. damRun.until /\ d * DamDay <= damNow

DamInv == DamTypes /\ FetchInv /\ HealedInv /\ MidnightInv

-------------------------------------------------------------------------------

LEMMA DamDayBounds ==
  ASSUME NEW t \in Nat
  PROVE /\ t \div DamDay \in Nat
        /\ \A d \in Int : d * DamDay <= t <=> d <= t \div DamDay
<1> DEFINE n == DamDay
<1>1. n \in Nat \ {0}
  BY DamAssumption DEF DamAssumption
<1> HIDE DEF n
<1> DEFINE q == t \div n
           r == t % n
<1>2. q \in Nat /\ r \in 0 .. n - 1 /\ t = n * q + r
  BY <1>1
<1> HIDE DEF q, r
<1>3. ASSUME NEW d \in Int, d <= q PROVE d * n <= t
  <2>1. d * n <= q * n
    BY <1>1, <1>2, <1>3
  <2> QED
    BY <1>1, <1>2, <2>1
<1>4. ASSUME NEW d \in Int, d * n <= t, q + 1 <= d PROVE FALSE
  <2>1. (q + 1) * n <= d * n
    BY <1>1, <1>2, <1>4
  <2>2. (q + 1) * n = n * q + n
    BY <1>1, <1>2
  <2>3. d * n \in Int
    BY <1>1
  <2> QED
    BY <1>1, <1>2, <1>4, <2>1, <2>2, <2>3
<1>5. \A d \in Int : d * n <= t <=> d <= q
  BY <1>2, <1>3, <1>4
<1> QED
  BY <1>2, <1>5 DEF n, q

LEMMA DamTodayDays ==
  ASSUME DamTypes
  PROVE /\ damNow \in Nat /\ DamToday \in Nat /\ DamToday \in DamDays /\ targetDate \in DamDays
        /\ \A d \in Int : d * DamDay <= damNow <=> d <= DamToday
<1>1. damNow \in Nat /\ LastDamTick \in Nat /\ damNow <= LastDamTick
  BY DamAssumption DEF DamAssumption, DamTypes
<1>2. DamDay \in Nat
  BY DamAssumption DEF DamAssumption
<1> DEFINE t == damNow \div DamDay
           u == LastDamTick \div DamDay
<1>3. t \in Nat /\ u \in Nat /\ t * DamDay <= damNow
  BY <1>1, DamDayBounds
<1>4. t * DamDay <= LastDamTick
  <2>1. t * DamDay \in Int
    BY <1>2, <1>3
  <2> QED
    BY <1>1, <1>3, <2>1
<1>5. t <= u
  BY <1>1, <1>3, <1>4, DamDayBounds
<1>6. \A d \in Int : d * DamDay <= damNow <=> d <= t
  BY <1>1, DamDayBounds
<1> QED
  BY <1>1, <1>3, <1>5, <1>6 DEF DamToday, targetDate, DamDays

LEMMA SheetHoursFacts ==
  /\ SheetHours \in Nat \ {0} /\ SheetHoursOf("whole") = AllHours /\ AllHours # {}
  /\ \A s : SheetHoursOf(s) \subseteq AllHours
<1>1. SheetHours \in Nat \ {0}
  BY DamAssumption DEF DamAssumption
<1>2. 1 \in AllHours
  BY <1>1 DEF AllHours
<1> QED
  BY <1>1, <1>2 DEF SheetHoursOf

LEMMA NeedsFetchHolds ==
  ASSUME NEW d \in DamDays, damRows[d] \subseteq AllHours
  PROVE needsFetch(d) <=> ~DamStored(d)
<1>1. IsFiniteSet(AllHours) /\ Cardinality(AllHours) = SheetHours
  BY SheetHoursFacts, FS_Interval DEF AllHours
<1>2. /\ IsFiniteSet(damRows[d]) /\ Cardinality(damRows[d]) <= SheetHours
      /\ SheetHours = Cardinality(damRows[d]) => AllHours = damRows[d]
  BY <1>1, FS_Subset
<1>3. Cardinality(damRows[d]) \in Nat
  BY <1>2, FS_CardinalityType
<1> QED
  BY <1>1, <1>2, <1>3, SheetHoursFacts DEF needsFetch, DamStored

LEMMA DamFaultMoves ==
  ASSUME DamTypes, DamNext
  PROVE /\ damNow <= damNow' /\ damNow' \in 0 .. LastDamTick
        /\ damFaultAt <= damFaultAt' /\ damFaultAt' \in Int /\ damFaultAt' <= damNow'
        /\ damFaults' \in Nat
        /\ wholeSince' # wholeSince => damNow' = damNow
<1>1. /\ damNow \in 0 .. LastDamTick /\ LastDamTick \in Nat
      /\ damFaultAt \in Int /\ damFaultAt <= damNow /\ damFaults \in Nat
  BY DamAssumption DEF DamTypes, DamAssumption
<1>2. CASE DamTick
  BY <1>1, <1>2 DEF DamTick
<1>3. CASE DownloadFails \/ BackfillDay
  <2>1. /\ UNCHANGED <<damNow, wholeSince>>
        /\ \/ UNCHANGED <<damFaultAt, damFaults>>
           \/ damFaultAt' = damNow /\ damFaults' = damFaults + 1
    BY <1>3, Zenon DEF DownloadFails, BackfillDay
  <2> QED
    BY <1>1, <2>1
<1>4. CASE /\ UNCHANGED <<damNow, damFaultAt>>
           /\ damFaults' = damFaults \/ damFaults' = damFaults + 1
  BY <1>1, <1>4
<1> QED
  BY <1>2, <1>3, <1>4
     DEF DamNext, PublishSheet, RefreshDay, StartDam, FetchStores, FetchRefused, BackoffEnds,
         WaitEnds, DailyRun, StopDam

LEMMA DamSheetsMove ==
  ASSUME DamTypes, DamNext
  PROVE /\ sheets' \in [DamDays -> {"absent", "part", "whole"}]
        /\ wholeSince' \in [DamDays -> Nat]
        /\ \A d \in DamDays :
             /\ IF sheets'[d] = "whole" THEN wholeSince'[d] <= damNow'
                                        ELSE wholeSince'[d] = LastDamTick + 1
             /\ sheets[d] = "whole" => sheets'[d] = "whole"
             /\ \/ wholeSince'[d] = wholeSince[d]
                \/ wholeSince[d] = LastDamTick + 1 /\ wholeSince'[d] = damNow /\ damNow' = damNow
<1>1. CASE \E e \in DamDays : PublishSheet(e)
  BY <1>1 DEF DamTypes, PublishSheet
<1>2. CASE UNCHANGED <<sheets, wholeSince>>
  BY <1>2, DamFaultMoves DEF DamTypes
<1> QED
  BY <1>1, <1>2
     DEF DamNext, RefreshDay, DamTick, StartDam, FetchStores, FetchRefused, DownloadFails,
         BackoffEnds, WaitEnds, BackfillDay, DailyRun, StopDam

LEMMA DamRowsGrow ==
  ASSUME DamTypes, FetchInv, DamNext
  PROVE /\ damRows' \in [DamDays -> SUBSET AllHours]
        /\ \A d \in DamDays : DamStored(d) => DamStored(d)'
<1>1. CASE UNCHANGED damRows
  BY <1>1 DEF DamTypes, DamStored
<1>2. ASSUME NEW e \in DamDays, NEW s,
             damRows' = [damRows EXCEPT ![e] = @ \union SheetHoursOf(s)]
      PROVE /\ damRows' \in [DamDays -> SUBSET AllHours]
            /\ \A d \in DamDays : DamStored(d) => DamStored(d)'
  <2>1. damRows[e] \union SheetHoursOf(s) \in SUBSET AllHours
    BY SheetHoursFacts DEF DamTypes
  <2>2. AllHours' = AllHours
    BY DEF AllHours
  <2> QED
    BY <1>2, <2>1, <2>2 DEF DamTypes, DamStored
<1>3. CASE FetchStores
  <2>1. damRun.target \in DamDays
    BY <1>3 DEF FetchStores, FetchInv, Fetching
  <2> QED
    BY <1>2, <1>3, <2>1 DEF FetchStores
<1>4. CASE \E d \in DamDays : RefreshDay(d)
  BY <1>2, <1>4 DEF RefreshDay
<1>5. CASE BackfillDay
  BY <1>1, <1>2, <1>5 DEF BackfillDay
<1> QED
  BY <1>1, <1>3, <1>4, <1>5
     DEF DamNext, PublishSheet, DamTick, StartDam, FetchRefused, DownloadFails,
         BackoffEnds, WaitEnds, DailyRun, StopDam

\* Nothing stored is lost, and what spoke for a day does so still.
LEMMA Onward ==
  ASSUME DamTypes, FetchInv, DamNext, NEW d \in DamDays
  PROVE /\ DamStored(d) => DamStored(d)'
        /\ DamFaultSince(d) => DamFaultSince(d)'
        /\ LateSheet(d) => LateSheet(d)'
        /\ d * DamDay <= damNow => d * DamDay <= damNow'
<1>1. /\ d \in Int /\ DamDay \in Nat /\ LastDamTick \in Nat
  BY DamAssumption DEF DamAssumption, DamDays
<1> DEFINE m == d * DamDay
<1>2. m \in Int
  BY <1>1
<1> HIDE DEF m
<1>3. /\ damNow \in 0 .. LastDamTick /\ damFaultAt \in Int /\ damFaultAt <= damNow
      /\ wholeSince[d] \in Nat
  BY DEF DamTypes
<1>4. DamFaultSince(d) => DamFaultSince(d)'
  BY <1>1, <1>3, DamFaultMoves, DamSheetsMove DEF DamFaultSince
<1>5. /\ m <= damNow /\ m <= wholeSince[d] => m <= damNow' /\ m <= wholeSince'[d]
      /\ m <= damNow => m <= damNow'
  BY <1>1, <1>2, <1>3, DamFaultMoves, DamSheetsMove
<1> QED
  BY <1>4, <1>5, DamRowsGrow DEF LateSheet, m

\* Where the collector goes next.
LEMMA Backfills ==
  ASSUME DamTypes, BeginBackfill
  PROVE /\ dpc' = "backfill" /\ wake' = wake
        /\ damRun' \in [kind : {"none", "catchup", "daily", "backfill"}, target : Int,
                        tries : Int, until : Int]
        /\ damRun'.target = DamToday - BackfillDays /\ damRun'.until = DamToday
        /\ DamToday \in damRun'.target .. damRun'.until
        /\ owed' \subseteq {d \in DamDays : /\ d \in damRun'.target .. damRun'.until
                                            /\ sheets[d] = "whole"}
<1>1. DamToday \in Nat /\ BackfillDays \in Nat
  BY DamTodayDays, DamAssumption DEF DamAssumption
<1> QED
  BY <1>1 DEF BeginBackfill

LEMMA Fetches ==
  ASSUME DamTypes, NEW kind \in {"catchup", "daily"}, BeginFetch(kind, DamAttempts)
  PROVE /\ dpc' = "fetch" /\ wake' = wake /\ owed' = owed
        /\ damRun' \in [kind : {"none", "catchup", "daily", "backfill"}, target : Int,
                        tries : Int, until : Int]
        /\ damRun'.target = targetDate /\ damRun'.kind = kind
<1>1. targetDate \in Int /\ DamAttempts \in Int
  BY DamTodayDays, DamAssumption DEF DamAssumption, targetDate
<1> QED
  BY <1>1 DEF BeginFetch

LEMMA FetchEnded ==
  ASSUME DamTypes, FetchInv, dpc = "fetch", NEW ok \in BOOLEAN, FetchEnds(ok)
  PROVE \/ BeginBackfill
        \/ /\ ~ok /\ damRun.kind = "daily" /\ dpc' = "wait" /\ wake' = damNow + DamRetry
           /\ UNCHANGED <<damRun, owed>>
BY DEF FetchEnds, FetchInv, Fetching

LEMMA DamTypesStep ==
  ASSUME DamTypes, FetchInv, DamNext
  PROVE DamTypes'
<1> DEFINE Runs == [kind : {"none", "catchup", "daily", "backfill"}, target : Int, tries : Int,
                    until : Int]
           Where == Fetching \union {"off", "backfill", "sleep"}
<1>1. /\ dpc \in Where /\ damRun \in Runs /\ wake \in Int /\ owed \subseteq DamDays
      /\ attended \subseteq DamDays /\ damNow \in Int
      /\ DamRetry \in Int /\ DamBackoff \in Int
  BY DamAssumption DEF DamTypes, DamAssumption
<1>2. DamToday \in Nat /\ targetDate \in DamDays
  BY DamTodayDays
<1> SUFFICES dpc' \in Where /\ damRun' \in Runs /\ wake' \in Int /\ owed' \subseteq DamDays
             /\ attended' \subseteq DamDays
  BY DamFaultMoves, DamSheetsMove, DamRowsGrow DEF DamTypes, DamDays
<1> HIDE DEF Runs
<1>3. CASE UNCHANGED <<dpc, damRun, wake, owed, attended>>
  BY <1>1, <1>3
<1>4. CASE BeginBackfill /\ UNCHANGED attended
  BY <1>1, <1>4, Backfills DEF Runs
<1>5. CASE \E kind \in {"catchup", "daily"} : BeginFetch(kind, DamAttempts) /\ UNCHANGED attended
  BY <1>1, <1>5, Fetches DEF Runs, Fetching
<1>6. CASE dpc = "fetch" /\ UNCHANGED attended /\ \E ok \in BOOLEAN : FetchEnds(ok)
  BY <1>1, <1>4, <1>6, FetchEnded DEF Fetching
<1>7. CASE DownloadFails
  <2>1. CASE damRun.tries > 1
    <3>1. [damRun EXCEPT !.tries = @ - 1] \in Runs
      BY <1>1 DEF Runs
    <3>2. /\ dpc' = "backoff" /\ wake' = damNow + DamBackoff
          /\ damRun' = [damRun EXCEPT !.tries = @ - 1] /\ owed' = owed /\ attended' = attended
      BY <1>7, <2>1 DEF DownloadFails
    <3> QED
      BY <1>1, <3>1, <3>2 DEF Fetching
  <2> QED
    BY <1>6, <1>7, <2>1 DEF DownloadFails
<1>8. CASE BackfillDay
  <2>1. [damRun EXCEPT !.target = @ + 1] \in Runs /\ Idle \in Runs
    BY <1>1 DEF Runs, Idle
  <2>2. nextRunAt \in Int
    BY <1>1, <1>2, DamAssumption DEF nextRunAt, DamAssumption
  <2> QED
    BY <1>1, <1>8, <2>1, <2>2 DEF BackfillDay, NextBackfillDay
<1>9. CASE DailyRun
  BY <1>1, <1>2, <1>9, Fetches DEF DailyRun, Runs, Fetching
<1>10. CASE StopDam
  BY <1>1, <1>10 DEF StopDam, Idle, Runs
<1>11. CASE BackoffEnds
  BY <1>1, <1>11 DEF BackoffEnds, Fetching
<1>12. CASE StartDam \/ WaitEnds
  BY <1>4, <1>5, <1>12 DEF StartDam, WaitEnds, Retry
<1>13. CASE FetchStores \/ FetchRefused
  BY <1>6, <1>13 DEF FetchStores, FetchRefused
<1> QED
  BY <1>3, <1>7, <1>8, <1>9, <1>10, <1>11, <1>12, <1>13
     DEF DamNext, PublishSheet, RefreshDay, DamTick

LEMMA TodayMoves ==
  ASSUME DamTypes, DamTypes', DamNext
  PROVE DamToday \in Nat /\ DamToday' \in Nat /\ DamToday <= DamToday'
<1>1. /\ DamToday \in Nat /\ DamToday' \in Nat
      /\ \A d \in Int : d * DamDay <= damNow <=> d <= DamToday
      /\ \A d \in Int : d * DamDay <= damNow' <=> d <= DamToday'
  <2>1. DamDay \in Nat /\ LastDamTick \in Nat
    BY DamAssumption DEF DamAssumption
  <2>2. damNow \in Nat /\ damNow' \in Nat
    BY <2>1 DEF DamTypes
  <2> QED
    BY <2>2, DamDayBounds DEF DamToday
<1>2. damNow \in Int /\ damNow' \in Int /\ damNow <= damNow'
  BY DamFaultMoves DEF DamTypes
<1>3. DamToday * DamDay \in Int
  BY <1>1, DamAssumption DEF DamAssumption
<1> QED
  BY <1>1, <1>2, <1>3

LEMMA FetchStep ==
  ASSUME DamTypes, DamTypes', FetchInv, DamNext
  PROVE FetchInv'
<1> DEFINE Target(d) == d \in DamDays /\ d <= DamToday' + 1
           Waits == /\ damRun'.kind = "daily" /\ damNow' <= wake' /\ wake' <= damNow' + DamRetry
                    /\ \/ DamFaultSince(damRun.target)'
                       \/ wake' <= wholeSince'[damRun'.target] + DamRetry
<1>1. DamRetry \in Nat /\ damNow \in Int /\ wake \in Int /\ LastDamTick \in Nat
  BY DamAssumption DEF DamTypes, DamAssumption
<1>2. DamToday \in Nat /\ DamToday' \in Nat /\ DamToday <= DamToday' /\ targetDate \in DamDays
  BY TodayMoves, DamTodayDays
<1>3. DamDays' = DamDays
  BY DEF DamDays
<1>4. dpc \in Fetching => Target(damRun.target) /\ damRun.kind \in {"catchup", "daily"}
  BY <1>2 DEF FetchInv, DamDays
<1> SUFFICES /\ dpc' \in Fetching => Target(damRun'.target)
                                     /\ damRun'.kind \in {"catchup", "daily"}
             /\ dpc' = "wait" => Waits
  BY <1>3 DEF FetchInv, DamFaultSince
<1>5. CASE /\ UNCHANGED <<dpc, damRun, wake>>
           /\ dpc = "wait" => damNow < wake \/ damNow' = damNow
  <2>1. ASSUME dpc = "wait" PROVE Waits
    <3>0. PICK d \in DamDays : d = damRun.target
      BY <2>1 DEF FetchInv, Fetching
    <3>1. /\ damRun.kind = "daily" /\ damNow <= wake /\ wake <= damNow + DamRetry
          /\ wholeSince[d] <= damFaultAt \/ wake <= wholeSince[d] + DamRetry
      BY <2>1, <3>0 DEF FetchInv, Fetching, DamFaultSince
    <3>2. /\ damNow' = damNow \/ (damNow' = damNow + 1 /\ damNow < wake)
          /\ damRun' = damRun /\ wake' = wake
      <4>1. damNow' = damNow \/ damNow' = damNow + 1
        BY DEF DamNext, PublishSheet, RefreshDay, DamTick, StartDam, FetchStores, FetchRefused,
               DownloadFails, BackoffEnds, WaitEnds, BackfillDay, DailyRun, StopDam
      <4> QED
        BY <1>5, <2>1, <4>1
    <3>3. damNow' <= wake' /\ wake' <= damNow' + DamRetry
      BY <1>1, <3>1, <3>2
    <3>4. wholeSince[d] <= damFaultAt => wholeSince'[d] <= damFaultAt'
      BY Onward DEF DamFaultSince
    <3>5. wholeSince'[d] = wholeSince[d] \/ wholeSince'[d] = damNow
      BY DamSheetsMove
    <3>6. wholeSince'[d] <= damFaultAt' \/ wake' <= wholeSince'[d] + DamRetry
      BY <1>1, <3>1, <3>2, <3>4, <3>5
    <3> QED
      BY <3>0, <3>1, <3>2, <3>3, <3>6 DEF DamFaultSince
  <2> QED
    BY <1>4, <1>5, <2>1
<1>6. CASE BeginBackfill
  BY <1>6, Backfills DEF Fetching
<1>7. CASE \E kind \in {"catchup", "daily"} : BeginFetch(kind, DamAttempts)
  BY <1>2, <1>7, Fetches DEF targetDate
<1>8. CASE /\ dpc = "fetch" /\ FetchEnds(FALSE) /\ UNCHANGED <<damNow, sheets, wholeSince>>
           /\ sheets[damRun.target] # "whole" \/ damFaultAt' = damNow
  <2>1. CASE dpc' = "wait"
    <3> DEFINE d == damRun.target
    <3>1. /\ d \in DamDays /\ damRun.kind = "daily" /\ damRun' = damRun
          /\ wake' = damNow + DamRetry
      BY <1>4, <1>6, <1>8, <2>1, FetchEnded, Backfills DEF Fetching
    <3>2. /\ wholeSince'[d] = wholeSince[d] /\ wholeSince[d] \in Nat /\ damNow' = damNow
          /\ IF sheets[d] = "whole" THEN wholeSince[d] <= damNow
                                    ELSE wholeSince[d] = LastDamTick + 1
      BY <1>8, <3>1 DEF DamTypes
    <3>3. damNow <= LastDamTick
      BY <1>1 DEF DamTypes
    <3>4. CASE sheets[d] = "whole"
      <4>1. wholeSince'[d] <= damFaultAt'
        BY <1>8, <3>2, <3>4
      <4> QED
        BY <1>1, <2>1, <1>4, <1>8, <3>1, <3>2, <4>1 DEF DamFaultSince, Fetching
    <3>5. CASE sheets[d] # "whole"
      <4>1. wake' <= wholeSince'[damRun'.target] + DamRetry
        BY <1>1, <3>1, <3>2, <3>3, <3>5
      <4> QED
        BY <1>1, <2>1, <1>4, <1>8, <3>1, <3>2, <4>1 DEF Fetching
    <3> QED
      BY <3>4, <3>5
  <2> QED
    BY <1>6, <1>8, <2>1, FetchEnded
<1>9. CASE FetchRefused
  BY <1>8, <1>9, SheetHoursFacts DEF FetchRefused
<1>10. CASE DownloadFails
  <2>1. /\ dpc = "fetch" /\ UNCHANGED <<damNow, sheets, wholeSince>>
        /\ sheets[damRun.target] # "whole" \/ damFaultAt' = damNow
        /\ \/ dpc' = "backoff" /\ damRun' = [damRun EXCEPT !.tries = @ - 1]
           \/ FetchEnds(FALSE)
    BY <1>10 DEF DownloadFails
  <2>2. CASE dpc' = "backoff" /\ damRun' = [damRun EXCEPT !.tries = @ - 1]
    <3>1. damRun'.target = damRun.target /\ damRun'.kind = damRun.kind
      BY <2>2 DEF DamTypes
    <3> QED
      BY <1>4, <2>1, <2>2, <3>1 DEF Fetching
  <2> QED
    BY <1>8, <2>1, <2>2
<1>11. CASE BackoffEnds
  BY <1>4, <1>11 DEF BackoffEnds, Fetching
<1>12. CASE BackfillDay \/ StopDam
  BY <1>12 DEF BackfillDay, NextBackfillDay, StopDam, Fetching
<1>13. CASE StartDam \/ WaitEnds \/ DailyRun
  BY <1>6, <1>7, <1>13 DEF StartDam, WaitEnds, Retry, DailyRun
<1>14. CASE FetchStores
  BY <1>6, <1>14, FetchEnded DEF FetchStores
<1>15. CASE DamTick \/ \E d \in DamDays : PublishSheet(d) \/ RefreshDay(d)
  BY <1>5, <1>15 DEF DamTick, PublishSheet, RefreshDay
<1> QED
  BY <1>9, <1>10, <1>11, <1>12, <1>13, <1>14, <1>15 DEF DamNext

\* The start of a day on the clock.
LEMMA DayStarts == \A d \in DamDays : d * DamDay \in Int
<1> SUFFICES ASSUME NEW d \in DamDays PROVE d * DamDay \in Int
  OBVIOUS
<1>1. d \in Int
  BY DEF DamDays
<1>2. DamDay \in Int
  BY DamAssumption DEF DamAssumption
<1> QED
  BY <1>1, <1>2

\* The clock and the times kept from it.
LEMMA ClockTyped ==
  ASSUME DamTypes
  PROVE  /\ damNow \in Int /\ LastDamTick \in Int /\ damNow <= LastDamTick
         /\ damFaultAt \in Int /\ \A d \in DamDays : wholeSince[d] \in Nat
<1>1. LastDamTick \in Nat /\ damNow \in 0 .. LastDamTick /\ damFaultAt \in Int
  BY DamAssumption DEF DamAssumption, DamTypes
<1>2. wholeSince \in [DamDays -> Nat]
  BY DEF DamTypes
<1> QED
  BY <1>1, <1>2

LEMMA HealedStep ==
  ASSUME DamTypes, DamTypes', FetchInv, HealedInv, DamNext
  PROVE HealedInv'
<1> SUFFICES ASSUME NEW d \in DamDays, d \in owed'
             PROVE /\ sheets'[d] = "whole"
                   /\ dpc' = "sleep" => DamStored(d)'
                   /\ dpc' = "backfill" =>
                        d <= damRun'.until /\ (d < damRun'.target => DamStored(d)')
  BY DEF HealedInv, DamTypes, DamDays
<1>1. d \in owed =>
        /\ sheets'[d] = "whole"
        /\ dpc = "sleep" => DamStored(d)'
        /\ dpc = "backfill" => d <= damRun.until /\ (d < damRun.target => DamStored(d)')
  BY Onward, DamSheetsMove DEF HealedInv
<1>2. CASE UNCHANGED <<dpc, damRun, owed>>
  BY <1>1, <1>2
<1>3. CASE BeginBackfill
  <2>1. /\ d \in damRun'.target .. damRun'.until /\ sheets[d] = "whole"
        /\ dpc' = "backfill" /\ damRun'.target \in Int /\ d \in Int
    BY <1>3, Backfills DEF DamDays
  <2> QED
    BY <2>1, DamSheetsMove
<1>4. CASE owed' = owed /\ dpc' \in Fetching
  BY <1>1, <1>4 DEF Fetching
<1>5. CASE BackfillDay
  <2>1. /\ dpc = "backfill" /\ d \in owed /\ d \in Int /\ damRun.target \in Int
        /\ damRun.until \in Int
    BY <1>5 DEF BackfillDay, DamTypes, DamDays
  <2>2. d = damRun.target => DamStored(d)'
    <3>1. ASSUME d = damRun.target, SkipsDay(d) PROVE DamStored(d)'
      <4>1. damRows[d] \subseteq AllHours
        BY DEF DamTypes
      <4> QED
        BY <3>1, <4>1, NeedsFetchHolds, Onward DEF SkipsDay
    <3>2. ASSUME d = damRun.target,
                 damRows' = [damRows EXCEPT ![d] = @ \union SheetHoursOf(sheets[d])]
          PROVE DamStored(d)'
      <4>1. sheets[d] = "whole"
        BY <2>1 DEF HealedInv
      <4>2. damRows[d] \subseteq AllHours /\ AllHours' = AllHours
        BY DEF DamTypes, AllHours
      <4> QED
        BY <3>2, <4>1, <4>2, SheetHoursFacts DEF DamTypes, DamStored
    <3>3. d \notin owed \ {d} /\ d \in owed'
      OBVIOUS
    <3> QED
      BY <1>5, <3>1, <3>2, <3>3 DEF BackfillDay
  <2>3. CASE damRun.target < damRun.until
    <3>1. dpc' = dpc /\ damRun' = [damRun EXCEPT !.target = @ + 1]
      BY <1>5, <2>3 DEF BackfillDay, NextBackfillDay
    <3>2. damRun'.target = damRun.target + 1 /\ damRun'.until = damRun.until
      BY <3>1 DEF DamTypes
    <3> QED
      BY <1>1, <2>1, <2>2, <3>1, <3>2
  <2>4. CASE ~(damRun.target < damRun.until)
    BY <1>1, <1>5, <2>1, <2>2, <2>4 DEF BackfillDay, NextBackfillDay
  <2> QED
    BY <2>3, <2>4
<1>6. CASE FetchStores \/ FetchRefused \/ DownloadFails
  BY <1>3, <1>4, <1>6, FetchEnded DEF FetchStores, FetchRefused, DownloadFails, Fetching
<1>7. CASE StartDam \/ WaitEnds \/ DailyRun \/ BackoffEnds
  BY <1>3, <1>4, <1>7, Fetches DEF StartDam, WaitEnds, Retry, DailyRun, BackoffEnds, Fetching
<1> QED
  BY <1>2, <1>5, <1>6, <1>7 DEF DamNext, PublishSheet, RefreshDay, DamTick, StopDam

LEMMA MidnightStep ==
  ASSUME DamTypes, DamTypes', FetchInv, MidnightInv, DamNext
  PROVE MidnightInv'
<1> SUFFICES ASSUME NEW d \in DamDays, d \in attended', d \notin partial'
             PROVE \/ DamStored(d)' \/ DamFaultSince(d)' \/ LateSheet(d)'
                   \/ dpc' \in Fetching /\ damRun'.kind = "daily" /\ damRun'.target = d
                   \/ /\ dpc' = "backfill" /\ d \in damRun'.target .. damRun'.until
                      /\ d * DamDay <= damNow'
  BY DEF MidnightInv, DamTypes, DamDays
<1>1. d \in attended \/ (DailyRun /\ d = targetDate)
  BY DEF DamNext, PublishSheet, RefreshDay, DamTick, StartDam, FetchStores, FetchRefused,
         DownloadFails, BackoffEnds, WaitEnds, BackfillDay, DailyRun, StopDam
<1>2. d \notin partial
  BY DEF DamNext, PublishSheet, RefreshDay, DamTick, StartDam, FetchStores, FetchRefused,
         DownloadFails, BackoffEnds, WaitEnds, BackfillDay, DailyRun, StopDam
<1>3. CASE DamStored(d) \/ DamFaultSince(d) \/ LateSheet(d)
  BY <1>3, Onward
<1>4. CASE DailyRun /\ d = targetDate
  BY <1>4, Fetches DEF DailyRun, Fetching
<1>5. StopDam => dpc = "sleep"
  BY DEF StopDam
<1>6. CASE dpc \in Fetching /\ damRun.kind = "daily" /\ damRun.target = d
  <2>1. CASE UNCHANGED damRun /\ dpc' \in Fetching
    BY <1>6, <2>1
  <2>2. CASE FetchStores
    <3>1. sheets[d] = "whole"
      BY <1>6, <2>2 DEF FetchStores, SheetHoursOf, DamTypes
    <3>2. damRows'[d] = damRows[d] \union AllHours /\ damRows[d] \subseteq AllHours
      BY <1>6, <2>2, <3>1, SheetHoursFacts DEF FetchStores, DamTypes
    <3> QED
      BY <3>2 DEF DamStored, AllHours
  <2>3. CASE FetchRefused
    <3>1. damRun' = damRun /\ dpc' \in Fetching
      BY <1>6, <2>3 DEF FetchRefused, FetchEnds, Fetching
    <3> QED
      BY <2>1, <3>1
  <2>4. CASE DownloadFails
    <3>1. \/ dpc' = "backoff" /\ damRun' = [damRun EXCEPT !.tries = @ - 1]
          \/ dpc' = "wait" /\ damRun' = damRun
      BY <1>6, <2>4 DEF DownloadFails, FetchEnds
    <3> QED
      BY <1>6, <3>1 DEF Fetching, DamTypes
  <2>5. CASE WaitEnds
    <3>1. CASE targetDate = damRun.target
      BY <1>6, <2>5, <3>1, Fetches DEF WaitEnds, Retry, Fetching
    <3>2. CASE targetDate # damRun.target
      <4> DEFINE m == d * DamDay
      <4>1. BeginBackfill /\ UNCHANGED <<damNow, wholeSince, damFaultAt>> /\ dpc = "wait"
            /\ damNow >= wake
        BY <2>5, <3>2 DEF WaitEnds, Retry
      <4>2. /\ d \in Int /\ DamToday \in Nat /\ d <= DamToday
        BY <1>6, <3>2, DamTodayDays DEF FetchInv, DamDays, targetDate
      <4>3. /\ m <= damNow /\ (m + DamDay <= damNow => d + 1 <= DamToday)
        <5>1. (d + 1) * DamDay = m + DamDay
          BY <4>2, DamAssumption DEF DamAssumption
        <5> QED
          BY <4>2, <5>1, DamTodayDays
      <4>4. CASE damNow < m + DamDay
        <5>1. DamToday < d + 1
          <6>1. (d + 1) * DamDay = m + DamDay /\ m + DamDay \in Int /\ damNow \in Int
            BY <4>2, DamAssumption, DamTodayDays DEF DamAssumption
          <6>2. ~(d + 1 <= DamToday)
            BY <4>2, <4>4, <6>1, DamTodayDays
          <6> QED
            BY <4>2, <6>2
        <5>2. d \in damRun'.target .. damRun'.until /\ dpc' = "backfill"
          BY <4>1, <4>2, <5>1, Backfills
        <5> QED
          BY <4>1, <4>3, <5>2
      <4>5. CASE m + DamDay <= damNow
        <5>1. /\ damNow <= wake /\ wake \in Int /\ damNow \in Int
              /\ DamFaultSince(d) \/ wake <= wholeSince[d] + DamRetry
          BY <1>6, <4>1 DEF FetchInv, DamTypes
        <5>2. DamRetry <= DamDay /\ DamRetry \in Int /\ DamDay \in Int /\ m \in Int
          BY <4>2, DamAssumption DEF DamAssumption
        <5>3. wholeSince[d] \in Int
          BY DEF DamTypes
        <5> HIDE DEF m
        <5>4. CASE wake <= wholeSince[d] + DamRetry
          <6>1. m <= wholeSince[d]
            BY <4>5, <5>1, <5>2, <5>3, <5>4
          <6> QED
            BY <4>1, <4>3, <6>1 DEF LateSheet, m
        <5> QED
          BY <5>1, <5>4, Onward
      <4> QED
        BY <4>2, <4>4, <4>5, DamAssumption, DamTodayDays DEF DamAssumption
    <3> QED
      BY <3>1, <3>2
  <2> QED
    BY <1>5, <1>6, <2>1, <2>2, <2>3, <2>4, <2>5
       DEF DamNext, PublishSheet, RefreshDay, DamTick, StartDam, BackoffEnds, BackfillDay, DailyRun,
           Fetching
<1>7. CASE dpc = "backfill" /\ d \in damRun.target .. damRun.until /\ d * DamDay <= damNow
  <2>1. CASE UNCHANGED <<dpc, damRun>>
    BY <1>7, <2>1, Onward
  <2>2. CASE BackfillDay /\ d = damRun.target
    <3>1. damRows[d] \subseteq AllHours /\ AllHours' = AllHours
      BY DEF DamTypes, AllHours
    <3>2. wholeSince[d] = LastDamTick + 1 => LateSheet(d)'
      <4> DEFINE m == d * DamDay
      <4>1. m \in Int /\ damNow \in Int /\ LastDamTick \in Int /\ damNow <= LastDamTick
            /\ m <= damNow
        BY <1>7, DayStarts, ClockTyped
      <4> HIDE DEF m
      <4>2. wholeSince[d] = LastDamTick + 1 => m <= wholeSince'[d] /\ m <= damNow'
        BY <2>2, <4>1 DEF BackfillDay
      <4> QED
        BY <4>2 DEF LateSheet, m
    <3>3. CASE SkipsDay(d)
      BY <3>1, <3>3, NeedsFetchHolds, Onward DEF SkipsDay
    <3>4. CASE damFaultAt' = damNow
      <4>1. \/ wholeSince[d] <= damFaultAt'
            \/ wholeSince[d] = LastDamTick + 1
        BY <3>4 DEF DamTypes
      <4>2. UNCHANGED <<damNow, wholeSince>>
        BY <2>2 DEF BackfillDay
      <4> QED
        BY <3>2, <4>1, <4>2 DEF DamFaultSince
    <3>5. CASE damRows' = [damRows EXCEPT ![d] = @ \union SheetHoursOf(sheets[d])]
      <4>1. CASE sheets[d] = "whole"
        BY <3>1, <3>5, <4>1, SheetHoursFacts DEF DamTypes, DamStored
      <4>2. CASE sheets[d] # "whole"
        BY <3>2, <4>2 DEF DamTypes
      <4> QED
        BY <4>1, <4>2
    <3> QED
      BY <2>2, <3>3, <3>4, <3>5 DEF BackfillDay
  <2>3. CASE BackfillDay /\ d # damRun.target
    <3>1. damRun.target < damRun.until
      BY <1>7, <2>3 DEF DamTypes, DamDays
    <3>2. damRun' = [damRun EXCEPT !.target = @ + 1] /\ dpc' = dpc
      BY <2>3, <3>1 DEF BackfillDay, NextBackfillDay
    <3>3. damRun'.target = damRun.target + 1 /\ damRun'.until = damRun.until
      BY <3>2 DEF DamTypes
    <3>4. /\ d \in Int /\ damRun.target \in Int /\ damRun.until \in Int
          /\ d \in damRun.target .. damRun.until
      BY <1>7 DEF DamTypes, DamDays
    <3>5. d \in damRun'.target .. damRun'.until
      BY <2>3, <3>3, <3>4
    <3> QED
      BY <1>7, <3>2, <3>5, Onward
  <2> QED
    BY <1>5, <1>7, <2>1, <2>2, <2>3
       DEF DamNext, PublishSheet, RefreshDay, DamTick, StartDam, FetchStores, FetchRefused,
           DownloadFails, BackoffEnds, WaitEnds, DailyRun
<1> QED
  BY <1>1, <1>2, <1>3, <1>4, <1>6, <1>7 DEF MidnightInv

LEMMA DamInvInit == DamInit => DamInv
<1> SUFFICES ASSUME DamInit PROVE DamInv
  OBVIOUS
<1>1. LastDamTick \in Nat
  BY DamAssumption DEF DamAssumption
<1>2. DamTypes
  BY <1>1 DEF DamInit, DamTypes, Idle, Fetching
<1> QED
  BY <1>2 DEF DamInit, DamInv, FetchInv, HealedInv, MidnightInv, Fetching

LEMMA DamInvStep == DamInv /\ [DamNext]_damVars => DamInv'
<1> SUFFICES ASSUME DamInv, [DamNext]_damVars PROVE DamInv'
  OBVIOUS
<1>1. CASE DamNext
  BY <1>1, DamTypesStep, FetchStep, HealedStep, MidnightStep DEF DamInv
<1>2. CASE UNCHANGED damVars
  BY <1>2
     DEF damVars, DamInv, DamTypes, FetchInv, HealedInv, MidnightInv, DamStored, DamFaultSince,
         LateSheet, DamToday
<1> QED
  BY <1>1, <1>2

LEMMA DamInvImplies == DamInv => PricesInTime
<1> SUFFICES ASSUME DamInv PROVE PricesInTime
  OBVIOUS
<1>1. \A d \in DamDays : needsFetch(d) <=> ~DamStored(d)
  BY NeedsFetchHolds DEF DamInv, DamTypes
<1>2. RecentDaysHealed
  BY <1>1 DEF DamInv, DamTypes, HealedInv, RecentDaysHealed
<1>3. HorizonByMidnight
  <2> SUFFICES ASSUME NEW d \in DamDays, d \in attended \ partial, dpc = "sleep",
                      wholeSince[d] < d * DamDay, damFaultAt < wholeSince[d]
               PROVE DamStored(d)
    BY <1>1 DEF HorizonByMidnight, DamInv, DamTypes
  <2> DEFINE m == d * DamDay
  <2>1. m \in Int /\ damFaultAt \in Int /\ wholeSince[d] \in Nat
    BY DayStarts, ClockTyped DEF DamInv
  <2>2. ~DamFaultSince(d)
    BY <2>1 DEF DamFaultSince
  <2>3. ~LateSheet(d)
    <3> HIDE DEF m
    <3>1. wholeSince[d] < m
      BY DEF m
    <3>2. ~(m <= wholeSince[d])
      BY <2>1, <3>1
    <3> QED
      BY <3>2 DEF LateSheet, m
  <2> QED
    BY <2>2, <2>3 DEF DamInv, MidnightInv, Fetching
<1> QED
  BY <1>2, <1>3 DEF PricesInTime

\* A recent day whose sheet was whole and did not fail is stored when the collector
\* of market prices goes to sleep; a sheet uploaded whole before its day is there
\* when the day begins, if the run time was met and nothing failed since.
THEOREM PricesFetchedInTime == DamSpec => []PricesInTime
<1>1. DamSpec => []DamInv
  BY DamInvInit, DamInvStep, PTL DEF DamSpec
<1> QED
  BY <1>1, DamInvImplies, PTL

-------------------------------------------------------------------------------
(* The weather. *)

BodyInv ==
  /\ wxNow \in Nat /\ wxPc \in {"idle", "fetch", "hourly", "daily"}
  /\ wxPc \in {"hourly", "daily"} =>
       wxBody.made \in Nat /\ wxBody.made <= wxNow /\ Hours(wxBody) \subseteq WxHours
  /\ wxHourly = [h \in WxHours |-> wxHourly[h]] /\ wxDaily = [d \in WxDays |-> wxDaily[d]]

KeptInv ==
  /\ inTime \subseteq WxHours /\ \A h \in inTime : wxHourly[h] \in Int /\ wxHourly[h] < h
  /\ \A h \in WxHours : h > wxNow /\ wxNewest # NoBody /\ h \in Hours(wxNewest) =>
       wxHourly[h] = wxNewest.made
  /\ dayInTime \subseteq WxDays
  /\ \A d \in dayInTime : wxDaily[d] \in Int /\ wxDaily[d] < (d + 1) * WxDay

WxInv == BodyInv /\ KeptInv

LEMMA WxConstants ==
  /\ WxDay \in Nat \ {0} /\ WxOffset \in Nat /\ NoForecast \notin Int
  /\ WxHours \subseteq Nat /\ WxDays \subseteq Nat
BY WxAssumption DEF WxAssumption, WxHours, WxDays

LEMMA WxDayHolds ==
  ASSUME wxNow \in Nat
  PROVE CurrentDate \in Nat /\ wxNow < (CurrentDate + 1) * WxDay
<1> DEFINE n == WxDay
<1>1. n \in Nat \ {0}
  BY WxConstants
<1> HIDE DEF n
<1> DEFINE q == wxNow \div n
           r == wxNow % n
<1>2. q \in Nat /\ r \in 0 .. n - 1 /\ wxNow = n * q + r
  BY <1>1
<1> HIDE DEF q, r
<1>3. (q + 1) * n = n * q + n /\ n * q \in Int
  BY <1>1, <1>2
<1>4. q \in Nat /\ wxNow < (q + 1) * n
  BY <1>1, <1>2, <1>3
<1> QED
  BY <1>4 DEF CurrentDate, q, n

LEMMA WxInvStep ==
  ASSUME WxInv, WxNext
  PROVE WxInv'
<1>1. /\ wxNow' \in Nat /\ wxNow <= wxNow' /\ WxHours' = WxHours /\ WxDays' = WxDays
  BY DEF WxInv, BodyInv, WxNext, WxTick, WxBegin, WxFetch, WxFetchFails, WxHourly, WxDaily,
         WxStoreFails, WxHours, WxDays
<1>2. CASE WxTick
  BY <1>1, <1>2, WxConstants DEF WxTick, WxInv, BodyInv, KeptInv, Hours, NoBody
<1>3. CASE WxBegin \/ WxFetchFails \/ WxStoreFails
  BY <1>1, <1>3 DEF WxBegin, WxFetchFails, WxStoreFails, WxInv, BodyInv, KeptInv, Hours, NoBody
<1>4. CASE WxFetch
  <2>1. Hours(wxBody') \subseteq WxHours
    BY <1>4, WxConstants DEF WxFetch, Hours, Labels
  <2> QED
    BY <1>1, <1>4, <2>1 DEF WxFetch, WxInv, BodyInv, KeptInv, Hours, NoBody
<1>5. CASE WxHourly
  <2> DEFINE made == wxBody.made
             kept == Hours(wxBody)
  <2>1. /\ made \in Nat /\ made <= wxNow /\ kept \subseteq WxHours /\ wxNow \in Nat
        /\ wxHourly' = [h \in WxHours |-> IF h \in kept /\ HourOpen(h) THEN made ELSE wxHourly[h]]
        /\ inTime' = inTime \union {h \in kept : h > wxNow}
        /\ UNCHANGED <<wxNow, wxDaily, wxBody, dayInTime>> /\ wxPc' = "daily"
        /\ wxNewest' = wxBody
    BY <1>5 DEF WxHourly, WxInv, BodyInv
  <2>2. Hours(wxNewest)' = kept /\ kept' = kept /\ wxNewest'.made = made
    BY <2>1 DEF Hours
  <2> HIDE DEF made, kept
  <2>3. ASSUME NEW h \in inTime' PROVE wxHourly'[h] \in Int /\ wxHourly'[h] < h /\ h \in WxHours
    <3>1. CASE h \in kept /\ h > wxNow
      BY <2>1, <3>1, WxConstants DEF HourOpen
    <3>2. CASE h \in inTime /\ ~(h \in kept /\ h > wxNow)
      <4>1. h \in WxHours /\ wxHourly[h] \in Int /\ wxHourly[h] < h
        BY <3>2 DEF WxInv, KeptInv
      <4>2. ~(h \in kept /\ HourOpen(h))
        BY <3>2, <4>1, WxConstants DEF HourOpen
      <4> QED
        BY <2>1, <4>1, <4>2
    <3> QED
      BY <2>1, <3>1, <3>2
  <2>4. \A h \in WxHours : h > wxNow' /\ h \in kept => wxHourly'[h] = made
    BY <2>1 DEF HourOpen
  <2>5. BodyInv'
    <3>1. kept = Hours(wxBody)
      BY DEF kept
    <3>2. Hours(wxBody)' = Hours(wxBody) /\ made = wxBody'.made
      BY <2>1 DEF Hours, made
    <3> QED
      BY <1>1, <2>1, <3>1, <3>2 DEF BodyInv, WxInv
  <2> QED
    BY <1>1, <2>1, <2>2, <2>3, <2>4, <2>5 DEF WxInv, KeptInv, NoBody
<1>6. CASE WxDaily
  <2> DEFINE made == wxBody.made
             kept == ForecastDays(wxBody)
  <2>1. /\ made \in Nat /\ made <= wxNow /\ kept \subseteq WxDays /\ wxNow \in Nat
        /\ wxDaily' = [d \in WxDays |-> IF d \in kept /\ DayOpen(d) THEN made ELSE wxDaily[d]]
        /\ dayInTime' = dayInTime \union {d \in kept : d >= CurrentDate}
        /\ UNCHANGED <<wxNow, wxHourly, wxNewest, inTime>> /\ wxPc' = "idle"
    BY <1>6 DEF WxDaily, WxInv, BodyInv, ForecastDays
  <2> HIDE DEF made, kept
  <2>2. ASSUME NEW d \in dayInTime'
        PROVE wxDaily'[d] \in Int /\ wxDaily'[d] < (d + 1) * WxDay /\ d \in WxDays
    <3> DEFINE ends == (d + 1) * WxDay
    <3>1. CASE d \in kept /\ d >= CurrentDate
      <4>1. (CurrentDate + 1) * WxDay <= ends /\ ends \in Int /\ d \in Nat
        <5>1. CurrentDate \in Nat /\ d \in Nat /\ CurrentDate + 1 <= d + 1 /\ WxDay \in Nat
          BY <2>1, <3>1, WxDayHolds, WxConstants
        <5> QED
          BY <5>1
      <4>2. wxNow < ends
        BY <2>1, <4>1, WxDayHolds, WxConstants
      <4> HIDE DEF ends
      <4>3. made < ends /\ wxDaily'[d] = made
        BY <2>1, <3>1, <4>1, <4>2 DEF DayOpen
      <4> QED
        BY <2>1, <3>1, <4>3 DEF ends
    <3>2. CASE d \in dayInTime /\ ~(d \in kept /\ d >= CurrentDate)
      <4>1. d \in WxDays /\ wxDaily[d] \in Int /\ wxDaily[d] < ends
        BY <3>2 DEF WxInv, KeptInv
      <4> HIDE DEF ends
      <4>2. ~(d \in kept /\ DayOpen(d))
        BY <3>2, <4>1, WxConstants DEF DayOpen
      <4>3. wxDaily'[d] = wxDaily[d]
        BY <2>1, <4>1, <4>2
      <4> QED
        BY <4>1, <4>3 DEF ends
    <3> QED
      BY <2>1, <3>1, <3>2
  <2>3. Hours(wxNewest)' = Hours(wxNewest)
    BY <2>1 DEF Hours
  <2> QED
    BY <1>1, <2>1, <2>2, <2>3 DEF WxInv, BodyInv, KeptInv, NoBody
<1> QED
  BY <1>2, <1>3, <1>4, <1>5, <1>6 DEF WxNext

LEMMA WxInvInit == WxInit => WxInv
BY WxConstants DEF WxInit, WxInv, BodyInv, KeptInv, NoBody, Hours

LEMMA WxInvStutter == WxInv /\ UNCHANGED wxVars => WxInv'
BY DEF wxVars, WxInv, BodyInv, KeptInv, Hours, NoBody, WxHours, WxDays

\* What was forecast for an hour before it began, or for a day before it was over for
\* the database, is not written over later; what lies ahead is of the newest forecast.
THEOREM WeatherFrozen == WxSpec => []ForecastsFrozen
<1>1. WxInv /\ [WxNext]_wxVars => WxInv'
  BY WxInvStep, WxInvStutter
<1>2. WxInv => ForecastsFrozen
  BY DEF WxInv, KeptInv, ForecastsFrozen
<1> QED
  BY <1>1, <1>2, WxInvInit, PTL DEF WxSpec

\* What the two collectors fetch from outside is there in time and stays.
THEOREM FeedsInTime == DamSpec /\ WxSpec => []FeedsOnTime
<1>1. PricesInTime /\ ForecastsFrozen => FeedsOnTime
  BY DEF FeedsOnTime
<1> QED
  BY <1>1, PricesFetchedInTime, WeatherFrozen, PTL

-------------------------------------------------------------------------------
(* The days of the economics. *)

Rows == [level : 0..3, priced : BOOLEAN, final : BOOLEAN]

\* Hours and summary of d are of the whole day.
Whole(d) ==
  /\ daily[d] \in Rows /\ daily[d].level >= 2 /\ daily[d].final
  /\ hourly[d] >= 2

\* Every day but the one before today is out of reach of the computations
\* that saw a part of it.
Settled(d) == d + 2 <= today

CalendarInv ==
  /\ today \in Days /\ level \in [Days -> 0..3] /\ priced \subseteq Days
  /\ \A d \in Days : d < today => level[d] >= 2
  /\ daily = [d \in Days |-> daily[d]] /\ hourly = [d \in Days |-> hourly[d]]
  /\ job = [w \in Workers |-> job[w]]
  /\ troubles = [corrections |-> troubles.corrections, misses |-> troubles.misses]
  /\ troubles.corrections \in Nat /\ troubles.misses \in Nat

JobFields == {"at", "left", "begun", "owed", "level", "priced", "final"}

IsJob(j) ==
  /\ DOMAIN j = JobFields
  /\ j.at \in {"flows", "prices", "hours", "summary"}
  /\ j.begun \in Nat /\ j.begun <= today /\ today <= j.begun + 1
  /\ j.at \in {"hours", "summary"} => j.priced \in BOOLEAN /\ j.final \in BOOLEAN

JobInv(w) ==
  LET j == job[w] d == DayOf(w)
  IN j # Nil =>
       /\ IsJob(j)
       /\ d \in Days /\ j.at # "flows" => j.level \in 0..3 /\ (d < j.begun => j.level >= 2)
       /\ d \in Days /\ d < j.begun /\ j.at \in {"hours", "summary"} => j.final

\* What tonight's run has gone through.
NightInv ==
  "nightly" \in Workers /\ job["nightly"] # Nil =>
    /\ job["nightly"].begun = today
    /\ troubles.misses = 0 =>
         \A d \in FinalizeWindow \ job["nightly"].left : Settled(d) => Whole(d)
    /\ LET d == DayOf("nightly")
       IN job["nightly"].at = "summary" /\ d \in Days /\ Settled(d) => hourly[d] >= 2

SettledInv ==
  troubles.misses = 0 =>
    \A d \in Days : Settled(d) /\ (finalized \/ d + FinalizeDays < today) => Whole(d)

DaysInv == CalendarInv /\ (\A w \in Workers : JobInv(w)) /\ NightInv /\ SettledInv

\* A request that was owed prices reads them: what is stored stays stored.
PricesInv ==
  /\ ~shortchanged
  /\ "request" \in Workers /\ job["request"] # Nil =>
       /\ job["request"].left = {DayOf("request")}
       /\ job["request"].owed =>
            /\ DayOf("request") \in priced
            /\ job["request"].at \in {"hours", "summary"} => job["request"].priced

-------------------------------------------------------------------------------

LEMMA DaysInit == EconInit => DaysInv /\ PricesInv
<1> SUFFICES ASSUME EconInit PROVE DaysInv /\ PricesInv
  OBVIOUS
<1> USE EconomicsAssumption DEF EconomicsAssumption
<1>1. CalendarInv
  BY DEF EconInit, CalendarInv, Days
<1>2. \A w \in Workers : job[w] = Nil
  BY DEF EconInit
<1>3. SettledInv
  BY DEF EconInit, SettledInv, Settled, Days
<1>4. NightInv /\ PricesInv
  BY <1>2 DEF NightInv, PricesInv, EconInit
<1> QED
  BY <1>1, <1>2, <1>3, <1>4 DEF DaysInv, JobInv

\* One goroutine moves within a day.
OneMoves(w) == today' = today /\ \A v \in Workers : v # w => job'[v] = job[v]

LEMMA OtherJobs ==
  ASSUME NEW v \in Workers, JobInv(v), today' = today, job'[v] = job[v]
  PROVE JobInv(v)' /\ DayOf(v)' = DayOf(v)
BY DEF JobInv, IsJob, DayOf

LEMMA MovedJobs ==
  ASSUME NEW w \in Workers, OneMoves(w), \A v \in Workers : JobInv(v), JobInv(w)'
  PROVE \A v \in Workers : JobInv(v)'
BY OtherJobs DEF OneMoves

\* How the actions change the computation of w.

LEMMA BeginMoves ==
  ASSUME CalendarInv, NEW w \in Workers, NEW days, NEW lacking, Begin(w, days, lacking), today' = today
  PROVE /\ OneMoves(w)
        /\ DOMAIN job'[w] = JobFields /\ job'[w].at = "flows" /\ job'[w].left = days
        /\ job'[w].begun = today /\ job'[w].owed = lacking
<1>1. OneMoves(w)
  BY Zenon DEF Begin, CalendarInv, OneMoves
<1>2. \A p : [job EXCEPT ![w] = p][w] = p
  BY DEF CalendarInv
<1>3. job'[w] = [at |-> "flows", left |-> days, begun |-> today, owed |-> lacking,
                 level |-> 0, priced |-> FALSE, final |-> FALSE]
  BY <1>2, Zenon DEF Begin
<1> QED
  BY <1>1, <1>3 DEF JobFields

LEMMA ReadFlowsMoves ==
  ASSUME CalendarInv, NEW w \in Workers, ReadFlows(w), DOMAIN job[w] = JobFields
  PROVE /\ OneMoves(w) /\ DOMAIN job'[w] = JobFields
        /\ job'[w].at = "prices" /\ job'[w].level = level[DayOf(w)]
        /\ job'[w].left = job[w].left /\ job'[w].begun = job[w].begun
        /\ job'[w].owed = job[w].owed
<1>1. /\ OneMoves(w)
      /\ job'[w] = [job[w] EXCEPT !.at = "prices", !.level = level[DayOf(w)]]
  BY DEF ReadFlows, CalendarInv, OneMoves
<1> DEFINE j == job[w]
<1> HIDE DEF j
<1>2. ASSUME NEW l, DOMAIN j = JobFields
      PROVE LET n == [j EXCEPT !.at = "prices", !.level = l]
            IN /\ DOMAIN n = JobFields /\ n.at = "prices" /\ n.level = l
               /\ n.left = j.left /\ n.begun = j.begun /\ n.owed = j.owed
  BY <1>2 DEF JobFields
<1> QED
  BY <1>1, <1>2 DEF j

LEMMA ReadPricesMoves ==
  ASSUME CalendarInv, NEW w \in Workers, ReadPrices(w), DOMAIN job[w] = JobFields
  PROVE /\ OneMoves(w) /\ DOMAIN job'[w] = JobFields
        /\ job'[w].at = "hours" /\ job'[w].level = job[w].level
        /\ job'[w].left = job[w].left /\ job'[w].begun = job[w].begun
        /\ job'[w].owed = job[w].owed
        /\ job'[w].priced = (DayOf(w) \in priced) /\ job'[w].final = (DayOf(w) < today)
<1> DEFINE j == job[w]
           Next2(p, f) == [j EXCEPT !.at = "hours", !.priced = p, !.final = f]
           has == DayOf(w) \in priced
           past == DayOf(w) < today
<1>1. OneMoves(w)
  BY Zenon DEF ReadPrices, CalendarInv, OneMoves
<1>2. job'[w] = Next2(has, past)
  BY Zenon DEF ReadPrices, CalendarInv
<1>3. \A p, f : /\ DOMAIN Next2(p, f) = JobFields /\ Next2(p, f).at = "hours"
                /\ Next2(p, f).priced = p /\ Next2(p, f).final = f
                /\ Next2(p, f).level = j.level
                /\ Next2(p, f).left = j.left /\ Next2(p, f).begun = j.begun
                /\ Next2(p, f).owed = j.owed
  BY DEF JobFields
<1> HIDE DEF Next2, has, past
<1>4. /\ DOMAIN job'[w] = JobFields
      /\ job'[w].at = "hours" /\ job'[w].level = job[w].level
      /\ job'[w].left = job[w].left /\ job'[w].begun = job[w].begun
      /\ job'[w].owed = job[w].owed
      /\ job'[w].priced = has /\ job'[w].final = past
  BY <1>2, <1>3
<1> QED
  BY <1>1, <1>4, Zenon DEF has, past

LEMMA SaveHourlyMoves ==
  ASSUME CalendarInv, NEW w \in Workers, SaveHourly(w), DOMAIN job[w] = JobFields
  PROVE /\ OneMoves(w) /\ DOMAIN job'[w] = JobFields
        /\ job'[w].at = "summary" /\ job'[w].level = job[w].level
        /\ job'[w].priced = job[w].priced /\ job'[w].final = job[w].final
        /\ job'[w].left = job[w].left /\ job'[w].begun = job[w].begun
        /\ job'[w].owed = job[w].owed
<1>1. /\ OneMoves(w)
      /\ job'[w] = [job[w] EXCEPT !.at = "summary"]
  BY DEF SaveHourly, CalendarInv, OneMoves
<1> QED
  BY <1>1 DEF JobFields

LEMMA AdvanceMoves ==
  ASSUME CalendarInv, NEW w \in Workers, AdvanceJob(w), today' = today, DOMAIN job[w] = JobFields
  PROVE /\ OneMoves(w)
        /\ job[w].left = {DayOf(w)} => job'[w] = Nil
        /\ job[w].left # {DayOf(w)} =>
             /\ DOMAIN job'[w] = JobFields /\ job'[w].at = "flows"
             /\ job'[w].left = job[w].left \ {DayOf(w)} /\ job'[w].begun = job[w].begun
<1> DEFINE j == job[w]
           n == [j EXCEPT !.at = "flows", !.left = @ \ {DayOf(w)}]
<1>1. OneMoves(w)
  BY DEF AdvanceJob, CalendarInv, OneMoves
<1>2. job'[w] = IF j.left = {DayOf(w)} THEN Nil ELSE n
  <2>1. \A x : [job EXCEPT ![w] = x][w] = x
    BY DEF CalendarInv
  <2>2. job' = [job EXCEPT ![w] = IF j.left = {DayOf(w)} THEN Nil ELSE n]
    BY DEF AdvanceJob, LastOf
  <2> HIDE DEF n, j
  <2> QED
    BY <2>1, <2>2
<1>3. /\ DOMAIN n = JobFields /\ n.at = "flows"
      /\ n.left = j.left \ {DayOf(w)} /\ n.begun = j.begun
  BY DEF JobFields
<1> HIDE DEF n
<1> QED
  BY <1>1, <1>2, <1>3

LEMMA BeginJobInv ==
  ASSUME CalendarInv, NEW w \in Workers, NEW days, NEW lacking, Begin(w, days, lacking),
         today' = today, \A v \in Workers : JobInv(v)
  PROVE \A v \in Workers : JobInv(v)'
<1>1. /\ OneMoves(w) /\ DOMAIN job'[w] = JobFields /\ job'[w].at = "flows"
      /\ job'[w].begun = today
  BY BeginMoves
<1>2. today \in Nat
  BY EconomicsAssumption DEF EconomicsAssumption, CalendarInv, Days
<1>3. JobInv(w)'
  BY <1>1, <1>2 DEF JobInv, IsJob
<1> QED
  BY <1>1, <1>3, MovedJobs

LEMMA ReadFlowsJobInv ==
  ASSUME CalendarInv, NEW w \in Workers, ReadFlows(w), \A v \in Workers : JobInv(v)
  PROVE \A v \in Workers : JobInv(v)'
<1>1. IsJob(job[w]) /\ today \in Nat
  BY EconomicsAssumption DEF EconomicsAssumption, ReadFlows, At, JobInv, CalendarInv, Days
<1>2. /\ OneMoves(w) /\ DOMAIN job'[w] = JobFields /\ job'[w].at = "prices"
      /\ job'[w].level = level[DayOf(w)]
      /\ job'[w].left = job[w].left /\ job'[w].begun = job[w].begun
  BY <1>1, ReadFlowsMoves DEF IsJob
<1>3. DayOf(w)' = DayOf(w)
  BY <1>2 DEF DayOf
<1>4. JobInv(w)'
  BY <1>1, <1>2, <1>3 DEF JobInv, IsJob, OneMoves, CalendarInv, Days
<1> QED
  BY <1>2, <1>4, MovedJobs

LEMMA ReadPricesJobInv ==
  ASSUME CalendarInv, NEW w \in Workers, ReadPrices(w), \A v \in Workers : JobInv(v)
  PROVE \A v \in Workers : JobInv(v)'
<1>1. IsJob(job[w]) /\ today \in Nat
  BY EconomicsAssumption DEF EconomicsAssumption, ReadPrices, At, JobInv, CalendarInv, Days
<1>2. /\ OneMoves(w) /\ DOMAIN job'[w] = JobFields /\ job'[w].at = "hours"
      /\ job'[w].level = job[w].level
      /\ job'[w].left = job[w].left /\ job'[w].begun = job[w].begun
  BY <1>1, ReadPricesMoves DEF IsJob
<1>3. job'[w].priced = (DayOf(w) \in priced) /\ job'[w].final = (DayOf(w) < today)
  BY <1>1, ReadPricesMoves, Zenon DEF IsJob
<1>4. job'[w].priced \in BOOLEAN /\ job'[w].final \in BOOLEAN
  <2>1. (DayOf(w) \in priced) \in BOOLEAN /\ (DayOf(w) < today) \in BOOLEAN
    OBVIOUS
  <2> QED
    BY <1>3, <2>1, Zenon
<1>5. DayOf(w)' = DayOf(w)
  BY <1>2 DEF DayOf
<1>6. DayOf(w) \in Days => job'[w].level \in 0..3 /\ (DayOf(w) < job[w].begun => job'[w].level >= 2)
  BY <1>1, <1>2 DEF JobInv, ReadPrices, At
<1>7. DayOf(w) \in Days /\ DayOf(w) < job[w].begun => job'[w].final
  <2>1. DayOf(w) \in Days /\ DayOf(w) < job[w].begun => DayOf(w) < today
    BY <1>1, EconomicsAssumption DEF EconomicsAssumption, IsJob, Days
  <2> QED
    BY <1>3, <2>1, Zenon
<1>8. IsJob(job[w])'
  <2>1. job'[w].begun \in Nat /\ job'[w].begun <= today' /\ today' <= job'[w].begun + 1
    BY <1>1, <1>2 DEF IsJob, OneMoves
  <2> QED
    BY <1>1, <1>2, <1>4, <2>1, Zenon DEF IsJob
<1>9. JobInv(w)'
  BY <1>2, <1>5, <1>6, <1>7, <1>8 DEF JobInv
<1> QED
  BY <1>2, <1>9, MovedJobs

LEMMA SaveHourlyJobInv ==
  ASSUME CalendarInv, NEW w \in Workers, SaveHourly(w), \A v \in Workers : JobInv(v)
  PROVE \A v \in Workers : JobInv(v)'
<1>1. IsJob(job[w]) /\ job[w].at = "hours"
  BY DEF SaveHourly, At, JobInv
<1>2. /\ OneMoves(w) /\ DOMAIN job'[w] = JobFields /\ job'[w].at = "summary"
      /\ job'[w].level = job[w].level /\ job'[w].priced = job[w].priced
      /\ job'[w].final = job[w].final
      /\ job'[w].left = job[w].left /\ job'[w].begun = job[w].begun
  BY <1>1, SaveHourlyMoves DEF IsJob
<1>3. DayOf(w)' = DayOf(w)
  BY <1>2 DEF DayOf
<1>4. IsJob(job[w])'
  BY <1>1, <1>2, Zenon DEF IsJob, OneMoves
<1>5. JobInv(w)'
  BY <1>1, <1>2, <1>3, <1>4 DEF JobInv, SaveHourly, At
<1> QED
  BY <1>2, <1>5, MovedJobs

LEMMA AdvanceJobInv ==
  ASSUME CalendarInv, NEW w \in Workers, job[w] # Nil, AdvanceJob(w), today' = today,
         \A v \in Workers : JobInv(v)
  PROVE \A v \in Workers : JobInv(v)'
<1>1. IsJob(job[w])
  BY DEF JobInv
<1>2. OneMoves(w)
  BY <1>1, AdvanceMoves DEF IsJob
<1>3. CASE job[w].left = {DayOf(w)}
  <2>1. job'[w] = Nil
    BY <1>1, <1>3, AdvanceMoves DEF IsJob
  <2> QED
    BY <1>2, <2>1, MovedJobs DEF JobInv
<1>4. CASE job[w].left # {DayOf(w)}
  <2>1. DOMAIN job'[w] = JobFields /\ job'[w].at = "flows" /\ job'[w].begun = job[w].begun
    BY <1>1, <1>4, AdvanceMoves DEF IsJob
  <2>2. JobInv(w)'
    BY <1>1, <2>1 DEF JobInv, IsJob
  <2> QED
    BY <1>2, <2>2, MovedJobs
<1> QED
  BY <1>3, <1>4

LEMMA CalendarKept ==
  ASSUME CalendarInv, \A v \in Workers : JobInv(v), [EconNext]_econVars
  PROVE CalendarInv'
<1> USE EconomicsAssumption DEF EconomicsAssumption, CalendarInv, Days
<1> DEFINE Miss == [troubles EXCEPT !.misses = @ + 1]
           TroublesInv == /\ troubles = [corrections |-> troubles.corrections, misses |-> troubles.misses]
                          /\ troubles.corrections \in Nat /\ troubles.misses \in Nat
<1>0. troubles' \in {troubles, Miss, [troubles EXCEPT !.corrections = @ + 1]} => TroublesInv'
  <2>1. CASE troubles' = troubles
    BY <2>1
  <2>2. CASE troubles' = Miss
    BY <2>2
  <2>3. CASE troubles' = [troubles EXCEPT !.corrections = @ + 1]
    BY <2>3
  <2> QED
    BY <2>1, <2>2, <2>3
<1>1. CASE Midnight
  <2>1. TroublesInv'
    <3>1. troubles' \in {troubles, Miss}
      BY <1>1 DEF Midnight
    <3> HIDE DEF Miss, TroublesInv
    <3> QED
      BY <1>0, <3>1
  <2>2. today' \in Days /\ level' \in [Days -> 0..3] /\ \A d \in Days : d < today' => level'[d] >= 2
    <3>1. today \in Nat /\ today' = today + 1 /\ today' \in Days /\ level' \in [Days -> 0..3]
      BY <1>1 DEF Midnight
    <3>2. ASSUME NEW d \in Days, d < today' PROVE level'[d] >= 2
      <4>1. CASE d = today
        BY <1>1, <4>1 DEF Midnight
      <4>2. CASE d < today
        <5>1. level'[d] = level[d]
          BY <1>1, <4>2 DEF Midnight
        <5> QED
          BY <4>2, <5>1
      <4> QED
        BY <3>1, <3>2, <4>1, <4>2
    <3> QED
      BY <3>1, <3>2
  <2> QED
    BY <1>1, <2>1, <2>2 DEF Midnight
<1>2. CASE RefreshToday \/ FinalizeRecent \/ Heal
  BY <1>2 DEF RefreshToday, FinalizeRecent, Heal, Begin
<1>3. CASE Restart
  BY <1>3 DEF Restart
<1>4. ASSUME NEW d \in Days, PricesPublished(d) \/ Corrected(d) PROVE CalendarInv'
  <2>1. TroublesInv' /\ today' = today
    BY <1>0, <1>4 DEF PricesPublished, Corrected
  <2>2. level' \in [Days -> 0..3] /\ \A e \in Days : e < today => level'[e] >= 2
    <3>1. CASE PricesPublished(d)
      BY <3>1 DEF PricesPublished
    <3>2. CASE Corrected(d)
      <4>1. level' = [level EXCEPT ![d] = 3]
        BY <3>2 DEF Corrected
      <4> QED
        BY <4>1
    <3> QED
      BY <1>4, <3>1, <3>2
  <2> QED
    BY <1>4, <2>1, <2>2 DEF PricesPublished, Corrected
<1>5. ASSUME NEW d \in AskedDays, GetDay(d) PROVE CalendarInv'
  BY <1>5 DEF GetDay, Begin
<1>6. ASSUME NEW w \in Workers, ReadFlows(w) PROVE CalendarInv'
  BY <1>6 DEF ReadFlows
<1>7. ASSUME NEW w \in Workers, ReadPrices(w) PROVE CalendarInv'
  BY <1>7 DEF ReadPrices
<1>8. ASSUME NEW w \in Workers, SaveHourly(w) PROVE CalendarInv'
  BY <1>8 DEF SaveHourly
<1>9. ASSUME NEW w \in Workers, SaveDaily(w) PROVE CalendarInv'
  BY <1>9 DEF SaveDaily, AdvanceJob
<1>10. ASSUME NEW w \in Workers, DayFails(w) PROVE CalendarInv'
  <2>1. TroublesInv'
    BY <1>0, <1>10, Zenon DEF DayFails
  <2>2. today' = today /\ level' = level /\ priced' = priced /\ daily' = daily /\ hourly' = hourly
    BY <1>10, Zenon DEF DayFails
  <2>3. job' = [v \in Workers |-> job'[v]]
    BY <1>10 DEF DayFails, AdvanceJob
  <2> QED
    BY <2>1, <2>2, <2>3
<1>11. CASE UNCHANGED econVars
  BY <1>11 DEF econVars
<1> QED
  BY <1>1, <1>2, <1>3, <1>4, <1>5, <1>6, <1>7, <1>8, <1>9, <1>10, <1>11 DEF EconNext

\* A night: whoever computes began on the day that ends.
LEMMA MidnightJobInv ==
  ASSUME CalendarInv, Midnight, \A v \in Workers : JobInv(v)
  PROVE \A v \in Workers : JobInv(v)'
<1> SUFFICES ASSUME NEW v \in Workers, job[v] # Nil PROVE JobInv(v)'
  BY DEF JobInv, Midnight
<1>1. /\ today \in Nat /\ today' = today + 1 /\ job[v].begun = today /\ job' = job
  BY EconomicsAssumption DEF EconomicsAssumption, CalendarInv, Days, Midnight
<1>2. DayOf(v)' = DayOf(v)
  BY <1>1 DEF DayOf
<1>3. IsJob(job[v])'
  BY <1>1 DEF JobInv, IsJob
<1> QED
  BY <1>1, <1>2, <1>3 DEF JobInv

LEMMA JobsKept ==
  ASSUME CalendarInv, \A v \in Workers : JobInv(v), [EconNext]_econVars
  PROVE \A v \in Workers : JobInv(v)'
<1> DEFINE P == \A v \in Workers : JobInv(v)'
<1>1. CASE Midnight
  BY <1>1, MidnightJobInv
<1>2. CASE RefreshToday
  <2>1. Begin("today", {today}, FALSE) /\ "today" \in Workers /\ today' = today
    BY <1>2, Zenon DEF RefreshToday, Begin
  <2> QED
    BY <2>1, BeginJobInv
<1>3. CASE FinalizeRecent
  <2>1. Begin("nightly", FinalizeWindow, FALSE) /\ "nightly" \in Workers /\ today' = today
    BY <1>3, Zenon DEF FinalizeRecent, Begin
  <2> QED
    BY <2>1, BeginJobInv
<1>4. CASE Heal
  <2>1. PICK days : Begin("heal", days, FALSE) /\ "heal" \in Workers /\ today' = today
    BY <1>4, Zenon DEF Heal, Begin
  <2> QED
    BY <2>1, BeginJobInv
<1>5. CASE Restart
  <2>1. today' = today
    BY <1>5 DEF Restart
  <2>2. ASSUME NEW v \in Workers PROVE job'[v] = job[v] \/ job'[v] = Nil
    BY <1>5 DEF Restart
  <2>3. ASSUME NEW v \in Workers PROVE JobInv(v)'
    <3>1. CASE job'[v] = job[v]
      BY <2>1, <3>1, OtherJobs
    <3>2. CASE job'[v] = Nil
      BY <3>2 DEF JobInv
    <3> QED
      BY <2>2, <3>1, <3>2
  <2> QED
    BY <2>3
<1>6. ASSUME today' = today, job' = job PROVE P
  BY <1>6, OtherJobs
<1>7. ASSUME NEW d \in Days, PricesPublished(d) \/ Corrected(d) PROVE P
  BY <1>6, <1>7 DEF PricesPublished, Corrected
<1>8. ASSUME NEW d \in AskedDays, GetDay(d) PROVE P
  <2>1. CASE Servable(daily[d])
    BY <1>6, <1>8, <2>1, Zenon DEF GetDay
  <2>2. CASE ~Servable(daily[d])
    <3>1. PICK lacking : Begin("request", {d}, lacking) /\ "request" \in Workers /\ today' = today
      BY <1>8, <2>2, Zenon DEF GetDay
    <3> QED
      BY <3>1, BeginJobInv
  <2> QED
    BY <2>1, <2>2
<1>9. ASSUME NEW w \in Workers, ReadFlows(w) \/ ReadPrices(w) \/ SaveHourly(w) PROVE P
  BY <1>9, ReadFlowsJobInv, ReadPricesJobInv, SaveHourlyJobInv
<1>10. ASSUME NEW w \in Workers, SaveDaily(w) \/ DayFails(w) PROVE P
  <2>1. job[w] # Nil /\ AdvanceJob(w) /\ today' = today
    BY <1>10, Zenon DEF SaveDaily, DayFails, At
  <2> QED
    BY <2>1, AdvanceJobInv
<1>11. CASE UNCHANGED econVars
  BY <1>6, <1>11 DEF econVars
<1> QED
  BY <1>1, <1>2, <1>3, <1>4, <1>5, <1>7, <1>8, <1>9, <1>10, <1>11 DEF EconNext

-------------------------------------------------------------------------------
(* What is stored for a day that is out of reach is of the whole day. *)

\* What a step leaves of the settled days, one goroutine's store included.
StoresKept ==
  \A d \in Days : Settled(d) =>
    /\ hourly[d] >= 2 => hourly'[d] >= 2
    /\ Whole(d) => Whole(d)'

LEMMA StoresUntouched ==
  ASSUME today' = today, hourly' = hourly, daily' = daily
  PROVE StoresKept
BY DEF StoresKept, Whole

LEMMA HourlyStored ==
  ASSUME CalendarInv, NEW w \in Workers, JobInv(w), SaveHourly(w)
  PROVE /\ StoresKept
        /\ DayOf(w) \in Days /\ Settled(DayOf(w)) => hourly'[DayOf(w)] >= 2
<1> DEFINE e == DayOf(w)
<1>1. /\ today \in Nat /\ today' = today /\ daily' = daily
      /\ hourly' = [hourly EXCEPT ![e] = job[w].level]
      /\ hourly = [d \in Days |-> hourly[d]]
  BY EconomicsAssumption DEF EconomicsAssumption, CalendarInv, Days, SaveHourly
<1>2. e \in Days /\ Settled(e) => job[w].level >= 2
  BY <1>1, EconomicsAssumption
     DEF EconomicsAssumption, Days, SaveHourly, At, JobInv, IsJob, Settled
<1> HIDE DEF e
<1>3. \A d \in Days : Settled(d) /\ (hourly[d] >= 2 \/ d = e) => hourly'[d] >= 2
  BY <1>1, <1>2
<1> QED
  BY <1>1, <1>3 DEF StoresKept, Whole, e

LEMMA DailyStored ==
  ASSUME CalendarInv, NEW w \in Workers, JobInv(w), SaveDaily(w)
  PROVE /\ StoresKept
        /\ \A d \in Days : d = DayOf(w) /\ Settled(d) /\ hourly[d] >= 2 => Whole(d)'
<1> DEFINE e == DayOf(w)
           row == RowOf(w)
<1>1. /\ today \in Nat /\ today' = today /\ hourly' = hourly
      /\ daily' = [daily EXCEPT ![e] = row]
      /\ daily = [d \in Days |-> daily[d]]
  BY EconomicsAssumption DEF EconomicsAssumption, CalendarInv, Days, SaveDaily
<1>2. e \in Days /\ Settled(e) => row \in Rows /\ row.level >= 2 /\ row.final
  <2>1. job[w] # Nil /\ job[w].at = "summary"
    BY DEF SaveDaily, At
  <2>2. job[w].priced \in BOOLEAN /\ job[w].final \in BOOLEAN
    BY <2>1, Zenon DEF JobInv, IsJob
  <2>3. e \in Days /\ Settled(e) => e < job[w].begun
    BY <1>1, <2>1, EconomicsAssumption DEF EconomicsAssumption, Days, JobInv, IsJob, Settled
  <2>4. e \in Days /\ Settled(e) => job[w].level \in 0..3 /\ job[w].level >= 2 /\ job[w].final
    BY <2>1, <2>3 DEF JobInv
  <2>5. \A l, p, f : LET r == [level |-> l, priced |-> p, final |-> f]
                     IN /\ l \in 0..3 /\ p \in BOOLEAN /\ f \in BOOLEAN => r \in Rows
                        /\ r.level = l /\ r.final = f
    BY Zenon DEF Rows
  <2> QED
    BY <2>2, <2>4, <2>5, Zenon DEF RowOf
<1> HIDE DEF e, row
<1>3. \A d \in Days : d # e => daily'[d] = daily[d]
  BY <1>1
<1>4. e \in Days => daily'[e] = row
  BY <1>1
<1>5. \A d \in Days : Settled(d) /\ hourly[d] >= 2 /\ (d = e \/ Whole(d)) => Whole(d)'
  BY <1>1, <1>2, <1>3, <1>4, Zenon DEF Whole
<1>6. \A d \in Days : Settled(d) /\ Whole(d) => Whole(d)'
  BY <1>5 DEF Whole
<1> QED
  BY <1>1, <1>5, <1>6, Zenon DEF StoresKept, e

\* Every step but the night's: what is settled stays, what is stored is whole.
LEMMA StoresAreKept ==
  ASSUME CalendarInv, \A v \in Workers : JobInv(v), [EconNext]_econVars, ~Midnight
  PROVE today' = today /\ StoresKept
<1> USE StoresUntouched
<1>1. CASE RefreshToday \/ FinalizeRecent \/ Heal \/ Restart
  BY <1>1, Zenon DEF RefreshToday, FinalizeRecent, Heal, Restart
<1>2. ASSUME NEW d \in Days, PricesPublished(d) \/ Corrected(d) PROVE today' = today /\ StoresKept
  BY <1>2, Zenon DEF PricesPublished, Corrected
<1>3. ASSUME NEW d \in AskedDays, GetDay(d) PROVE today' = today /\ StoresKept
  BY <1>3, Zenon DEF GetDay
<1>4. ASSUME NEW w \in Workers, ReadFlows(w) \/ ReadPrices(w) \/ DayFails(w)
      PROVE today' = today /\ StoresKept
  BY <1>4, Zenon DEF ReadFlows, ReadPrices, DayFails
<1>5. ASSUME NEW w \in Workers, SaveHourly(w) PROVE today' = today /\ StoresKept
  <2>1. today' = today
    BY <1>5 DEF SaveHourly
  <2> QED
    BY <1>5, <2>1, HourlyStored
<1>6. ASSUME NEW w \in Workers, SaveDaily(w) PROVE today' = today /\ StoresKept
  <2>1. today' = today
    BY <1>6 DEF SaveDaily
  <2> QED
    BY <1>6, <2>1, DailyStored
<1>7. CASE UNCHANGED econVars
  BY <1>7, Zenon DEF econVars
<1> QED
  BY <1>1, <1>2, <1>3, <1>4, <1>5, <1>6, <1>7, Zenon DEF EconNext

\* A missed night or day is not forgotten.
LEMMA MissesStay ==
  ASSUME CalendarInv, [EconNext]_econVars
  PROVE /\ troubles'.misses = 0 => troubles.misses = 0
        /\ Restart \/ (\E w \in Workers : DayFails(w)) => troubles'.misses # 0
<1> USE DEF CalendarInv
<1>1. troubles' = [troubles EXCEPT !.misses = @ + 1] => troubles'.misses # 0
  OBVIOUS
<1>2. troubles' = [troubles EXCEPT !.corrections = @ + 1] => troubles'.misses = troubles.misses
  OBVIOUS
<1>3. Midnight => (troubles'.misses = 0 => troubles.misses = 0)
  <2>1. Midnight => troubles' = troubles \/ troubles' = [troubles EXCEPT !.misses = @ + 1]
    BY DEF Midnight
  <2> QED
    BY <1>1, <2>1
<1>4. Restart \/ (\E w \in Workers : DayFails(w)) => troubles'.misses # 0
  BY <1>1, Zenon DEF Restart, DayFails
<1>5. RefreshToday \/ FinalizeRecent \/ Heal => troubles' = troubles
  BY Zenon DEF RefreshToday, FinalizeRecent, Heal
<1>6. ASSUME NEW d \in Days, PricesPublished(d) \/ Corrected(d)
      PROVE troubles'.misses = troubles.misses
  BY <1>2, <1>6, Zenon DEF PricesPublished, Corrected
<1>7. ASSUME NEW d \in AskedDays, GetDay(d) PROVE troubles' = troubles
  BY <1>7, Zenon DEF GetDay
<1>8. ASSUME NEW w \in Workers, ReadFlows(w) \/ ReadPrices(w) \/ SaveHourly(w) \/ SaveDaily(w)
      PROVE troubles' = troubles
  BY <1>8, Zenon DEF ReadFlows, ReadPrices, SaveHourly, SaveDaily
<1>9. UNCHANGED econVars => troubles' = troubles
  BY Zenon DEF econVars
<1> HIDE DEF CalendarInv
<1>10. troubles'.misses = 0 => troubles.misses = 0
  BY <1>3, <1>4, <1>5, <1>6, <1>7, <1>8, <1>9 DEF EconNext
<1> QED
  BY <1>4, <1>10

\* A step that leaves tonight's run where it is.
LEMMA NightUntouched ==
  ASSUME NightInv, StoresKept, today' = today, job'["nightly"] = job["nightly"],
         troubles'.misses = 0 => troubles.misses = 0
  PROVE NightInv'
<1>1. DayOf("nightly")' = DayOf("nightly") /\ FinalizeWindow' = FinalizeWindow
  BY DEF DayOf, FinalizeWindow
<1> QED
  BY <1>1 DEF NightInv, StoresKept, FinalizeWindow, Settled

LEMMA NightKept ==
  ASSUME CalendarInv, \A v \in Workers : JobInv(v), NightInv, [EconNext]_econVars
  PROVE NightInv'
<1> DEFINE n == "nightly"
<1>1. CASE Midnight
  BY <1>1 DEF Midnight, NightInv
<1> SUFFICES ASSUME ~Midnight PROVE NightInv'
  BY <1>1
<1>2. today' = today /\ StoresKept /\ FinalizeWindow' = FinalizeWindow
  BY StoresAreKept DEF FinalizeWindow
<1>3. troubles'.misses = 0 => troubles.misses = 0
  BY MissesStay
<1>4. job'[n] = job[n] => NightInv'
  BY <1>2, <1>3, NightUntouched
<1>5. \A w \in Workers : OneMoves(w) /\ w # n /\ n \in Workers => NightInv'
  BY <1>4 DEF OneMoves
<1>6. n \notin Workers => NightInv'
  BY DEF NightInv
<1>7. CASE RefreshToday
  <2>1. "today" \in Workers /\ OneMoves("today")
    BY <1>2, <1>7, BeginMoves, Zenon DEF RefreshToday, Begin
  <2> QED
    BY <1>5, <1>6, <2>1
<1>8. CASE FinalizeRecent
  <2>1. job'[n].at = "flows" /\ job'[n].left = FinalizeWindow /\ job'[n].begun = today
    BY <1>2, <1>8, BeginMoves, Zenon DEF FinalizeRecent, Begin
  <2> QED
    BY <1>2, <2>1 DEF NightInv
<1>9. CASE Heal
  <2>1. "heal" \in Workers /\ OneMoves("heal")
    BY <1>2, <1>9, BeginMoves, Zenon DEF Heal, Begin
  <2> QED
    BY <1>5, <1>6, <2>1
<1>10. CASE Restart
  <2>1. n \in Workers => job'[n] = Nil
    BY <1>10 DEF Restart
  <2> QED
    BY <2>1 DEF NightInv
<1>11. ASSUME NEW d \in Days, PricesPublished(d) \/ Corrected(d) PROVE NightInv'
  BY <1>4, <1>11 DEF PricesPublished, Corrected
<1>12. ASSUME NEW d \in AskedDays, GetDay(d) PROVE NightInv'
  <2>1. job' = job \/ (\E lacking : Begin("request", {d}, lacking) /\ "request" \in Workers)
    BY <1>12, Zenon DEF GetDay
  <2>2. job' = job \/ ("request" \in Workers /\ OneMoves("request"))
    BY <1>2, <2>1, BeginMoves
  <2> QED
    BY <1>4, <1>5, <1>6, <2>2
<1>13. ASSUME NEW w \in Workers, job[w] # Nil
       PROVE IsJob(job[w])
  BY <1>13 DEF JobInv
<1>14. ASSUME NEW w \in Workers, ReadFlows(w) \/ ReadPrices(w) PROVE NightInv'
  <2>1. /\ OneMoves(w) /\ job'[w].at \in {"prices", "hours"}
        /\ job'[w].left = job[w].left /\ job'[w].begun = job[w].begun /\ job[w] # Nil
    BY <1>13, <1>14, ReadFlowsMoves, ReadPricesMoves DEF IsJob, ReadFlows, ReadPrices, At
  <2>2. w = n => NightInv'
    BY <1>2, <1>3, <2>1 DEF NightInv, StoresKept, FinalizeWindow, Settled
  <2> QED
    BY <1>5, <1>6, <2>1, <2>2
<1>15. ASSUME NEW w \in Workers, SaveHourly(w) PROVE NightInv'
  <2>1. /\ OneMoves(w) /\ job'[w].left = job[w].left /\ job'[w].begun = job[w].begun
        /\ job[w] # Nil
    BY <1>13, <1>15, SaveHourlyMoves DEF IsJob, SaveHourly, At
  <2>2. DayOf(w)' = DayOf(w) /\ (DayOf(w) \in Days /\ Settled(DayOf(w)) => hourly'[DayOf(w)] >= 2)
    BY <1>15, <2>1, HourlyStored DEF DayOf
  <2>3. w = n => NightInv'
    BY <1>2, <1>3, <2>1, <2>2 DEF NightInv, StoresKept, FinalizeWindow, Settled
  <2> QED
    BY <1>5, <1>6, <2>1, <2>3
<1>16. ASSUME NEW w \in Workers, DayFails(w) PROVE NightInv'
  <2>1. OneMoves(w) /\ troubles'.misses # 0 /\ job[w] # Nil
    BY <1>2, <1>13, <1>16, AdvanceMoves, MissesStay DEF IsJob, DayFails
  <2>2. w = n /\ job'[w] # Nil => job'[w].at = "flows" /\ job'[w].begun = job[w].begun
    BY <1>2, <1>13, <1>16, <2>1, AdvanceMoves DEF IsJob, DayFails
  <2> QED
    BY <1>2, <1>5, <1>6, <2>1, <2>2 DEF NightInv
<1>17. ASSUME NEW w \in Workers, SaveDaily(w) PROVE NightInv'
  <2>1. job[w] # Nil /\ job[w].at = "summary" /\ AdvanceJob(w) /\ IsJob(job[w])
    BY <1>13, <1>17, Zenon DEF SaveDaily, At
  <2>2. OneMoves(w)
    BY <1>2, <2>1, AdvanceMoves DEF IsJob
  <2>3. CASE w = n /\ job'[w] # Nil
    <3>1. /\ job'[w].at = "flows" /\ job'[w].left = job[w].left \ {DayOf(w)}
          /\ job'[w].begun = job[w].begun
      BY <1>2, <2>1, <2>3, AdvanceMoves DEF IsJob
    <3>2. ASSUME troubles'.misses = 0, NEW d \in FinalizeWindow \ job'[w].left, Settled(d)
          PROVE Whole(d)'
      <4>1. CASE d = DayOf(w)
        <5>1. d \in Days /\ hourly[d] >= 2
          BY <2>1, <2>3, <3>2, <4>1 DEF NightInv, FinalizeWindow
        <5> QED
          BY <1>17, <3>2, <4>1, <5>1, DailyStored
      <4>2. CASE d # DayOf(w)
        <5>1. d \in Days /\ Whole(d)
          BY <1>3, <2>1, <2>3, <3>1, <3>2, <4>2 DEF NightInv, FinalizeWindow
        <5> QED
          BY <1>2, <3>2, <5>1 DEF StoresKept
      <4> QED
        BY <4>1, <4>2
    <3> QED
      BY <1>2, <2>1, <2>3, <3>1, <3>2 DEF NightInv, Settled
  <2> QED
    BY <1>5, <1>6, <2>2, <2>3 DEF NightInv
<1>18. CASE UNCHANGED econVars
  BY <1>4, <1>18 DEF econVars
<1> QED
  BY <1>7, <1>8, <1>9, <1>10, <1>11, <1>12, <1>14, <1>15, <1>16, <1>17, <1>18 DEF EconNext

\* Midnight puts one more day out of reach: with a window of two days, one
\* that tonight's run has been through.
LEMMA SettledKept ==
  ASSUME FinalizeDays >= 2, CalendarInv, \A v \in Workers : JobInv(v), NightInv, SettledInv,
         [EconNext]_econVars
  PROVE SettledInv'
<1> USE EconomicsAssumption DEF EconomicsAssumption, Days
<1>1. CASE Midnight
  <2>1. /\ today \in Nat /\ today' = today + 1 /\ daily' = daily /\ hourly' = hourly
        /\ ~finalized' /\ (troubles'.misses = 0 => finalized /\ troubles.misses = 0)
    BY <1>1 DEF Midnight, CalendarInv
  <2>2. ASSUME NEW d \in Days, troubles'.misses = 0, Settled(d)', d + FinalizeDays < today'
        PROVE Whole(d)'
    <3>1. Settled(d) /\ finalized /\ troubles.misses = 0
      BY <2>1, <2>2 DEF Settled
    <3>2. Whole(d)
      BY <3>1 DEF SettledInv
    <3> QED
      BY <2>1, <3>2 DEF Whole
  <2> QED
    BY <2>1, <2>2 DEF SettledInv
<1> SUFFICES ASSUME ~Midnight PROVE SettledInv'
  BY <1>1
<1>2. today' = today /\ StoresKept /\ (troubles'.misses = 0 => troubles.misses = 0)
  BY StoresAreKept, MissesStay
<1>3. (finalized' => finalized) => SettledInv'
  BY <1>2 DEF SettledInv, StoresKept, Settled
<1>4. CASE RefreshToday \/ FinalizeRecent \/ Heal
  BY <1>3, <1>4, Zenon DEF RefreshToday, FinalizeRecent, Heal
<1>5. ASSUME NEW d \in Days, PricesPublished(d) \/ Corrected(d) PROVE SettledInv'
  BY <1>3, <1>5, Zenon DEF PricesPublished, Corrected
<1>6. ASSUME NEW d \in AskedDays, GetDay(d) PROVE SettledInv'
  BY <1>3, <1>6, Zenon DEF GetDay
<1>7. ASSUME NEW w \in Workers, ReadFlows(w) \/ ReadPrices(w) \/ SaveHourly(w) PROVE SettledInv'
  BY <1>3, <1>7, Zenon DEF ReadFlows, ReadPrices, SaveHourly
<1>8. CASE Restart \/ (\E w \in Workers : DayFails(w))
  BY <1>8, MissesStay DEF SettledInv
<1>9. ASSUME NEW w \in Workers, SaveDaily(w) PROVE SettledInv'
  <2>1. CASE ~(w = "nightly" /\ LastOf(w))
    BY <1>3, <1>9, <2>1, Zenon DEF SaveDaily
  <2>2. CASE w = "nightly" /\ LastOf(w)
    <3>1. job[w] # Nil /\ job[w].at = "summary" /\ job[w].left = {DayOf(w)}
      BY <1>9, <2>2 DEF SaveDaily, At, LastOf
    <3>2. ASSUME NEW d \in Days, troubles'.misses = 0, Settled(d) PROVE Whole(d)'
      <4>1. today \in Nat /\ FinalizeDays \in Nat
        BY DEF CalendarInv
      <4>2. CASE d = DayOf(w)
        <5>1. hourly[d] >= 2
          BY <2>2, <3>1, <3>2, <4>2 DEF NightInv
        <5> QED
          BY <1>9, <3>2, <4>2, <5>1, DailyStored
      <4>3. CASE d # DayOf(w)
        <5>1. d + FinalizeDays < today \/ d \in FinalizeWindow \ job[w].left
          BY <3>1, <3>2, <4>1, <4>3 DEF FinalizeWindow, Settled
        <5>2. Whole(d)
          BY <1>2, <2>2, <3>1, <3>2, <5>1 DEF NightInv, SettledInv
        <5> QED
          BY <1>2, <3>2, <5>2 DEF StoresKept
      <4> QED
        BY <4>2, <4>3
    <3> QED
      BY <1>2, <3>2 DEF SettledInv, Settled
  <2> QED
    BY <2>1, <2>2
<1>10. CASE UNCHANGED econVars
  BY <1>3, <1>10, Zenon DEF econVars
<1> QED
  BY <1>4, <1>5, <1>6, <1>7, <1>8, <1>9, <1>10 DEF EconNext

-------------------------------------------------------------------------------
(* Requests. *)

\* A step that leaves the request where it is.
LEMMA RequestUntouched ==
  ASSUME PricesInv, priced \subseteq priced', job'["request"] = job["request"],
         shortchanged' = shortchanged
  PROVE PricesInv'
<1>1. DayOf("request")' = DayOf("request")
  BY DEF DayOf
<1> QED
  BY <1>1, Zenon DEF PricesInv

\* No request is under way after the step.
LEMMA RequestIdle ==
  ASSUME "request" \in Workers => job'["request"] = Nil, ~shortchanged'
  PROVE PricesInv'
BY DEF PricesInv

LEMMA RequestMoves ==
  ASSUME "request" \in Workers, PricesInv, job["request"] # Nil,
         shortchanged' = shortchanged, priced' = priced,
         job'["request"].left = job["request"].left,
         job'["request"].owed = job["request"].owed,
         DayOf("request") \in priced /\ job'["request"].at \in {"hours", "summary"} =>
           \/ job'["request"].priced
           \/ job["request"].at \in {"hours", "summary"} /\ (job["request"].priced => job'["request"].priced)
  PROVE PricesInv'
<1>1. DayOf("request")' = DayOf("request")
  BY DEF DayOf
<1> QED
  BY <1>1, Zenon DEF PricesInv

LEMMA PricesKept ==
  ASSUME CalendarInv, \A v \in Workers : JobInv(v), PricesInv, [EconNext]_econVars
  PROVE PricesInv'
<1> DEFINE r == "request"
<1>1. \A w \in Workers : /\ OneMoves(w) /\ w # r /\ priced' = priced /\ shortchanged' = shortchanged
                         => PricesInv'
  <2>1. ASSUME r \notin Workers, shortchanged' = shortchanged PROVE PricesInv'
    BY <2>1, Zenon DEF PricesInv
  <2> QED
    BY <2>1, RequestUntouched DEF OneMoves
<1>2. ASSUME NEW w \in Workers, job[w] # Nil PROVE IsJob(job[w])
  BY <1>2 DEF JobInv
<1>3. CASE Midnight \/ UNCHANGED econVars \/ (\E d \in Days : PricesPublished(d) \/ Corrected(d))
  <2>1. priced \subseteq priced' /\ job' = job /\ shortchanged' = shortchanged
    BY <1>3 DEF Midnight, econVars, PricesPublished, Corrected
  <2> QED
    BY <2>1, RequestUntouched
<1>4. ASSUME NEW w \in Workers, NEW days, w # r, Begin(w, days, FALSE), today' = today,
             priced' = priced, shortchanged' = shortchanged
      PROVE PricesInv'
  BY <1>1, <1>4, BeginMoves
<1>5. CASE RefreshToday
  <2>1. /\ "today" \in Workers /\ Begin("today", {today}, FALSE)
        /\ today' = today /\ priced' = priced /\ shortchanged' = shortchanged
    BY <1>5, Zenon DEF RefreshToday, Begin
  <2> QED
    BY <1>4, <2>1
<1>6. CASE FinalizeRecent
  <2>1. /\ "nightly" \in Workers /\ Begin("nightly", FinalizeWindow, FALSE)
        /\ today' = today /\ priced' = priced /\ shortchanged' = shortchanged
    BY <1>6, Zenon DEF FinalizeRecent, Begin
  <2> QED
    BY <1>4, <2>1
<1>7. CASE Heal
  <2>1. PICK days :
           /\ "heal" \in Workers /\ Begin("heal", days, FALSE)
           /\ today' = today /\ priced' = priced /\ shortchanged' = shortchanged
    BY <1>7, Zenon DEF Heal, Begin
  <2> QED
    BY <1>4, <2>1
<1>8. CASE Restart
  <2>1. /\ r \in Workers => job'[r] = job[r]
        /\ priced' = priced /\ shortchanged' = shortchanged
    BY <1>8 DEF Restart
  <2>2. r \notin Workers => PricesInv'
    BY <2>1, Zenon DEF PricesInv
  <2> QED
    BY <2>1, <2>2, RequestUntouched
<1>9. ASSUME NEW d \in AskedDays, GetDay(d) PROVE PricesInv'
  <2>1. CASE Servable(daily[d])
    <3>1. ~shortchanged'
      BY <1>9, <2>1, Zenon DEF GetDay, Servable, Answer, PricesInv
    <3>2. r \in Workers /\ job[r] = Nil /\ job' = job
      BY <1>9, <2>1, Zenon DEF GetDay
    <3> QED
      BY <3>1, <3>2, RequestIdle
  <2>2. CASE ~Servable(daily[d])
    <3> DEFINE lacking == d \in priced
    <3>1. /\ r \in Workers /\ Begin(r, {d}, lacking) /\ today' = today
          /\ priced' = priced /\ shortchanged' = shortchanged
      BY <1>9, <2>2, Zenon DEF GetDay
    <3> HIDE DEF lacking
    <3>2. job'[r].at = "flows" /\ job'[r].left = {d} /\ job'[r].owed = lacking
      BY <3>1, BeginMoves
    <3>3. DayOf(r)' = d
      BY <3>2 DEF DayOf, CalendarInv
    <3>4. job'[r].owed => d \in priced
      BY <3>2, Zenon DEF lacking
    <3>5. job'[r].at \notin {"hours", "summary"} /\ job'[r].left = {DayOf(r)'}
      BY <3>2, <3>3
    <3> QED
      BY <3>1, <3>3, <3>4, <3>5, Zenon DEF PricesInv
  <2> QED
    BY <2>1, <2>2
<1>10. ASSUME NEW w \in Workers, ReadFlows(w) PROVE PricesInv'
  <2>1. job[w] # Nil /\ priced' = priced /\ shortchanged' = shortchanged
    BY <1>10, Zenon DEF ReadFlows, At
  <2>2. /\ OneMoves(w) /\ job'[w].at = "prices"
        /\ job'[w].left = job[w].left /\ job'[w].owed = job[w].owed
    BY <1>2, <1>10, <2>1, ReadFlowsMoves DEF IsJob
  <2>3. job'[w].at \notin {"hours", "summary"}
    BY <2>2
  <2> QED
    BY <1>1, <2>1, <2>2, <2>3, RequestMoves
<1>11. ASSUME NEW w \in Workers, ReadPrices(w) PROVE PricesInv'
  <2>1. job[w] # Nil /\ priced' = priced /\ shortchanged' = shortchanged
    BY <1>11, Zenon DEF ReadPrices, At
  <2>2. OneMoves(w) /\ job'[w].left = job[w].left
    BY <1>2, <1>11, <2>1, ReadPricesMoves DEF IsJob
  <2>3. job'[w].owed = job[w].owed /\ job'[w].priced = (DayOf(w) \in priced)
    BY <1>2, <1>11, <2>1, ReadPricesMoves, Zenon DEF IsJob
  <2>4. DayOf(w) \in priced => job'[w].priced
    BY <2>3, Zenon
  <2> QED
    BY <1>1, <2>1, <2>2, <2>3, <2>4, RequestMoves, Zenon
<1>12. ASSUME NEW w \in Workers, SaveHourly(w) PROVE PricesInv'
  <2>1. /\ job[w] # Nil /\ job[w].at = "hours"
        /\ priced' = priced /\ shortchanged' = shortchanged
    BY <1>12, Zenon DEF SaveHourly, At
  <2>2. /\ OneMoves(w) /\ job'[w].priced = job[w].priced
        /\ job'[w].left = job[w].left /\ job'[w].owed = job[w].owed
    BY <1>2, <1>12, <2>1, SaveHourlyMoves DEF IsJob
  <2>3. job[w].at \in {"hours", "summary"}
    BY <2>1
  <2> QED
    BY <1>1, <2>1, <2>2, <2>3, RequestMoves
<1>13. ASSUME NEW w \in Workers, SaveDaily(w) \/ DayFails(w) PROVE PricesInv'
  <2>1. job[w] # Nil /\ AdvanceJob(w) /\ today' = today /\ priced' = priced
    BY <1>13, Zenon DEF SaveDaily, DayFails, At
  <2>2. /\ OneMoves(w) /\ (job[w].left = {DayOf(w)} => job'[w] = Nil)
    BY <1>2, <2>1, AdvanceMoves DEF IsJob
  <2>3. w # r => shortchanged' = shortchanged
    BY <1>13, Zenon DEF SaveDaily, DayFails
  <2>4. CASE w = r
    <3>1. ~shortchanged'
      <4>1. CASE DayFails(w)
        BY <4>1, Zenon DEF DayFails, PricesInv
      <4>2. CASE SaveDaily(w)
        <5>1. job[w].at \in {"hours", "summary"}
          BY <4>2 DEF SaveDaily, At
        <5>2. job[w].owed => job[w].priced
          BY <2>1, <2>4, <5>1, Zenon DEF PricesInv
        <5>3. shortchanged' = (shortchanged \/ (RowOf(w).final /\ job[w].owed /\ ~RowOf(w).priced))
          BY <2>4, <4>2, Zenon DEF SaveDaily, Answer
        <5>4. RowOf(w).priced = job[w].priced
          BY DEF RowOf
        <5> QED
          BY <5>2, <5>3, <5>4, Zenon DEF PricesInv
      <4> QED
        BY <1>13, <4>1, <4>2
    <3>2. job'[r] = Nil
      BY <2>1, <2>2, <2>4, Zenon DEF PricesInv
    <3> QED
      BY <3>1, <3>2, RequestIdle
  <2> QED
    BY <1>1, <2>1, <2>2, <2>3, <2>4
<1> QED
  BY <1>3, <1>5, <1>6, <1>7, <1>8, <1>9, <1>10, <1>11, <1>12, <1>13 DEF EconNext

-------------------------------------------------------------------------------

LEMMA PricesAlways == EconSpec => [](CalendarInv /\ (\A w \in Workers : JobInv(w)) /\ PricesInv)
<1> DEFINE Inv == CalendarInv /\ (\A w \in Workers : JobInv(w)) /\ PricesInv
<1>1. EconInit => Inv
  BY DaysInit DEF DaysInv
<1>2. Inv /\ [EconNext]_econVars => Inv'
  BY CalendarKept, JobsKept, PricesKept
<1> QED
  BY <1>1, <1>2, PTL DEF EconSpec

\* A final day is never answered without prices that were stored when the
\* request came, whatever else is computed meanwhile: service.go GetDay
\* recomputes the rows that lack them.
THEOREM EconomicsFinalAnswersPriced == EconSpec => []FinalAnswersArePriced
<1>1. PricesInv => FinalAnswersArePriced
  BY Zenon DEF PricesInv, FinalAnswersArePriced
<1> QED
  BY <1>1, PricesAlways, PTL

\* With a nightly window of at least two days (three by default), a day that
\* has left it is stored whole, hours and summary, unless a night or a day of
\* a run was missed; and answers have their prices (service.go ComputeDay,
\* main.go finalizeRecent, service.go GetDay).
THEOREM EconomicsPastDaysSettle == FinalizeDays >= 2 => (EconSpec => []PastDaysSettle)
<1> SUFFICES ASSUME FinalizeDays >= 2 PROVE EconSpec => []PastDaysSettle
  OBVIOUS
<1>1. EconInit => DaysInv
  BY DaysInit
<1>2. DaysInv /\ [EconNext]_econVars => DaysInv'
  BY CalendarKept, JobsKept, NightKept, SettledKept DEF DaysInv
<1>3. DaysInv => LeavesWindowWhole
  <2> SUFFICES ASSUME DaysInv, troubles.misses = 0, NEW d \in Days, d + FinalizeDays < today
               PROVE Whole(d) /\ daily[d] # Nil
    BY Zenon DEF LeavesWindowWhole, Whole
  <2>1. Settled(d)
    BY EconomicsAssumption DEF EconomicsAssumption, DaysInv, CalendarInv, Days, Settled
  <2>2. Whole(d)
    BY <2>1 DEF DaysInv, SettledInv
  <2> QED
    BY <2>2, EconomicsAssumption, Zenon DEF EconomicsAssumption, Whole, Rows
<1>4. EconSpec => []LeavesWindowWhole
  BY <1>1, <1>2, <1>3, PTL DEF EconSpec
<1> QED
  BY <1>4, EconomicsFinalAnswersPriced, PTL DEF PastDaysSettle

-------------------------------------------------------------------------------
(* The forecast of tomorrow, while today is recomputed. *)

LEMMA LesserOfTwo ==
  ASSUME NEW a \in Int, NEW b \in Int
  PROVE  Min({a, b}) \in {a, b} /\ Min({a, b}) <= a
<1>1. CASE a <= b
  <2>1. a \in {a, b} /\ \A y \in {a, b} : a <= y
    BY <1>1
  <2> QED
    BY <2>1 DEF Min
<1>2. CASE b < a
  <2>1. b \in {a, b} /\ \A y \in {a, b} : b <= y
    BY <1>2
  <2> QED
    BY <2>1 DEF Min
<1> QED
  BY <1>1, <1>2

RequestInv ==
  /\ planClock \in Nat /\ computedAt \in Nat \cup {NoPlanYet}
  /\ DOMAIN request = {"at", "now", "rows", "load", "closed"}
  /\ request.at \in {"idle", "rows", "planned"} /\ request.now \in Nat
  /\ OpenHoursFromYesterday

LEMMA RequestInitInv == PlanInit => RequestInv
BY DEF PlanInit, RequestInv, IdleRequest, OpenHoursFromYesterday

\* No request takes an hour for closed that ends after it was made.
LEMMA ClosedHaveEnded ==
  ASSUME RequestInv, NEW h \in DayHours, HourEnd(h) > request.now
  PROVE  ~(HourEnd(h) <= MeasuredUntil(request.now))
<1>1. h \in Int /\ HourEnd(h) \in Int /\ request.now \in Int
  BY DayPlanAssumption DEF DayPlanAssumption, DayHours, HourEnd, RequestInv
<1>2. MeasuredUntil(request.now) \in Int /\ MeasuredUntil(request.now) <= request.now
  <2>1. CASE computedAt = NoPlanYet
    BY <1>1, <2>1 DEF MeasuredUntil
  <2>2. CASE computedAt # NoPlanYet
    <3>1. computedAt \in Int
      BY <2>2 DEF RequestInv
    <3>2. MeasuredUntil(request.now) = Min({request.now, computedAt})
      BY <2>2 DEF MeasuredUntil
    <3> QED
      BY <1>1, <3>1, <3>2, LesserOfTwo
  <2> QED
    BY <2>1, <2>2
<1> QED
  BY <1>1, <1>2

LEMMA RequestStepInv == RequestInv /\ [PlanNext]_planVars => RequestInv'
<1> SUFFICES ASSUME RequestInv, [PlanNext]_planVars PROVE RequestInv'
  OBVIOUS
<1>1. CASE PlanTick
  BY <1>1 DEF PlanTick, RequestInv, OpenHoursFromYesterday
<1>2. CASE ReadTelemetry \/ SaveHours
  BY <1>2 DEF ReadTelemetry, SaveHours, RequestInv, OpenHoursFromYesterday
<1>3. CASE SaveSummary
  BY <1>3 DEF SaveSummary, RequestInv, OpenHoursFromYesterday
<1>4. CASE ReadHours
  BY <1>4 DEF ReadHours, RequestInv, IdleRequest, OpenHoursFromYesterday
<1>5. CASE ReadSummary
  <2> DEFINE closed == {h \in DayHours : HourEnd(h) <= MeasuredUntil(request.now)}
             load == [h \in DayHours |-> LoadSource(h, h \in closed, request.rows)]
  <2>1. /\ request' = [request EXCEPT !.at = "planned", !.closed = closed, !.load = load]
        /\ planClock' = planClock /\ computedAt' = computedAt
    BY <1>5 DEF ReadSummary
  <2>2. ASSUME NEW h \in DayHours, HourEnd(h) > request.now, Yesterday[h] # NoPlanYet
        PROVE  load[h] = Yesterday[h]
    <3>1. h \notin closed
      BY <2>2, ClosedHaveEnded
    <3> HIDE DEF closed
    <3> QED
      BY <2>2, <3>1 DEF LoadSource
  <2> HIDE DEF closed, load
  <2>3. /\ request'.at = "planned" /\ request'.now = request.now /\ request'.load = load
        /\ DOMAIN request' = DOMAIN request
    BY <2>1 DEF RequestInv
  <2> QED
    BY <2>1, <2>2, <2>3 DEF RequestInv, OpenHoursFromYesterday, HourEnd
<1>6. CASE AnswerPlan
  BY <1>6 DEF AnswerPlan, RequestInv, IdleRequest, OpenHoursFromYesterday
<1>7. CASE PlanLoad \/ UNCHANGED planVars
  BY <1>7 DEF PlanLoad, planVars, RequestInv, OpenHoursFromYesterday
<1> QED
  BY <1>1, <1>2, <1>3, <1>4, <1>5, <1>6, <1>7 DEF PlanNext

\* A plan never takes an hour that had not ended when it was asked for from the partial
\* rows of today: for any hours, yesterday and interleaving of the request's two reads
\* with the recompute's two writes (economics/dayplan.go forecastLoadSource).
THEOREM OpenHoursStayYesterdays == PlanSpec => []OpenHoursFromYesterday
<1>1. RequestInv => OpenHoursFromYesterday
  BY DEF RequestInv
<1> QED
  BY <1>1, RequestInitInv, RequestStepInv, PTL DEF PlanSpec
=============================================================================
