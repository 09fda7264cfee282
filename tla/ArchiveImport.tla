---------------------------- MODULE ArchiveImport ----------------------------
(***************************************************************************)
(* How the past gets into telemetry_samples: an operator uploads the       *)
(* hourly sheets of the commercial meters (internal/askoe,                 *)
(* api/askoe_import.go) or pulls a plant's history from the vendor's       *)
(* portal (internal/fusionsolar), while the collector stores live rows.    *)
(* A slot is the 5-minute one the dashboard and the importers share; live  *)
(* rows outrank the portal's, which outrank the meters'.  Of the portal's  *)
(* counters the PV yield and the battery's discharge are kept.             *)
(***************************************************************************)
EXTENDS Integers, FiniteSets, FiniteSetsExt

CONSTANTS
  NoRow,         \* no row in a slot, no cell in an answer
  ArcDays,       \* civil days 0 .. ArcDays - 1
  HoursInDay,    \* 24
  StepsPerHour,  \* stepsPerHour: 12
  Uploads,       \* grids an operator uploads: channel -> day -> energy by hour
  PortalRanges,  \* [from, to) in slots, what an operator pulls
  PortalHistory, \* slot -> [yield, discharge] of the portal
  LiveSince,     \* slots where live collection may have begun
  MaxArcFaults   \* imports that stop on the way

SlotsInDay == HoursInDay * StepsPerHour
ArcSlots == 0 .. ArcDays * SlotsInDay - 1
SlotsOf(d) == d * SlotsInDay .. (d + 1) * SlotsInDay - 1
Channels == {"pv", "import", "export"}

\* Energies are in units that the steps of an hour divide.
ASSUME ArchiveAssumption ==
  /\ {ArcDays, HoursInDay} \subseteq Nat \ {0} /\ StepsPerHour \in Nat \ {0, 1}
  /\ \A u \in Uploads :
       /\ DOMAIN u = Channels
       /\ \A c \in Channels : \A d \in DOMAIN u[c] :
            /\ d \in 0 .. ArcDays - 1 /\ u[c][d] \in [1 .. HoursInDay -> Nat]
            /\ \A h \in 1 .. HoursInDay : u[c][d][h] % StepsPerHour = 0
  /\ \A r \in PortalRanges : r.from \in Nat /\ r.to \in Nat /\ r.from < r.to /\ r.to - 1 \in ArcSlots
  /\ \A s \in ArcSlots : /\ PortalHistory[s].yield # NoRow => PortalHistory[s].yield \in Nat
                         /\ PortalHistory[s].discharge # NoRow => PortalHistory[s].discharge \in Nat
  /\ LiveSince \subseteq Nat

VARIABLES
  liveTo,        \* live rows are stored from liveFrom up to this slot
  liveFrom,
  fsRows,        \* the portal's rows: slot -> pure PV, or NoRow
  askRows,       \* the meters' rows: slot -> counters, or NoRow
  ask,           \* the upload in progress
  portal,        \* the pull in progress
  kpiDays,       \* days with canonical totals of the portal
  staleDays,     \* days the upload wrote, their economics not recomputed since
  metered,       \* day -> the hours the meters' rows of it were built from, or NoRow
  chained,       \* days of the last upload, in pairs: one and the one it seeded
  raced,         \* days two imports wrote at once
  overtaken,     \* slots that went live when an import had looked at them
  arcFaults

arcVars == <<liveTo, liveFrom, fsRows, askRows, ask, portal, kpiDays, staleDays, metered,
             chained, raced, overtaken, arcFaults>>

LiveRow(s) == liveFrom <= s /\ s < liveTo
ZeroCounters == [pv |-> 0, import |-> 0, export |-> 0, load |-> 0]
NoUpload == [pc |-> "idle", days |-> {}, grid |-> NoRow, seed |-> ZeroCounters, written |-> {}]
NoPull == [pc |-> "idle", at |-> 0, to |-> 0, first |-> 0, live |-> {}, rows |-> <<>>]

-----------------------------------------------------------------------------
(* The meters' sheets *)

\* Days with all three channels; they are worked through in order.
CompleteDays(grid) == DOMAIN grid["pv"] \cap DOMAIN grid["import"] \cap DOMAIN grid["export"]
DayInHand == Min(ask.days)
DaysLeft == ask.days \ {DayInHand}

\* The counters after each step of a day; load is what PV and the grid brought less
\* what was sold, and never negative.
StepOf(grid, d, c, k) ==
  LET h == (k - 1) \div StepsPerHour + 1
      pv == grid["pv"][d][h] \div StepsPerHour
      import == grid["import"][d][h] \div StepsPerHour
      export == grid["export"][d][h] \div StepsPerHour
      load == c.load + pv + import - export
  IN  [pv |-> c.pv + pv, import |-> c.import + import, export |-> c.export + export,
       load |-> IF load < 0 THEN 0 ELSE load]
\* The opening row at midnight, then a row at the end of every step; the closing one
\* of 24:00 takes the place of the step before it.
Counters(grid, d, seed) ==
  LET after[k \in 0 .. SlotsInDay] ==
        IF k = 0 THEN seed ELSE StepOf(grid, d, after[k - 1], k)
  IN  after
BuildDay(grid, d, seed) ==
  LET after == Counters(grid, d, seed)
      first == d * SlotsInDay
  IN  [s \in SlotsOf(d) |->
        IF s = first + SlotsInDay - 1 THEN after[SlotsInDay] ELSE after[s - first]]
EndCounters(rows) == rows[Max(DOMAIN rows)]

UploadSheets(grid) ==
  /\ ask.pc = "idle" /\ CompleteDays(grid) # {}
  /\ ask' = [NoUpload EXCEPT !.pc = "check", !.days = CompleteDays(grid), !.grid = grid]
  /\ chained' = {}
  /\ UNCHANGED <<liveTo, liveFrom, fsRows, askRows, portal, kpiDays, staleDays, metered, raced,
                 overtaken, arcFaults>>

\* A day that holds a live row or the portal's is left alone, and the seed is kept.
OccupiedByLive(d) == \E s \in SlotsOf(d) : LiveRow(s)
Occupied(d) == \E s \in SlotsOf(d) : LiveRow(s) \/ fsRows[s] # NoRow
CheckDay ==
  /\ ask.pc = "check" /\ ask.days # {}
  /\ ask' = IF Occupied(DayInHand) THEN [ask EXCEPT !.days = DaysLeft]
            ELSE [ask EXCEPT !.pc = "clear"]
  /\ UNCHANGED <<liveTo, liveFrom, fsRows, askRows, portal, kpiDays, staleDays, metered, chained,
                 raced, overtaken, arcFaults>>

ClearDay ==
  /\ ask.pc = "clear"
  /\ askRows' = [s \in ArcSlots |-> IF s \in SlotsOf(DayInHand) THEN NoRow ELSE askRows[s]]
  /\ metered' = [metered EXCEPT ![DayInHand] = NoRow]
  /\ ask' = [ask EXCEPT !.pc = "insert"]
  /\ UNCHANGED <<liveTo, liveFrom, fsRows, portal, kpiDays, staleDays, chained, raced, overtaken,
                 arcFaults>>

NextSeedOfNothing(rows) == ask.seed
NextSeed(rows) == EndCounters(rows)
InsertDay ==
  LET d == DayInHand
      rows == BuildDay(ask.grid, d, ask.seed)
  IN  /\ ask.pc = "insert"
      /\ askRows' = [s \in ArcSlots |-> IF s \in SlotsOf(d) THEN rows[s] ELSE askRows[s]]
      /\ metered' = [metered EXCEPT ![d] = [c \in Channels |-> ask.grid[c][d]]]
      /\ ask' = [ask EXCEPT !.pc = "check", !.days = DaysLeft, !.seed = NextSeed(rows),
                            !.written = @ \union {d}]
      /\ chained' = chained \union
           {<<e, d>> : e \in {e \in ask.written : metered[e] # NoRow
                                               /\ \A f \in ask.written : f <= e}}
      /\ staleDays' = staleDays \union {d}
      /\ raced' = IF portal.pc \in {"askoe", "insert"} THEN raced \union {d} ELSE raced
      /\ UNCHANGED <<liveTo, liveFrom, fsRows, portal, kpiDays, overtaken, arcFaults>>

\* All days done: the handler recomputes the economics of the whole span, and lists
\* the days that failed.
EndUpload ==
  /\ ask.pc = "check" /\ ask.days = {}
  /\ LET all == CompleteDays(ask.grid)
     IN  \/ /\ staleDays' = IF ask.written = {} THEN staleDays
                           ELSE staleDays \ (Min(all) .. Max(all))
           /\ UNCHANGED arcFaults
        \/ /\ ask.written # {} /\ arcFaults < MaxArcFaults /\ arcFaults' = arcFaults + 1
           /\ UNCHANGED staleDays
  /\ ask' = NoUpload
  /\ UNCHANGED <<liveTo, liveFrom, fsRows, askRows, portal, kpiDays, metered, chained, raced,
                 overtaken>>

\* A query fails or the operator leaves: what is written stays, uncounted.
StopUpload ==
  /\ ask.pc # "idle" /\ arcFaults < MaxArcFaults
  /\ ask' = NoUpload /\ arcFaults' = arcFaults + 1
  /\ UNCHANGED <<liveTo, liveFrom, fsRows, askRows, portal, kpiDays, staleDays, metered, chained,
                 raced, overtaken>>

-----------------------------------------------------------------------------
(* The portal's history *)

\* The windows of a pull are a day long, from its own beginning.
WindowEnd == IF portal.at + SlotsInDay > portal.to THEN portal.to ELSE portal.at + SlotsInDay
PullWindow == portal.at .. WindowEnd - 1

PullHistory(r) ==
  /\ portal.pc = "idle"
  /\ portal' = [NoPull EXCEPT !.pc = "scan", !.at = r.from, !.to = r.to, !.first = r.from]
  /\ UNCHANGED <<liveTo, liveFrom, fsRows, askRows, ask, kpiDays, staleDays, metered, chained,
                 raced, overtaken, arcFaults>>

NextWindow == [portal EXCEPT !.pc = "scan", !.at = WindowEnd, !.live = {}, !.rows = <<>>]

\* The slots that already hold live rows; a window full of them is not fetched.
ScanWindow ==
  /\ portal.pc = "scan" /\ portal.at < portal.to
  /\ LET live == {s \in PullWindow : LiveRow(s)}
     IN  portal' = IF live = PullWindow THEN NextWindow
                   ELSE [portal EXCEPT !.pc = "fetch", !.live = live]
  /\ UNCHANGED <<liveTo, liveFrom, fsRows, askRows, ask, kpiDays, staleDays, metered, chained,
                 raced, overtaken, arcFaults>>

\* PV and discharge come in one yield: the pure PV is the yield less the discharge
\* told at the slot or last before it, not below zero, not below the slot before.
DischargeAt(s) ==
  LET told == {t \in PullWindow : t <= s /\ PortalHistory[t].discharge # NoRow}
  IN  IF told = {} THEN 0 ELSE PortalHistory[Max(told)].discharge
PureNow(s) == Max({0, PortalHistory[s].yield - DischargeAt(s)})
Yields == {s \in PullWindow : PortalHistory[s].yield # NoRow}
PurePvUnclamped == [s \in Yields |-> PortalHistory[s].yield - DischargeAt(s)]
PurePv == [s \in Yields |-> Max({PureNow(t) : t \in {u \in Yields : u <= s}})]

\* The answers of the devices, less the slots that were live at the scan.
FetchWindow ==
  /\ portal.pc = "fetch"
  /\ LET keep == DOMAIN PurePv \ portal.live
     IN  portal' = IF keep = {} THEN NextWindow
                   ELSE [portal EXCEPT !.pc = "clear", !.rows = [s \in keep |-> PurePv[s]]]
  /\ UNCHANGED <<liveTo, liveFrom, fsRows, askRows, ask, kpiDays, staleDays, metered, chained,
                 raced, overtaken, arcFaults>>

\* The rows of an earlier pull go, then the meters' rows, then the new ones come.
ClearPortalRows ==
  /\ portal.pc = "clear" /\ portal' = [portal EXCEPT !.pc = "askoe"]
  /\ fsRows' = [s \in ArcSlots |-> IF s \in PullWindow THEN NoRow ELSE fsRows[s]]
  /\ UNCHANGED <<liveTo, liveFrom, askRows, ask, kpiDays, staleDays, metered, chained, raced,
                 overtaken, arcFaults>>
GivesWayInSlots(s) == s \in DOMAIN portal.rows /\ s # Min(PullWindow)
GivesWay(s) == s \in PullWindow
ClearMeterRows ==
  /\ portal.pc = "askoe" /\ portal' = [portal EXCEPT !.pc = "insert"]
  /\ askRows' = [s \in ArcSlots |-> IF GivesWay(s) THEN NoRow ELSE askRows[s]]
  /\ LET touched == {d \in 0 .. ArcDays - 1 : SlotsOf(d) \cap PullWindow # {}}
     IN  /\ metered' = [d \in 0 .. ArcDays - 1 |-> IF d \in touched THEN NoRow ELSE metered[d]]
         /\ chained' = {p \in chained : p[1] \notin touched /\ p[2] \notin touched}
  /\ UNCHANGED <<liveTo, liveFrom, fsRows, ask, kpiDays, staleDays, raced, overtaken, arcFaults>>
InsertWindow ==
  /\ portal.pc = "insert" /\ portal' = NextWindow
  /\ fsRows' = [s \in ArcSlots |-> IF s \in DOMAIN portal.rows THEN portal.rows[s] ELSE fsRows[s]]
  /\ raced' = IF ask.pc \in {"clear", "insert"} THEN raced \union {DayInHand} ELSE raced
  /\ UNCHANGED <<liveTo, liveFrom, askRows, ask, kpiDays, staleDays, metered, chained, overtaken,
                 arcFaults>>

\* The canonical totals of the range come last, all of them or none.
EndPull ==
  /\ portal.pc = "scan" /\ portal.at >= portal.to
  /\ portal' = NoPull
  /\ \/ /\ kpiDays' = kpiDays \union {s \div SlotsInDay : s \in portal.first .. portal.to - 1}
        /\ UNCHANGED arcFaults
     \/ /\ arcFaults < MaxArcFaults /\ arcFaults' = arcFaults + 1
        /\ UNCHANGED kpiDays
  /\ UNCHANGED <<liveTo, liveFrom, fsRows, askRows, ask, staleDays, metered, chained, raced,
                 overtaken>>

\* The portal fails or the operator leaves between any two steps.
StopPull ==
  /\ portal.pc # "idle" /\ arcFaults < MaxArcFaults
  /\ portal' = NoPull /\ arcFaults' = arcFaults + 1
  /\ UNCHANGED <<liveTo, liveFrom, fsRows, askRows, ask, kpiDays, staleDays, metered, chained,
                 raced, overtaken>>

\* The collector stores the next slot.
LiveArrives ==
  /\ liveTo \in ArcSlots /\ liveTo' = liveTo + 1
  /\ overtaken' = IF \/ ask.pc \in {"clear", "insert"} /\ liveTo \in SlotsOf(DayInHand)
                     \/ portal.pc \in {"fetch", "clear", "askoe", "insert"} /\ liveTo \in PullWindow
                     \/ fsRows[liveTo] # NoRow \/ askRows[liveTo] # NoRow
                  THEN overtaken \union {liveTo} ELSE overtaken
  /\ UNCHANGED <<liveFrom, fsRows, askRows, ask, portal, kpiDays, staleDays, metered, chained,
                 raced, arcFaults>>

ArcInit ==
  /\ liveFrom \in LiveSince /\ liveTo = liveFrom
  /\ fsRows = [s \in ArcSlots |-> NoRow] /\ askRows = [s \in ArcSlots |-> NoRow]
  /\ ask = NoUpload /\ portal = NoPull /\ kpiDays = {} /\ staleDays = {}
  /\ metered = [d \in 0 .. ArcDays - 1 |-> NoRow] /\ chained = {} /\ raced = {}
  /\ overtaken = {} /\ arcFaults = 0

ArcNext ==
  \/ \E u \in Uploads : UploadSheets(u)
  \/ CheckDay \/ ClearDay \/ InsertDay \/ EndUpload \/ StopUpload
  \/ \E r \in PortalRanges : PullHistory(r)
  \/ ScanWindow \/ FetchWindow \/ ClearPortalRows \/ ClearMeterRows \/ InsertWindow
  \/ EndPull \/ StopPull \/ LiveArrives

ArcSpec == ArcInit /\ [][ArcNext]_arcVars

-----------------------------------------------------------------------------
(* Properties *)

\* "The two archives never share a slot", and neither shares one with live rows that
\* were there when the import looked; two imports at once may write the same day.
SourcesApart ==
  \A s \in ArcSlots :
    /\ fsRows[s] # NoRow /\ askRows[s] # NoRow => s \div SlotsInDay \in raced
    /\ LiveRow(s) /\ (fsRows[s] # NoRow \/ askRows[s] # NoRow) => s \in overtaken

\* A metered day adds up: over its rows each counter moves by the energy of its
\* hours, so no step is lost where the closing row replaces one; the load as well,
\* unless more was sold than had been taken in.
HourSums(hours) ==
  LET sums[h \in 0 .. HoursInDay] == IF h = 0 THEN 0 ELSE sums[h - 1] + hours[h]
  IN  sums
SumOf(hours) == HourSums(hours)[HoursInDay]
DaysAddUp ==
  \A d \in 0 .. ArcDays - 1 : metered[d] # NoRow =>
    LET open == askRows[Min(SlotsOf(d))]  close == askRows[Max(SlotsOf(d))]
    IN  /\ \A c \in Channels : close[c] - open[c] = SumOf(metered[d][c])
        /\ (\A s \in SlotsOf(d) : askRows[s].load > 0) =>
             close.load - open.load = SumOf(metered[d]["pv"]) + SumOf(metered[d]["import"])
                                      - SumOf(metered[d]["export"])

\* "So deltas stay continuous across midnight": each day of one upload opens where
\* the one it wrote before closed, over days left out as well, unless a pull of the
\* portal's history has taken either away meanwhile.
MidnightsContinue ==
  \A p \in chained : askRows[Min(SlotsOf(p[2]))] = askRows[Max(SlotsOf(p[1]))]

\* "Keep the derived pure-PV series monotonic", and equal to yield less discharge
\* where that only grows.
PureSeries ==
  portal.pc = "clear" =>
    LET rows == portal.rows
        grows == \A s \in Yields, t \in Yields : s <= t => PureNow(s) <= PureNow(t)
    IN  /\ \A s \in DOMAIN rows, t \in DOMAIN rows : s <= t => rows[s] <= rows[t]
        /\ grows => \A s \in DOMAIN rows : rows[s] = PureNow(s)

\* An import leaves telemetry whose differences are the energy that flowed.
ArchivesHold == SourcesApart /\ DaysAddUp /\ MidnightsContinue /\ PureSeries
=============================================================================
