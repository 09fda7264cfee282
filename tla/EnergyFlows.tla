----------------------------- MODULE EnergyFlows -----------------------------
(***************************************************************************)
(* Where the energy of a battery came from and went to, worked out from    *)
(* five lifetime registers (src/internal/energyflow) and served by the     *)
(* summary (src/internal/api/energyflow.go).  Two loggers are polled: one  *)
(* has the registers of the plant, one those of the battery.               *)
(* Ticks divide the allocation window, energy is in kWh.                   *)
(***************************************************************************)
EXTENDS Integers, FiniteSets, FiniteSetsExt, Functions

CONSTANTS
  PollTicks,    \* bound: the ticks at which the loggers are polled, ascending
  BucketLen,    \* AllocationWindowSeconds
  DayLen,       \* a civil day
  LiveWindow,   \* maxEnergyFlowWindow
  EssPower,     \* MaxEssPowerKw, as kWh of one tick
  Jump,         \* what a register moves when it is re-based
  MaxMishaps    \* bound: silent loggers, late import registers and upset registers

ASSUME FlowsAssumption ==
  /\ {BucketLen, DayLen, LiveWindow, EssPower, Jump} \subseteq Nat \ {0}
  /\ PollTicks \subseteq Nat \ {0} /\ PollTicks # {} /\ IsFiniteSet(PollTicks)
  /\ MaxMishaps \in Nat /\ DayLen % BucketLen = 0

Plant == {"pv", "import", "export"}
Battery == {"charged", "discharged"}
Registers == Plant \cup Battery

VARIABLES
  flowTick,     \* the last tick polled
  shownAt,      \* the registers as their loggers show them
  unbilled,     \* import the meter has yet to show
  flowRows,     \* the telemetry: [t, role, v], v only of the registers read
  silences,
  upsets,       \* intervals that upset registers have spoiled
  storedDays    \* economics_daily: [day, flows, final]

flowVars == <<flowTick, shownAt, unbilled, flowRows, silences, upsets, storedDays>>

-----------------------------------------------------------------------------
(* The allocator *)

\* The right-closed bucket of a row; the very first instant has bucket one.
BucketEnd(t) == Max({1, (t + BucketLen - 1) \div BucketLen}) * BucketLen

\* The rows of a role in a bucket and the latest value of each register in
\* them.  A register that was garbled is not part of a row.
RowsOf(rs, end, role) ==
  {r \in rs : r.role = role /\ BucketEnd(r.t) = end /\ DOMAIN r.v # {}}
LastOf(rs) == CHOOSE r \in rs : \A q \in rs : q.t <= r.t
ValuesOf(rs) ==
  [k \in UNION {DOMAIN r.v : r \in rs} |-> LastOf({r \in rs : k \in DOMAIN r.v}).v[k]]

\* mergeBucket: only a bucket both loggers have spoken in makes a sample.
FullBuckets(rs) ==
  {e \in {BucketEnd(r.t) : r \in rs} :
     \A role \in {"plant", "battery"} : RowsOf(rs, e, role) # {}}
SampleAt(rs, end) ==
  LET p == RowsOf(rs, end, "plant")
      b == RowsOf(rs, end, "battery")
  IN [t |-> Max({LastOf(p).t, LastOf(b).t}), v |-> ValuesOf(p \cup b)]
SamplesOf(rs) == {SampleAt(rs, e) : e \in FullBuckets(rs)}

NoFlows == [pvToEss |-> 0, gridToEss |-> 0, essToLoad |-> 0, essToGrid |-> 0]
Skipped == [skipped |-> TRUE, flows |-> NoFlows]

Least(a, b) == Min({a, b})
AtLeast0(a) == Max({a, 0})

\* Mutant of Split: what the import register does not cover is called solar.
SplitCovered(d) ==
  LET appliances == AtLeast0(d["pv"] + d["import"] + d["discharged"] - d["export"] - d["charged"])
      gridToEss  == Least(d["charged"] - Least(d["charged"], AtLeast0(d["pv"] - appliances)),
                          d["import"])
      essToGrid  == Least(AtLeast0(d["discharged"] - AtLeast0(appliances - d["pv"])), d["export"])
  IN [pvToEss |-> d["charged"] - gridToEss, gridToEss |-> gridToEss,
      essToLoad |-> d["discharged"] - essToGrid, essToGrid |-> essToGrid]

\* The four flows of an interval, from the movements d of its registers:
\* the sun charges with what the appliances leave, the grid with the rest;
\* discharge serves the load first and is exported as far as export was.
Split(d) ==
  LET appliances == AtLeast0(d["pv"] + d["import"] + d["discharged"] - d["export"] - d["charged"])
      pvToEss    == Least(d["charged"], AtLeast0(d["pv"] - appliances))
      essToGrid  == Least(AtLeast0(d["discharged"] - AtLeast0(appliances - d["pv"])), d["export"])
  IN [pvToEss |-> pvToEss, gridToEss |-> d["charged"] - pvToEss,
      essToLoad |-> d["discharged"] - essToGrid, essToGrid |-> essToGrid]

\* The interval between two samples, unless a register is missing or fell
\* or the battery would have been stronger than it is.
Allocate(prev, curr) ==
  IF \/ curr.t <= prev.t
     \/ DOMAIN prev.v # Registers \/ DOMAIN curr.v # Registers
     \/ \E k \in Registers : curr.v[k] < prev.v[k]
     \/ \E k \in Battery : curr.v[k] - prev.v[k] > EssPower * (curr.t - prev.t)
  THEN Skipped
  ELSE [skipped |-> FALSE, flows |-> Split([k \in Registers |-> curr.v[k] - prev.v[k]])]

\* Mutant of Predecessor: a sample whose interval was skipped is passed over.
PredecessorBooked(ss, s) ==
  LastOf({p \in ss : p.t < s.t
            /\ ~\E q \in ss : q.t < p.t /\ Allocate(q, p).skipped})

\* The sample the interval of s began with.
Predecessor(ss, s) == LastOf({p \in ss : p.t < s.t})

\* IterateIntervals: each sample against the one before it.
Intervals(rs) ==
  LET ss == SamplesOf(rs)
  IN {[to |-> s.t, out |-> Allocate(Predecessor(ss, s), s)] :
        s \in {q \in ss : \E p \in ss : p.t < q.t}}

AddFlows(a, b) == [k \in DOMAIN NoFlows |-> a[k] + b[k]]

\* The sum of flows[1] to flows[n].
SumUpTo(n, flows) ==
  LET sum[i \in 0 .. n] == IF i = 0 THEN NoFlows ELSE AddFlows(sum[i - 1], flows[i]) IN sum[n]

LastTick == Max(PollTicks)

\* Recompute: the flows of all intervals that were not skipped, in their order.
Recompute(rs) ==
  LET intervals == Intervals(rs)
      endAt(t) == {i \in intervals : i.to = t}
  IN SumUpTo(LastTick, [t \in 1 .. LastTick |->
       IF endAt(t) = {} THEN NoFlows ELSE (CHOOSE i \in endAt(t) : TRUE).out.flows])

\* EnergyFlowSources: the rows of a half-open window, with no lookback.
SourcesIn(from, to) == {r \in flowRows : from <= r.t /\ r.t < to}
Live(from, to) == Recompute(SourcesIn(from, to))

-----------------------------------------------------------------------------
(* The summary *)

CivilDayOf(t) == t \div DayLen

\* Mutant of CivilDays: the end of the window counts as covered.
CivilDaysClosed(from, to) == CivilDayOf(from) .. CivilDayOf(to)

\* The civil days a window touches; its end is not part of it.
CivilDays(from, to) == CivilDayOf(from) .. CivilDayOf(to - 1)

LastDay == CivilDayOf(LastTick)
SumOfDays(days, flowsOf) == SumUpTo(LastDay + 1, [n \in 1 .. LastDay + 1 |->
                                      IF n - 1 \in days THEN flowsOf[n - 1] ELSE NoFlows])
TotalOf(stored) ==
  SumOfDays({r.day : r \in stored},
            [d \in {r.day : r \in stored} |-> (CHOOSE r \in stored : r.day = d).flows])

\* maybeAttachEnergyFlow at tick now: wide windows and whole days that are
\* final come from the stored days, everything else from a live run.
Summary(from, to, now) ==
  LET days   == CivilDays(from, to)
      stored == {r \in storedDays : r.day \in days}
      final  == {r \in stored : r.final}
      whole  == from % DayLen = 0 /\ to % DayLen = 0 /\ to <= CivilDayOf(now) * DayLen
  IN IF to - from > LiveWindow
     THEN IF stored = {} THEN [source |-> "none"]
          ELSE [source |-> "days", flows |-> TotalOf(stored), covered |-> Cardinality(stored),
                expected |-> Cardinality(days)]
     ELSE IF whole /\ Cardinality(final) = Cardinality(days)
     THEN [source |-> "days", flows |-> TotalOf(final), covered |-> Cardinality(final),
           expected |-> Cardinality(days)]
     ELSE [source |-> "allocator", flows |-> Live(from, to)]

-----------------------------------------------------------------------------
(* The plant and its loggers *)

\* What the registers move by between two polls.
Moves ==
  LET only(S) == [k \in Registers |-> IF k \in S THEN 1 ELSE 0]
  IN {only({"pv", "charged"}), only({"import", "charged"}), only({"pv", "discharged", "export"})}

FlowsInit ==
  /\ flowTick = Min(PollTicks) /\ unbilled = 0 /\ silences = 0 /\ upsets = 0 /\ storedDays = {}
  /\ shownAt = [k \in Registers |-> 9]
  /\ flowRows = {[t |-> flowTick, role |-> "plant", v |-> Restrict(shownAt, Plant)],
                  [t |-> flowTick, role |-> "battery", v |-> Restrict(shownAt, Battery)]}

NextPoll == Min({t \in PollTicks : t > flowTick})

\* The loggers that answer store what they show.
Store(t, answers, shown, garbled) ==
  flowRows' = flowRows \cup
    {[t |-> t, role |-> role,
      v |-> Restrict(shown, (IF role = "plant" THEN Plant ELSE Battery) \ garbled)] : role \in answers}

\* A tick in which the import register may keep its old value.
Poll ==
  \E m \in Moves, answers \in {{"plant"}, {"battery"}, {"plant", "battery"}}, lags \in BOOLEAN :
    /\ flowTick < LastTick /\ flowTick' = NextPoll
    /\ lags => m["import"] > 0
    /\ silences' = silences + (IF lags \/ Cardinality(answers) = 1 THEN 1 ELSE 0)
    /\ silences' + upsets <= MaxMishaps
    /\ unbilled' = IF lags THEN unbilled + m["import"] ELSE 0
    /\ shownAt' = [k \in Registers |-> shownAt[k] + m[k]
                     + (IF k = "import" THEN unbilled - unbilled' ELSE 0)]
    /\ Store(flowTick', answers, shownAt', {})
    /\ UNCHANGED <<upsets, storedDays>>

\* A tick in which the charge register is re-based, reset or unreadable.
Upset ==
  \E how \in {"step", "reset", "garbled"} :
    /\ flowTick < LastTick /\ flowTick' = NextPoll
    /\ silences + upsets < MaxMishaps
    /\ upsets' = upsets + (IF how = "garbled" THEN 2 ELSE 1)
    /\ shownAt' = [shownAt EXCEPT !["charged"] =
                     CASE how = "step" -> @ + Jump [] how = "reset" -> 0 [] OTHER -> @]
    /\ Store(flowTick', {"plant", "battery"}, shownAt',
             IF how = "garbled" THEN {"charged"} ELSE {})
    /\ UNCHANGED <<unbilled, silences, storedDays>>

\* The economics daemon stores a day; it is final once it is over.
StoreDay ==
  \E d \in 0 .. CivilDayOf(flowTick) :
    /\ \A r \in storedDays : r.day = d => ~r.final
    /\ storedDays' = {r \in storedDays : r.day # d}
         \cup {[day |-> d, flows |-> Live(d * DayLen, (d + 1) * DayLen),
                final |-> d < CivilDayOf(flowTick)]}
    /\ storedDays' # storedDays
    /\ UNCHANGED <<flowTick, shownAt, unbilled, flowRows, silences, upsets>>

FlowsNext == Poll \/ Upset \/ StoreDay

FlowsSpec == FlowsInit /\ [][FlowsNext]_flowVars

-----------------------------------------------------------------------------
(* Properties *)

FirstOf(rs) == CHOOSE r \in rs : \A q \in rs : r.t <= q.t
DaysSeen == 0 .. CivilDayOf(flowTick)
DayRows(d) == SourcesIn(d * DayLen, (d + 1) * DayLen)

\* However late the import register is and whichever logger is silent, no
\* day has more solar charge than its sun gave between its first and last
\* reading (Allocate: "booked whole nights of grid charging as solar").
SolarChargeWithinYield ==
  \A d \in DaysSeen :
    LET s == SamplesOf(DayRows(d))
    IN Cardinality(s) > 1 =>
         Recompute(DayRows(d)).pvToEss <= LastOf(s).v["pv"] - FirstOf(s).v["pv"]

\* Within a day every kWh the charge register counted between two complete
\* samples is booked once, unless a sample was upset: half-populated buckets
\* and late readings neither lose nor repeat any.  A register
\* that moved costs one interval, an unreadable one the two next to it, and
\* none books more than the battery can take.
ChargeBookedOnce ==
  \A d \in DaysSeen :
    LET s == SamplesOf(DayRows(d))
        f == Recompute(DayRows(d))
        booked == f.pvToEss + f.gridToEss
    IN Cardinality(s) > 1 =>
         /\ booked <= EssPower * (LastOf(s).t - FirstOf(s).t)
         /\ Cardinality({i \in Intervals(DayRows(d)) : i.out.skipped}) <= upsets
         /\ upsets = 0 => booked = LastOf(s).v["charged"] - FirstOf(s).v["charged"]

\* A summary of stored days is of the days of its window only, each once:
\* it is what the live runs of those days gave when they were stored.
SummaryOfItsDays ==
  \A from, to \in {t \in 0 .. (LastDay + 1) * DayLen : 2 * t % DayLen = 0} :
    storedDays # {} /\ from < to =>
      LET s == Summary(from, to, flowTick)
          touched == {d \in 0 .. LastDay : from < (d + 1) * DayLen /\ d * DayLen < to}
      IN s.source = "days" =>
           /\ s.expected = Cardinality(touched) /\ s.covered <= s.expected
           /\ (\A r \in storedDays : r.final) /\ s.covered = s.expected =>
                s.flows = SumOfDays(touched, [d \in touched |-> Live(d * DayLen, (d + 1) * DayLen)])

\* The flows of the charge register are booked once, not as more solar than
\* there was, and summed over the days asked for.
FlowsBooked == SolarChargeWithinYield /\ ChargeBookedOnce /\ SummaryOfItsDays

\* EnergyFlowSources: without the row before a window its first interval
\* "would be silently dropped"; it is: over the days together, every kWh
\* between the first and the last reading is booked.
SeamsBooked ==
  upsets = 0 /\ flowTick >= DayLen =>
    LET s == SamplesOf(flowRows)
        f == SumOfDays(DaysSeen, [d \in DaysSeen |-> Recompute(DayRows(d))])
    IN f.pvToEss + f.gridToEss = LastOf(s).v["charged"] - FirstOf(s).v["charged"]
===============================================================================
