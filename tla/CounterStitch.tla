----------------------------- MODULE CounterStitch -----------------------------
(***************************************************************************)
(* Counter stitching (internal/counters/stitch.go, internal/counterstitch/ *)
(* runner.go, internal/storage/counters.go): the falls, returns, jumps and *)
(* spikes of one energy counter become a table of offsets, pass after pass *)
(* while samples arrive and archive imports write into the past.           *)
(*                                                                         *)
(* A tick carries at most one sample.  A pass reads its rebuild request    *)
(* and state, then the samples, saves in one transaction, and clears the   *)
(* request; an error or a crash may end it before or after the save.       *)
(* The 2 % tolerance of a spike is below SlackKwh at this scale.  Frozen   *)
(* counters, found from daily aggregates, and the daemon are left out.     *)
(***************************************************************************)
EXTENDS Integers, Sequences, SequencesExt, Optional

CONSTANTS
  Deltas,               \* what a register may do between two samples, kWh
  MaxTicks,             \* bound on the history
  DropTolKwh, PowerKwh, SlackKwh, CandidateFloorKwh,   \* PowerKwh: MaxPowerKw over a tick
  SpikeWindow, CoarseUpdate,                           \* in ticks
  SettleDelay,
  Scale,                \* a multiple of every ramp length, so that ramps are exact
  MaxImports, MaxFailures

\* The records the stitcher keeps; a jump is one fall's worth upwards.
Segment == [s : Nat, e : Nat \cup {Nil}, a : Int, b : Int]
Episode == [s : Nat, kind : {"dropout", "seam", "spike"}, e : Nat \cup {Nil}]
Fall == [s : Nat, kwh : Int]
State == [base : Int, falls : Seq(Fall), jump : Fall \cup {Nil}, open : Segment \cup {Nil},
          segs : SUBSET Segment, eps : SUBSET Episode]
SavedState == [until : Nat, st : State]
Request == [from : Nat, at : Nat]

ASSUME StitchAssumption ==
  /\ Deltas \subseteq Int /\ SpikeWindow \in Nat /\ CoarseUpdate \in Nat
  /\ {DropTolKwh, PowerKwh, SlackKwh, CandidateFloorKwh} \subseteq Nat
  /\ {MaxTicks, SettleDelay, Scale, MaxImports, MaxFailures} \subseteq Nat
  /\ \A k \in 1..MaxTicks : Scale % k = 0
  /\ Nil \notin Int /\ Nil \notin Segment /\ Nil \notin Fall
  /\ Nil \notin SavedState /\ Nil \notin Request

VARIABLES
  clock,
  samples,              \* telemetry_samples of the counter, Nil where none arrived
  offsets,              \* counter_corrections: [s, e, a, b], e = Nil while open
  episodes,             \* counter_episodes: [s, kind, e]
  saved,                \* counter_stitch_state: [until, st], Nil before the first pass
  rebuild,              \* counter_stitch_rebuilds: [from, at], Nil
  asked,                \* the database clock of the requests
  pass,                 \* the locals of Sync
  import,               \* the locals of an archive import
  spent                 \* [imports, failures], and what a failed import left: [lost]

stitchVars == <<clock, samples, offsets, episodes, saved, rebuild, asked, pass, import, spent>>

-------------------------------------------------------------------------------
(* The stitcher: Run over the steps of one counter. *)

ForwardLimitKwh(dt) == PowerKwh * dt + SlackKwh

Fresh == [base |-> 0, falls |-> <<>>, jump |-> Nil, open |-> Nil, segs |-> {}, eps |-> {}]

\* The first falls, up to each of them, together.
KwhOfFirst(falls) ==
  LET sum[k \in 0..Len(falls)] == IF k = 0 THEN 0 ELSE sum[k - 1] + falls[k].kwh IN sum
KwhOf(falls) == KwhOfFirst(falls)[Len(falls)]

pending(st) == KwhOf(st.falls)
Offset(st) == st.base + pending(st)
OpenStart(st) == IF st.open = Nil THEN 0 ELSE st.open.a

\* addSegment, addEpisode, mergeSegments, mergeEpisodes, and the upserts.
Put(set, x) == {y \in set : y.s # x.s} \union {x}
PutAll(set, more) == {y \in set : \A x \in more : x.s # y.s} \union more

switchAt(st, t, end) ==
  LET closed == IF st.open # Nil /\ t > st.open.s
                  THEN Put(st.segs, [st.open EXCEPT !.e = t, !.b = end])
                  ELSE st.segs
      open == [s |-> t, e |-> Nil, a |-> Offset(st), b |-> Offset(st)]
  IN [st EXCEPT !.open = open, !.segs = Put(closed, open)]

addEpisode(st, kind, from, to) == [st EXCEPT !.eps = Put(@, [s |-> from, kind |-> kind, e |-> to])]

Atleast0(n) == IF n > 0 THEN n ELSE 0

UndoesJump(st, s, kwh) ==
  /\ st.jump # Nil
  /\ kwh <= st.jump.kwh + SlackKwh
  /\ kwh >= st.jump.kwh - ForwardLimitKwh(s.t - st.jump.s) - SlackKwh

onFall(st, s, kwh) ==
  IF UndoesJump(st, s, kwh)
    THEN LET gap == Atleast0(st.jump.kwh - kwh)
         IN switchAt(addEpisode([st EXCEPT !.base = @ + kwh + gap, !.jump = Nil],
                                "spike", st.jump.s, s.t),
                     s.t, OpenStart(st) + gap)
    ELSE switchAt(addEpisode([st EXCEPT !.falls = Append(@, [s |-> s.t, kwh |-> kwh])],
                             "dropout", s.t, Nil),
                  s.t, OpenStart(st))

\* How many falls stay open when the newest ones, together at most kwh, close.
Kept(falls, kwh) ==
  LET newest(k) == KwhOf(falls) - KwhOfFirst(falls)[k]
  IN CHOOSE k \in 0..Len(falls) : newest(k) <= kwh /\ (k > 0 => newest(k - 1) > kwh)

\* A return closes every fall it finds open, whatever it brings back.
onReturnAll(st, s, kwh) ==
  LET returned == IF kwh < pending(st) THEN kwh ELSE pending(st)
      st1 == [st EXCEPT !.falls = <<>>]
  IN switchAt([st1 EXCEPT !.eps = PutAll(@, {[s |-> f.s, kind |-> "dropout", e |-> s.t]
                                              : f \in ToSet(st.falls)})],
              s.t, OpenStart(st) + kwh - returned)

onReturn(st, s, kwh) ==
  LET returned == IF kwh < pending(st) THEN kwh ELSE pending(st)
      k == Kept(st.falls, returned)
      closed == SubSeq(st.falls, k + 1, Len(st.falls))
      left == returned - (pending(st) - KwhOfFirst(st.falls)[k])
      falls == [i \in 1..k |-> IF i = k THEN [st.falls[i] EXCEPT !.kwh = @ - left] ELSE st.falls[i]]
      since == IF closed = <<>> THEN s.pt ELSE closed[1].s
      over == kwh - returned > ForwardLimitKwh(s.t - since)
      gap == IF over THEN 0 ELSE kwh - returned
      st1 == [st EXCEPT !.falls = falls, !.base = IF over THEN @ - (kwh - returned) ELSE @]
      st2 == IF over THEN addEpisode(st1, "seam", s.t, s.t) ELSE st1
      st3 == [st2 EXCEPT !.eps = PutAll(@, {[s |-> f.s, kind |-> "dropout", e |-> s.t]
                                             : f \in ToSet(closed)})]
  IN switchAt(st3, s.t, OpenStart(st) + gap)

onJump(st, s, kwh) ==
  switchAt(addEpisode([st EXCEPT !.base = @ - kwh, !.jump = [s |-> s.t, kwh |-> kwh]],
                      "seam", s.t, s.t),
           s.t, OpenStart(st))

Duration(t, pt, settled) ==
  LET dt == t - pt
      held == IF t - settled > CoarseUpdate THEN CoarseUpdate ELSE t - settled
  IN IF held > dt THEN held ELSE dt

StepOnce(state, s) ==
  LET st == IF state.jump # Nil /\ s.t - state.jump.s > SpikeWindow
            THEN [state EXCEPT !.jump = Nil] ELSE state
      d == s.v - s.pv
      fast == d > ForwardLimitKwh(s.dt)
  IN CASE d < -DropTolKwh -> onFall(st, s, -d)
       [] d > 0 /\ pending(st) > 0 /\ (fast \/ 2 * d >= pending(st)) -> onReturn(st, s, d)
       [] fast /\ ~(d > 0 /\ pending(st) > 0) -> onJump(st, s, d)
       [] OTHER -> st

\* The steps before `until`, in the order of their times.
Run(st, steps, until) ==
  LET after[t \in 0..until] ==
        IF t = 0 THEN [st EXCEPT !.segs = {}, !.eps = {}]
        ELSE IF t - 1 \in DOMAIN steps THEN StepOnce(after[t - 1], steps[t - 1])
        ELSE after[t - 1]
  IN after[until]

-------------------------------------------------------------------------------
(* What the pass reads and writes. *)

Times == {t \in 0..clock : samples[t] # Nil}

Before(t) == CHOOSE p \in Times : p < t /\ \A q \in Times : q < t => q <= p

\* When the reading before t was first shown without a change; the window
\* function sees CoarseUpdate back from `from`, and the sample before.
Settled(t, from) ==
  LET p == Before(t)
      seen == {q \in Times : /\ q < t
                             /\ \/ q >= from - CoarseUpdate
                                \/ \A r \in Times : r < from - CoarseUpdate => r <= q}
      changed == {q \in seen : (\E r \in seen : r < q) => samples[Before(q)] # samples[q]}
  IN IF changed = {} THEN p ELSE CHOOSE q \in changed : \A r \in changed : r <= q

\* A transition, with the time its energy may have taken.
StepAt(t, from) ==
  LET p == Before(t)
  IN [pt |-> p, pv |-> samples[p], t |-> t, v |-> samples[t],
      dt |-> Duration(t, p, Settled(t, from))]

CounterStepCandidates(from, to) ==
  LET d(s) == s.v - s.pv
      worth(s) == \/ d(s) < -DropTolKwh \/ d(s) >= CandidateFloorKwh
                  \/ d(s) > ForwardLimitKwh(s.dt)
  IN [t \in {u \in Times : from <= u /\ u < to /\ u > 0 /\ worth(StepAt(u, from))}
        |-> StepAt(t, from)]

\* OffsetAt and counter_offset, times Scale.
OffsetAt(segs, t) ==
  LET begun == {g \in segs : g.s <= t}
      g == CHOOSE x \in begun : \A y \in begun : y.s <= x.s
  IN CASE begun = {} -> 0
       [] begun # {} /\ (g.e = Nil \/ t <= g.s) -> g.a * Scale
       [] begun # {} /\ g.e # Nil /\ t > g.s /\ t >= g.e -> g.b * Scale
       [] OTHER -> g.a * Scale + (g.b - g.a) * (t - g.s) * (Scale \div (g.e - g.s))

Span(from, to) == [from |-> from, to |-> to]

\* A ramp is announced by its two ends only, as a flat segment is.
changeSpansFlat(st, from, until) ==
  {Span(g.s, g.s) : g \in st.segs} \union {Span(g.e, g.e) : g \in {h \in st.segs : h.e # Nil}}

changeSpans(st, from, until) ==
  {CASE g.s < from /\ g.e # Nil /\ g.a = g.b -> Span(g.e, g.e)
     [] g.e # Nil /\ g.a # g.b -> Span(g.s, g.e)
     [] OTHER -> Span(g.s, g.s) : g \in st.segs}
  \union
  {CASE e.s < from /\ e.e # Nil -> Span(e.e, until)
     [] e.e = Nil -> Span(e.s, until)
     [] OTHER -> Span(e.s, e.e) : e \in st.eps}

-------------------------------------------------------------------------------
(* Sync *)

NoPass == [at |-> "idle"]

StitchInit ==
  /\ clock = 0 /\ samples = [t \in 0..MaxTicks |-> IF t = 0 THEN 0 ELSE Nil]
  /\ offsets = {} /\ episodes = {} /\ saved = Nil
  /\ rebuild = Nil /\ asked = 0
  /\ pass = NoPass /\ import = Nil
  /\ spent = [imports |-> 0, failures |-> 0, lost |-> FALSE]

\* The collector stores a sample, or misses the tick.
Collect ==
  /\ clock < MaxTicks
  /\ clock' = clock + 1
  /\ \E d \in Deltas \union {Nil} :
       samples' = [samples EXCEPT ![clock + 1] = IF d = Nil THEN Nil ELSE samples[Before(clock + 1)] + d]
  /\ UNCHANGED <<offsets, episodes, saved, rebuild, asked, pass, import, spent>>

SyncBegins ==
  /\ pass.at = "idle"
  /\ LET replace == rebuild # Nil \/ saved = Nil
         from == IF replace THEN 0 ELSE saved.until
         until == clock + 1 - SettleDelay
     IN /\ from < until
        /\ pass' = [at |-> "stitching", from |-> from, until |-> until, replace |-> replace,
                    served |-> rebuild, st |-> IF replace THEN Fresh ELSE saved.st]
  /\ UNCHANGED <<clock, samples, offsets, episodes, saved, rebuild, asked, import, spent>>

Stitch ==
  /\ pass.at = "stitching"
  /\ pass' = [pass EXCEPT !.at = "saving", !.st = Run(@, CounterStepCandidates(pass.from, pass.until), pass.until)]
  /\ UNCHANGED <<clock, samples, offsets, episodes, saved, rebuild, asked, import, spent>>

\* What of the stitcher the state column carries to the next pass.
Carried(st) == [st EXCEPT !.segs = {}, !.eps = {}]

SaveCounterStitch ==
  /\ pass.at = "saving"
  /\ offsets' = PutAll(IF pass.replace THEN {} ELSE offsets, pass.st.segs)
  /\ episodes' = PutAll(episodes, pass.st.eps)
  /\ saved' = [until |-> pass.until, st |-> Carried(pass.st)]
  /\ pass' = [pass EXCEPT !.at = "clearing"]
  /\ UNCHANGED <<clock, samples, rebuild, asked, import, spent>>

\* The clear deletes the organization's request, whichever it is.
AfterClearAny(served) == IF served # Nil THEN Nil ELSE rebuild

\* The request as it is after a pass that served `served`.
AfterClear(served) ==
  IF served # Nil /\ rebuild # Nil /\ rebuild.at <= served.at THEN Nil ELSE rebuild

ClearCounterRebuild ==
  /\ pass.at = "clearing"
  /\ rebuild' = AfterClear(pass.served)
  /\ pass' = NoPass
  /\ UNCHANGED <<clock, samples, offsets, episodes, saved, asked, import, spent>>

\* An error of a query, or the daemon stops: what was saved stays.
SyncFails ==
  /\ pass.at # "idle" /\ spent.failures < MaxFailures
  /\ pass' = NoPass
  /\ spent' = [spent EXCEPT !.failures = @ + 1]
  /\ UNCHANGED <<clock, samples, offsets, episodes, saved, rebuild, asked, import>>

-------------------------------------------------------------------------------
(* An archive import fills a stretch the collector missed (cmd/api). *)

Missed(t) == t < clock /\ samples[t] = Nil /\ \E p \in Times : p < t

ImportRows(t) ==
  /\ import = Nil /\ spent.imports < MaxImports /\ Missed(t)
  /\ \E d \in Deltas : samples' = [samples EXCEPT ![t] = samples[Before(t)] + d]
  /\ import' = t
  /\ spent' = [spent EXCEPT !.imports = @ + 1]
  /\ UNCHANGED <<clock, offsets, episodes, saved, rebuild, asked, pass>>

RequestCounterRebuild ==
  /\ import # Nil
  /\ asked' = asked + 1
  /\ rebuild' = [from |-> IF rebuild # Nil /\ rebuild.from < import THEN rebuild.from ELSE import,
                 at |-> asked + 1]
  /\ import' = Nil
  /\ UNCHANGED <<clock, samples, offsets, episodes, saved, pass, spent>>

\* A later part of the import fails: its rows stay and no rebuild is asked for.
ImportFails ==
  /\ import # Nil /\ spent.failures < MaxFailures
  /\ import' = Nil
  /\ spent' = [spent EXCEPT !.failures = @ + 1, !.lost = TRUE]
  /\ UNCHANGED <<clock, samples, offsets, episodes, saved, rebuild, asked, pass>>

StitchNext ==
  \/ Collect \/ SyncBegins \/ Stitch \/ SaveCounterStitch \/ ClearCounterRebuild \/ SyncFails
  \/ \E t \in 1..MaxTicks : ImportRows(t)
  \/ RequestCounterRebuild \/ ImportFails

StitchSpec == StitchInit /\ [][StitchNext]_stitchVars

-------------------------------------------------------------------------------
(* Properties *)

UpToDate == saved # Nil /\ rebuild = Nil /\ import = Nil /\ ~spent.lost

\* The table of offsets is what one stitch of the whole history would give,
\* however the history was cut into passes, whatever pass failed on the way
\* and whenever an import ran: state carried over or requests cleared wrongly
\* would leave corrections of a history that never was (runner.go Sync).
OffsetsAreOfOnePass ==
  UpToDate => LET whole == Run(Fresh, CounterStepCandidates(0, saved.until), saved.until)
              IN offsets = whole.segs /\ saved.st = Carried(whole)

Stitched(segs, t) == samples[t] * Scale + OffsetAt(segs, t)

\* The corrected counter never falls by more than a register's resync, so the
\* energy of no interval is negative: across nested falls, partial returns,
\* ramps, seams and spikes (stitch.go onFall, onReturn, onJump).
StitchedNeverFalls ==
  UpToDate => \A t \in Times : t > 0 /\ t < saved.until =>
                Stitched(offsets, t) - Stitched(offsets, Before(t)) >= -DropTolKwh * Scale

\* The stored offsets repair the counter as one pass over it would.
OffsetsRepair == OffsetsAreOfOnePass /\ StitchedNeverFalls

Moved(t) == /\ t > 0
            /\ Stitched(offsets, t) - Stitched(offsets, Before(t))
                 # Stitched(offsets', t) - Stitched(offsets', Before(t))

SavesAs(rebuilding) ==
  pass.at = "saving" /\ pass'.at = "clearing" /\ (pass.served # Nil) = rebuilding

\* Every interval whose corrected energy an ordinary pass changes lies in a
\* span it returns, or the economics of its day stay as they were
\* (runner.go changeSpans, healer.heal).
SpansCoverChanges ==
  [][SavesAs(FALSE) =>
       \A t \in Times : t < pass.until /\ Moved(t) =>
         \E g \in changeSpans(pass.st, pass.from, pass.until) : g.from <= t /\ t <= g.to]_stitchVars

\* What the bound of a rebuild claims: before changedFrom nothing changes
\* (storage/counters.go RequestCounterRebuild, runner.go Sync).
RebuildChangesFromItsBound ==
  [][SavesAs(TRUE) /\ saved # Nil =>
       \A t \in Times : t < saved.until /\ Moved(t) => t >= pass.served.from]_stitchVars
===============================================================================
