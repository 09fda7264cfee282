------------------------------- MODULE FxRates -------------------------------
(***************************************************************************)
(* Exchange rates: the sync that keeps one rate per civil day              *)
(* (src/internal/fxrates), its table (storage/fxrates.go), and the read    *)
(* paths that show economics in another currency (api/fx_handlers.go,      *)
(* economics/currency.go).  A day has FxTicks ticks and its rate is the    *)
(* one of noon.                                                            *)
(***************************************************************************)
EXTENDS Integers, FiniteSets, FiniteSetsExt

CONSTANTS
  NoRate,       \* no row for a day
  FxTicks,      \* ticks of a day
  RateHour,     \* the tick of a day whose rate is the day's
  LastFxTick,   \* bound: the clock stops here
  Market,       \* tick -> UAH per unit
  FxCommon,     \* a common multiple of the rates: 1/rate in these units
  Ebitda,       \* day -> UAH EBITDA of a stored economics day
  MaxFxFaults   \* bound: failed requests and restarts

ASSUME FxAssumption ==
  /\ FxTicks \in Nat \ {0} /\ RateHour \in 0 .. FxTicks - 1
  /\ {LastFxTick, MaxFxFaults} \subseteq Nat
  /\ FxCommon \in Nat /\ NoRate \notin Nat \cup [asked : Nat, uah : Nat, fetched : Nat]
  /\ \A t \in 0 .. LastFxTick : Market[t] \in Nat \ {0} /\ FxCommon % Market[t] = 0
  /\ \A d \in 0 .. LastFxTick \div FxTicks : Ebitda[d] \in Int

LastFxDay == LastFxTick \div FxTicks
FxDays == 0 .. LastFxDay
FxDayOf(t) == t \div FxTicks
Noon(d) == d * FxTicks + RateHour

VARIABLES
  fxClock,
  configured,   \* the settings page has a login and a password
  fxRows,       \* fx_rates: day -> [asked, uah, fetched] or NoRate
  fxPass,       \* the pass of Syncer.Run: its step, its now, its snapshot
  fxStatus,     \* Status: the last success and whether the last pass failed
  fxFaults

fxVars == <<fxClock, configured, fxRows, fxPass, fxStatus, fxFaults>>

IdlePass == [at |-> "idle", now |-> 0, final |-> {}, day |-> 0]
NoStatus == [success |-> NoRate, failed |-> FALSE]

FxInit ==
  /\ fxClock = 0 /\ configured = FALSE /\ fxPass = IdlePass /\ fxStatus = NoStatus
  /\ fxRows = [d \in FxDays |-> NoRate] /\ fxFaults = 0

-----------------------------------------------------------------------------
(* The sync *)

\* Mutant of FinalDays: a stored rate is never asked for again.
FinalDaysAny(running) == {d \in 0 .. running - 1 : fxRows[d] # NoRate}

\* FetchTimes and the check of SyncOnce: the past days whose rate was
\* fetched at or after their noon.
FinalDays(running) ==
  {d \in 0 .. running - 1 : fxRows[d] # NoRate /\ fxRows[d].fetched >= Noon(d)}

\* A pass reads the clock and the fetch times once.
BeginPass ==
  /\ fxPass.at = "idle" /\ configured
  /\ fxPass' = [at |-> "fetching", now |-> fxClock, final |-> FinalDays(FxDayOf(fxClock)), day |-> 0]
  /\ UNCHANGED <<fxClock, configured, fxRows, fxStatus, fxFaults>>

\* The next day a pass asks for: past days that are not final, then today.
DayAsked == Min((fxPass.day .. FxDayOf(fxPass.now)) \ fxPass.final)

\* The moment a day's rate is asked at: its noon, or now before today's.
AskedAt(d) == Min({fxPass.now, Noon(d)})

\* fetchDay answered: the row carries the database's clock.
FetchDay ==
  /\ fxPass.at = "fetching"
  /\ fxRows' = [fxRows EXCEPT ![DayAsked] =
       [asked |-> AskedAt(DayAsked), uah |-> Market[AskedAt(DayAsked)], fetched |-> fxClock]]
  /\ IF DayAsked < FxDayOf(fxPass.now)
     THEN fxPass' = [fxPass EXCEPT !.day = DayAsked + 1] /\ UNCHANGED fxStatus
     ELSE fxPass' = IdlePass /\ fxStatus' = [success |-> fxPass.now, failed |-> FALSE]
  /\ UNCHANGED <<fxClock, configured, fxFaults>>

\* A request that failed for good ends the pass where it is.
FetchFails ==
  /\ fxPass.at = "fetching" /\ fxFaults < MaxFxFaults /\ fxFaults' = fxFaults + 1
  /\ fxPass' = IdlePass /\ fxStatus' = [fxStatus EXCEPT !.failed = TRUE]
  /\ UNCHANGED <<fxClock, configured, fxRows>>

\* The API restarts: the pass and its status are gone.
RestartSync ==
  /\ fxFaults < MaxFxFaults /\ fxFaults' = fxFaults + 1
  /\ fxPass' = IdlePass /\ fxStatus' = NoStatus
  /\ UNCHANGED <<fxClock, configured, fxRows>>

\* putFxSettings fills in the page or clears its password.
PutFxSettings ==
  /\ configured' = ~configured
  /\ UNCHANGED <<fxClock, fxRows, fxPass, fxStatus, fxFaults>>

FxTick ==
  /\ fxClock < LastFxTick /\ fxClock' = fxClock + 1
  /\ UNCHANGED <<configured, fxRows, fxPass, fxStatus, fxFaults>>

FxNext == BeginPass \/ FetchDay \/ FetchFails \/ RestartSync \/ PutFxSettings \/ FxTick

FxSpec == FxInit /\ [][FxNext]_fxVars

-----------------------------------------------------------------------------
(* A view in another currency *)

OwnDays == {d \in FxDays : fxRows[d] # NoRate}

\* Table.Rate: a day's own rate, else the latest earlier one, else the
\* earliest later one.  Without any rate there is no view.
BorrowedFrom(d) ==
  IF {e \in OwnDays : e <= d} # {} THEN Max({e \in OwnDays : e <= d}) ELSE Min(OwnDays)
ViewRate(d) == fxRows[BorrowedFrom(d)].uah

\* EbitdaWeights over a span: what the days are worth in UAH and as the
\* view converts each of them, with their signs and by size, added up day by
\* day.
WeighedDays(span) == {d \in span : Ebitda[d] # 0}
Size(x) == IF x < 0 THEN -x ELSE x
Factor(d) == FxCommon \div ViewRate(d)

Sums(worth) ==
  LET sums[n \in 0 .. LastFxDay + 1] == IF n = 0 THEN 0 ELSE sums[n - 1] + worth[n - 1]
  IN  sums
AddedUp(worth, span) == Sums([d \in FxDays |-> IF d \in span THEN worth[d] ELSE 0])[LastFxDay + 1]

UahOf(span) == AddedUp([d \in span |-> Ebitda[d]], span)
ConvertedOf(span) == AddedUp([d \in span |-> Ebitda[d] * Factor(d)], span)
UahSizes(span) == AddedUp([d \in span |-> Size(Ebitda[d])], span)
ConvertedSizes(span) == AddedUp([d \in span |-> Size(Ebitda[d]) * Factor(d)], span)

\* x/y lies between lo and hi.
Between(lo, hi, x, y) ==
  IF y > 0 THEN lo * y <= x /\ x <= hi * y ELSE lo * y >= x /\ x >= hi * y

\* Mutant of SpanRate: the signed sums decide, wherever they come out.
SpanRateSigned(span) ==
  IF ConvertedOf(span) # 0
  THEN [uah |-> UahOf(span) * FxCommon, units |-> ConvertedOf(span)]
  ELSE [uah |-> UahSizes(span) * FxCommon, units |-> ConvertedSizes(span)]

\* EbitdaWeights.Rate: sums of both signs may leave the days' own rates,
\* then each day weighs by the size of its EBITDA.
SpanRate(span) ==
  LET rates == {ViewRate(d) : d \in WeighedDays(span)}
  IN IF /\ ConvertedOf(span) # 0
        /\ Between(Min(rates), Max(rates), UahOf(span) * FxCommon, ConvertedOf(span))
     THEN [uah |-> UahOf(span) * FxCommon, units |-> ConvertedOf(span)]
     ELSE [uah |-> UahSizes(span) * FxCommon, units |-> ConvertedSizes(span)]

-----------------------------------------------------------------------------
(* Properties *)

\* The rate shown for a span lies between the rates of its days, whichever
\* of them are borrowed and whichever days lost money ("which always lands
\* between them").
SpanRateBetween ==
  OwnDays # {} =>
    \A first, last \in FxDays :
      LET span == first .. last
          rates == {ViewRate(d) : d \in WeighedDays(span)}
      IN WeighedDays(span) # {} =>
           Between(Min(rates), Max(rates), SpanRate(span).uah, SpanRate(span).units)

\* A pass that reports success leaves every day before its own with the
\* rate of its noon, though days were skipped by a snapshot taken at its
\* beginning, passes broke off half way and the clock went on.
SuccessMeansFilled ==
  fxStatus.success # NoRate =>
    \A d \in 0 .. FxDayOf(fxStatus.success) - 1 :
      fxRows[d] # NoRate /\ fxRows[d].fetched >= Noon(d)

\* A view in another currency has the days' own rates and lies between them.
RatesOfTheirDays == SpanRateBetween /\ SuccessMeansFilled

\* InitFxRatesSchema: "fetched_at tells a day's final rate (fetched at or
\* after its noon) from today's running one".
FinalIsNoonRate ==
  \A d \in OwnDays : fxRows[d].fetched >= Noon(d) => fxRows[d].asked = Noon(d)
===============================================================================
