----------------------------- MODULE WeatherRows -----------------------------
(***************************************************************************)
(* The collector of weather forecasts (cmd/weather-collector,              *)
(* internal/weather, storage/weather.go): every interval it fetches a      *)
(* forecast of some past days, today and the days ahead, and stores it by  *)
(* hour and by day; what has elapsed keeps what was stored.  A value is    *)
(* told by the tick its forecast was made at; hours are the site's local   *)
(* ones, shifted as a whole by the forecast's one offset from UTC.         *)
(***************************************************************************)
EXTENDS Integers, FiniteSets

CONSTANTS
  NoForecast,
  WxDay,          \* hours of a day
  WxOffset,       \* utc_offset_seconds, in hours
  WxPastDays, WxDaysAhead,
  WxAttempts,     \* attempts of one fetch
  LastWxTick,
  MaxWxFaults

ASSUME WxAssumption ==
  /\ NoForecast \notin Int
  /\ {WxDay, WxAttempts} \subseteq Nat \ {0}
  /\ {WxOffset, WxPastDays, WxDaysAhead, LastWxTick, MaxWxFaults} \subseteq Nat

VARIABLES
  wxNow,        \* UTC hours
  wxHourly,     \* weather_forecast_hourly: UTC hour -> tick its forecast was made
  wxDaily,      \* weather_forecast_daily: local day -> tick its forecast was made
  wxPc,         \* "idle" | "fetch" | "hourly" | "daily"
  wxBody,       \* the forecast fetched: the local hours it covers, and when it was made
  wxTries,      \* attempts left
  wxNewest,     \* the newest forecast whose hours were stored
  inTime,       \* hours that had a forecast before they began
  dayInTime,    \* days that had one before they were over for the database
  wxFaults

wxVars == <<wxNow, wxHourly, wxDaily, wxPc, wxBody, wxTries, wxNewest, inTime, dayInTime, wxFaults>>

WxHours == 0 .. (LastWxTick + (WxDaysAhead + 1) * WxDay)
WxDays  == 0 .. (LastWxTick \div WxDay) + WxDaysAhead + 1
LocalDay(t) == (t + WxOffset) \div WxDay
NoBody == [made |-> -1, labels |-> {}]

\* The local hours Open-Meteo answers with.
Labels ==
  {l \in (LocalDay(wxNow) - WxPastDays) * WxDay .. (LocalDay(wxNow) + WxDaysAhead + 1) * WxDay - 1 :
     l - WxOffset \in WxHours}
\* parseLocalToUTC
Hours(body) == {l - body.offset : l \in body.labels}
ForecastDays(body) == {l \div WxDay : l \in body.labels} \cap WxDays

-----------------------------------------------------------------------------
WxTick ==
  /\ wxNow < LastWxTick /\ wxNow' = wxNow + 1
  /\ UNCHANGED <<wxHourly, wxDaily, wxPc, wxBody, wxTries, wxNewest, inTime, dayInTime, wxFaults>>

\* The ticker, or the start: one pass.
WxBegin ==
  /\ wxPc = "idle" /\ wxPc' = "fetch" /\ wxTries' = WxAttempts
  /\ UNCHANGED <<wxNow, wxHourly, wxDaily, wxBody, wxNewest, inTime, dayInTime, wxFaults>>

WxFetch ==
  /\ wxPc = "fetch" /\ wxPc' = "hourly"
  /\ wxBody' = [made |-> wxNow, labels |-> Labels, offset |-> WxOffset]
  /\ UNCHANGED <<wxNow, wxHourly, wxDaily, wxTries, wxNewest, inTime, dayInTime, wxFaults>>

\* A transient failure is tried again, another one gives the pass up.
WxFetchFails ==
  /\ wxPc = "fetch" /\ wxFaults < MaxWxFaults /\ wxFaults' = wxFaults + 1
  /\ \/ wxTries > 1 /\ wxTries' = wxTries - 1 /\ UNCHANGED wxPc
     \/ wxPc' = "idle" /\ UNCHANGED wxTries
  /\ UNCHANGED <<wxNow, wxHourly, wxDaily, wxBody, wxNewest, inTime, dayInTime>>

\* On conflict only what lies ahead at the time of the upsert is replaced.
HourOpenAlways(h) == TRUE
HourOpen(h) == wxHourly[h] = NoForecast \/ h > wxNow
WxHourly ==
  /\ wxPc = "hourly" /\ wxPc' = "daily"
  /\ wxHourly' = [h \in WxHours |->
                   IF h \in Hours(wxBody) /\ HourOpen(h) THEN wxBody.made ELSE wxHourly[h]]
  /\ inTime' = inTime \union {h \in Hours(wxBody) : h > wxNow}
  /\ wxNewest' = wxBody
  /\ UNCHANGED <<wxNow, wxDaily, wxBody, wxTries, dayInTime, wxFaults>>

\* CURRENT_DATE is the database's, which keeps UTC.
CurrentDate == wxNow \div WxDay
DayOpenForAWeek(d) == wxDaily[d] = NoForecast \/ d >= CurrentDate - 1
DayOpen(d) == wxDaily[d] = NoForecast \/ d >= CurrentDate
WxDaily ==
  /\ wxPc = "daily" /\ wxPc' = "idle" /\ wxBody' = NoBody
  /\ wxDaily' = [d \in WxDays |->
                  IF d \in ForecastDays(wxBody) /\ DayOpen(d) THEN wxBody.made ELSE wxDaily[d]]
  /\ dayInTime' = dayInTime \union {d \in ForecastDays(wxBody) : d >= CurrentDate}
  /\ UNCHANGED <<wxNow, wxHourly, wxTries, wxNewest, inTime, wxFaults>>

\* A failing upsert rolls its rows back and ends the pass, as a restart does.
WxStoreFails ==
  /\ wxPc \in {"hourly", "daily"} /\ wxFaults < MaxWxFaults
  /\ wxPc' = "idle" /\ wxBody' = NoBody /\ wxFaults' = wxFaults + 1
  /\ UNCHANGED <<wxNow, wxHourly, wxDaily, wxTries, wxNewest, inTime, dayInTime>>

WxInit ==
  /\ wxNow = WxDay
  /\ wxHourly = [h \in WxHours |-> NoForecast] /\ wxDaily = [d \in WxDays |-> NoForecast]
  /\ wxPc = "idle" /\ wxBody = NoBody /\ wxTries = 0 /\ wxNewest = NoBody
  /\ inTime = {} /\ dayInTime = {}
  /\ wxFaults = 0

WxNext ==
  \/ WxTick \/ WxBegin \/ WxFetch \/ WxFetchFails \/ WxHourly \/ WxDaily \/ WxStoreFails

WxSpec == WxInit /\ [][WxNext]_wxVars

-----------------------------------------------------------------------------
(* Properties *)

\* "Once an hour has elapsed the values stored for it stay put": an hour that had a
\* forecast in time shows one made before it, a day that is over for the database
\* one made before the next began, whatever is pulled again of the past; what lies
\* ahead shows the newest forecast stored.
ForecastsFrozen ==
  /\ \A h \in inTime : wxHourly[h] < h
  /\ \A h \in WxHours : h > wxNow /\ wxNewest # NoBody /\ h \in Hours(wxNewest) =>
       wxHourly[h] = wxNewest.made
  /\ \A d \in dayInTime : wxDaily[d] < (d + 1) * WxDay
=============================================================================
