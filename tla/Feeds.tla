------------------------------- MODULE Feeds -------------------------------
(***************************************************************************)
(* What daemons fetch from outside on a schedule: the market's prices      *)
(* (cmd/dam-collector) and weather forecasts (cmd/weather-collector).      *)
(***************************************************************************)
EXTENDS DamPrices, WeatherRows

\* What comes in from outside on a schedule is there in time and stays as it was when
\* it mattered (DamPrices, WeatherRows).
FeedsOnTime == PricesInTime /\ ForecastsFrozen
=============================================================================
