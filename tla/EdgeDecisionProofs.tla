--------------------------- MODULE EdgeDecisionProofs ---------------------------
(***************************************************************************)
(* How long the edge's manifest lasts, and what a tick commands under it.  *)
(*                                                                         *)
(* The manifest never lapses, for every pace of the planner loop and of    *)
(* the edge's poll that the grace allows.  What a tick commands obeys all  *)
(* limits at once, for every site, manifest, plan and reading.  The health *)
(* snapshot tells the same troubles as the decision, and no others.        *)
(***************************************************************************)
EXTENDS ManifestWindow, EdgeDecide, EdgeHealth, TLAPS

Inv == TypeOK /\ WindowInv

USE DEF Hour, Day, FutureHours, GraceHours

\* What ValidUntil yields: a full hour, between 24 and 25 hours ahead.
LEMMA ValidUntilBounds ==
  ASSUME NEW t \in Nat
  PROVE  /\ ValidUntil(t) \in Nat /\ ValidUntil(t) % Hour = 0
         /\ ValidUntil(t) > t + Day
<1>1. PICK q \in Nat : StartHour(t) = Hour * q /\ Hour * q > t - Hour
  <2>1. t = Hour * (t \div Hour) + (t % Hour) /\ t % Hour \in 0..(Hour - 1)
        /\ t \div Hour \in Nat
    OBVIOUS
  <2>. QED BY <2>1 DEF StartHour
<1>2. ValidUntil(t) = Hour * (q + 25)
  BY <1>1 DEF ValidUntil
<1>3. Hour * (q + 25) = Hour * q + 25 * Hour /\ q + 25 \in Nat
  BY <1>1
<1>. QED BY <1>1, <1>2, <1>3

\* The date in the id begins more than an hour after the publication: dates
\* begin on full hours.
LEMMA DateAhead ==
  ASSUME NEW u \in Nat, NEW t \in Nat, u % Hour = 0, u > t + Day
  PROVE  /\ u \div Day \in Nat /\ u >= (u \div Day) * Day
         /\ (u \div Day) * Day > t + Hour
<1>1. PICK h \in Nat : u = Hour * h
  BY u = Hour * (u \div Hour) + (u % Hour), u \div Hour \in Nat
<1> DEFINE d == u \div Day
           r == u % Day
<1>2. d \in Nat /\ r \in 0..(Day - 1) /\ u = Day * d + r
  OBVIOUS
<1> HIDE DEF d, r
<1>3. r <= Day - Hour
  BY <1>1, <1>2
<1>4. d * Day = Day * d
  BY <1>2
<1>. QED BY <1>2, <1>3, <1>4 DEF d

LEMMA DocProps ==
  ASSUME TypeOK
  PROVE  /\ Doc(now) \in Manifest
         /\ UntilOnDate(Doc(now))
         /\ ManifestId(now) = Doc(now).id
         /\ ManifestId(now).date * Day > now + Hour
<1>1. now \in Nat /\ known \in BOOLEAN
  BY DEF TypeOK
<1>2. /\ ValidUntil(now) \in Nat /\ ValidUntil(now) % Hour = 0
      /\ ValidUntil(now) > now + Day
  BY <1>1, ValidUntilBounds
<1>3. /\ ValidUntil(now) \div Day \in Nat
      /\ ValidUntil(now) >= (ValidUntil(now) \div Day) * Day
      /\ (ValidUntil(now) \div Day) * Day > now + Hour
  BY <1>1, <1>2, DateAhead
<1>4. StartHour(now) \in Nat
  BY <1>1 DEF StartHour
<1>. QED BY <1>1, <1>2, <1>3, <1>4 DEF Doc, ManifestId, Manifest, UntilOnDate

LEMMA WindowInit == Init => Inv
<1>. SUFFICES ASSUME Init PROVE Inv
  OBVIOUS
<1>1. /\ now \in Nat /\ known \in BOOLEAN /\ sinceLoop = 0 /\ sincePoll = 0
      /\ latest = Doc(now) /\ edge = Doc(now)
      /\ LoopEvery \in Nat /\ PollEvery \in Nat
  BY WindowAssumption DEF Init
<1>2. TypeOK
  <2>1. ValidUntil(now) \in Nat /\ ValidUntil(now) > now + Day /\ ValidUntil(now) % Hour = 0
    BY <1>1, ValidUntilBounds
  <2>2. ValidUntil(now) \div Day \in Nat
    BY <1>1, <2>1, DateAhead
  <2>3. StartHour(now) \in Nat
    BY <1>1 DEF StartHour
  <2>4. Doc(now) \in Manifest
    BY <2>1, <2>2, <2>3 DEF Doc, ManifestId, Manifest
  <2>. QED BY <1>1, <2>4 DEF TypeOK
<1>3. UntilOnDate(Doc(now)) /\ Doc(now).id.date * Day > now + Hour
  BY <1>2, DocProps
<1>4. Doc(now).id.date \in Nat
  BY <1>1, <1>2 DEF TypeOK, Manifest
<1>. QED BY <1>1, <1>2, <1>3, <1>4 DEF Inv, WindowInv, LatestFresh, EdgeFresh

LEMMA WindowStep == Inv /\ [Next]_vars => Inv'
<1>. SUFFICES ASSUME Inv, [Next]_vars PROVE Inv'
  OBVIOUS
<1>. USE WindowAssumption DEF Inv, WindowInv, LatestFresh, EdgeFresh
<1>0. /\ now \in Nat /\ known \in BOOLEAN
      /\ sinceLoop \in 0..LoopEvery /\ sincePoll \in 0..PollEvery
      /\ latest \in Manifest /\ edge \in Manifest
      /\ latest.id.date \in Nat /\ edge.id.date \in Nat
  BY DEF TypeOK, Manifest
<1>1. CASE Publish
  <2>1. latest' \in Manifest /\ UntilOnDate(latest') /\ latest'.id.date * Day > now + Hour
    BY <1>0, <1>1, DocProps DEF Publish
  <2>2. TypeOK'
    BY <1>0, <1>1, <2>1 DEF Publish, TypeOK
  <2>3. latest'.id.date \in Nat
    BY <2>1 DEF Manifest
  <2>. QED BY <1>0, <1>1, <2>1, <2>2, <2>3 DEF Publish, UntilOnDate
<1>2. CASE Poll
  <2>1. edge' \in {latest, edge} /\ edge'.id = latest.id
    BY <1>2 DEF Poll
  <2>2. UntilOnDate(edge')
    BY <2>1
  <2>3. edge'.id.date * Day + PollEvery + LoopEvery >= edge'.id.date * Day + sinceLoop
    BY <1>0, <2>1
  <2>4. TypeOK'
    BY <1>0, <1>2, <2>1 DEF Poll, TypeOK
  <2>. QED BY <1>0, <1>2, <2>1, <2>2, <2>3, <2>4 DEF Poll, UntilOnDate
<1>3. ASSUME NEW m \in Steps, Advance(m)
      PROVE Inv'
  <2>0. m \in Nat \ {0}
    BY WindowAssumption
  <2>1. TypeOK'
    BY <1>0, <1>3, <2>0 DEF Advance, TypeOK
  <2>. QED BY <1>0, <1>3, <2>0, <2>1 DEF Advance, UntilOnDate
<1>4. CASE ChangeLoad
  BY <1>0, <1>4 DEF ChangeLoad, TypeOK, UntilOnDate
<1>5. CASE UNCHANGED vars
  BY <1>0, <1>5 DEF vars, TypeOK, UntilOnDate
<1>. QED BY <1>1, <1>2, <1>3, <1>4, <1>5 DEF Next

\* The manifest the edge holds never runs out: an unchanged plan is published
\* under a new date, and reaches the edge, before the old one's valid_until,
\* for every loop and poll interval that together fit in the grace hour.
THEOREM WindowNeverLapses == Spec => []EdgeNeverLapses
<1>1. Inv => EdgeNeverLapses
  <2>. SUFFICES ASSUME Inv PROVE now <= edge.until
    BY DEF EdgeNeverLapses
  <2>1. /\ now \in Nat /\ sincePoll \in 0..PollEvery /\ edge.until \in Nat
        /\ edge.id.date \in Nat
    BY DEF Inv, TypeOK, Manifest
  <2>2. edge.until >= edge.id.date * Day /\ edge.id.date * Day + sincePoll + LoopEvery > now + Hour
    BY DEF Inv, WindowInv, UntilOnDate, EdgeFresh
  <2>. QED BY <2>1, <2>2, WindowAssumption
<1>. QED BY <1>1, WindowInit, WindowStep, PTL DEF Spec

-------------------------------------------------------------------------------
(* The decision.                                                           *)
(*                                                                         *)
(* Each clamp cuts a power towards zero and none turns it around, so what  *)
(* an earlier one has bounded the later ones leave bounded; rounding to    *)
(* 100 W adds one unit.  Without a plan the power asked for is the balance *)
(* of sun and load, which bounds it by itself.                             *)

IsReading(r) ==
  reading[r] # Nil => reading[r].values \in Reading /\ reading[r].age \in Nat

DecideTypeOK ==
  /\ DOMAIN reading = Roles /\ \A r \in Roles : IsReading(r)
  /\ manifest \in Manifests \cup {Nil}
  /\ interval \in Int \cup {Nil}

TickTyped(t) ==
  /\ t.pv \in Kw /\ t.load \in Kw /\ t.soc \in Kw
  /\ t.chargeMax \in Kw /\ t.dischargeMax \in Kw

ParamsTyped(p) ==
  /\ p.limits.socMin \in Int /\ p.limits.socMax \in Int /\ p.limits.targetImport \in Nat
  /\ p.plan \in Kw /\ p.chargeMax \in Nat /\ p.dischargeMax \in Nat

\* b is a, cut towards zero.
Cut(b, a) == (a >= b /\ b >= 0) \/ (a <= b /\ b <= 0)

LEMMA CappedCuts ==
  ASSUME Nil \notin Int, NEW kw \in Int, NEW up \in Kw, NEW low \in Kw
  PROVE  /\ Capped(kw, up, low) \in Int
         /\ Cut(Capped(kw, up, low), kw)
         /\ up # Nil /\ up > 0 => Capped(kw, up, low) <= up
         /\ low # Nil /\ low > 0 => -Capped(kw, up, low) <= low
BY DEF Capped, Kw, AtLeast, AtMostKw, Cut

LEMMA ExportCuts ==
  ASSUME Nil \notin Int, NEW t, TickTyped(t), NEW p, NEW kw \in Int
  PROVE  LET c == ClampNoExport(t, p, kw)
         IN /\ c \in Int /\ Cut(c, kw)
            /\ FlowsKnown(t) /\ ~p.exportAllowed /\ c > 0 => c <= NotNegative(t.load - t.pv)
BY DEF ClampNoExport, TickTyped, Kw, FlowsKnown, NotNegative, AtMostKw, Cut

LEMMA ChargeCuts ==
  ASSUME Nil \notin Int, NEW t, TickTyped(t), NEW p, ParamsTyped(p), NEW kw \in Int
  PROVE  LET c == ClampChargeSource(t, p, kw) IN c \in Int /\ Cut(c, kw)
BY DEF ClampChargeSource, ChargeRoom, TickTyped, ParamsTyped, Kw, FlowsKnown, NotNegative,
       AtLeast, Cut

LEMMA RoundAddsOne ==
  ASSUME NEW kw \in Int
  PROVE  /\ Round1(kw) \in Int
         /\ kw >= 0 => Round1(kw) >= 0 /\ Round1(kw) <= kw + 1
         /\ kw <= 0 => Round1(kw) <= 0 /\ Round1(kw) >= kw - 1
BY DEF Round1

\* What the chain lets through of a power.
LEMMA ChainObeys ==
  ASSUME Nil \notin Int, NEW t, TickTyped(t), NEW p, ParamsTyped(p), NEW kw \in Int
  PROVE  LET c == ClampBess(t, p, kw)
         IN /\ c \in Int /\ Cut(c, kw)
            /\ c # 0 => ~SocForbids(t, p, kw)
            /\ p.dischargeMax > 0 => c <= p.dischargeMax
            /\ p.chargeMax > 0 => -c <= p.chargeMax
            /\ t.dischargeMax # Nil /\ t.dischargeMax > 0 => c <= t.dischargeMax
            /\ t.chargeMax # Nil /\ t.chargeMax > 0 => -c <= t.chargeMax
            /\ FlowsKnown(t) /\ ~p.exportAllowed /\ c > 0 => c <= NotNegative(t.load - t.pv)
<1> DEFINE k1 == ClampPolicy(t, p, kw)
           k2 == ClampDynamicSL(t, p, k1)
           k3 == ClampNoExport(t, p, k2)
           k4 == ClampChargeSource(t, p, k3)
           room == NotNegative(t.load - t.pv)
<1>1. /\ k1 \in Int /\ Cut(k1, kw)
      /\ p.dischargeMax > 0 => k1 <= p.dischargeMax
      /\ p.chargeMax > 0 => -k1 <= p.chargeMax
  <2>1. p.dischargeMax \in Nat /\ p.chargeMax \in Nat
    BY DEF ParamsTyped
  <2>2. /\ p.dischargeMax \in Kw /\ p.chargeMax \in Kw
        /\ p.dischargeMax # Nil /\ p.chargeMax # Nil
    BY <2>1 DEF Kw
  <2>3. k1 = Capped(kw, p.dischargeMax, p.chargeMax)
    BY DEF ClampPolicy
  <2> HIDE DEF k1
  <2> QED BY <2>2, <2>3, CappedCuts
<1>2. /\ k2 \in Int /\ Cut(k2, k1)
      /\ t.dischargeMax # Nil /\ t.dischargeMax > 0 => k2 <= t.dischargeMax
      /\ t.chargeMax # Nil /\ t.chargeMax > 0 => -k2 <= t.chargeMax
  BY <1>1, CappedCuts DEF ClampDynamicSL, TickTyped
<1>3. /\ k3 \in Int /\ Cut(k3, k2)
      /\ FlowsKnown(t) /\ ~p.exportAllowed /\ k3 > 0 => k3 <= room
  BY <1>2, ExportCuts
<1>4. k4 \in Int /\ Cut(k4, k3)
  BY <1>3, ChargeCuts
<1>5. ClampBess(t, p, kw) = IF kw = 0 \/ SocForbids(t, p, kw) THEN 0 ELSE k4
  BY DEF ClampBess
<1>6. p.chargeMax \in Nat /\ p.dischargeMax \in Nat /\ t.chargeMax \in Kw /\ t.dischargeMax \in Kw
  BY DEF ParamsTyped, TickTyped
<1>7. FlowsKnown(t) => room \in Nat
  BY DEF FlowsKnown, TickTyped, Kw, NotNegative
<1> HIDE DEF k1, k2, k3, k4, room
<1>8. CASE kw = 0 \/ SocForbids(t, p, kw)
  BY <1>5, <1>6, <1>7, <1>8 DEF Cut, Kw, room
<1>9. CASE ~(kw = 0 \/ SocForbids(t, p, kw))
  BY <1>1, <1>2, <1>3, <1>4, <1>5, <1>6, <1>7, <1>9 DEF Cut, Kw, room
<1> QED
  BY <1>8, <1>9

\* What is asked of the chain: nothing on dead data, the balance without a plan.
LEMMA SetpointFacts ==
  ASSUME Nil \notin Int, NEW t, TickTyped(t), NEW p, ParamsTyped(p)
  PROVE  LET kw == Setpoint(t, p).kw
         IN /\ kw \in Int
            /\ kw # 0 => t.quality # "fault"
            /\ kw # 0 /\ p.plan = Nil => FlowsKnown(t) /\ kw = t.load - t.pv
<1>1. /\ SelfConsumption(t).kw \in Int
      /\ SelfConsumption(t).kw # 0 => FlowsKnown(t) /\ SelfConsumption(t).kw = t.load - t.pv
  BY DEF SelfConsumption, FlowsKnown, TickTyped, Kw
<1>2. p.plan # Nil => PlanSetpoint(p).kw \in Int
  BY DEF PlanSetpoint, ParamsTyped, Kw
<1> QED
  BY <1>1, <1>2 DEF Setpoint, DesiredPower, Blocked

LEMMA DecideFields ==
  ASSUME NEW t, NEW p
  PROVE  LET s == Setpoint(t, p)
         IN /\ Decide(t, p).kw = Round1(ClampBess(t, p, s.kw))
            /\ Decide(t, p).wanted = s.kw
<1> DEFINE s == Setpoint(t, p)
           kw == ClampBess(t, p, s.kw)
           ev == EventsOf(p, s, kw)
           rounded == Round1(kw)
<1>1. Decide(t, p) = [kw |-> rounded, wanted |-> s.kw, reason |-> s.reason, events |-> ev]
  BY DEF Decide
<1> HIDE DEF s, kw, ev, rounded
<1>2. Decide(t, p).kw = rounded /\ Decide(t, p).wanted = s.kw
  BY <1>1
<1> QED
  BY <1>2 DEF rounded, kw, s

LEMMA DecideObeys ==
  ASSUME Nil \notin Int, NEW t, TickTyped(t), NEW p, ParamsTyped(p), Decide(t, p).kw # 0
  PROVE  LET d == Decide(t, p)
         IN /\ ObeysLimits(t, p, d)
            /\ t.quality # "fault"
            /\ p.plan = Nil => /\ FlowsKnown(t)
                               /\ d.kw <= NotNegative(t.load - t.pv) + 1
                               /\ -d.kw <= NotNegative(t.pv - t.load) + 1
<1> DEFINE d == Decide(t, p)
           wanted == Setpoint(t, p).kw
           c == ClampBess(t, p, wanted)
           room == NotNegative(t.load - t.pv)
<1>1. /\ wanted \in Int
      /\ wanted # 0 => t.quality # "fault"
      /\ wanted # 0 /\ p.plan = Nil => FlowsKnown(t) /\ wanted = t.load - t.pv
  BY SetpointFacts
<1>2. d.kw = Round1(c) /\ d.wanted = wanted
  BY DecideFields
<1> HIDE DEF wanted
<1>3. /\ c \in Int /\ Cut(c, wanted)
      /\ c # 0 => ~SocForbids(t, p, wanted)
      /\ p.dischargeMax > 0 => c <= p.dischargeMax
      /\ p.chargeMax > 0 => -c <= p.chargeMax
      /\ t.dischargeMax # Nil /\ t.dischargeMax > 0 => c <= t.dischargeMax
      /\ t.chargeMax # Nil /\ t.chargeMax > 0 => -c <= t.chargeMax
      /\ FlowsKnown(t) /\ ~p.exportAllowed /\ c > 0 => c <= room
  BY <1>1, ChainObeys
<1> HIDE DEF c, d
<1>4. /\ d.kw \in Int
      /\ c >= 0 => d.kw >= 0 /\ d.kw <= c + 1
      /\ c <= 0 => d.kw <= 0 /\ d.kw >= c - 1
  BY <1>2, <1>3, RoundAddsOne
<1>5. d.kw # 0
  BY DEF d
<1>6. /\ c # 0 /\ wanted # 0
      /\ d.kw > 0 => c > 0 /\ wanted > 0 /\ c <= wanted /\ d.kw <= c + 1
      /\ d.kw < 0 => c < 0 /\ wanted < 0 /\ c >= wanted /\ -d.kw <= -c + 1
  BY <1>1, <1>3, <1>4, <1>5 DEF Cut
<1>7. /\ p.chargeMax \in Nat /\ p.dischargeMax \in Nat
      /\ t.chargeMax \in Kw /\ t.dischargeMax \in Kw
  BY DEF ParamsTyped, TickTyped
<1>8. FlowsKnown(t) => /\ t.load \in Int /\ t.pv \in Int
                       /\ room \in Nat /\ room >= t.load - t.pv
                       /\ NotNegative(t.pv - t.load) >= t.pv - t.load
                       /\ NotNegative(t.pv - t.load) \in Nat
  BY DEF FlowsKnown, TickTyped, Kw, NotNegative
<1>9. ObeysLimits(t, p, d)
  <2>1. /\ t.soc # Nil
        /\ wanted > 0 => t.soc > p.limits.socMin
        /\ wanted < 0 => t.soc < p.limits.socMax
    BY <1>3, <1>6 DEF SocForbids, TickTyped, ParamsTyped, Kw
  <2> HIDE DEF room
  <2>2. /\ p.dischargeMax > 0 => d.kw <= p.dischargeMax + 1
        /\ p.chargeMax > 0 => -d.kw <= p.chargeMax + 1
    BY <1>3, <1>4, <1>5, <1>6, <1>7
  <2>3. /\ t.dischargeMax # Nil /\ t.dischargeMax > 0 => d.kw <= t.dischargeMax + 1
        /\ t.chargeMax # Nil /\ t.chargeMax > 0 => -d.kw <= t.chargeMax + 1
    BY <1>3, <1>4, <1>5, <1>6, <1>7 DEF Kw
  <2>4. FlowsKnown(t) /\ ~p.exportAllowed /\ d.kw > 0 => d.kw <= room + 1
    BY <1>3, <1>4, <1>6, <1>8
  <2> QED
    BY <1>2, <1>6, <2>1, <2>2, <2>3, <2>4 DEF ObeysLimits, room
<1>10. ASSUME p.plan = Nil
       PROVE  /\ FlowsKnown(t)
              /\ d.kw <= NotNegative(t.load - t.pv) + 1
              /\ -d.kw <= NotNegative(t.pv - t.load) + 1
  <2>1. FlowsKnown(t) /\ wanted = t.load - t.pv
    BY <1>1, <1>6, <1>10
  <2> DEFINE surplus == NotNegative(t.pv - t.load)
  <2>2. surplus \in Nat /\ surplus >= -wanted /\ room \in Nat /\ room >= wanted
    BY <1>8, <2>1
  <2> HIDE DEF surplus, room
  <2>3. d.kw <= room + 1 /\ -d.kw <= surplus + 1
    BY <1>1, <1>3, <1>4, <1>5, <1>6, <2>2
  <2> QED
    BY <2>1, <2>3 DEF surplus, room
<1> QED
  BY <1>1, <1>6, <1>9, <1>10 DEF d

-------------------------------------------------------------------------------
(* What a reachable state gives the decision. *)

LEMMA MergedTyped ==
  ASSUME DecideTypeOK, NEW k \in Keys
  PROVE  Merged(k) \in Kw
<1>1. CASE \E r \in Roles : ~Dead(r) /\ reading[r].values[k] # Nil
  <2> DEFINE r == CHOOSE r \in Roles : ~Dead(r) /\ reading[r].values[k] # Nil
  <2>1. r \in Roles /\ ~Dead(r)
    BY <1>1
  <2>2. reading[r].values \in [Keys -> Kw]
    BY <2>1 DEF DecideTypeOK, IsReading, Dead, Reading
  <2>3. Merged(k) = reading[r].values[k]
    BY <1>1 DEF Merged
  <2> QED
    BY <2>2, <2>3
<1>2. CASE ~\E r \in Roles : ~Dead(r) /\ reading[r].values[k] # Nil
  BY <1>2 DEF Merged, Kw
<1> QED
  BY <1>1, <1>2

LEMMA TickIsTyped ==
  ASSUME DecideTypeOK
  PROVE  TickTyped(BuildTick) /\ BuildTick.quality = Quality
<1> DEFINE shut == Merged("pcs_shutdown") \notin {Nil, 0}
           alarmed == Merged("alarm") \notin {Nil, 0}
<1>1. /\ Merged("pv") \in Kw /\ Merged("ess") \in Kw /\ Merged("grid") \in Kw
      /\ Merged("load") \in Kw /\ Merged("soc") \in Kw
      /\ Merged("charge_max") \in Kw /\ Merged("discharge_max") \in Kw
  BY MergedTyped DEF Keys
<1>2. Load \in Kw
  <2>1. Site.essSign \in Int /\ Nil \notin Int
    BY DecideAssumption DEF DecideAssumption
  <2>2. Discharging \in Kw
    <3>1. CASE Merged("ess") = Nil
      BY <3>1 DEF Discharging, Kw
    <3>2. CASE Merged("ess") \in Int
      <4>1. Site.essSign \in {1, -1}
        BY DecideAssumption DEF DecideAssumption
      <4>2. Merged("ess") * Site.essSign \in Int
        BY <3>2, <4>1
      <4> QED BY <2>1, <3>2, <4>2 DEF Discharging, Kw
    <3> QED BY <1>1, <3>1, <3>2 DEF Kw
  <2>3. CASE Merged("load") = Nil /\ Merged("pv") # Nil /\ Discharging # Nil /\ Merged("grid") # Nil
    BY <1>1, <2>2, <2>3 DEF Load, Kw, NotNegative
  <2>4. CASE ~(Merged("load") = Nil /\ Merged("pv") # Nil /\ Discharging # Nil /\ Merged("grid") # Nil)
    BY <1>1, <2>4 DEF Load
  <2> QED BY <2>3, <2>4
<1>3. BuildTick = [quality |-> Quality, pv |-> Merged("pv"), load |-> Load, soc |-> Merged("soc"),
                   chargeMax |-> Merged("charge_max"), dischargeMax |-> Merged("discharge_max"),
                   pcsShutdown |-> shut, alarm |-> alarmed]
  BY Zenon DEF BuildTick
<1> HIDE DEF shut, alarmed
<1>4. \A x, y : LET t == [quality |-> Quality, pv |-> Merged("pv"), load |-> Load,
                          soc |-> Merged("soc"), chargeMax |-> Merged("charge_max"),
                          dischargeMax |-> Merged("discharge_max"), pcsShutdown |-> x, alarm |-> y]
                IN /\ t.quality = Quality /\ t.pv = Merged("pv") /\ t.load = Load
                   /\ t.soc = Merged("soc") /\ t.chargeMax = Merged("charge_max")
                   /\ t.dischargeMax = Merged("discharge_max")
  OBVIOUS
<1>5. /\ BuildTick.quality = Quality /\ BuildTick.pv = Merged("pv") /\ BuildTick.load = Load
      /\ BuildTick.soc = Merged("soc") /\ BuildTick.chargeMax = Merged("charge_max")
      /\ BuildTick.dischargeMax = Merged("discharge_max")
  BY <1>3, <1>4, Zenon
<1> QED
  BY <1>1, <1>2, <1>5, Zenon DEF TickTyped

LEMMA ParamsAreTyped ==
  ASSUME DecideTypeOK
  PROVE  /\ ParamsTyped(Params)
         /\ manifest = Nil \/ ~active \/ override \/ interval = Nil => Params.plan = Nil
<1> DEFINE m == Effective
           current == active /\ ~override
           limits == IF current THEN Overlay(Site.limits, m.limits)
                     ELSE [Site.limits EXCEPT !.preset = FallbackPreset]
           plan == IF current THEN interval ELSE Nil
           exports == current /\ m.exportAllowed
<1>1. Site.limits \in Limits
  BY DecideAssumption DEF DecideAssumption
<1>2. m # Nil => m.limits \in Limits /\ m.chargeMax \in Nat /\ m.dischargeMax \in Nat
  <2>1. CASE override
    BY <1>1, <2>1 DEF Effective, EmptyManifest
  <2>2. CASE ~override
    BY <2>2, DecideAssumption DEF DecideAssumption, Effective, DecideTypeOK
  <2> QED BY <2>1, <2>2
<1>3. m = Nil => Params = ConfigParams
  BY DEF Params, ResolveParams
<1>4. ParamsTyped(ConfigParams) /\ ConfigParams.plan = Nil
  BY <1>1 DEF ConfigParams, ParamsTyped, Limits, Kw
<1>5. ASSUME m # Nil
      PROVE  Params = [limits |-> limits, source |-> IF current THEN "manifest" ELSE "fallback",
                       plan |-> plan, chargeMax |-> m.chargeMax, dischargeMax |-> m.dischargeMax,
                       exportAllowed |-> exports]
  BY <1>5, Zenon DEF Params, ResolveParams
<1>6. ASSUME m # Nil
      PROVE  limits.socMin \in Int /\ limits.socMax \in Int /\ limits.targetImport \in Nat
  <2>1. CASE current
    BY <1>1, <1>2, <1>6, <2>1 DEF Overlay, Limits
  <2>2. CASE ~current
    BY <1>1, <2>2 DEF Limits
  <2> QED BY <2>1, <2>2
<1>7. plan \in Kw
  BY DEF DecideTypeOK, Kw
<1>8. manifest = Nil \/ ~active \/ override \/ interval = Nil => plan = Nil \/ m = Nil
  BY DEF Effective
<1> HIDE DEF limits, plan, exports, current
<1>9. ASSUME m # Nil
      PROVE  /\ Params.limits = limits /\ Params.plan = plan
             /\ Params.chargeMax = m.chargeMax /\ Params.dischargeMax = m.dischargeMax
  <2>1. \A x, y : LET p == [limits |-> limits, source |-> x, plan |-> plan,
                            chargeMax |-> m.chargeMax, dischargeMax |-> m.dischargeMax,
                            exportAllowed |-> y]
                  IN /\ p.limits = limits /\ p.plan = plan
                     /\ p.chargeMax = m.chargeMax /\ p.dischargeMax = m.dischargeMax
    OBVIOUS
  <2> QED BY <1>5, <1>9, <2>1, Zenon
<1> HIDE DEF m
<1>10. CASE m = Nil
  BY <1>3, <1>4, <1>10, Zenon
<1>11. CASE m # Nil
  <2>1. ParamsTyped(Params)
    BY <1>2, <1>6, <1>7, <1>9, <1>11, Zenon DEF ParamsTyped
  <2> QED BY <1>8, <1>9, <1>11, <2>1, Zenon
<1> QED
  BY <1>10, <1>11

LEMMA JustifiedInType == DecideTypeOK => CommandJustified
<1> SUFFICES ASSUME DecideTypeOK, Decision.kw # 0
             PROVE  CommandWithinLimits /\ NoTradeOffPlan /\ NoCommandOnDeadData
  BY DEF CommandJustified
<1>1. TickTyped(BuildTick) /\ BuildTick.quality = Quality
  BY TickIsTyped
<1>2. /\ ParamsTyped(Params)
      /\ manifest = Nil \/ ~active \/ override \/ interval = Nil => Params.plan = Nil
  BY ParamsAreTyped
<1>3. Nil \notin Int /\ Decide(BuildTick, Params).kw # 0
  BY DecideAssumption DEF DecideAssumption, Decision
<1>4. /\ ObeysLimits(BuildTick, Params, Decision)
      /\ BuildTick.quality # "fault"
      /\ Params.plan = Nil => /\ FlowsKnown(BuildTick)
                              /\ Decision.kw <= NotNegative(BuildTick.load - BuildTick.pv) + 1
                              /\ -Decision.kw <= NotNegative(BuildTick.pv - BuildTick.load) + 1
  BY <1>1, <1>2, <1>3, DecideObeys DEF Decision
<1>5. \A r \in Roles : ~Dead(r)
  BY <1>1, <1>4 DEF Quality
<1> QED
  BY <1>2, <1>4, <1>5, Zenon DEF CommandWithinLimits, NoTradeOffPlan, NoCommandOnDeadData

LEMMA DecideTypeInit == DecideInit => DecideTypeOK
BY DEF DecideInit, DecideTypeOK, IsReading

LEMMA DecideTypeStep == DecideTypeOK /\ [DecideNext]_decideVars => DecideTypeOK'
<1> SUFFICES ASSUME DecideTypeOK, [DecideNext]_decideVars PROVE DecideTypeOK'
  OBVIOUS
<1>1. ASSUME NEW r \in Roles, Observe(r) PROVE DecideTypeOK'
  <2>1. PICK v \in Answers[r] : reading' = [reading EXCEPT ![r] = [values |-> v, age |-> 0]]
    BY <1>1 DEF Observe
  <2>2. v \in Reading
    BY DecideAssumption DEF DecideAssumption
  <2> QED
    BY <1>1, <2>1, <2>2 DEF Observe, DecideTypeOK, IsReading
<1>2. CASE OnTick
  <2>1. ASSUME NEW r \in Roles PROVE IsReading(r)'
    <3>1. reading'[r] = Older(reading[r])
      BY <1>2 DEF OnTick
    <3>2. reading[r] # Nil =>
             /\ Older(reading[r]).values = reading[r].values \/ Older(reading[r]) = Nil
             /\ Older(reading[r]).age \in Nat
      BY DEF Older, DecideTypeOK, IsReading
    <3> QED BY <3>1, <3>2 DEF IsReading, DecideTypeOK, Older
  <2> QED
    BY <1>2, <2>1 DEF OnTick, DecideTypeOK
<1>3. CASE StoreManifest \/ WindowMoves \/ PlanMoves \/ Operator \/ UNCHANGED decideVars
  <2>1. reading' = reading /\ manifest' \in Manifests \cup {Nil} /\ interval' \in Int \cup {Nil}
    BY <1>3, DecideAssumption
    DEF StoreManifest, WindowMoves, PlanMoves, Operator, decideVars, DecideTypeOK, DecideAssumption
  <2> QED
    BY <2>1 DEF DecideTypeOK, IsReading
<1> QED
  BY <1>1, <1>2, <1>3 DEF DecideNext

\* Every command of the shadow decision is justified by what its tick knows
\* (shadow.go Decide): all limits at once, no trade without a plan, nothing on
\* dead data; for every site, manifest, plan and reading.
THEOREM EdgeCommandJustified == DecideSpec => []CommandJustified
BY DecideTypeInit, DecideTypeStep, JustifiedInType, PTL DEF DecideSpec

-------------------------------------------------------------------------------
(***************************************************************************)
(* The health snapshot.  A decision that was taken on the stored tick has  *)
(* a reason that this tick gives, and the values beside the tick are those *)
(* it was built from.                                                      *)
(***************************************************************************)

HeardTyped ==
  \A d \in Devices : heard[d] # Nil => heard[d].values \in D!Reading

\* The tick and the values that were stored with it tell the same troubles.
TickOfValues ==
  lastTick # Nil =>
    /\ lastTick.values \in [Keys -> D!Kw]
    /\ lastTick.tick.pcsShutdown => lastTick.values["pcs_shutdown"] \notin {Nil, 0}
    /\ lastTick.tick.alarm => lastTick.values["alarm"] \notin {Nil, 0}

DecidedOnTick ==
  paired =>
    /\ ~deciding /\ lastTick # Nil
    /\ lastDecision.reason = "data_fault" => lastTick.tick.quality = "fault"
    /\ lastDecision.reason = "sl_alarm" => lastTick.tick.alarm
    /\ lastDecision.reason = "pcs_shutdown" => lastTick.tick.pcsShutdown

HealthInv ==
  /\ DOMAIN heard = Devices /\ HeardTyped /\ TickOfValues /\ DecidedOnTick
  /\ deciding => lastTick # Nil

LEMMA HealthMerged ==
  ASSUME HealthInv, NEW k \in Keys
  PROVE  D!Merged(k) \in D!Kw
<1>1. CASE \E r \in Devices : ~D!Dead(r) /\ heard[r].values[k] # Nil
  <2> DEFINE r == CHOOSE r \in Devices : ~D!Dead(r) /\ heard[r].values[k] # Nil
  <2>1. r \in Devices /\ ~D!Dead(r)
    BY <1>1
  <2>2. heard[r].values \in [Keys -> D!Kw]
    BY <2>1 DEF HealthInv, HeardTyped, D!Dead, D!Reading, D!Keys, Keys
  <2>3. D!Merged(k) = heard[r].values[k]
    BY <1>1 DEF D!Merged
  <2> QED
    BY <2>2, <2>3
<1>2. CASE ~\E r \in Devices : ~D!Dead(r) /\ heard[r].values[k] # Nil
  BY <1>2 DEF D!Merged, D!Kw
<1> QED
  BY <1>1, <1>2

\* The tick that is stored is a tick.
LEMMA HealthTick ==
  ASSUME HealthInv
  PROVE  /\ D!BuildTick \in Ticks
         /\ D!BuildTick.pcsShutdown <=> D!Merged("pcs_shutdown") \notin {Nil, 0}
         /\ D!BuildTick.alarm <=> D!Merged("alarm") \notin {Nil, 0}
<1> DEFINE shut == D!Merged("pcs_shutdown") \notin {Nil, 0}
           alarmed == D!Merged("alarm") \notin {Nil, 0}
<1>1. /\ D!Merged("pv") \in D!Kw /\ D!Merged("ess") \in D!Kw /\ D!Merged("grid") \in D!Kw
      /\ D!Merged("load") \in D!Kw /\ D!Merged("soc") \in D!Kw
      /\ D!Merged("charge_max") \in D!Kw /\ D!Merged("discharge_max") \in D!Kw
  BY HealthMerged DEF Keys
<1>2. D!Discharging \in D!Kw
  <2>1. CASE D!Merged("ess") = Nil
    BY <2>1 DEF D!Discharging, D!Kw
  <2>2. CASE D!Merged("ess") \in Int
    <3>1. D!Merged("ess") * HealthSite.essSign \in Int
      BY <2>2, HealthAssumption DEF HealthAssumption
    <3> QED BY <2>2, <3>1, HealthAssumption DEF HealthAssumption, D!Discharging, D!Kw
  <2> QED BY <1>1, <2>1, <2>2 DEF D!Kw
<1>3. D!Load \in D!Kw
  BY <1>1, <1>2 DEF D!Load, D!Kw, D!NotNegative
<1>4. D!Quality \in {"ok", "stale", "fault"}
  BY DEF D!Quality
<1>5. shut \in BOOLEAN /\ alarmed \in BOOLEAN
  OBVIOUS
<1>6. D!BuildTick = [quality |-> D!Quality, pv |-> D!Merged("pv"), load |-> D!Load,
                     soc |-> D!Merged("soc"), chargeMax |-> D!Merged("charge_max"),
                     dischargeMax |-> D!Merged("discharge_max"),
                     pcsShutdown |-> shut, alarm |-> alarmed]
  BY Zenon DEF D!BuildTick
<1> HIDE DEF shut, alarmed
<1>7. D!BuildTick \in Ticks /\ D!BuildTick.pcsShutdown = shut /\ D!BuildTick.alarm = alarmed
  BY <1>1, <1>3, <1>4, <1>5, <1>6 DEF Ticks
<1> QED
  BY <1>7 DEF shut, alarmed

LEMMA ReasonOfTick ==
  ASSUME NEW t, NEW p
  PROVE  LET reason == D!Decide(t, p).reason
         IN /\ reason = "data_fault" => t.quality = "fault"
            /\ reason = "sl_alarm" => t.alarm
            /\ reason = "pcs_shutdown" => t.pcsShutdown
<1> DEFINE s == D!Setpoint(t, p)
<1>1. D!DesiredPower(t, p).reason \notin Blocking
  BY DEF D!DesiredPower, D!PlanSetpoint, D!SelfConsumption, Blocking
<1>2. /\ s.reason = "data_fault" => t.quality = "fault"
      /\ s.reason = "sl_alarm" => t.alarm
      /\ s.reason = "pcs_shutdown" => t.pcsShutdown
  BY <1>1 DEF D!Setpoint, D!Blocked, Blocking
<1>3. D!Decide(t, p).reason = s.reason
  <2> DEFINE kw == D!ClampBess(t, p, s.kw)
             ev == D!EventsOf(p, s, kw)
             rounded == D!Round1(kw)
  <2>1. D!Decide(t, p) = [kw |-> rounded, wanted |-> s.kw, reason |-> s.reason, events |-> ev]
    BY DEF D!Decide
  <2> HIDE DEF s, kw, ev, rounded
  <2> QED BY <2>1
<1> HIDE DEF s
<1> QED
  BY <1>2, <1>3, Zenon

LEMMA HealthInitInv == HealthInit => HealthInv
BY DEF HealthInit, HealthInv, HeardTyped, TickOfValues, DecidedOnTick

LEMMA HealthStepInv == HealthInv /\ [HealthNext]_healthVars => HealthInv'
<1> SUFFICES ASSUME HealthInv, [HealthNext]_healthVars PROVE HealthInv'
  OBVIOUS
<1>1. ASSUME NEW d \in Devices, Hear(d) PROVE HealthInv'
  <2>1. PICK v \in Scenes[d] : heard' = [heard EXCEPT ![d] = [values |-> v, age |-> 0]]
    BY <1>1 DEF Hear, D!Observe
  <2>2. v \in D!Reading
    BY HealthAssumption DEF HealthAssumption
  <2>3. DOMAIN heard' = Devices /\ HeardTyped'
    BY <2>1, <2>2 DEF HealthInv, HeardTyped
  <2> QED
    BY <1>1, <2>3 DEF Hear, storedVars, HealthInv, TickOfValues, DecidedOnTick
<1>2. CASE StoreTick
  <2> DEFINE values == [k \in Keys |-> D!Merged(k)]
  <2>1. lastTick' = [tick |-> D!BuildTick, values |-> values]
    BY <1>2 DEF StoreTick
  <2>2. values \in [Keys -> D!Kw]
    BY HealthMerged
  <2>3. lastTick' \in [tick : Ticks, values : D!Reading]
    BY <2>1, <2>2, HealthTick DEF D!Reading, D!Keys, Keys
  <2>4. lastTick' # Nil
    BY <2>3, HealthAssumption DEF HealthAssumption
  <2>5. values["pcs_shutdown"] = D!Merged("pcs_shutdown") /\ values["alarm"] = D!Merged("alarm")
    BY DEF Keys
  <2>6. lastTick'.values = values /\ lastTick'.tick = D!BuildTick
    BY <2>1
  <2> HIDE DEF values
  <2>7. TickOfValues'
    BY <2>2, <2>5, <2>6, HealthTick DEF TickOfValues
  <2> QED
    BY <1>2, <2>4, <2>7 DEF StoreTick, HealthInv, HeardTyped, DecidedOnTick
<1>3. CASE StoreDecision
  <2> DEFINE d == D!Decide(lastTick.tick, D!Params)
  <2>1. DOMAIN heard' = Devices /\ HeardTyped'
    <3>1. heard' = [r \in Devices |-> D!Older(heard[r])]
      BY <1>3 DEF StoreDecision
    <3>2. ASSUME NEW r \in Devices, heard[r] # Nil
          PROVE  D!Older(heard[r]).values = heard[r].values
      BY <3>2 DEF D!Older
    <3> QED
      BY <3>1, <3>2 DEF HealthInv, HeardTyped, D!Older
  <2>2. lastTick' = lastTick /\ deciding' = FALSE /\ deciding
    BY <1>3 DEF StoreDecision
  <2>3. DecidedOnTick'
    <3>1. CASE console = "monitor"
      BY <1>3, <2>2, <3>1 DEF StoreDecision, HealthInv, DecidedOnTick
    <3>2. CASE console # "monitor"
      <4>1. lastDecision'.reason = d.reason
        <5>1. lastDecision' = [kw |-> d.kw, reason |-> d.reason,
                               plan |-> PlanOf(D!Params, d.reason)]
          BY <1>3, <3>2 DEF StoreDecision
        <5> HIDE DEF d
        <5> QED BY <5>1
      <4>2. /\ d.reason = "data_fault" => lastTick.tick.quality = "fault"
            /\ d.reason = "sl_alarm" => lastTick.tick.alarm
            /\ d.reason = "pcs_shutdown" => lastTick.tick.pcsShutdown
        BY ReasonOfTick
      <4> HIDE DEF d
      <4> QED BY <2>2, <4>1, <4>2 DEF HealthInv, DecidedOnTick
    <3> QED BY <3>1, <3>2
  <2> QED
    BY <2>1, <2>2, <2>3 DEF HealthInv, TickOfValues
<1>4. CASE PlanChanges \/ Console \/ UNCHANGED healthVars
  <2>1. UNCHANGED <<heard, lastTick, lastDecision, deciding, paired>>
    BY <1>4 DEF PlanChanges, Console, healthVars, storedVars, D!StoreManifest, D!WindowMoves,
                D!PlanMoves
  <2> QED
    BY <2>1 DEF HealthInv, HeardTyped, TickOfValues, DecidedOnTick
<1> QED
  BY <1>1, <1>2, <1>3, <1>4 DEF HealthNext

LEMMA RedInInv == HealthInv => RedWhenBlocked
<1> SUFFICES ASSUME HealthInv, paired, lastDecision.reason \in Blocking
             PROVE  Checks[CASE lastDecision.reason = "data_fault" -> "data_quality"
                             [] lastDecision.reason = "sl_alarm" -> "sl_alarms"
                             [] lastDecision.reason = "pcs_shutdown" -> "pcs"] = "alarm"
  BY DEF RedWhenBlocked
<1>1. lastTick # Nil
  BY DEF HealthInv, DecidedOnTick
<1>2. /\ Checks["data_quality"] = DataQuality /\ Checks["pcs"] = Pcs
      /\ Checks["sl_alarms"] = SlAlarms
  BY DEF Checks
<1>3. CASE lastDecision.reason = "data_fault"
  BY <1>2, <1>3 DEF HealthInv, DecidedOnTick, DataQuality
<1>4. CASE lastDecision.reason = "sl_alarm"
  BY <1>1, <1>2, <1>4 DEF HealthInv, DecidedOnTick, TickOfValues, SlAlarms, Read, Alarm
<1>5. CASE lastDecision.reason = "pcs_shutdown"
  BY <1>1, <1>2, <1>5 DEF HealthInv, DecidedOnTick, TickOfValues, Pcs, Read, Alarm
<1> QED
  BY <1>3, <1>4, <1>5 DEF Blocking

-------------------------------------------------------------------------------
(* What is read of a tick that is sound. *)

LEMMA SoundSays ==
  ASSUME SoundTick
  PROVE  \E read \in SoundReads : \A keys \in SUBSET Keys : ReadOf(keys) = Said(read, keys)
<1>1. PICK read \in SoundReads :
        /\ \A k \in Keys : lastTick.values[k] \in {Nil} \cup {read[d][k] : d \in Devices}
        /\ \A d \in Devices, k \in Keys : read[d][k] # Nil => lastTick.values[k] = read[d][k]
  BY DEF SoundTick
<1>2. ASSUME NEW keys \in SUBSET Keys PROVE ReadOf(keys) = Said(read, keys)
  <2>1. \A k \in keys : Read(k) = lastTick.values[k]
    BY DEF Read, SoundTick
  <2>2. ASSUME NEW v \in ReadOf(keys) PROVE v \in Said(read, keys)
    BY <1>1, <2>1, <2>2 DEF ReadOf, Said
  <2>3. ASSUME NEW v \in Said(read, keys) PROVE v \in ReadOf(keys)
    BY <1>1, <2>1, <2>3 DEF ReadOf, Said
  <2> QED BY <2>2, <2>3
<1> QED BY <1>1, <1>2

\* One key of it: nothing, or what the devices say.
LEMMA OneRead ==
  ASSUME NEW k
  PROVE  Read(k) # Nil => Read(k) \in ReadOf({k})
BY DEF ReadOf

LEMMA QuietAlways == QuietWhenSound
<1> SUFFICES ASSUME SoundTick, lastTick.tick.quality = "ok",
                    NEW c \in DOMAIN Checks
             PROVE  /\ Red(Checks[c]) => c \in {"plan_vs_shadow", "grid_limit", "soc_band",
                                                "bess", "pcs"}
                    /\ Checks[c] = "alarm" => c = "grid_limit"
  BY DEF QuietWhenSound
<1>1. PICK read \in SoundReads : \A keys \in SUBSET Keys : ReadOf(keys) = Said(read, keys)
  BY SoundSays
<1> DEFINE lines == Said(read, {"line_a", "line_b"})
<1>2. /\ lastTick # Nil /\ \A d \in Devices : HostFresh(d)
      /\ "ess" \in Devices
  BY SoundAssumption DEF SoundTick, SoundAssumption
<1>3. /\ ReadOf({"alarm"}) = {0} /\ ReadOf({"pcs_shutdown"}) \subseteq {0}
      /\ ReadOf({"mode"}) \subseteq {4}
      /\ \A v \in Phases : v >= 200
      /\ Lines = {0} \/ \A v \in Lines : v >= 350
      /\ \A g \in ReadOf({"grid"}), m \in ReadOf({"meter"}) :
           \/ D!Abs(g) < 5 * Kilowatt \/ D!Abs(m) < 5 * Kilowatt
           \/ (g > 0) # (m > 0)
      /\ \A e \in ReadOf({"rated_kwh"}) :
           Passport.kwh > 0 => 100 * D!Abs(e - Passport.kwh) <= Passport.kwh
      /\ ReadOf({"ess_count", "pcs_count"}) \subseteq {0, Passport.cabinets}
  <2>1. {{"alarm"}, {"pcs_shutdown"}, {"mode"}, {"phase_a", "phase_b"}, {"line_a", "line_b"},
         {"grid"}, {"meter"}, {"rated_kwh"}, {"ess_count", "pcs_count"}} \subseteq SUBSET Keys
    BY DEF Keys
  <2>2. /\ Said(read, {"alarm"}) = ReadOf({"alarm"})
        /\ Said(read, {"pcs_shutdown"}) = ReadOf({"pcs_shutdown"})
        /\ Said(read, {"mode"}) = ReadOf({"mode"})
        /\ Said(read, {"phase_a", "phase_b"}) = Phases
        /\ Said(read, {"line_a", "line_b"}) = Lines
        /\ Said(read, {"grid"}) = ReadOf({"grid"}) /\ Said(read, {"meter"}) = ReadOf({"meter"})
        /\ Said(read, {"rated_kwh"}) = ReadOf({"rated_kwh"})
        /\ Said(read, {"ess_count", "pcs_count"}) = ReadOf({"ess_count", "pcs_count"})
    BY <1>1, <2>1 DEF Phases, Lines
  <2> QED
    BY <2>2, SoundAssumption DEF SoundAssumption
<1>4. \A k \in Keys : Read(k) \in D!Kw
  <2>1. \A d \in Devices : read[d] \in [Keys -> D!Kw]
    BY HealthAssumption DEF HealthAssumption, SoundReads, D!Reading, D!Keys, Keys
  <2>2. ASSUME NEW k \in Keys, Read(k) # Nil PROVE Read(k) \in D!Kw
    <3>1. Read(k) \in Said(read, {k})
      BY <1>1, <2>2, OneRead
    <3> QED BY <2>1, <3>1 DEF Said
  <2> QED BY <2>2 DEF D!Kw
<1>5. DataQuality = "ok" /\ Links = "ok"
  BY <1>2 DEF DataQuality, Links, Warn, Alarm
<1>6. SlAlarms = "ok"
  <2>1. Read("alarm") = 0
    <3>1. 0 \in ReadOf({"alarm"})
      BY <1>3
    <3> QED BY <3>1 DEF ReadOf
  <2> QED BY <1>2, <2>1, HealthAssumption DEF SlAlarms, Alarm, HealthAssumption
<1>7. Read("pcs_shutdown") \in {Nil, 0}
  BY <1>3, OneRead
<1>8. Pcs # "alarm" /\ SocBand # "alarm" /\ PlanVsShadow # "alarm" /\ Bess # "alarm"
  <2>1. BessClass = "running"
    BY <1>2, <1>7 DEF BessClass
  <2> QED BY <1>7, <2>1 DEF Pcs, SocBand, PlanVsShadow, Bess, Warn, Alarm
<1>9. ~Red(ControlMode)
  BY <1>3, OneRead DEF ControlMode, Warn, Red
<1>10. ~Red(PccSign)
  <2>1. CASE Read("grid") = Nil \/ Read("meter") = Nil
    BY <2>1 DEF PccSign, Red
  <2>2. CASE Read("grid") # Nil /\ Read("meter") # Nil
    <3>1. Read("grid") \in ReadOf({"grid"}) /\ Read("meter") \in ReadOf({"meter"})
      BY <2>2, OneRead
    <3> DEFINE g == Read("grid")
               m == Read("meter")
    <3>2. \/ D!Abs(g) < 5 * Kilowatt \/ D!Abs(m) < 5 * Kilowatt
          \/ (g > 0) # (m > 0)
      BY <1>3, <3>1
    <3> QED BY <2>2, <3>2, Zenon DEF PccSign, Warn, Red
  <2> QED BY <2>1, <2>2
<1>11. ~Red(GridVoltage)
  <2>1. \A v \in Phases : v \in Int
    BY <1>4 DEF Phases, ReadOf, Keys, D!Kw
  <2>2. \A v \in Lines : v \in Int
    BY <1>4 DEF Lines, ReadOf, Keys, D!Kw
  <2>3. ~(\E v \in Phases : v < 200) /\ ~(~LinesIdle /\ \E v \in Lines : v < 350)
    BY <1>3, <2>1, <2>2 DEF LinesIdle
  <2> QED BY <2>3 DEF GridVoltage, Alarm, Red
<1>12. ~Red(Inventory)
  <2>1. Passport.kwh > 0 /\ Read("rated_kwh") # Nil =>
          ~(100 * D!Abs(Read("rated_kwh") - Passport.kwh) > Passport.kwh)
    <3>1. Passport.kwh \in Nat /\ Nil \notin Int
      BY HealthAssumption DEF HealthAssumption
    <3>2. ASSUME Passport.kwh > 0, Read("rated_kwh") # Nil
          PROVE  /\ 100 * D!Abs(Read("rated_kwh") - Passport.kwh) <= Passport.kwh
                 /\ Read("rated_kwh") \in Int
      BY <1>3, <1>4, <3>2, OneRead DEF Keys, D!Kw
    <3> QED BY <3>1, <3>2 DEF D!Abs
  <2>2. Cabinets = Passport.cabinets
    BY <1>3 DEF Cabinets, ReadOf
  <2> QED BY <2>1, <2>2 DEF Inventory, Warn, Red
<1>13. /\ Checks["data_quality"] = DataQuality /\ Checks["soc_band"] = SocBand
       /\ Checks["pcs"] = Pcs /\ Checks["sl_alarms"] = SlAlarms
       /\ Checks["pcc_sign"] = PccSign /\ Checks["grid_voltage"] = GridVoltage
       /\ Checks["control_mode"] = ControlMode /\ Checks["sl_links"] = Links
       /\ Checks["plan_vs_shadow"] = PlanVsShadow
       /\ Checks["bess"] = Bess /\ Checks["bess_inventory"] = Inventory
       /\ DOMAIN Checks = {"data_quality", "soc_band", "pcs", "sl_alarms", "pcc_sign",
                           "grid_voltage", "control_mode", "grid_limit", "plan_vs_shadow",
                           "sl_links", "bess", "bess_inventory"}
  BY DEF Checks
<1>14. \A x \in {"ok", "info", "none"} : ~Red(x)
  BY DEF Red
<1>15. \A x : ~Red(x) => x # "alarm"
  BY DEF Red
<1> QED
  BY <1>5, <1>6, <1>8, <1>9, <1>10, <1>11, <1>12, <1>13, <1>14, <1>15

\* The health snapshot is red for the reason that blocked the battery, whatever
\* changed between the tick and its decision, and quiet when the plant is
\* sound (health.go buildHealth): for every plant, manifest and reading.
THEOREM HealthToldTruly == HealthSpec => []HealthTellsTruth
<1>1. HealthInv => HealthTellsTruth
  BY RedInInv, QuietAlways DEF HealthTellsTruth
<1> QED
  BY <1>1, HealthInitInv, HealthStepInv, PTL DEF HealthSpec
=============================================================================
