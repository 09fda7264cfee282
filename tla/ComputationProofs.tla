--------------------------- MODULE ComputationProofs ---------------------------
(***************************************************************************)
(* What is computed over many hours or days, by extremes and running sums. *)
(*                                                                         *)
(* The dynamic programme finds the best schedule, for every number of      *)
(* hours and of levels, every capacity and every price: TablesInv says     *)
(* what the tables hold, BestInv that each value is earned by the run of   *)
(* levels its parents lead through and is the most any run can have there, *)
(* LadderInv compares the tables of the three freedoms, TraceInv follows   *)
(* the schedule back.                                                      *)
(*                                                                         *)
(* Rates of exchange are those of their days, for every market: PassInv    *)
(* says which days a pass of the sync has dealt with.                      *)
(*                                                                         *)
(* Archives keep whole under any imports, for every calendar: ArchiveInv.  *)
(*                                                                         *)
(* What is stored of a plant is what its devices answered: ColInv says     *)
(* that no late reply is left on a session that polls go on to use, and    *)
(* DriftBounded how far values can move without a change being seen.       *)
(*                                                                         *)
(* Energy flows are booked once: RowsInv says how the registers of the     *)
(* stored rows rise, SpoilInv which upset ticks lie between two of them,   *)
(* ChainSum adds up intervals, StoredInv is of the days kept.              *)
(*                                                                         *)
(* Induction is over the natural numbers, in Inductive, from their well    *)
(* founded order.                                                          *)
(***************************************************************************)
EXTENDS OptimumDay, FxRates, ArchiveImport, PlantInventory, EnergyFlows, FiniteSetTheorems,
        FunctionTheorems, WellFoundedInduction, TLAPS

-------------------------------------------------------------------------------
(* Smallest and largest numbers. *)

LEMMA SmallestExists ==
  ASSUME NEW S \in SUBSET Nat, S # {}
  PROVE  Min(S) \in S /\ \A y \in S : Min(S) <= y
<1> DEFINE R == {ss \in Nat \X Nat : ss[1] < ss[2]}
<1>1. IsWellFoundedOn(R, Nat)
  BY NatLessThanWellFounded DEF OpToRel
<1> HIDE DEF R
<1>2. \E x \in S : \A y \in S : <<y, x>> \notin R
  BY <1>1, WFMin
<1>3. \A x, y \in Nat : <<y, x>> \notin R => x <= y
  BY DEF R
<1> QED
  BY <1>2, <1>3 DEF Min

\* Induction, told as a property of sets.
LEMMA Inductive ==
  ASSUME NEW S, 0 \in S, \A n \in Nat : n \in S => n + 1 \in S
  PROVE  Nat \subseteq S
<1> SUFFICES ASSUME Nat \ S # {} PROVE FALSE
  OBVIOUS
<1> DEFINE n == Min(Nat \ S)
<1>1. n \in Nat /\ n \notin S /\ \A y \in Nat \ S : n <= y
  BY SmallestExists
<1> HIDE DEF n
<1>2. n # 0 /\ n - 1 \in Nat /\ n - 1 \notin S
  BY <1>1
<1> QED
  BY <1>1, <1>2

\* S is what g gives over D, numbers all of them.
NumbersOf(S, D, g) ==
  /\ \A x \in D : g[x] \in Int
  /\ \A y : y \in S <=> \E x \in D : y = g[x]

LEMMA LargestExists ==
  ASSUME NEW n \in Nat, NEW D \in SUBSET (0 .. n), D # {}, NEW g, NEW S, NumbersOf(S, D, g)
  PROVE  Max(S) \in S /\ \A y \in S : y <= Max(S)
<1>0. (\A x \in D : g[x] \in Int) /\ \A y : y \in S <=> \E x \in D : y = g[x]
  BY DEF NumbersOf
<1> DEFINE Has(E) == \E m \in E : \A x \in E : g[x] <= g[m]
           G == {k \in Nat : \A E \in SUBSET (0 .. k) :
                               E # {} /\ (\A x \in E : g[x] \in Int) => Has(E)}
<1>1. 0 \in G
  <2> SUFFICES ASSUME NEW E \in SUBSET (0 .. 0), E # {}, \A x \in E : g[x] \in Int
               PROVE  Has(E)
    OBVIOUS
  <2>1. 0 .. 0 = {0}
    OBVIOUS
  <2>2. E = {0}
    BY <2>1
  <2> QED
    BY <2>2
<1>2. ASSUME NEW k \in Nat, k \in G PROVE k + 1 \in G
  <2> SUFFICES ASSUME NEW E \in SUBSET (0 .. k + 1), E # {}, \A x \in E : g[x] \in Int
               PROVE  Has(E)
    BY <1>2
  <2>1. CASE E \subseteq {k + 1}
    <3>1. E = {k + 1}
      BY <2>1
    <3> QED
      BY <3>1
  <2>2. CASE ~(E \subseteq {k + 1})
    <3> DEFINE F == E \ {k + 1}
    <3>1. F \in SUBSET (0 .. k) /\ F # {}
      BY <2>2
    <3>2. PICK m \in F : \A x \in F : g[x] <= g[m]
      BY <1>2, <3>1
    <3>3. CASE k + 1 \in E /\ g[m] <= g[k + 1]
      <4>1. \A x \in E : g[x] <= g[k + 1]
        BY <3>2, <3>3
      <4> QED
        BY <3>3, <4>1
    <3>4. CASE ~(k + 1 \in E /\ g[m] <= g[k + 1])
      <4>1. \A x \in E : g[x] <= g[m]
        BY <3>2, <3>4
      <4> QED
        BY <4>1
    <3> QED
      BY <3>3, <3>4
  <2> QED
    BY <2>1, <2>2
<1> HIDE DEF G
<1>3. n \in G
  BY <1>1, <1>2, Inductive
<1>4. PICK m \in D : \A x \in D : g[x] <= g[m]
  BY <1>0, <1>3 DEF G
<1>5. \E z \in S : \A y \in S : z >= y
  <2>1. g[m] \in S /\ g[m] \in Int
    BY <1>0
  <2>2. ASSUME NEW y \in S PROVE g[m] >= y
    BY <1>0, <1>4, <2>1
  <2> QED
    BY <2>1, <2>2
<1>6. Max(S) \in S /\ \A y \in S : Max(S) >= y
  BY <1>5 DEF Max
<1>7. \A y \in S : y \in Int
  BY <1>0
<1> QED
  BY <1>6, <1>7

\* The greatest of some positions.
LEMMA LastPosition ==
  ASSUME NEW n \in Nat, NEW D \in SUBSET (0 .. n), D # {}
  PROVE  Max(D) \in D /\ \A y \in D : y <= Max(D)
<1> DEFINE g == [x \in 0 .. n |-> x]
<1>1. \A x \in D : g[x] = x /\ x \in Int
  OBVIOUS
<1> HIDE DEF g
<1>2. NumbersOf(D, D, g)
  BY <1>1 DEF NumbersOf
<1> QED
  BY <1>2, LargestExists

LEMMA SmallerOfTwo ==
  ASSUME NEW a \in Int, NEW b \in Int
  PROVE  /\ Min({a, b}) = IF a <= b THEN a ELSE b
         /\ Max({a, b}) = IF a >= b THEN a ELSE b
BY DEF Min, Max

-------------------------------------------------------------------------------
(* Running sums: a purse of n hours. *)

LEMMA PurseExists ==
  ASSUME NEW n \in Nat, NEW gain
  PROVE  \E p : p = [i \in 1 .. n + 1 |-> IF i = 1 THEN 0 ELSE p[i - 1] + gain[i]]
<1> DEFINE Is(p, k) == p = [i \in 1 .. k + 1 |-> IF i = 1 THEN 0 ELSE p[i - 1] + gain[i]]
           G == {k \in Nat : \E p : Is(p, k)}
<1>1. 0 \in G
  <2> DEFINE p == [i \in 1 .. 1 |-> 0]
  <2>1. Is(p, 0)
    OBVIOUS
  <2> QED
    BY <2>1
<1>2. ASSUME NEW k \in Nat, k \in G PROVE k + 1 \in G
  <2>1. PICK p : Is(p, k)
    BY <1>2
  <2> DEFINE q == [i \in 1 .. k + 2 |-> IF i = k + 2 THEN p[k + 1] + gain[k + 2] ELSE p[i]]
  <2>2. \A i \in 1 .. k + 2 : q[i] = IF i = 1 THEN 0 ELSE q[i - 1] + gain[i]
    BY <2>1
  <2>3. Is(q, k + 1)
    <3>1. q = [i \in 1 .. k + 2 |-> q[i]] /\ (k + 1) + 1 = k + 2
      OBVIOUS
    <3> HIDE DEF q
    <3>2. q = [i \in 1 .. k + 2 |-> IF i = 1 THEN 0 ELSE q[i - 1] + gain[i]]
      BY <2>2, <3>1
    <3> QED
      BY <3>1, <3>2
  <2> HIDE DEF q
  <2> QED
    BY <2>3
<1> HIDE DEF G
<1>3. n \in G
  BY <1>1, <1>2, Inductive
<1> QED
  BY <1>3 DEF G

LEMMA PurseTyped ==
  ASSUME NEW n \in Nat, NEW gain, \A i \in 2 .. n + 1 : gain[i] \in Int, NEW p,
         p = [i \in 1 .. n + 1 |-> IF i = 1 THEN 0 ELSE p[i - 1] + gain[i]]
  PROVE  \A i \in 1 .. n + 1 : p[i] \in Int
<1> DEFINE G == {k \in Nat : k <= n => p[k + 1] \in Int}
<1>1. 0 \in G
  BY 1 \in 1 .. n + 1
<1>2. ASSUME NEW k \in Nat, k \in G PROVE k + 1 \in G
  <2> SUFFICES ASSUME k + 1 <= n PROVE p[k + 2] \in Int
    OBVIOUS
  <2>1. p[k + 2] = p[k + 1] + gain[k + 2] /\ p[k + 1] \in Int
    BY <1>2
  <2> QED
    BY <2>1
<1> HIDE DEF G
<1>3. Nat \subseteq G
  BY <1>1, <1>2, Inductive
<1> SUFFICES ASSUME NEW i \in 1 .. n + 1 PROVE p[i] \in Int
  OBVIOUS
<1>4. i - 1 \in G /\ i - 1 <= n
  BY <1>3
<1> QED
  BY <1>4 DEF G

-------------------------------------------------------------------------------
(* The optimum of a day or a month. *)

Runs == [1 .. OptHours -> HourRecords]

\* A run of levels that the solved hours allow.
Climbs(rs, t, n) ==
  /\ t[1] = StartLevel(rs)
  /\ \A i \in 1 .. n : Feasible(rs, Offer(rs[i]), "full", t[i], t[i + 1])

\* Every hour of the run leads where its level was best reached from.
Follows(t, n) ==
  /\ t[n + 1] \in DOMAIN best["full"]
  /\ \A i \in 1 .. n : t[i + 1] \in DOMAIN parents[i] /\ t[i] = parents[i][t[i + 1]]

AllLevels(rs) == [1 .. OptHours + 1 -> Window(rs)]

TablesInv ==
  /\ Solved \in 0 .. OptHours
  /\ parents = [i \in 1 .. Solved |-> parents[i]]
  /\ optPhase \in {"tracing", "done"} => Solved = OptHours
  /\ optPhase = "posed" => parents = <<>>
  /\ optPhase # "posed" =>
       /\ records \in Runs
       /\ \A m \in Freedoms :
            /\ DOMAIN best[m] \subseteq Window(records)
            /\ best[m] = [l \in DOMAIN best[m] |-> best[m][l]]
            /\ \A l \in DOMAIN best[m] : best[m][l] \in Int
            /\ StartLevel(records) \in DOMAIN best[m]
            /\ best[m][StartLevel(records)] >= 0
       /\ \A i \in 1 .. Solved : \A b \in DOMAIN parents[i] :
            IF i = 1 THEN parents[i][b] = StartLevel(records) ELSE parents[i][b] \in DOMAIN parents[i - 1]
       /\ \A i \in 1 .. Solved : DOMAIN parents[i] \subseteq Window(records)
       /\ DOMAIN best["full"] =
            IF Solved = 0 THEN {StartLevel(records)} ELSE DOMAIN parents[Solved]

BestInv ==
  optPhase # "posed" =>
    \A t \in AllLevels(records) :
      /\ Climbs(records, t, Solved) =>
           t[Solved + 1] \in DOMAIN best["full"] /\ Purse(records, t)[Solved + 1] <= best["full"][t[Solved + 1]]
      /\ Follows(t, Solved) =>
           Climbs(records, t, Solved) /\ Purse(records, t)[Solved + 1] = best["full"][t[Solved + 1]]

LadderInv ==
  optPhase # "posed" =>
    /\ DOMAIN best["fixedCharge"] \subseteq DOMAIN best["noPv"]
    /\ \A l \in DOMAIN best["fixedCharge"] : best["fixedCharge"][l] <= best["noPv"][l]
    /\ ImportDearer =>
         /\ DOMAIN best["noPv"] \subseteq DOMAIN best["full"]
         /\ \A l \in DOMAIN best["noPv"] : best["noPv"][l] <= best["full"][l]

TraceInv ==
  optPhase \in {"tracing", "done"} =>
    /\ trace \in Seq(Window(records)) /\ Len(trace) \in 1 .. OptHours + 1
    /\ trace[1] \in DOMAIN best["full"] /\ best["full"][trace[1]] = DayBest("full")
    /\ \A k \in 1 .. Len(trace) - 1 :
         trace[k] \in DOMAIN parents[OptHours + 1 - k]
           /\ trace[k + 1] = parents[OptHours + 1 - k][trace[k]]
    /\ optPhase = "done" => Len(trace) = OptHours + 1

-------------------------------------------------------------------------------
(* Hours, levels and what a move earns. *)

HourTyped(h) ==
  /\ h.tradable \in BOOLEAN /\ h.import \in Int /\ h.export \in Int
  /\ h.surplus \in Nat /\ h.displaceable \in Nat
  /\ h.pvCharge \in Nat /\ h.gridCharge \in Nat

LEMMA OffersTyped ==
  ASSUME NEW r \in HourRecords
  PROVE  HourTyped(Offer(r))
<1>1. /\ r.priced \in BOOLEAN /\ r.import \in Int /\ r.export \in Int
      /\ r.pvToGrid \in Nat /\ r.pvToEss \in Nat /\ r.gridToLoad \in Nat
      /\ r.essToLoad \in Nat /\ r.gridToEss \in Nat
  BY OptimumAssumption DEF OptimumAssumption
<1> QED
  BY <1>1 DEF Offer, HourTyped

LEMMA MoneyTyped ==
  ASSUME NEW h, HourTyped(h), NEW mode, NEW a \in Nat, NEW b \in Nat
  PROVE  Money(h, mode, a, b) \in Int
<1>1. /\ LevelDraws \in Nat /\ LevelGives \in Nat /\ OptWear \in Nat /\ FreeBelow \in Nat
  BY OptimumAssumption DEF OptimumAssumption
<1>2. PvPrice(h) \in Int /\ PvCap(h, mode) \in Int
  BY DEF PvPrice, PvCap, HourTyped
<1>3. ASSUME NEW d \in Int
      PROVE  /\ FromPv(h, mode, d) \in Int /\ FromGrid(h, mode, d) \in Int
             /\ ToLoad(h, d) \in Int /\ ToGrid(h, d) \in Int
  <2>1. d * LevelDraws \in Int /\ d * LevelGives \in Int /\ h.displaceable \in Int
    BY <1>1 DEF HourTyped
  <2>2. FromPv(h, mode, d) \in Int /\ ToLoad(h, d) \in Int
    BY <1>2, <2>1, SmallerOfTwo DEF FromPv, ToLoad
  <2> QED
    BY <2>1, <2>2 DEF FromGrid, ToGrid
<1>4. b - a \in Int /\ a - b \in Int /\ h.import \in Int /\ h.export \in Int
  BY DEF HourTyped
<1>5. /\ FromPv(h, mode, b - a) * PvPrice(h) \in Int
      /\ FromGrid(h, mode, b - a) * h.import \in Int
      /\ ToLoad(h, a - b) * h.import \in Int /\ ToGrid(h, a - b) * h.export \in Int
      /\ (a - b) * LevelGives * OptWear \in Int
  <2>1. (a - b) * LevelGives \in Int
    BY <1>1, <1>4
  <2> QED
    BY <1>1, <1>2, <1>3, <1>4, <2>1
<1> QED
  BY <1>5 DEF Money

LEMMA WindowHolds ==
  ASSUME NEW rs \in Runs
  PROVE  \E lo, hi \in Nat : Window(rs) = lo .. hi /\ lo <= hi
<1> DEFINE D == {i \in Seen(rs) : rs[i].residual # NoLevel}
           g == [i \in 1 .. OptHours |-> rs[i].residual]
<1>1. OptHours \in Nat /\ CapacityLevels \in Nat
  BY OptimumAssumption DEF OptimumAssumption
<1>2. \A i \in 1 .. OptHours : rs[i].residual \in Nat \cup {NoLevel}
  BY OptimumAssumption DEF OptimumAssumption, Runs
<1>3. DOMAIN rs = 1 .. OptHours
  BY DEF Runs
<1>4. D \in SUBSET (0 .. OptHours) /\ \A x \in D : g[x] \in Nat
  BY <1>1, <1>2, <1>3 DEF Seen
<1>5. Residuals(rs) = {g[x] : x \in D} /\ Residuals(rs) \in SUBSET Nat
  BY <1>2, <1>3, <1>4 DEF Residuals, Seen
<1> HIDE DEF D, g
<1>6. CASE Residuals(rs) = {}
  BY <1>1, <1>6 DEF Window
<1>7. CASE Residuals(rs) # {}
  <2>1. Min(Residuals(rs)) \in Nat
    BY <1>5, <1>7, SmallestExists
  <2>2. D # {}
    BY <1>5, <1>7
  <2>3. Max(Residuals(rs)) \in Residuals(rs)
    <3>1. \A x \in D : g[x] \in Int
      BY <1>4
    <3>2. NumbersOf(Residuals(rs), D, g)
      BY <1>5, <3>1 DEF NumbersOf
    <3> QED
      BY <1>1, <1>4, <2>2, <3>2, LargestExists
  <2>4. Max(Residuals(rs)) \in Nat
    BY <1>5, <2>3
  <2>5. Min({CapacityLevels, Max(Residuals(rs))}) \in Nat
    BY <1>1, <2>4, SmallerOfTwo
  <2> QED
    BY <1>1, <1>7, <2>1, <2>5 DEF Window
<1> QED
  BY <1>6, <1>7

LEMMA StartInWindow ==
  ASSUME NEW rs \in Runs
  PROVE  StartLevel(rs) \in Window(rs)
<1> DEFINE known == {i \in DOMAIN rs : rs[i].residual # NoLevel}
<1>1. PICK lo \in Nat, hi \in Nat : Window(rs) = lo .. hi /\ lo <= hi
  BY WindowHolds
<1>2. Min(Window(rs)) = lo /\ Max(Window(rs)) = hi
  <2>1. Min(lo .. hi) = lo
    BY <1>1 DEF Min
  <2>2. Max(lo .. hi) = hi
    BY <1>1 DEF Max
  <2> QED
    BY <1>1, <2>1, <2>2
<1>3. CASE known = {}
  BY <1>1, <1>2, <1>3 DEF StartLevel
<1>4. CASE known # {}
  <2>1. known \in SUBSET Nat
    BY OptimumAssumption DEF OptimumAssumption, Runs
  <2>2. Min(known) \in known
    BY <1>4, <2>1, SmallestExists
  <2>3. rs[Min(known)].residual \in Nat
    BY <2>2, OptimumAssumption DEF OptimumAssumption, Runs
  <2> DEFINE r == rs[Min(known)].residual
  <2>4. StartLevel(rs) = Max({lo, Min({hi, r})})
    BY <1>2, <1>4 DEF StartLevel
  <2> HIDE DEF r
  <2> DEFINE m == Min({hi, r})
  <2>5. m \in Int /\ m <= hi
    BY <2>3, SmallerOfTwo DEF r
  <2> HIDE DEF m
  <2>6. Max({lo, m}) = IF lo >= m THEN lo ELSE m
    BY <2>5, SmallerOfTwo
  <2> QED
    BY <1>1, <2>4, <2>5, <2>6 DEF m
<1> QED
  BY <1>3, <1>4

-------------------------------------------------------------------------------
(* One hour solved. *)

\* Money reached at levels of the window.
Fund(f, rs) == DOMAIN f \subseteq Window(rs) /\ \A l \in DOMAIN f : f[l] \in Int

LEMMA MostHolds ==
  ASSUME NEW rs \in Runs, NEW f, Fund(f, rs), NEW D \in SUBSET DOMAIN f, D # {}
  PROVE  /\ \E l \in D : Max({f[k] : k \in D}) = f[l]
         /\ \A l \in D : f[l] <= Max({f[k] : k \in D})
         /\ Max({f[k] : k \in D}) \in Int
<1>1. PICK lo \in Nat, hi \in Nat : Window(rs) = lo .. hi
  BY WindowHolds
<1>2. D \in SUBSET (0 .. hi) /\ \A l \in D : f[l] \in Int
  BY <1>1 DEF Fund
<1> DEFINE S == {f[k] : k \in D}
<1>3. \A y : y \in S <=> \E x \in D : y = f[x]
  OBVIOUS
<1> HIDE DEF S
<1>4. Max(S) \in S /\ \A y \in S : y <= Max(S)
  <2>1. NumbersOf(S, D, f)
    BY <1>2, <1>3 DEF NumbersOf
  <2> QED
    BY <1>2, <2>1, LargestExists
<1> QED
  BY <1>2, <1>3, <1>4 DEF S

LEMMA ValueHolds ==
  ASSUME NEW rs \in Runs, NEW h, HourTyped(h), NEW mode, NEW f, Fund(f, rs),
         NEW b \in Reached(f, rs, h, mode)
  PROVE  LET v == ValueAt(f, rs, h, mode, b)
         IN  /\ v \in Int /\ b \in Window(rs)
             /\ \E a \in DOMAIN f : Feasible(rs, h, mode, a, b) /\ v = f[a] + Money(h, mode, a, b)
             /\ \A a \in DOMAIN f : Feasible(rs, h, mode, a, b) => f[a] + Money(h, mode, a, b) <= v
<1>1. PICK lo \in Nat, hi \in Nat : Window(rs) = lo .. hi
  BY WindowHolds
<1> DEFINE D == {a \in DOMAIN f : Feasible(rs, h, mode, a, b)}
           g == [a \in D |-> f[a] + Money(h, mode, a, b)]
           S == {f[a] + Money(h, mode, a, b) : a \in D}
<1>2. b \in Window(rs) /\ D # {}
  BY DEF Reached
<1>3. D \in SUBSET (0 .. hi)
  BY <1>1 DEF Fund
<1>4. \A x \in D : f[x] + Money(h, mode, x, b) \in Int
  <2> SUFFICES ASSUME NEW x \in D PROVE f[x] + Money(h, mode, x, b) \in Int
    OBVIOUS
  <2>1. x \in Nat /\ b \in Nat /\ f[x] \in Int
    BY <1>1, <1>2 DEF Fund
  <2>2. Money(h, mode, x, b) \in Int
    BY <2>1, MoneyTyped
  <2> QED
    BY <2>1, <2>2
<1>5. \A x \in D : g[x] \in Int /\ g[x] = f[x] + Money(h, mode, x, b)
  BY <1>4
<1>6. \A y : y \in S <=> \E x \in D : y = g[x]
  BY <1>5
<1>7. ValueAt(f, rs, h, mode, b) = Max(S)
  BY DEF ValueAt
<1>8. \A a \in DOMAIN f : Feasible(rs, h, mode, a, b) <=> a \in D
  OBVIOUS
<1>9. D \subseteq DOMAIN f
  OBVIOUS
<1> HIDE DEF D, g, S
<1>10. Max(S) \in S /\ \A y \in S : y <= Max(S)
  <2>1. NumbersOf(S, D, g)
    BY <1>5, <1>6 DEF NumbersOf
  <2> QED
    BY <1>2, <1>3, <2>1, LargestExists
<1>11. Max(S) \in Int /\ (\E a \in D : Max(S) = g[a]) /\ \A a \in D : g[a] <= Max(S)
  BY <1>5, <1>6, <1>10
<1> QED
  BY <1>2, <1>5, <1>7, <1>8, <1>9, <1>11

LEMMA AfterHolds ==
  ASSUME NEW rs \in Runs, NEW h, HourTyped(h), NEW mode, NEW f, Fund(f, rs)
  PROVE  Fund(After(f, rs, h, mode), rs)
BY ValueHolds DEF After, Fund, Reached

LEMMA ParentHolds ==
  ASSUME NEW rs \in Runs, NEW h, HourTyped(h), NEW f, Fund(f, rs),
         NEW b \in Reached(f, rs, h, "full")
  PROVE  LET a == Parent(f, rs, h)[b]
         IN  /\ a \in DOMAIN f /\ Feasible(rs, h, "full", a, b)
             /\ f[a] + Money(h, "full", a, b) = After(f, rs, h, "full")[b]
<1> DEFINE A == {a \in DOMAIN f : Feasible(rs, h, "full", a, b)
                    /\ f[a] + Money(h, "full", a, b) = ValueAt(f, rs, h, "full", b)}
<1>1. A # {}
  BY ValueHolds
<1>2. A \in SUBSET Nat
  BY WindowHolds DEF Fund
<1>3. Min(A) \in A
  BY <1>1, <1>2, SmallestExists
<1>4. Parent(f, rs, h)[b] = Min(A)
  BY DEF Parent
<1>5. After(f, rs, h, "full")[b] = ValueAt(f, rs, h, "full", b)
  BY DEF After
<1> QED
  BY <1>3, <1>4, <1>5

LEMMA PurseHolds ==
  ASSUME NEW rs \in Runs, NEW t \in AllLevels(rs)
  PROVE  /\ Purse(rs, t)[1] = 0
         /\ \A i \in 1 .. OptHours :
              /\ Purse(rs, t)[i + 1] = Purse(rs, t)[i] + Money(Offer(rs[i]), "full", t[i], t[i + 1])
              /\ Money(Offer(rs[i]), "full", t[i], t[i + 1]) \in Int
         /\ \A i \in 1 .. OptHours + 1 : Purse(rs, t)[i] \in Int
<1> DEFINE n == OptHours
           gain == [i \in 1 .. n + 1 |-> Money(Offer(rs[i - 1]), "full", t[i - 1], t[i])]
           Is(p) == p = [i \in 1 .. n + 1 |-> IF i = 1 THEN 0 ELSE p[i - 1] + gain[i]]
<1>1. n \in Nat
  BY OptimumAssumption DEF OptimumAssumption
<1>2. \A i \in 1 .. n : Money(Offer(rs[i]), "full", t[i], t[i + 1]) \in Int
  <2> SUFFICES ASSUME NEW i \in 1 .. n PROVE Money(Offer(rs[i]), "full", t[i], t[i + 1]) \in Int
    OBVIOUS
  <2>1. HourTyped(Offer(rs[i]))
    BY OffersTyped DEF Runs
  <2>2. t[i] \in Nat /\ t[i + 1] \in Nat
    BY <1>1, WindowHolds DEF AllLevels
  <2> QED
    BY <2>1, <2>2, MoneyTyped
<1>3. \A i \in 2 .. n + 1 : gain[i] = Money(Offer(rs[i - 1]), "full", t[i - 1], t[i])
  BY <1>1
<1>4. \A i \in 2 .. n + 1 : gain[i] \in Int
  <2> SUFFICES ASSUME NEW i \in 2 .. n + 1 PROVE gain[i] \in Int
    OBVIOUS
  <2>1. i - 1 \in 1 .. n /\ (i - 1) + 1 = i
    BY <1>1
  <2> QED
    BY <1>2, <1>3, <2>1
<1>5. Purse(rs, t) = CHOOSE p : Is(p)
  BY DEF Purse
<1> HIDE DEF gain
<1>6. \E p : Is(p)
  BY <1>1, PurseExists
<1>7. Is(Purse(rs, t))
  BY <1>5, <1>6
<1>8. \A i \in 1 .. n + 1 : Purse(rs, t)[i] \in Int
  BY <1>1, <1>4, <1>7, PurseTyped
<1>9. Purse(rs, t)[1] = 0
  BY <1>1, <1>7
<1>10. \A i \in 1 .. n : Purse(rs, t)[i + 1] = Purse(rs, t)[i] + gain[i + 1]
  BY <1>1, <1>7
<1> QED
  BY <1>1, <1>2, <1>3, <1>8, <1>9, <1>10

-------------------------------------------------------------------------------
(* The invariant is kept. *)

OptimumInv == TablesInv /\ BestInv /\ LadderInv /\ TraceInv

LEMMA OptInitHolds == OptInit => OptimumInv
<1> SUFFICES ASSUME OptInit PROVE OptimumInv
  OBVIOUS
<1>1. OptHours \in Nat /\ optPhase = "posed" /\ parents = <<>> /\ Len(parents) = 0
  BY OptimumAssumption DEF OptimumAssumption, OptInit
<1> QED
  BY <1>1 DEF OptimumInv, TablesInv, BestInv, LadderInv, TraceInv, Solved

LEMMA PoseKeeps == OptimumInv /\ Pose => OptimumInv'
<1> SUFFICES ASSUME OptimumInv, Pose PROVE OptimumInv'
  OBVIOUS
<1>1. PICK rs \in Runs :
        /\ records' = rs
        /\ best' = [m \in Freedoms |-> [l \in {StartLevel(rs)} |-> 0]]
  BY DEF Pose, Runs
<1>2. /\ optPhase = "posed" /\ optPhase' = "solving"
      /\ parents' = parents /\ parents = <<>> /\ Len(parents') = 0 /\ OptHours \in Nat
  BY OptimumAssumption DEF OptimumAssumption, Pose, OptimumInv, TablesInv
<1>3. StartLevel(rs) \in Window(rs)
  BY StartInWindow
<1>4. StartLevel(records') = StartLevel(rs) /\ Window(records') = Window(rs)
  BY <1>1
<1>5. \A m \in Freedoms : best'[m] = [l \in {StartLevel(rs)} |-> 0]
  BY <1>1
<1>6. TablesInv'
  <2>1. Solved' = 0 /\ parents' = <<>>
    BY <1>2 DEF Solved
  <2>2. {"full", "noPv", "fixedCharge"} \subseteq Freedoms
    BY DEF Freedoms
  <2> QED
    BY <1>1, <1>2, <1>3, <1>4, <1>5, <2>1, <2>2 DEF TablesInv
<1>7. BestInv'
  <2> SUFFICES ASSUME NEW t \in AllLevels(rs)
               PROVE  /\ Climbs(rs, t, 0) => /\ t[1] \in DOMAIN best'["full"]
                                             /\ Purse(rs, t)[1] <= best'["full"][t[1]]
                      /\ Follows(t, 0)' => /\ Climbs(rs, t, 0)
                                           /\ Purse(rs, t)[1] = best'["full"][t[1]]
    BY <1>1, <1>2 DEF BestInv, Solved
  <2>1. Purse(rs, t)[1] = 0
    BY PurseHolds
  <2>2. best'["full"] = [l \in {StartLevel(rs)} |-> 0]
    BY <1>5 DEF Freedoms
  <2> QED
    BY <1>1, <2>1, <2>2 DEF Climbs, Follows
<1>8. LadderInv'
  BY <1>5 DEF LadderInv, Freedoms
<1>9. TraceInv'
  BY <1>2 DEF TraceInv
<1> QED
  BY <1>6, <1>7, <1>8, <1>9 DEF OptimumInv

\* What SolveHour does, in the terms of the lemmas above.
LEMMA SolveMoves ==
  ASSUME OptimumInv, SolveHour
  PROVE  LET n == Solved  h == Offer(records[n + 1])
         IN  /\ records \in Runs /\ records' = records /\ HourTyped(h)
             /\ n \in Nat /\ n + 1 \in 1 .. OptHours /\ OptHours \in Nat
             /\ \A m \in Freedoms : /\ Fund(best[m], records)
                                    /\ best'[m] = After(best[m], records, h, m)
             /\ Solved' = n + 1
             /\ parents' = [i \in 1 .. n + 1 |-> parents'[i]]
             /\ \A i \in 1 .. n : parents'[i] = parents[i]
             /\ parents'[n + 1] = Parent(best["full"], records, h)
             /\ optPhase = "solving" /\ optPhase' = "solving"
<1> DEFINE n == Solved  h == Offer(records[n + 1])
<1>1. /\ optPhase = "solving" /\ optPhase' = "solving" /\ n < OptHours /\ records' = records
      /\ parents' = Append(parents, Parent(best["full"], records, h))
      /\ \A m \in Freedoms : best'[m] = After(best[m], records, h, m)
  BY DEF SolveHour, Hour
<1>2. OptHours \in Nat
  BY OptimumAssumption DEF OptimumAssumption
<1>3. /\ records \in Runs /\ n \in 0 .. OptHours /\ parents = [i \in 1 .. n |-> parents[i]]
      /\ \A m \in Freedoms : Fund(best[m], records)
  BY <1>1 DEF OptimumInv, TablesInv, Fund
<1>4. n \in Nat /\ n + 1 \in 1 .. OptHours
  BY <1>1, <1>2, <1>3
<1>5. HourTyped(h)
  BY <1>3, <1>4, OffersTyped DEF Runs
<1>6. parents \in Seq({parents[i] : i \in 1 .. n}) /\ Len(parents) = n
  BY <1>3, <1>4 DEF Solved
<1> HIDE DEF n, h
<1> DEFINE P == Parent(best["full"], records, h)
<1>7. parents' = Append(parents, P)
  BY <1>1
<1> HIDE DEF P
<1>8. /\ Len(parents') = n + 1 /\ parents' = [i \in 1 .. n + 1 |-> parents'[i]]
      /\ \A i \in 1 .. n : parents'[i] = parents[i]
      /\ parents'[n + 1] = P
  <2> DEFINE S == {parents[i] : i \in 1 .. n}
  <2>1. parents \in Seq(S)
    BY <1>6
  <2> HIDE DEF S
  <2>2. parents \in Seq(S \cup {P}) /\ P \in S \cup {P}
    BY <2>1
  <2>3. Append(parents, P) \in Seq(S \cup {P})
    BY <2>2
  <2>4. /\ Len(parents') = n + 1
        /\ \A i \in 1 .. n : parents'[i] = parents[i]
        /\ parents'[n + 1] = P
    BY <1>4, <1>6, <1>7, <2>2
  <2>5. parents' = [i \in 1 .. Len(parents') |-> parents'[i]]
    <3>1. \A q \in Seq(S \cup {P}) : q \in [1 .. Len(q) -> S \cup {P}]
      OBVIOUS
    <3> QED
      BY <1>7, <2>3, <3>1
  <2> QED
    BY <2>4, <2>5
<1>9. Solved' = n + 1
  BY <1>8 DEF Solved
<1> QED
  BY <1>1, <1>2, <1>3, <1>4, <1>5, <1>8, <1>9 DEF n, h, P

\* A battery that rests is always allowed to, and earns nothing.
LEMMA RestIsFree ==
  ASSUME NEW rs, NEW h, HourTyped(h), NEW mode, NEW a \in Nat
  PROVE  Feasible(rs, h, mode, a, a) /\ Money(h, mode, a, a) = 0
<1>1. LevelGives \in Nat /\ OptWear \in Nat
  BY OptimumAssumption DEF OptimumAssumption
<1>2. ToLoad(h, 0) = 0
  BY <1>1, SmallerOfTwo DEF ToLoad, HourTyped
<1>3. ToGrid(h, 0) = 0
  BY <1>1, <1>2 DEF ToGrid
<1>4. h.import \in Int /\ h.export \in Int /\ a - a = 0 /\ ~(a > a)
  BY DEF HourTyped
<1>5. Money(h, mode, a, a) = ToLoad(h, 0) * h.import + ToGrid(h, 0) * h.export - 0 * LevelGives * OptWear
  BY <1>4 DEF Money
<1>6. 0 * h.import = 0 /\ 0 * h.export = 0 /\ 0 * LevelGives * OptWear = 0
  BY <1>1, <1>4
<1> QED
  BY <1>2, <1>3, <1>5, <1>6 DEF Feasible

LEMMA RestKeeps ==
  ASSUME NEW rs \in Runs, NEW h, HourTyped(h), NEW mode, NEW f, Fund(f, rs),
         NEW a \in DOMAIN f
  PROVE  /\ a \in DOMAIN After(f, rs, h, mode)
         /\ f[a] <= After(f, rs, h, mode)[a]
<1>1. a \in Nat /\ a \in Window(rs) /\ f[a] \in Int
  BY WindowHolds DEF Fund
<1>2. Feasible(rs, h, mode, a, a) /\ Money(h, mode, a, a) = 0
  BY <1>1, RestIsFree
<1>3. a \in Reached(f, rs, h, mode)
  BY <1>1, <1>2 DEF Reached
<1>4. f[a] + 0 <= ValueAt(f, rs, h, mode, a)
  BY <1>2, <1>3, ValueHolds
<1> QED
  BY <1>1, <1>3, <1>4 DEF After

LEMMA SolveKeepsTables ==
  ASSUME OptimumInv, SolveHour
  PROVE  TablesInv'
<1> DEFINE n == Solved  h == Offer(records[n + 1])  s == StartLevel(records)
<1>1. /\ records \in Runs /\ records' = records /\ HourTyped(h)
      /\ n \in Nat /\ n + 1 \in 1 .. OptHours /\ OptHours \in Nat
      /\ \A m \in Freedoms : /\ Fund(best[m], records)
                             /\ best'[m] = After(best[m], records, h, m)
      /\ Solved' = n + 1
      /\ parents' = [i \in 1 .. n + 1 |-> parents'[i]]
      /\ \A i \in 1 .. n : parents'[i] = parents[i]
      /\ parents'[n + 1] = Parent(best["full"], records, h)
      /\ optPhase = "solving" /\ optPhase' = "solving"
  BY SolveMoves
<1>2. TablesInv
  BY DEF OptimumInv
<1> HIDE DEF n, h
<1>3. ASSUME NEW m \in Freedoms
      PROVE  /\ DOMAIN best'[m] \subseteq Window(records)
             /\ best'[m] = [l \in DOMAIN best'[m] |-> best'[m][l]]
             /\ \A l \in DOMAIN best'[m] : best'[m][l] \in Int
             /\ s \in DOMAIN best'[m] /\ best'[m][s] >= 0
  <2>1. Fund(best'[m], records)
    BY <1>1, AfterHolds
  <2>2. s \in DOMAIN best[m] /\ best[m][s] >= 0
    BY <1>1, <1>2 DEF TablesInv
  <2>3. s \in DOMAIN best'[m] /\ best[m][s] <= best'[m][s]
    BY <1>1, <2>2, RestKeeps
  <2>4. best[m][s] \in Int /\ best'[m][s] \in Int
    BY <1>1, <2>1, <2>2, <2>3 DEF Fund
  <2>5. best'[m] = [l \in DOMAIN best'[m] |-> best'[m][l]]
    BY <1>1 DEF After
  <2> QED
    BY <2>1, <2>2, <2>3, <2>4, <2>5 DEF Fund
<1>4. "full" \in Freedoms
  BY DEF Freedoms
<1>5. DOMAIN parents'[n + 1] = DOMAIN best'["full"]
  BY <1>1, <1>4 DEF Parent, After
<1>6. \A b \in DOMAIN parents'[n + 1] : parents'[n + 1][b] \in DOMAIN best["full"]
  <2> SUFFICES ASSUME NEW b \in DOMAIN parents'[n + 1]
               PROVE  parents'[n + 1][b] \in DOMAIN best["full"]
    OBVIOUS
  <2>1. b \in Reached(best["full"], records, h, "full")
    BY <1>1 DEF Parent
  <2> QED
    BY <1>1, <1>4, <2>1, ParentHolds
<1>7. \A i \in 1 .. n + 1 : \A b \in DOMAIN parents'[i] :
        IF i = 1 THEN parents'[i][b] = s ELSE parents'[i][b] \in DOMAIN parents'[i - 1]
  <2> SUFFICES ASSUME NEW i \in 1 .. n + 1, NEW b \in DOMAIN parents'[i]
               PROVE  IF i = 1 THEN parents'[i][b] = s ELSE parents'[i][b] \in DOMAIN parents'[i - 1]
    OBVIOUS
  <2>1. CASE i = n + 1
    <3>1. DOMAIN best["full"] = IF n = 0 THEN {s} ELSE DOMAIN parents[n]
      BY <1>1, <1>2 DEF TablesInv, n
    <3>2. n # 0 => parents'[n] = parents[n] /\ (n + 1) - 1 = n /\ n + 1 # 1
      BY <1>1
    <3> QED
      BY <1>1, <1>6, <2>1, <3>1, <3>2
  <2>2. CASE i # n + 1
    <3>1. i \in 1 .. n /\ (i # 1 => i - 1 \in 1 .. n)
      BY <1>1, <2>2
    <3>2. IF i = 1 THEN parents[i][b] = s ELSE parents[i][b] \in DOMAIN parents[i - 1]
      BY <1>1, <1>2, <3>1 DEF TablesInv, n
    <3> QED
      BY <1>1, <3>1, <3>2
  <2> QED
    BY <2>1, <2>2
<1>8. \A i \in 1 .. n + 1 : DOMAIN parents'[i] \subseteq Window(records)
  <2> SUFFICES ASSUME NEW i \in 1 .. n + 1 PROVE DOMAIN parents'[i] \subseteq Window(records)
    OBVIOUS
  <2>1. CASE i = n + 1
    BY <1>3, <1>4, <1>5, <2>1
  <2>2. CASE i # n + 1
    <3>1. i \in 1 .. n
      BY <1>1, <2>2
    <3> QED
      BY <1>1, <1>2, <3>1 DEF TablesInv, n
  <2> QED
    BY <2>1, <2>2
<1> QED
  BY <1>1, <1>3, <1>5, <1>7, <1>8 DEF TablesInv

LEMMA SolveKeepsBest ==
  ASSUME OptimumInv, SolveHour
  PROVE  BestInv'
<1>0. PICK n : n = Solved
  OBVIOUS
<1> DEFINE h == Offer(records[n + 1])  f == best["full"]
<1>1. /\ records \in Runs /\ records' = records /\ HourTyped(h)
      /\ n \in Nat /\ n + 1 \in 1 .. OptHours /\ OptHours \in Nat
      /\ Fund(f, records) /\ best'["full"] = After(f, records, h, "full")
      /\ Solved' = n + 1
      /\ \A i \in 1 .. n : parents'[i] = parents[i]
      /\ parents'[n + 1] = Parent(f, records, h)
      /\ optPhase = "solving" /\ optPhase' = "solving"
  BY <1>0, SolveMoves DEF Freedoms
<1> SUFFICES ASSUME NEW t \in AllLevels(records)
             PROVE  /\ Climbs(records, t, n + 1) =>
                         /\ t[n + 2] \in DOMAIN best'["full"]
                         /\ Purse(records, t)[n + 2] <= best'["full"][t[n + 2]]
                    /\ Follows(t, n + 1)' =>
                         /\ Climbs(records, t, n + 1)
                         /\ Purse(records, t)[n + 2] = best'["full"][t[n + 2]]
  <2>1. (n + 1) + 1 = n + 2
    BY <1>1
  <2> QED
    BY <1>1, <2>1 DEF BestInv
<1> DEFINE a == t[n + 1]  b == t[n + 2]  p == Purse(records, t)  v == best'["full"]
<1>2. a \in Window(records) /\ b \in Window(records)
  BY <1>1 DEF AllLevels
<1>3. /\ p[n + 2] = p[n + 1] + Money(h, "full", a, b)
      /\ Money(h, "full", a, b) \in Int /\ p[n + 1] \in Int
  BY <1>1, PurseHolds
<1>4. /\ Climbs(records, t, n) => a \in DOMAIN f /\ p[n + 1] <= f[a]
      /\ Follows(t, n) => Climbs(records, t, n) /\ p[n + 1] = f[a]
  BY <1>0, <1>1 DEF OptimumInv, BestInv
<1>5. Climbs(records, t, n + 1) <=> Climbs(records, t, n) /\ Feasible(records, h, "full", a, b)
  <2>1. 1 .. n + 1 = (1 .. n) \cup {n + 1}
    BY <1>1
  <2>2. (n + 1) + 1 = n + 2
    BY <1>1
  <2> QED
    BY <2>1, <2>2 DEF Climbs
<1>6. ASSUME Climbs(records, t, n + 1)
      PROVE  b \in DOMAIN v /\ p[n + 2] <= v[b]
  <2>1. a \in DOMAIN f /\ p[n + 1] <= f[a] /\ Feasible(records, h, "full", a, b) /\ f[a] \in Int
    BY <1>1, <1>4, <1>5, <1>6 DEF Fund
  <2>2. b \in Reached(f, records, h, "full")
    BY <1>2, <2>1 DEF Reached
  <2>3. /\ f[a] + Money(h, "full", a, b) <= ValueAt(f, records, h, "full", b)
        /\ ValueAt(f, records, h, "full", b) \in Int
    BY <1>1, <2>1, <2>2, ValueHolds
  <2>4. b \in DOMAIN v /\ v[b] = ValueAt(f, records, h, "full", b)
    BY <1>1, <2>2 DEF After
  <2> HIDE DEF f, v, p, a, b, h
  <2> QED
    BY <1>3, <2>1, <2>3, <2>4
<1>7. ASSUME Follows(t, n + 1)'
      PROVE  Climbs(records, t, n + 1) /\ p[n + 2] = v[b]
  <2>1. b \in DOMAIN v /\ a = parents'[n + 1][b]
        /\ \A i \in 1 .. n : t[i + 1] \in DOMAIN parents[i] /\ t[i] = parents[i][t[i + 1]]
    <3>1. (n + 1) + 1 = n + 2 /\ n + 1 \in 1 .. n + 1 /\ \A i \in 1 .. n : i \in 1 .. n + 1
      BY <1>1
    <3> QED
      BY <1>1, <1>7, <3>1 DEF Follows
  <2>2. b \in Reached(f, records, h, "full")
    BY <1>1, <2>1 DEF After
  <2>3. /\ a \in DOMAIN f /\ Feasible(records, h, "full", a, b)
        /\ f[a] + Money(h, "full", a, b) = v[b]
    BY <1>1, <2>1, <2>2, ParentHolds
  <2>4. Follows(t, n)
    BY <2>1, <2>3 DEF Follows
  <2> QED
    BY <1>3, <1>4, <1>5, <2>3, <2>4
<1> QED
  BY <1>6, <1>7

-------------------------------------------------------------------------------
(* The ladder of freedoms. *)

\* Money is everywhere as much or more.
Richer(f, g) == DOMAIN g \subseteq DOMAIN f /\ \A l \in DOMAIN g : g[l] <= f[l]

LEMMA RicherStays ==
  ASSUME NEW rs \in Runs, NEW h, HourTyped(h), NEW m, NEW k, NEW f, NEW g,
         Fund(f, rs), Fund(g, rs), Richer(f, g),
         \A a, b \in Window(rs) : Feasible(rs, h, k, a, b) =>
           Feasible(rs, h, m, a, b) /\ Money(h, k, a, b) <= Money(h, m, a, b)
  PROVE  Richer(After(f, rs, h, m), After(g, rs, h, k))
<1> SUFFICES ASSUME NEW b \in Reached(g, rs, h, k)
             PROVE  /\ b \in Reached(f, rs, h, m)
                    /\ ValueAt(g, rs, h, k, b) <= ValueAt(f, rs, h, m, b)
  BY DEF Richer, After
<1>1. PICK a \in DOMAIN g : /\ Feasible(rs, h, k, a, b)
                            /\ ValueAt(g, rs, h, k, b) = g[a] + Money(h, k, a, b)
  BY ValueHolds
<1>2. a \in Window(rs) /\ b \in Window(rs) /\ a \in DOMAIN f /\ g[a] <= f[a]
      /\ g[a] \in Int /\ f[a] \in Int
  BY DEF Fund, Richer, Reached
<1>3. /\ Feasible(rs, h, m, a, b) /\ Money(h, k, a, b) <= Money(h, m, a, b)
      /\ Money(h, k, a, b) \in Int /\ Money(h, m, a, b) \in Int
  <2>1. a \in Nat /\ b \in Nat
    BY <1>2, WindowHolds
  <2> QED
    BY <1>1, <1>2, <2>1, MoneyTyped
<1>4. b \in Reached(f, rs, h, m)
  BY <1>2, <1>3 DEF Reached
<1>5. /\ f[a] + Money(h, m, a, b) <= ValueAt(f, rs, h, m, b)
      /\ ValueAt(f, rs, h, m, b) \in Int
  BY <1>2, <1>3, <1>4, ValueHolds
<1> QED
  BY <1>1, <1>2, <1>3, <1>4, <1>5

LEMMA GridChargeHelps ==
  ASSUME NEW rs, NEW h, HourTyped(h), NEW a \in Nat, NEW b \in Nat,
         Feasible(rs, h, "fixedCharge", a, b)
  PROVE  /\ Feasible(rs, h, "noPv", a, b)
         /\ Money(h, "fixedCharge", a, b) <= Money(h, "noPv", a, b)
<1>1. Feasible(rs, h, "noPv", a, b)
  BY DEF Feasible, GridAllows
<1>2. \A d : /\ FromPv(h, "fixedCharge", d) = FromPv(h, "noPv", d)
             /\ FromGrid(h, "fixedCharge", d) = FromGrid(h, "noPv", d)
  BY DEF FromPv, FromGrid, PvCap
<1>3. Money(h, "fixedCharge", a, b) = Money(h, "noPv", a, b)
  BY <1>2 DEF Money
<1> QED
  BY <1>1, <1>3, MoneyTyped

LEMMA SunHelps ==
  ASSUME NEW rs, NEW r \in HourRecords, NEW a \in Nat, NEW b \in Nat,
         Feasible(rs, Offer(r), "noPv", a, b),
         Offer(r).tradable => PvPrice(Offer(r)) <= Offer(r).import
  PROVE  /\ Feasible(rs, Offer(r), "full", a, b)
         /\ Money(Offer(r), "noPv", a, b) <= Money(Offer(r), "full", a, b)
<1> DEFINE h == Offer(r)
<1>1. HourTyped(h)
  BY OffersTyped
<1>2. h.pvCharge <= h.surplus
  BY OptimumAssumption DEF OptimumAssumption, Offer
<1> HIDE DEF h
<1>3. Feasible(rs, h, "full", a, b)
  BY DEF Feasible, GridAllows, h
<1>4. CASE ~(b > a)
  <2>1. Money(h, "noPv", a, b) = Money(h, "full", a, b)
    BY <1>4 DEF Money
  <2> QED
    BY <1>1, <1>3, <2>1, MoneyTyped DEF h
<1>5. CASE b > a
  <2> DEFINE d == b - a
             q == d * LevelDraws
             x == FromPv(h, "noPv", d)
             y == FromPv(h, "full", d)
             price == PvPrice(h)
  <2>1. /\ q \in Int /\ price \in Int /\ h.import \in Int
        /\ h.pvCharge \in Int /\ h.surplus \in Int
    <3>1. LevelDraws \in Nat /\ d \in Int
      BY OptimumAssumption DEF OptimumAssumption
    <3>2. q \in Int
      BY <3>1
    <3> QED
      BY <1>1, <3>2, OptimumAssumption DEF OptimumAssumption, PvPrice, HourTyped
  <2>2. price <= h.import
    BY <1>5 DEF Feasible, h
  <2>3. /\ x = IF h.pvCharge <= q THEN h.pvCharge ELSE q
        /\ y = IF h.surplus <= q THEN h.surplus ELSE q
    BY <2>1, SmallerOfTwo DEF FromPv, PvCap
  <2>4. /\ Money(h, "noPv", a, b) = -(x * price + (q - x) * h.import)
        /\ Money(h, "full", a, b) = -(y * price + (q - y) * h.import)
    BY <1>5 DEF Money, FromGrid
  <2> HIDE DEF q, x, y, price, d
  <2>5. x \in Int /\ y \in Int /\ x <= y
    BY <1>2, <2>1, <2>3
  <2> DEFINE i == h.import
  <2>6. i \in Int /\ price <= i
    BY <2>1, <2>2
  <2> HIDE DEF i
  <2>7. (y - x) * (i - price) >= 0
    BY <2>1, <2>5, <2>6
  <2>8. (y - x) * (i - price) = (x * price + (q - x) * i) - (y * price + (q - y) * i)
    BY <2>1, <2>5, <2>6
  <2>9. /\ x * price + (q - x) * i \in Int /\ y * price + (q - y) * i \in Int
    BY <2>1, <2>5, <2>6
  <2>10. -(x * price + (q - x) * i) <= -(y * price + (q - y) * i)
    BY <2>7, <2>8, <2>9
  <2> QED
    BY <1>3, <2>4, <2>10 DEF h, i
<1> QED
  BY <1>4, <1>5

LEMMA SolveKeepsLadder ==
  ASSUME OptimumInv, SolveHour
  PROVE  LadderInv'
<1>0. PICK n : n = Solved
  OBVIOUS
<1> DEFINE r == records[n + 1]  h == Offer(r)  rs == records
<1>1. /\ rs \in Runs /\ records' = rs /\ HourTyped(h) /\ n + 1 \in 1 .. OptHours
      /\ \A m \in Freedoms : Fund(best[m], rs) /\ best'[m] = After(best[m], rs, h, m)
      /\ optPhase = "solving"
  BY <1>0, SolveMoves
<1>2. /\ Richer(best["noPv"], best["fixedCharge"])
      /\ ImportDearer => Richer(best["full"], best["noPv"])
  BY <1>1 DEF OptimumInv, LadderInv, Richer
<1>3. {"full", "noPv", "fixedCharge"} \subseteq Freedoms
  BY DEF Freedoms
<1>4. \A a \in Window(rs) : a \in Nat
  BY <1>1, WindowHolds
<1>5. Richer(best'["noPv"], best'["fixedCharge"])
  <2>1. \A a, b \in Window(rs) : Feasible(rs, h, "fixedCharge", a, b) =>
          /\ Feasible(rs, h, "noPv", a, b)
          /\ Money(h, "fixedCharge", a, b) <= Money(h, "noPv", a, b)
    BY <1>1, <1>4, GridChargeHelps
  <2> QED
    BY <1>1, <1>2, <1>3, <2>1, RicherStays
<1>6. ASSUME ImportDearer PROVE Richer(best'["full"], best'["noPv"])
  <2>1. r \in HourRecords /\ n + 1 \in DOMAIN records
    BY <1>1 DEF Runs
  <2>2. h.tradable => PvPrice(h) <= h.import
    BY <1>6, <2>1 DEF ImportDearer, Hour
  <2>3. \A a, b \in Window(rs) : Feasible(rs, h, "noPv", a, b) =>
          /\ Feasible(rs, h, "full", a, b)
          /\ Money(h, "noPv", a, b) <= Money(h, "full", a, b)
    BY <1>4, <2>1, <2>2, SunHelps
  <2> QED
    BY <1>1, <1>2, <1>3, <1>6, <2>3, RicherStays
<1>7. ImportDearer' <=> ImportDearer
  BY <1>1 DEF ImportDearer, Hour
<1> QED
  BY <1>5, <1>6, <1>7 DEF LadderInv, Richer

-------------------------------------------------------------------------------
(* The schedule is traced back. *)

LEMMA BeginTraceKeeps ==
  ASSUME OptimumInv, BeginTrace
  PROVE  OptimumInv'
<1> DEFINE f == best["full"]
           L == {l \in DOMAIN f : f[l] = BestOf(f)}
<1>1. /\ records \in Runs /\ Fund(f, records) /\ StartLevel(records) \in DOMAIN f
      /\ optPhase = "solving" /\ Solved = OptHours
      /\ records' = records /\ best' = best /\ parents' = parents
      /\ optPhase' = "tracing" /\ trace' = <<Min(L)>>
  BY DEF BeginTrace, OptimumInv, TablesInv, Fund, Freedoms
<1>2. OptHours \in Nat
  BY OptimumAssumption DEF OptimumAssumption
<1> HIDE DEF f
<1>3. L # {} /\ L \in SUBSET Nat
  <2>1. L # {}
    BY <1>1, MostHolds DEF BestOf
  <2>2. DOMAIN f \subseteq Nat
    BY <1>1, WindowHolds DEF Fund
  <2> QED
    BY <2>1, <2>2
<1>4. Min(L) \in DOMAIN f /\ f[Min(L)] = BestOf(f) /\ Min(L) \in Window(records)
  BY <1>1, <1>3, SmallestExists DEF Fund
<1> HIDE DEF L
<1>5. TraceInv'
  <2>1. /\ trace' \in Seq(Window(records)) /\ Len(trace') = 1 /\ trace'[1] = Min(L)
    BY <1>1, <1>4
  <2>2. DayBest("full")' = BestOf(f)
    BY <1>1 DEF DayBest, f
  <2> QED
    BY <1>1, <1>2, <1>4, <2>1, <2>2 DEF TraceInv, f
<1>6. TablesInv' /\ BestInv' /\ LadderInv'
  BY <1>1, <1>2 DEF OptimumInv, TablesInv, BestInv, LadderInv, ImportDearer, Solved, Follows, Hour
<1> QED
  BY <1>5, <1>6 DEF OptimumInv

LEMMA TraceHourKeeps ==
  ASSUME OptimumInv, TraceHour
  PROVE  OptimumInv'
<1> DEFINE k == Len(trace)  i == OptHours + 1 - k
           before == parents[i][trace[k]]
<1>1. /\ optPhase = "tracing" /\ optPhase' \in {"tracing", "done"}
      /\ records' = records /\ best' = best /\ parents' = parents
      /\ IF k <= OptHours THEN trace' = Append(trace, before) /\ optPhase' = optPhase
         ELSE optPhase' = "done" /\ trace' = trace
  BY DEF TraceHour, Last
<1>2. OptHours \in Nat
  BY OptimumAssumption DEF OptimumAssumption
<1>3. TablesInv /\ TraceInv /\ records \in Runs /\ Solved = OptHours
  BY <1>1 DEF OptimumInv, TablesInv
<1>4. k \in 1 .. OptHours + 1 /\ trace \in Seq(Window(records))
  BY <1>1, <1>3 DEF TraceInv
<1>5. TablesInv' /\ BestInv' /\ LadderInv'
  BY <1>1, <1>2, <1>3 DEF OptimumInv, TablesInv, BestInv, LadderInv, ImportDearer, Solved, Follows, Hour
<1>6. CASE k <= OptHours
  <2>1. i \in 1 .. OptHours
    BY <1>2, <1>4, <1>6
  <2>2. trace[k] \in DOMAIN parents[i]
    <3>1. CASE k = 1
      BY <1>1, <1>2, <1>3, <2>1, <3>1 DEF TraceInv, TablesInv
    <3>2. CASE k # 1
      <4>1. k - 1 \in 1 .. k - 1 /\ OptHours + 1 - (k - 1) = i + 1 /\ (k - 1) + 1 = k /\ i + 1 # 1
            /\ i + 1 \in 1 .. OptHours /\ (i + 1) - 1 = i
        <5>1. k \in Int /\ k >= 1 /\ k <= OptHours
          BY <1>2, <1>4, <1>6
        <5> HIDE DEF k
        <5> QED
          BY <1>2, <3>2, <5>1
      <4>2. trace[k - 1] \in DOMAIN parents[i + 1] /\ trace[k] = parents[i + 1][trace[k - 1]]
        BY <1>1, <1>3, <4>1 DEF TraceInv
      <4>3. trace[k] \in DOMAIN parents[(i + 1) - 1]
        BY <1>1, <1>3, <4>1, <4>2 DEF TablesInv
      <4> QED
        BY <4>1, <4>3
    <3> QED
      BY <3>1, <3>2
  <2>3. before \in Window(records)
    <3>0. \A j \in 1 .. OptHours : \A b \in DOMAIN parents[j] :
            IF j = 1 THEN parents[j][b] = StartLevel(records)
            ELSE parents[j][b] \in DOMAIN parents[j - 1]
      BY <1>1, <1>3 DEF TablesInv
    <3>1. CASE i = 1
      BY <1>3, <2>1, <2>2, <3>0, <3>1, StartInWindow
    <3>2. CASE i # 1
      <4>1. before \in DOMAIN parents[i - 1]
        BY <2>1, <2>2, <3>0, <3>2
      <4>2. i - 1 \in 1 .. OptHours
        BY <1>2, <2>1, <3>2
      <4> QED
        BY <1>1, <1>3, <4>1, <4>2 DEF TablesInv
    <3> QED
      BY <3>1, <3>2
  <2> HIDE DEF before
  <2>4. /\ trace' \in Seq(Window(records)) /\ Len(trace') = k + 1
        /\ \A j \in 1 .. k : trace'[j] = trace[j]
        /\ trace'[k + 1] = before
    BY <1>1, <1>4, <1>6, <2>3
  <2>5. TraceInv'
    <3>1. optPhase' = "tracing" /\ Len(trace') \in 1 .. OptHours + 1
      BY <1>1, <1>2, <1>4, <1>6, <2>4
    <3>2. trace'[1] = trace[1] /\ DayBest("full")' = DayBest("full")
      BY <1>1, <1>4, <2>4 DEF DayBest
    <3>3. ASSUME NEW j \in 1 .. k
          PROVE  /\ trace'[j] \in DOMAIN parents[OptHours + 1 - j]
                 /\ trace'[j + 1] = parents[OptHours + 1 - j][trace'[j]]
      <4>1. CASE j = k
        BY <1>4, <2>2, <2>4, <4>1 DEF before
      <4>2. CASE j # k
        <5>1. j \in 1 .. k - 1 /\ j + 1 \in 1 .. k
          BY <1>4, <4>2
        <5> QED
          BY <1>1, <1>3, <2>4, <5>1 DEF TraceInv
      <4> QED
        BY <4>1, <4>2
    <3>4. Len(trace') - 1 = k
      BY <1>4, <2>4
    <3> QED
      BY <1>1, <1>3, <2>4, <3>1, <3>2, <3>3, <3>4 DEF TraceInv
  <2> QED
    BY <1>5, <2>5 DEF OptimumInv
<1>7. CASE ~(k <= OptHours)
  <2>1. k = OptHours + 1 /\ trace' = trace /\ optPhase' = "done"
    BY <1>1, <1>2, <1>4, <1>7
  <2>2. TraceInv'
    BY <1>1, <1>3, <2>1 DEF TraceInv, DayBest
  <2> QED
    BY <1>5, <2>2 DEF OptimumInv
<1> QED
  BY <1>6, <1>7

LEMMA OptimumAlways == OptSpec => []OptimumInv
<1>1. OptimumInv /\ [OptNext]_optVars => OptimumInv'
  <2> SUFFICES ASSUME OptimumInv, [OptNext]_optVars PROVE OptimumInv'
    OBVIOUS
  <2>1. CASE Pose
    BY <2>1, PoseKeeps
  <2>2. CASE SolveHour
    <3>1. TraceInv'
      BY <2>2 DEF SolveHour, TraceInv
    <3> QED
      BY <2>2, <3>1, SolveKeepsTables, SolveKeepsBest, SolveKeepsLadder DEF OptimumInv
  <2>3. CASE BeginTrace
    BY <2>3, BeginTraceKeeps
  <2>4. CASE TraceHour
    BY <2>4, TraceHourKeeps
  <2>5. CASE UNCHANGED optVars
    <3>1. optPhase' = optPhase /\ records' = records /\ best' = best /\ parents' = parents /\ trace' = trace
      BY <2>5 DEF optVars
    <3> QED
      BY <3>1 DEF OptimumInv, TablesInv, BestInv, LadderInv, TraceInv, ImportDearer, Solved, Follows,
                  Hour, DayBest
  <2> QED
    BY <2>1, <2>2, <2>3, <2>4, <2>5 DEF OptNext
<1> QED
  BY <1>1, OptInitHolds, PTL DEF OptSpec

-------------------------------------------------------------------------------
(* What the invariant says of the optimum. *)

\* The highest power of a period is one that an hour showed.
LEMMA PowerShown ==
  ASSUME NEW rs \in Runs, NEW D \in SUBSET (1 .. OptHours), NEW g, \A j \in D : g[j] \in Nat,
         NEW S, \A y : y \in S <=> \E j \in D : y = g[j], NEW perLevel,
         ~Shown(S), NEW x \in Int, x > 0 => x <= Power(S, perLevel)
  PROVE  \E j \in D : x <= g[j]
<1>1. PowerLevels = 0 /\ S \notin {{}, {0}}
  BY OptimumAssumption DEF OptimumAssumption, Shown
<1>2. Power(S, perLevel) = Max(S)
  BY <1>1 DEF Power
<1>3. D # {} /\ D \in SUBSET (0 .. OptHours) /\ OptHours \in Nat
  BY <1>1, OptimumAssumption DEF OptimumAssumption
<1>4. Max(S) \in S
  <2>1. \A j \in D : g[j] \in Int
    OBVIOUS
  <2>2. NumbersOf(S, D, g)
    BY <2>1 DEF NumbersOf
  <2> QED
    BY <1>3, <2>2, LargestExists
<1>5. PICK j \in D : Max(S) = g[j]
  BY <1>4
<1> QED
  BY <1>2, <1>5

LEMMA MovesShown ==
  ASSUME NEW rs \in Runs, records = rs, NEW i \in 1 .. OptHours, NEW a \in Nat, NEW b \in Nat,
         Feasible(rs, Offer(rs[i]), "full", a, b)
  PROVE  LET climbed == b - a
             dropped == a - b
         IN  /\ Shown({rs[j].charged : j \in Seen(rs)})
                  \/ \E j \in Seen(rs) : climbed * LevelDraws <= rs[j].charged
             /\ Shown({rs[j].discharged : j \in Seen(rs)})
                  \/ \E j \in Seen(rs) : dropped * LevelGives <= rs[j].discharged
             /\ climbed # 0 => rs[i].priced
<1> DEFINE c == b - a
           d == a - b
<1>1. LevelDraws \in Nat /\ LevelGives \in Nat /\ c \in Int /\ d \in Int
  BY OptimumAssumption DEF OptimumAssumption
<1>2. c # 0 => rs[i].priced
  BY DEF Feasible, Offer
<1>3. Seen(rs) \in SUBSET (1 .. OptHours)
  BY DEF Seen, Runs
<1>4. \A j \in Seen(rs) : rs[j].charged \in Nat /\ rs[j].discharged \in Nat
  BY <1>3, OptimumAssumption DEF OptimumAssumption, Runs
<1>5. /\ c * LevelDraws \in Int /\ d * LevelGives \in Int
      /\ ~(b > a) => c * LevelDraws <= 0
      /\ ~(b < a) => d * LevelGives <= 0
  <2>1. ~(b > a) <=> c <= 0
    OBVIOUS
  <2>2. ~(b < a) <=> d <= 0
    OBVIOUS
  <2> HIDE DEF c, d
  <2>3. c <= 0 => c * LevelDraws <= 0
    BY <1>1
  <2>4. d <= 0 => d * LevelGives <= 0
    BY <1>1
  <2>5. c * LevelDraws \in Int /\ d * LevelGives \in Int
    BY <1>1
  <2> QED
    BY <2>1, <2>2, <2>3, <2>4, <2>5
<1>6. /\ b > a => c * LevelDraws <= MaxCharge(rs)
      /\ b < a => d * LevelGives <= MaxDischarge(rs)
  BY DEF Feasible
<1> DEFINE g == [j \in Seen(rs) |-> rs[j].charged]
           k == [j \in Seen(rs) |-> rs[j].discharged]
           C == {rs[j].charged : j \in Seen(rs)}
           E == {rs[j].discharged : j \in Seen(rs)}
<1>7. /\ \A y : y \in C <=> \E j \in Seen(rs) : y = g[j]
      /\ \A y : y \in E <=> \E j \in Seen(rs) : y = k[j]
      /\ \A j \in Seen(rs) : g[j] = rs[j].charged /\ k[j] = rs[j].discharged
  OBVIOUS
<1>8. MaxCharge(rs) = Power(C, LevelDraws) /\ MaxDischarge(rs) = Power(E, LevelGives)
  BY DEF MaxCharge, MaxDischarge
<1> HIDE DEF c, d, g, k, C, E
<1> DEFINE up == c * LevelDraws  down == d * LevelGives
<1>9. /\ up \in Int /\ (up > 0 => up <= Power(C, LevelDraws))
      /\ down \in Int /\ (down > 0 => down <= Power(E, LevelGives))
  <2>1. up > 0 => b > a
    BY <1>5
  <2>2. down > 0 => b < a
    BY <1>5
  <2> QED
    BY <1>5, <1>6, <1>8, <2>1, <2>2
<1> HIDE DEF up, down
<1>10. Shown(C) \/ \E j \in Seen(rs) : up <= g[j]
  BY <1>3, <1>4, <1>7, <1>9, PowerShown
<1>11. Shown(E) \/ \E j \in Seen(rs) : down <= k[j]
  BY <1>3, <1>4, <1>7, <1>9, PowerShown
<1> QED
  BY <1>2, <1>7, <1>10, <1>11 DEF c, d, up, down, C, E

LEMMA ScheduleHolds == OptimumInv => ScheduleIsBest
<1> SUFFICES ASSUME OptimumInv, optPhase = "done" PROVE ScheduleIsBest
  BY DEF ScheduleIsBest
<1> DEFINE n == OptHours  f == best["full"]  t == Reverse(trace)
<1>1. /\ records \in Runs /\ Fund(f, records) /\ f = best["full"] /\ Solved = n /\ DOMAIN f # {}
      /\ n \in Nat
  BY OptimumAssumption DEF OptimumAssumption, OptimumInv, TablesInv, Fund, Freedoms
<1>2. /\ trace \in Seq(Window(records)) /\ Len(trace) = n + 1
      /\ trace[1] \in DOMAIN f /\ f[trace[1]] = DayBest("full")
      /\ \A k \in 1 .. n : /\ trace[k] \in DOMAIN parents[n + 1 - k]
                           /\ trace[k + 1] = parents[n + 1 - k][trace[k]]
  BY <1>1 DEF OptimumInv, TraceInv
<1>3. \A i \in 1 .. n + 1 : t[i] = trace[n + 2 - i] /\ t[i] \in Window(records)
  BY <1>1, <1>2 DEF Reverse
<1>4. t \in AllLevels(records)
  <2>1. t = [i \in 1 .. n + 1 |-> t[i]]
    BY <1>2 DEF Reverse
  <2> HIDE DEF t
  <2> QED
    BY <1>3, <2>1 DEF AllLevels
<1> HIDE DEF t
<1>5. Follows(t, n)
  <2>1. t[n + 1] \in DOMAIN f
    <3>1. n + 1 \in 1 .. n + 1 /\ n + 2 - (n + 1) = 1
      BY <1>1
    <3> QED
      BY <1>2, <1>3, <3>1
  <2>2. ASSUME NEW i \in 1 .. n
        PROVE  t[i + 1] \in DOMAIN parents[i] /\ t[i] = parents[i][t[i + 1]]
    <3> DEFINE k == n + 1 - i
    <3>1. /\ k \in 1 .. n /\ n + 1 - k = i /\ n + 2 - (i + 1) = k /\ n + 2 - i = k + 1
          /\ i \in 1 .. n + 1 /\ i + 1 \in 1 .. n + 1
      BY <1>1
    <3>2. t[i] = trace[k + 1] /\ t[i + 1] = trace[k]
      <4>1. t[i] = trace[n + 2 - i]
        BY <1>3, <3>1
      <4>2. t[i + 1] = trace[n + 2 - (i + 1)]
        BY <1>3, <3>1
      <4> QED
        BY <3>1, <4>1, <4>2
    <3> HIDE DEF k
    <3>3. trace[k] \in DOMAIN parents[n + 1 - k] /\ trace[k + 1] = parents[n + 1 - k][trace[k]]
      BY <1>2, <3>1
    <3> QED
      BY <3>1, <3>2, <3>3
  <2> QED
    BY <2>1, <2>2 DEF Follows
<1>6. t[n + 1] = trace[1]
  <2>1. n + 1 \in 1 .. n + 1 /\ n + 2 - (n + 1) = 1
    BY <1>1
  <2> QED
    BY <1>3, <2>1
<1>7. Climbs(records, t, n) /\ Earned(t) = DayBest("full")
  BY <1>1, <1>2, <1>4, <1>5, <1>6 DEF OptimumInv, BestInv, Earned
<1>8. WithinShown(t)
  <2> SUFFICES ASSUME NEW i \in 1 .. OptHours
               PROVE  LET climbed == t[i + 1] - t[i]
                          dropped == t[i] - t[i + 1]
                      IN  /\ Shown({records[j].charged : j \in Seen(records)})
                               \/ \E j \in Seen(records) : climbed * LevelDraws <= records[j].charged
                          /\ Shown({records[j].discharged : j \in Seen(records)})
                               \/ \E j \in Seen(records) : dropped * LevelGives <= records[j].discharged
                          /\ climbed # 0 => records[i].priced
    BY DEF WithinShown
  <2>1. t[i] \in Nat /\ t[i + 1] \in Nat
    BY <1>1, <1>3, WindowHolds
  <2>2. Feasible(records, Offer(records[i]), "full", t[i], t[i + 1])
    BY <1>7 DEF Climbs
  <2> QED
    BY <1>1, <2>1, <2>2, MovesShown
<1>9. ASSUME NEW u \in Trajectories PROVE Earned(u) <= DayBest("full")
  <2>1. u \in AllLevels(records) /\ Climbs(records, u, n)
    BY DEF Trajectories, AllLevels, Climbs, Hour
  <2>2. u[n + 1] \in DOMAIN f /\ Earned(u) <= f[u[n + 1]]
    BY <1>1, <2>1 DEF OptimumInv, BestInv, Earned
  <2>3. f[u[n + 1]] <= DayBest("full") /\ DayBest("full") \in Int /\ f[u[n + 1]] \in Int
    BY <1>1, <2>2, MostHolds DEF DayBest, BestOf, Fund
  <2>4. Earned(u) \in Int
    BY <1>1, <2>1, PurseHolds DEF Earned
  <2> QED
    BY <2>2, <2>3, <2>4
<1> QED
  BY <1>7, <1>8, <1>9 DEF ScheduleIsBest, Climbs, t

LEMMA RicherEarnsMore ==
  ASSUME NEW rs \in Runs, NEW f, NEW g, Fund(f, rs), Fund(g, rs), Richer(f, g),
         StartLevel(rs) \in DOMAIN g, records = rs
  PROVE  /\ BestOf(g) <= BestOf(f)
         /\ LET from(e) == Max({e[l] : l \in {l \in DOMAIN e : l >= StartLevel(rs)}})
            IN  from(g) <= from(f) /\ g[StartLevel(rs)] <= from(g) /\ from(g) \in Int
<1> DEFINE s == StartLevel(rs)
           G == {l \in DOMAIN g : l >= s}
           F == {l \in DOMAIN f : l >= s}
<1>1. s \in Nat
  BY StartInWindow, WindowHolds
<1>2. s \in G /\ G \subseteq DOMAIN g /\ F \subseteq DOMAIN f /\ DOMAIN g \subseteq DOMAIN f /\ G \subseteq F
  BY <1>1 DEF Richer
<1>3. ASSUME NEW D \in SUBSET DOMAIN g, NEW E \in SUBSET DOMAIN f, D # {}, D \subseteq E
      PROVE  Max({g[l] : l \in D}) <= Max({f[l] : l \in E})
  <2>1. PICK l \in D : Max({g[k] : k \in D}) = g[l]
    BY <1>3, MostHolds
  <2>2. f[l] <= Max({f[k] : k \in E}) /\ Max({f[k] : k \in E}) \in Int
    BY <1>3, MostHolds
  <2>3. g[l] <= f[l] /\ g[l] \in Int /\ f[l] \in Int
    BY <1>3 DEF Richer, Fund
  <2> QED
    BY <2>1, <2>2, <2>3
<1> HIDE DEF F, G
<1>4. BestOf(g) <= BestOf(f)
  BY <1>2, <1>3 DEF BestOf
<1>5. Max({g[l] : l \in G}) <= Max({f[l] : l \in F})
  BY <1>2, <1>3
<1>6. g[s] <= Max({g[l] : l \in G}) /\ Max({g[l] : l \in G}) \in Int
  BY <1>2, MostHolds
<1> QED
  BY <1>4, <1>5, <1>6 DEF F, G

LEMMA LadderHolds == OptimumInv => LadderDescends
<1> SUFFICES ASSUME OptimumInv, optPhase = "done" PROVE LadderDescends
  BY DEF LadderDescends
<1> DEFINE s == StartLevel(records)
<1>1. /\ records \in Runs
      /\ \A m \in Freedoms : Fund(best[m], records) /\ s \in DOMAIN best[m] /\ best[m][s] >= 0
      /\ {"full", "noPv", "fixedCharge"} = Freedoms
  BY DEF OptimumInv, TablesInv, Fund, Freedoms
<1>2. /\ Richer(best["noPv"], best["fixedCharge"])
      /\ ImportDearer => Richer(best["full"], best["noPv"])
  BY DEF OptimumInv, LadderInv, Richer
<1>3. /\ DayBest("fixedCharge") <= DayBest("noPv")
      /\ MonthBest("fixedCharge") <= MonthBest("noPv")
      /\ best["fixedCharge"][s] <= MonthBest("fixedCharge") /\ MonthBest("fixedCharge") \in Int
  BY <1>1, <1>2, RicherEarnsMore DEF DayBest, MonthBest
<1>4. ASSUME ImportDearer
      PROVE  DayBest("noPv") <= DayBest("full") /\ MonthBest("noPv") <= MonthBest("full")
  BY <1>1, <1>2, <1>4, RicherEarnsMore DEF DayBest, MonthBest
<1>5. best["fixedCharge"][s] >= 0 /\ best["fixedCharge"][s] \in Int
  BY <1>1 DEF Fund
<1>6. /\ DayBest("fixedCharge") \in Int /\ DayBest("noPv") \in Int /\ DayBest("full") \in Int
      /\ MonthBest("fixedCharge") \in Int /\ MonthBest("noPv") \in Int /\ MonthBest("full") \in Int
  <2>1. ASSUME NEW m \in Freedoms PROVE DayBest(m) \in Int /\ MonthBest(m) \in Int
    <3> DEFINE f == best[m]  D == {l \in DOMAIN f : l >= s}
    <3>1. s \in D /\ D \in SUBSET DOMAIN f /\ Fund(f, records)
      BY <1>1, StartInWindow, WindowHolds
    <3> HIDE DEF D
    <3>2. Max({f[l] : l \in D}) \in Int
      BY <1>1, <3>1, MostHolds
    <3>3. DOMAIN f # {}
      BY <3>1
    <3>4. BestOf(f) \in Int
      BY <1>1, <3>1, <3>3, MostHolds DEF BestOf
    <3> QED
      BY <3>2, <3>4 DEF DayBest, MonthBest, D
  <2> QED
    BY <1>1, <2>1
<1> HIDE DEF s
<1> QED
  BY <1>3, <1>4, <1>5, <1>6 DEF LadderDescends

(* The schedule drawn of a day starts at its residual, keeps within what   *)
(* the battery has shown and earns what the optimum says; no run of levels *)
(* the day allows earns more; and the money grows with the freedom given   *)
(* (optimizeDaySchedule and the ladder of monthly.go), for every number of *)
(* hours and of levels, every capacity and every price.                    *)
THEOREM OptimumIsTheBest == OptSpec => []OptimumIsBest
<1>1. OptimumInv => OptimumIsBest
  BY ScheduleHolds, LadderHolds DEF OptimumIsBest
<1> QED
  BY <1>1, OptimumAlways, PTL

-------------------------------------------------------------------------------
(* Exchange rates. *)

Filled(d) == fxRows[d] # NoRate /\ fxRows[d].fetched >= Noon(d)

RatesInv ==
  /\ fxClock \in 0 .. LastFxTick /\ fxRows = [d \in FxDays |-> fxRows[d]]
  /\ \A d \in FxDays : fxRows[d] # NoRate =>
       (\E t \in 0 .. LastFxTick : fxRows[d].uah = Market[t]) /\ fxRows[d].fetched \in 0 .. fxClock

PassInv ==
  /\ DOMAIN fxPass = {"at", "now", "final", "day"}
  /\ fxPass.at = "fetching" =>
       /\ fxPass.now \in 0 .. fxClock
       /\ fxPass.final \subseteq 0 .. FxDayOf(fxPass.now) - 1
       /\ fxPass.day \in 0 .. FxDayOf(fxPass.now)
       /\ \A d \in 0 .. FxDayOf(fxPass.now) - 1 : d < fxPass.day \/ d \in fxPass.final => Filled(d)

StatusInv ==
  /\ DOMAIN fxStatus = {"success", "failed"}
  /\ fxStatus.success # NoRate => fxStatus.success \in 0 .. fxClock
  /\ SuccessMeansFilled

FxInv == RatesInv /\ PassInv /\ StatusInv

LEMMA FxDayHolds ==
  ASSUME NEW t \in Nat
  PROVE  /\ FxDayOf(t) \in Nat /\ FxDayOf(t) * FxTicks <= t
         /\ \A d \in Nat : Noon(d) \in Nat /\ (d < FxDayOf(t) => Noon(d) <= t)
         /\ \A u \in Nat : t <= u => FxDayOf(t) <= FxDayOf(u)
<1> DEFINE n == FxTicks
<1>1. n \in Nat \ {0} /\ RateHour \in 0 .. n - 1
  BY FxAssumption DEF FxAssumption
<1> HIDE DEF n
<1>2. \A u \in Nat : /\ u \div n \in Nat /\ u % n \in 0 .. n - 1
                     /\ u = n * (u \div n) + (u % n)
  BY <1>1
<1>3. (t \div n) * n <= t
  BY <1>1, <1>2
<1>4. ASSUME NEW d \in Nat PROVE d * n + RateHour \in Nat /\ (d < t \div n => d * n + RateHour <= t)
  <2>1. d * n \in Nat
    BY <1>1
  <2>2. ASSUME d < t \div n PROVE d * n + RateHour <= t
    <3>1. (d + 1) * n <= (t \div n) * n
      BY <1>1, <1>2, <2>2
    <3>2. (d + 1) * n = d * n + n
      BY <1>1
    <3>3. (t \div n) * n \in Int
      BY <1>1, <1>2
    <3> QED
      BY <1>1, <1>3, <2>1, <3>1, <3>2, <3>3
  <2> QED
    BY <1>1, <2>1, <2>2
<1>5. ASSUME NEW u \in Nat, t <= u PROVE t \div n <= u \div n
  <2> SUFFICES ASSUME u \div n + 1 <= t \div n PROVE FALSE
    BY <1>2
  <2>1. (u \div n + 1) * n <= (t \div n) * n
    BY <1>1, <1>2
  <2>2. u < (u \div n + 1) * n
    BY <1>1, <1>2
  <2> QED
    BY <1>1, <1>2, <1>3, <1>5, <2>1, <2>2
<1> QED
  BY <1>2, <1>3, <1>4, <1>5 DEF FxDayOf, Noon, n

LEMMA FxDaysHold ==
  ASSUME NEW t \in 0 .. LastFxTick
  PROVE  /\ LastFxDay \in Nat /\ FxDayOf(t) \in FxDays
         /\ \A d \in 0 .. FxDayOf(t) : d \in FxDays
<1>1. t \in Nat /\ LastFxTick \in Nat /\ t <= LastFxTick
  BY FxAssumption DEF FxAssumption
<1>2. FxDayOf(t) \in Nat /\ FxDayOf(LastFxTick) \in Nat /\ FxDayOf(t) <= FxDayOf(LastFxTick)
  BY <1>1, FxDayHolds
<1>3. FxDayOf(LastFxTick) = LastFxDay
  BY DEF FxDayOf, LastFxDay
<1> QED
  BY <1>2, <1>3 DEF FxDays

LEMMA FxInitHolds == FxInit => FxInv
<1> SUFFICES ASSUME FxInit PROVE FxInv
  OBVIOUS
<1>1. LastFxTick \in Nat
  BY FxAssumption DEF FxAssumption
<1> QED
  BY <1>1 DEF FxInit, FxInv, RatesInv, PassInv, StatusInv, IdlePass, NoStatus, SuccessMeansFilled

\* A pass asks for a day that is not final, and the days it skips are.
LEMMA AskedHolds ==
  ASSUME FxInv, fxPass.at = "fetching"
  PROVE  /\ DayAsked \in 0 .. FxDayOf(fxPass.now) /\ DayAsked >= fxPass.day /\ DayAsked \in FxDays
         /\ \A d \in 0 .. FxDayOf(fxPass.now) - 1 : d < DayAsked => Filled(d)
         /\ AskedAt(DayAsked) \in 0 .. LastFxTick
<1> DEFINE running == FxDayOf(fxPass.now)
           S == (fxPass.day .. running) \ fxPass.final
<1>1. /\ fxPass.now \in 0 .. fxClock /\ fxPass.now \in 0 .. LastFxTick /\ fxPass.now \in Nat
      /\ fxPass.final \subseteq 0 .. running - 1 /\ fxPass.day \in 0 .. running
      /\ \A d \in 0 .. running - 1 : d < fxPass.day \/ d \in fxPass.final => Filled(d)
  BY FxAssumption DEF FxAssumption, FxInv, RatesInv, PassInv
<1>2. running \in Nat
  BY <1>1, FxDayHolds
<1> HIDE DEF running
<1>3. running \in S /\ S \in SUBSET Nat
  BY <1>1, <1>2
<1>4. Min(S) \in S /\ \A y \in S : Min(S) <= y
  BY <1>3, SmallestExists
<1>5. DayAsked = Min(S)
  BY DEF DayAsked, running
<1>6. DayAsked \in 0 .. running /\ DayAsked >= fxPass.day
  BY <1>1, <1>2, <1>4, <1>5
<1>7. ASSUME NEW d \in 0 .. running - 1, d < DayAsked PROVE Filled(d)
  <2>1. d \notin S
    BY <1>2, <1>4, <1>5, <1>6, <1>7
  <2>2. d < fxPass.day \/ d \in fxPass.final
    BY <1>1, <1>2, <2>1
  <2> QED
    BY <1>1, <2>2
<1>8. DayAsked \in FxDays
  BY <1>1, <1>6, FxDaysHold DEF running
<1>9. AskedAt(DayAsked) \in 0 .. LastFxTick
  <2>1. DayAsked \in Nat
    BY <1>2, <1>6
  <2>2. Noon(DayAsked) \in Nat
    BY <1>1, <2>1, FxDayHolds
  <2>3. AskedAt(DayAsked) = IF fxPass.now <= Noon(DayAsked) THEN fxPass.now ELSE Noon(DayAsked)
    BY <1>1, <2>2, SmallerOfTwo DEF AskedAt
  <2>4. LastFxTick \in Nat
    BY FxAssumption DEF FxAssumption
  <2> QED
    BY <1>1, <2>2, <2>3, <2>4
<1> QED
  BY <1>6, <1>7, <1>8, <1>9 DEF running

LEMMA BeginPassKeeps == FxInv /\ BeginPass => FxInv'
<1> SUFFICES ASSUME FxInv, BeginPass PROVE FxInv'
  OBVIOUS
<1>1. /\ fxClock' = fxClock /\ fxRows' = fxRows /\ fxStatus' = fxStatus
      /\ fxPass' = [at |-> "fetching", now |-> fxClock, final |-> FinalDays(FxDayOf(fxClock)), day |-> 0]
  BY DEF BeginPass
<1>2. fxClock \in Nat /\ fxClock \in 0 .. LastFxTick
  BY FxAssumption DEF FxAssumption, FxInv, RatesInv
<1>3. FxDayOf(fxClock) \in Nat
  BY <1>2, FxDayHolds
<1>4. \A d \in FinalDays(FxDayOf(fxClock)) : d \in 0 .. FxDayOf(fxClock) - 1 /\ Filled(d)
  BY DEF FinalDays, Filled
<1>5. PassInv'
  BY <1>1, <1>2, <1>3, <1>4 DEF PassInv, Filled
<1>6. RatesInv' /\ StatusInv'
  BY <1>1 DEF FxInv, RatesInv, StatusInv, SuccessMeansFilled
<1> QED
  BY <1>5, <1>6 DEF FxInv

LEMMA FetchDayKeeps == FxInv /\ FetchDay => FxInv'
<1> SUFFICES ASSUME FxInv, FetchDay PROVE FxInv'
  OBVIOUS
<1> DEFINE e == DayAsked  running == FxDayOf(fxPass.now)
           row == [asked |-> AskedAt(e), uah |-> Market[AskedAt(e)], fetched |-> fxClock]
<1>1. /\ fxPass.at = "fetching" /\ fxClock' = fxClock /\ fxRows' = [fxRows EXCEPT ![e] = row]
      /\ IF e < running THEN fxPass' = [fxPass EXCEPT !.day = e + 1] /\ fxStatus' = fxStatus
         ELSE fxPass' = IdlePass /\ fxStatus' = [success |-> fxPass.now, failed |-> FALSE]
  BY DEF FetchDay
<1>2. /\ e \in 0 .. running /\ e \in FxDays /\ AskedAt(e) \in 0 .. LastFxTick
      /\ \A d \in 0 .. running - 1 : d < e => Filled(d)
  BY <1>1, AskedHolds
<1>3. /\ LastFxTick \in Nat /\ fxClock \in 0 .. LastFxTick /\ fxClock \in Nat /\ fxPass.now \in 0 .. fxClock
      /\ fxRows = [d \in FxDays |-> fxRows[d]]
      /\ \A d \in FxDays : fxRows[d] # NoRate =>
           (\E t \in 0 .. LastFxTick : fxRows[d].uah = Market[t]) /\ fxRows[d].fetched \in 0 .. fxClock
      /\ fxPass.final \subseteq 0 .. running - 1 /\ fxPass.day \in 0 .. running
      /\ \A d \in 0 .. running - 1 : d < fxPass.day \/ d \in fxPass.final => Filled(d)
      /\ DOMAIN fxPass = {"at", "now", "final", "day"}
  BY <1>1, FxAssumption DEF FxAssumption, FxInv, RatesInv, PassInv
<1>4. running \in Nat /\ fxPass.now \in Nat /\ fxPass.now \in 0 .. LastFxTick
  <2>1. fxPass.now \in Nat /\ fxPass.now \in 0 .. LastFxTick
    BY <1>3
  <2> QED
    BY <2>1, FxDayHolds
<1>5. \A d \in Nat : Noon(d) \in Nat /\ (d < running => Noon(d) <= fxPass.now)
  BY <1>4, FxDayHolds
<1>6. row # NoRate
  <2>1. AskedAt(e) \in Nat /\ Market[AskedAt(e)] \in Nat
    BY <1>2, FxAssumption DEF FxAssumption
  <2>2. row \in [asked : Nat, uah : Nat, fetched : Nat]
    BY <1>3, <2>1
  <2> QED
    BY <2>2, FxAssumption DEF FxAssumption
<1>7. fxRows'[e] = row /\ \A d \in FxDays : d # e => fxRows'[d] = fxRows[d]
  BY <1>1, <1>2, <1>3
<1>8. RatesInv'
  <2>1. fxRows' = [d \in FxDays |-> fxRows'[d]]
    BY <1>1, <1>3
  <2>2. ASSUME NEW d \in FxDays, fxRows'[d] # NoRate
        PROVE  (\E t \in 0 .. LastFxTick : fxRows'[d].uah = Market[t]) /\ fxRows'[d].fetched \in 0 .. fxClock
    BY <1>2, <1>3, <1>7, <2>2
  <2> QED
    BY <1>1, <1>3, <2>1, <2>2 DEF RatesInv
<1>9. ASSUME NEW d \in FxDays, d \in Nat, Noon(d) <= fxClock, Filled(d) PROVE Filled(d)'
  BY <1>3, <1>5, <1>6, <1>7, <1>9 DEF Filled, Noon
<1>10. ASSUME NEW d \in 0 .. running - 1 PROVE d \in FxDays /\ d \in Nat /\ Noon(d) <= fxClock
  <2>1. d \in 0 .. running /\ d \in Nat /\ d < running
    BY <1>4
  <2>2. d \in FxDays
    BY <1>4, <2>1, FxDaysHold
  <2> QED
    BY <1>3, <1>5, <2>1, <2>2
<1>11. ASSUME NEW d \in 0 .. running - 1, d = e PROVE Filled(d)'
  <2>1. fxRows'[d] = row /\ Noon(d) <= fxClock
    BY <1>7, <1>10, <1>11
  <2> QED
    BY <1>6, <2>1 DEF Filled, Noon
<1>12. \A d \in 0 .. running - 1 : d < e \/ d \in fxPass.final \/ d = e => Filled(d)'
  BY <1>2, <1>3, <1>9, <1>10, <1>11
<1>13. PassInv'
  <2>1. CASE e < running
    <3>1. /\ DOMAIN fxPass' = {"at", "now", "final", "day"} /\ fxPass'.now = fxPass.now
          /\ fxPass'.final = fxPass.final /\ fxPass'.day = e + 1
      BY <1>1, <1>3, <2>1
    <3>2. e + 1 \in 0 .. running /\ \A d \in 0 .. running - 1 : d < e + 1 => d < e \/ d = e
      BY <1>2, <1>4, <2>1
    <3>3. \A d \in 0 .. running - 1 : d < e + 1 \/ d \in fxPass.final => Filled(d)'
      BY <1>12, <3>2
    <3>4. FxDayOf(fxPass'.now) = running
      BY <3>1
    <3> HIDE DEF running, e, row
    <3> QED
      BY <1>1, <1>3, <3>1, <3>2, <3>3, <3>4 DEF PassInv
  <2>2. CASE ~(e < running)
    BY <1>1, <2>2 DEF PassInv, IdlePass
  <2> QED
    BY <2>1, <2>2
<1>14. StatusInv'
  <2>1. CASE e < running
    <3>1. fxStatus' = fxStatus
      BY <1>1, <2>1
    <3>2. SuccessMeansFilled'
      <4> SUFFICES ASSUME fxStatus.success # NoRate, NEW d \in 0 .. FxDayOf(fxStatus.success) - 1
                   PROVE  Filled(d)'
        BY <3>1 DEF SuccessMeansFilled, Filled, Noon, FxDayOf
      <4> DEFINE s == fxStatus.success
      <4>1. s \in 0 .. fxClock /\ s \in Nat /\ s \in 0 .. LastFxTick /\ Filled(d)
        BY <1>3 DEF FxInv, StatusInv, SuccessMeansFilled, Filled
      <4>2. FxDayOf(s) \in Nat /\ \A k \in Nat : Noon(k) \in Nat /\ (k < FxDayOf(s) => Noon(k) <= s)
        BY <4>1, FxDayHolds
      <4>3. d \in 0 .. FxDayOf(s) /\ d \in Nat /\ d < FxDayOf(s)
        BY <4>2
      <4>4. d \in FxDays
        BY <4>1, <4>3, FxDaysHold
      <4>5. Noon(d) <= fxClock
        BY <1>3, <4>1, <4>2, <4>3
      <4> QED
        BY <1>9, <4>1, <4>3, <4>4, <4>5
    <3> QED
      BY <1>1, <3>1, <3>2 DEF FxInv, StatusInv
  <2>2. CASE ~(e < running)
    <3>1. e = running /\ fxStatus' = [success |-> fxPass.now, failed |-> FALSE]
      BY <1>1, <1>2, <1>4, <2>2
    <3>2. \A d \in 0 .. running - 1 : Filled(d)'
      BY <1>4, <1>12, <3>1
    <3>3. SuccessMeansFilled'
      BY <3>1, <3>2 DEF SuccessMeansFilled, Filled, Noon, FxDayOf
    <3> QED
      BY <1>1, <1>3, <3>1, <3>3 DEF StatusInv
  <2> QED
    BY <2>1, <2>2
<1> QED
  BY <1>8, <1>13, <1>14 DEF FxInv

LEMMA FxOthersKeep ==
  FxInv /\ (FetchFails \/ RestartSync \/ PutFxSettings \/ FxTick \/ UNCHANGED fxVars) => FxInv'
<1> SUFFICES ASSUME FxInv, FetchFails \/ RestartSync \/ PutFxSettings \/ FxTick \/ UNCHANGED fxVars
             PROVE  FxInv'
  OBVIOUS
<1>1. /\ fxRows' = fxRows
      /\ fxClock' = fxClock \/ (fxClock < LastFxTick /\ fxClock' = fxClock + 1)
      /\ fxPass' = fxPass \/ fxPass' = IdlePass
      /\ \/ fxStatus' = fxStatus \/ fxStatus' = NoStatus
         \/ fxStatus' = [fxStatus EXCEPT !.failed = TRUE]
  <2>1. CASE FetchFails
    BY <2>1 DEF FetchFails
  <2>2. CASE RestartSync
    BY <2>2 DEF RestartSync
  <2>3. CASE PutFxSettings
    BY <2>3 DEF PutFxSettings
  <2>4. CASE FxTick
    BY <2>4 DEF FxTick
  <2>5. CASE UNCHANGED fxVars
    BY <2>5 DEF fxVars
  <2> QED
    BY <2>1, <2>2, <2>3, <2>4, <2>5
<1>2. fxClock \in 0 .. LastFxTick /\ fxClock' \in 0 .. LastFxTick /\ fxClock <= fxClock'
  BY <1>1, FxAssumption DEF FxAssumption, FxInv, RatesInv
<1>3. RatesInv'
  BY <1>1, <1>2 DEF FxInv, RatesInv
<1>4. PassInv'
  BY <1>1, <1>2 DEF FxInv, PassInv, IdlePass, Filled
<1>5. StatusInv'
  <2>1. DOMAIN fxStatus' = {"success", "failed"} /\ fxStatus'.success \in {fxStatus.success, NoRate}
    BY <1>1 DEF FxInv, StatusInv, NoStatus
  <2> QED
    BY <1>1, <1>2, <2>1 DEF FxInv, StatusInv, SuccessMeansFilled
<1> QED
  BY <1>3, <1>4, <1>5 DEF FxInv

LEMMA RatesAlways == FxSpec => []FxInv
<1>1. FxInv /\ [FxNext]_fxVars => FxInv'
  BY BeginPassKeeps, FetchDayKeeps, FxOthersKeep DEF FxNext
<1> QED
  BY <1>1, FxInitHolds, PTL DEF FxSpec

\* The running sums are what they are defined as.
LEMMA SumsHold ==
  ASSUME NEW worth, \A d \in FxDays : worth[d] \in Int, LastFxDay \in Nat
  PROVE  /\ Sums(worth)[0] = 0 /\ \A n \in 0 .. LastFxDay + 1 : Sums(worth)[n] \in Int
         /\ \A n \in FxDays : Sums(worth)[n + 1] = Sums(worth)[n] + worth[n]
<1> DEFINE m == LastFxDay + 1
           gain == [i \in 2 .. m + 1 |-> worth[i - 2]]
           Is(s) == s = [n \in 0 .. m |-> IF n = 0 THEN 0 ELSE s[n - 1] + worth[n - 1]]
           sums == CHOOSE s : Is(s)
<1>1. m \in Nat /\ \A i \in 2 .. m + 1 : gain[i] \in Int /\ gain[i] = worth[i - 2]
  BY DEF FxDays
<1> HIDE DEF gain
<1>2. PICK p : p = [i \in 1 .. m + 1 |-> IF i = 1 THEN 0 ELSE p[i - 1] + gain[i]]
  BY <1>1, PurseExists
<1> DEFINE q == [n \in 0 .. m |-> p[n + 1]]
<1>3. \A n \in 0 .. m : q[n] = IF n = 0 THEN 0 ELSE q[n - 1] + worth[n - 1]
  BY <1>1, <1>2
<1>4. Is(q)
  <2>1. q = [n \in 0 .. m |-> q[n]]
    OBVIOUS
  <2> HIDE DEF q, m
  <2> QED
    BY <1>3, <2>1
<1> HIDE DEF q, Is
<1>5. Is(sums)
  BY <1>4
<1>6. Sums(worth) = sums
  BY DEF Sums, Is, m, sums
<1> HIDE DEF sums
<1>7. \A n \in 0 .. m : sums[n] = IF n = 0 THEN 0 ELSE sums[n - 1] + worth[n - 1]
  BY <1>5 DEF Is
<1> DEFINE G == {n \in Nat : n <= m => sums[n] \in Int}
<1>8. 0 \in G
  BY <1>1, <1>7
<1>9. ASSUME NEW n \in Nat, n \in G PROVE n + 1 \in G
  <2> SUFFICES ASSUME n + 1 <= m PROVE sums[n + 1] \in Int
    OBVIOUS
  <2>1. sums[n + 1] = sums[n] + worth[n] /\ sums[n] \in Int /\ worth[n] \in Int
    BY <1>1, <1>7, <1>9 DEF FxDays
  <2> QED
    BY <2>1
<1> HIDE DEF G
<1>10. Nat \subseteq G
  BY <1>8, <1>9, Inductive
<1>11. \A n \in 0 .. m : sums[n] \in Int
  BY <1>1, <1>10 DEF G
<1> QED
  BY <1>1, <1>6, <1>7, <1>11 DEF FxDays

\* The days' own rates.
LEMMA ViewRateHolds ==
  ASSUME FxInv, OwnDays # {}, NEW d \in FxDays
  PROVE  /\ ViewRate(d) \in Nat \ {0} /\ Factor(d) \in Nat /\ ViewRate(d) * Factor(d) = FxCommon
<1>1. LastFxDay \in Nat
  BY FxDaysHold, FxAssumption DEF FxAssumption, FxInv, RatesInv
<1>2. d \in Nat /\ FxDays = 0 .. LastFxDay
  BY <1>1 DEF FxDays
<1> DEFINE E == {e \in OwnDays : e <= d}
<1>3. BorrowedFrom(d) \in OwnDays
  <2>1. CASE E # {}
    <3>1. E \in SUBSET (0 .. LastFxDay)
      BY <1>1 DEF OwnDays, FxDays
    <3> HIDE DEF E
    <3>3. Max(E) \in E
      BY <1>1, <2>1, <3>1, LastPosition
    <3>4. BorrowedFrom(d) = Max(E)
      BY <2>1 DEF BorrowedFrom, E
    <3> QED
      BY <3>3, <3>4 DEF E
  <2>2. CASE E = {}
    <3>1. BorrowedFrom(d) = Min(OwnDays)
      BY <2>2 DEF BorrowedFrom
    <3>2. OwnDays \in SUBSET Nat
      BY <1>2 DEF OwnDays
    <3> QED
      BY <3>1, <3>2, SmallestExists
  <2> QED
    BY <2>1, <2>2
<1>4. PICK t \in 0 .. LastFxTick : ViewRate(d) = Market[t]
  BY <1>3 DEF FxInv, RatesInv, OwnDays, ViewRate
<1> DEFINE r == ViewRate(d)
<1>5. r \in Nat \ {0} /\ FxCommon % r = 0 /\ FxCommon \in Nat
  BY <1>4, FxAssumption DEF FxAssumption
<1> HIDE DEF r
<1>6. \A u \in Nat : u \div r \in Nat /\ u % r \in 0 .. r - 1 /\ u = r * (u \div r) + (u % r)
  BY <1>5
<1>7. FxCommon \div r \in Nat /\ FxCommon = r * (FxCommon \div r)
  <2>1. r * (FxCommon \div r) \in Nat
    BY <1>5, <1>6
  <2> QED
    BY <1>5, <1>6, <2>1
<1> QED
  BY <1>5, <1>7 DEF r, Factor

LEMMA Distributes ==
  \A a, b, k \in Int : /\ k * (a + b) = k * a + k * b /\ (a + b) * k = a * k + b * k
                       /\ k * a \in Int /\ k * b \in Int /\ a * k \in Int /\ b * k \in Int
OBVIOUS

LEMMA RangeHolds ==
  ASSUME NEW n \in Nat, NEW D \in SUBSET (0 .. n), D # {}, NEW v, \A d \in D : v[d] \in Nat,
         NEW S, \A y : y \in S <=> \E d \in D : y = v[d]
  PROVE  Min(S) \in Nat /\ Max(S) \in Nat /\ \A d \in D : Min(S) <= v[d] /\ v[d] <= Max(S)
<1>1. S \in SUBSET Nat /\ S # {}
  OBVIOUS
<1>2. Min(S) \in S /\ \A y \in S : Min(S) <= y
  BY <1>1, SmallestExists
<1>3. \A d \in D : v[d] \in Int
  OBVIOUS
<1>4. Max(S) \in S /\ \A y \in S : y <= Max(S)
  <2>1. NumbersOf(S, D, v)
    BY <1>3 DEF NumbersOf
  <2>2. D # {}
    BY <1>1
  <2> QED
    BY <2>1, <2>2, LargestExists
<1> QED
  BY <1>1, <1>2, <1>4

LEMMA SizesBetween ==
  ASSUME FxInv, OwnDays # {}, NEW first \in FxDays, NEW last \in FxDays, WeighedDays(first .. last) # {}
  PROVE  LET span == first .. last
             rates == {ViewRate(d) : d \in WeighedDays(span)}
         IN  Between(Min(rates), Max(rates), UahSizes(span) * FxCommon, ConvertedSizes(span))
<1> DEFINE span == first .. last
           W == WeighedDays(span)
           rates == {ViewRate(d) : d \in W}
           lo == Min(rates)  hi == Max(rates)
           u == [d \in FxDays |-> IF d \in span THEN Size(Ebitda[d]) ELSE 0]
           c == [d \in FxDays |-> IF d \in span THEN Size(Ebitda[d]) * Factor(d) ELSE 0]
<1>1. LastFxDay \in Nat /\ FxCommon \in Nat /\ FxDays = 0 .. LastFxDay
  BY FxDaysHold, FxAssumption DEF FxAssumption, FxInv, RatesInv, FxDays
<1>2. span \subseteq FxDays /\ W \subseteq FxDays /\ W \subseteq span
  BY <1>1 DEF FxDays, WeighedDays
<1>3. \A d \in FxDays : Size(Ebitda[d]) \in Nat /\ (Ebitda[d] = 0 => Size(Ebitda[d]) = 0)
  BY FxAssumption DEF FxAssumption, FxDays, LastFxDay, Size
<1>4. \A d \in W : ViewRate(d) \in Nat /\ lo <= ViewRate(d) /\ ViewRate(d) <= hi /\ lo \in Nat /\ hi \in Nat
  <2> DEFINE g == [d \in W |-> ViewRate(d)]
  <2>1. \A d \in W : g[d] \in Nat /\ g[d] = ViewRate(d)
    BY <1>2, ViewRateHolds
  <2>2. W \in SUBSET (0 .. LastFxDay) /\ W # {}
    BY <1>1, <1>2
  <2>3. \A y : y \in rates <=> \E d \in W : y = g[d]
    BY <2>1
  <2> HIDE DEF g, rates, W
  <2>4. Min(rates) \in Nat /\ Max(rates) \in Nat /\ \A d \in W : Min(rates) <= g[d] /\ g[d] <= Max(rates)
    BY <1>1, <2>1, <2>2, <2>3, RangeHolds
  <2> QED
    BY <2>1, <2>4
<1> HIDE DEF lo, hi, rates
<1>5. lo \in Nat /\ hi \in Nat
  BY <1>4 DEF W
<1>6. ASSUME NEW d \in FxDays
      PROVE  u[d] \in Nat /\ c[d] \in Nat /\ lo * c[d] <= u[d] * FxCommon /\ u[d] * FxCommon <= hi * c[d]
  <2>1. CASE d \notin W
    <3>1. d \in span => Size(Ebitda[d]) = 0
      BY <1>3, <2>1 DEF WeighedDays
    <3>2. Factor(d) \in Nat
      BY ViewRateHolds
    <3>3. u[d] = 0 /\ c[d] = 0
      BY <3>1, <3>2
    <3> QED
      BY <1>1, <1>5, <3>3
  <2>2. CASE d \in W
    <3> DEFINE s == Size(Ebitda[d])  f == Factor(d)  r == ViewRate(d)
    <3>1. u[d] = s /\ c[d] = s * f
      BY <1>2, <2>2
    <3>2. s \in Nat /\ f \in Nat /\ r \in Nat /\ r * f = FxCommon /\ lo <= r /\ r <= hi
      BY <1>3, <1>4, <2>2, ViewRateHolds
    <3> HIDE DEF s, f, r
    <3>3. s * f \in Nat
      BY <3>2
    <3>4. s * FxCommon = r * (s * f)
      BY <3>2
    <3> DEFINE k == s * f
    <3>5. lo * k <= r * k /\ r * k <= hi * k
      <4> HIDE DEF k
      <4> QED
        BY <1>5, <3>2, <3>3 DEF k
    <3> QED
      BY <3>1, <3>2, <3>3, <3>4, <3>5
  <2> QED
    BY <2>1, <2>2
<1>7. /\ UahSizes(span) = Sums(u)[LastFxDay + 1]
      /\ ConvertedSizes(span) = Sums(c)[LastFxDay + 1]
  <2>1. u = [d \in FxDays |-> IF d \in span THEN [x \in span |-> Size(Ebitda[x])][d] ELSE 0]
    OBVIOUS
  <2>2. c = [d \in FxDays |-> IF d \in span THEN [x \in span |-> Size(Ebitda[x]) * Factor(x)][d] ELSE 0]
    OBVIOUS
  <2> QED
    BY <2>1, <2>2 DEF UahSizes, ConvertedSizes, AddedUp
<1> HIDE DEF u, c
<1> DEFINE U == Sums(u)  C == Sums(c)
<1>8. /\ U[0] = 0 /\ C[0] = 0
      /\ \A n \in FxDays : U[n + 1] = U[n] + u[n] /\ C[n + 1] = C[n] + c[n]
      /\ \A n \in 0 .. LastFxDay + 1 : U[n] \in Int /\ C[n] \in Int
  <2>1. /\ U[0] = 0 /\ \A n \in 0 .. LastFxDay + 1 : U[n] \in Int
        /\ \A n \in FxDays : U[n + 1] = U[n] + u[n]
    <3>1. \A d \in FxDays : u[d] \in Int
      BY <1>6
    <3> QED
      BY <1>1, <3>1, SumsHold
  <2>2. /\ C[0] = 0 /\ \A n \in 0 .. LastFxDay + 1 : C[n] \in Int
        /\ \A n \in FxDays : C[n + 1] = C[n] + c[n]
    <3>1. \A d \in FxDays : c[d] \in Int
      BY <1>6
    <3> QED
      BY <1>1, <3>1, SumsHold
  <2> HIDE DEF U, C
  <2> QED
    BY <2>1, <2>2
<1> HIDE DEF U, C
<1> DEFINE G == {n \in Nat : n <= LastFxDay + 1 =>
                   C[n] >= 0 /\ lo * C[n] <= U[n] * FxCommon /\ U[n] * FxCommon <= hi * C[n]}
<1>9. 0 \in G
  BY <1>1, <1>5, <1>8
<1>10. ASSUME NEW n \in Nat, n \in G PROVE n + 1 \in G
  <2> SUFFICES ASSUME n + 1 <= LastFxDay + 1
               PROVE  /\ C[n + 1] >= 0 /\ lo * C[n + 1] <= U[n + 1] * FxCommon
                      /\ U[n + 1] * FxCommon <= hi * C[n + 1]
    OBVIOUS
  <2>1. /\ n \in FxDays /\ C[n] >= 0 /\ C[n] \in Int /\ U[n] \in Int
        /\ lo * C[n] <= U[n] * FxCommon /\ U[n] * FxCommon <= hi * C[n]
    BY <1>1, <1>8, <1>10
  <2>2. /\ U[n + 1] = U[n] + u[n] /\ C[n + 1] = C[n] + c[n] /\ u[n] \in Nat /\ c[n] \in Nat
        /\ lo * c[n] <= u[n] * FxCommon /\ u[n] * FxCommon <= hi * c[n]
    BY <1>6, <1>8, <2>1
  <2> DEFINE v == U[n]  w == C[n]  du == u[n]  dw == c[n]
  <2>3. /\ v \in Int /\ w \in Int /\ w >= 0 /\ du \in Int /\ dw \in Int /\ dw >= 0
        /\ lo \in Int /\ hi \in Int /\ FxCommon \in Int
        /\ lo * w <= v * FxCommon /\ v * FxCommon <= hi * w
        /\ lo * dw <= du * FxCommon /\ du * FxCommon <= hi * dw
        /\ U[n + 1] = v + du /\ C[n + 1] = w + dw
    BY <1>1, <1>5, <2>1, <2>2
  <2> HIDE DEF v, w, du, dw, C, U
  <2>4. /\ lo * (w + dw) = lo * w + lo * dw /\ lo * w \in Int /\ lo * dw \in Int
        /\ hi * (w + dw) = hi * w + hi * dw /\ hi * w \in Int /\ hi * dw \in Int
    BY <2>3, Distributes
  <2>5. (v + du) * FxCommon = v * FxCommon + du * FxCommon /\ v * FxCommon \in Int /\ du * FxCommon \in Int
    BY <2>3, Distributes
  <2>6. lo * (w + dw) <= (v + du) * FxCommon /\ (v + du) * FxCommon <= hi * (w + dw) /\ w + dw >= 0
    BY <2>3, <2>4, <2>5
  <2> QED
    BY <2>3, <2>6
<1> HIDE DEF G
<1>11. LastFxDay + 1 \in G
  BY <1>1, <1>9, <1>10, Inductive
<1> DEFINE x == U[LastFxDay + 1]  y == C[LastFxDay + 1]
<1>12. /\ y >= 0 /\ lo * y <= x * FxCommon /\ x * FxCommon <= hi * y /\ y \in Int /\ x \in Int
  BY <1>1, <1>8, <1>11 DEF G
<1> HIDE DEF x, y
<1>13. Between(lo, hi, x * FxCommon, y)
  <2>1. CASE y > 0
    BY <1>12, <2>1 DEF Between
  <2>2. CASE ~(y > 0)
    <3>1. y = 0
      BY <1>12, <2>2
    <3>2. lo * y = 0 /\ hi * y = 0 /\ x * FxCommon \in Int
      BY <1>1, <1>5, <1>12, <3>1
    <3> QED
      BY <1>12, <3>1, <3>2 DEF Between
  <2> QED
    BY <2>1, <2>2
<1> QED
  BY <1>7, <1>13 DEF x, y, U, C, lo, hi, rates, W, span

LEMMA RatesBetween == FxInv => SpanRateBetween
<1> SUFFICES ASSUME FxInv, OwnDays # {}, NEW first \in FxDays, NEW last \in FxDays,
                    WeighedDays(first .. last) # {}
             PROVE  LET span == first .. last
                        rates == {ViewRate(d) : d \in WeighedDays(span)}
                    IN  Between(Min(rates), Max(rates), SpanRate(span).uah, SpanRate(span).units)
  BY DEF SpanRateBetween
<1> QED
  BY SizesBetween DEF SpanRate

(* Once a pass has succeeded, every day before its own has the rate of its *)
(* noon (fxrates.SyncOnce); and the rate a span is shown at lies between   *)
(* the rates of its days, whatever they are and however many lost money    *)
(* (EbitdaWeights.Rate), for every calendar, every market and every number *)
(* of failed requests and restarts.                                        *)
THEOREM RatesAreOfTheirDays == FxSpec => []RatesOfTheirDays
<1>1. FxInv => RatesOfTheirDays
  BY RatesBetween DEF RatesOfTheirDays, FxInv, StatusInv
<1> QED
  BY <1>1, RatesAlways, PTL

-------------------------------------------------------------------------------
(* Archives: slots and days. *)

ArcDaySet == 0 .. ArcDays - 1

LEMMA QuotientIs ==
  ASSUME NEW n \in Nat \ {0}, NEW q \in Nat, NEW r \in 0 .. n - 1
  PROVE  (n * q + r) \div n = q
<1> DEFINE x == n * q + r
<1>1. x \in Nat
  OBVIOUS
<1>2. \A u \in Nat : u \div n \in Nat /\ u % n \in 0 .. n - 1 /\ u = n * (u \div n) + (u % n)
  OBVIOUS
<1>3. x \div n \in Nat /\ x % n \in 0 .. n - 1 /\ x = n * (x \div n) + (x % n)
  BY <1>1, <1>2
<1> DEFINE p == x \div n  m == x % n
<1>4. p \in Nat /\ m \in 0 .. n - 1 /\ n * q + r = n * p + m
  BY <1>3
<1> HIDE DEF p, m
<1>5. n * q \in Nat /\ n * p \in Nat
  BY <1>4
<1>6. ~(p + 1 <= q)
  <2> SUFFICES ASSUME p + 1 <= q PROVE FALSE
    OBVIOUS
  <2>1. n * (p + 1) <= n * q /\ n * (p + 1) = n * p + n
    BY <1>4
  <2> QED
    BY <1>4, <1>5, <2>1
<1>7. ~(q + 1 <= p)
  <2> SUFFICES ASSUME q + 1 <= p PROVE FALSE
    OBVIOUS
  <2>1. n * (q + 1) <= n * p /\ n * (q + 1) = n * q + n
    BY <1>4
  <2> QED
    BY <1>4, <1>5, <2>1
<1>8. p = q
  BY <1>4, <1>6, <1>7
<1> QED
  BY <1>8 DEF p, x

LEMMA StepSizes ==
  /\ StepsPerHour \in Nat /\ StepsPerHour >= 2 /\ HoursInDay \in Nat \ {0} /\ ArcDays \in Nat \ {0}
  /\ SlotsInDay \in Nat /\ SlotsInDay >= 2 /\ SlotsInDay = StepsPerHour * HoursInDay
<1> DEFINE n == StepsPerHour  m == HoursInDay
<1>1. n \in Nat /\ n >= 2 /\ m \in Nat \ {0} /\ ArcDays \in Nat \ {0}
  BY ArchiveAssumption DEF ArchiveAssumption
<1> HIDE DEF n, m
<1>2. m * n \in Nat /\ m * n >= n /\ m * n = n * m
  BY <1>1
<1> QED
  BY <1>1, <1>2 DEF SlotsInDay, n, m

LEMMA DaysOfSlots ==
  /\ \A d \in Nat : /\ d * SlotsInDay \in Nat
                    /\ \A s \in SlotsOf(d) : s \in Nat /\ d * SlotsInDay <= s /\ s <= d * SlotsInDay + SlotsInDay - 1
                    /\ \A s \in Nat : d * SlotsInDay <= s /\ s <= d * SlotsInDay + SlotsInDay - 1 => s \in SlotsOf(d)
                    /\ \A s \in SlotsOf(d) : s \div SlotsInDay = d
                    /\ Min(SlotsOf(d)) = d * SlotsInDay
                    /\ Max(SlotsOf(d)) = d * SlotsInDay + SlotsInDay - 1
                    /\ {Min(SlotsOf(d)), Max(SlotsOf(d))} \subseteq SlotsOf(d)
  /\ \A d \in ArcDaySet : SlotsOf(d) \subseteq ArcSlots
  /\ \A s \in ArcSlots : s \div SlotsInDay \in ArcDaySet /\ s \in SlotsOf(s \div SlotsInDay)
<1> DEFINE n == SlotsInDay
<1>1. n \in Nat \ {0} /\ ArcDays \in Nat \ {0}
  BY StepSizes
<1>2. SlotsInDay = n
  OBVIOUS
<1> HIDE DEF n
<1>3. ASSUME NEW d \in Nat
      PROVE  /\ d * n \in Nat /\ (d + 1) * n = d * n + n
             /\ SlotsOf(d) = d * n .. d * n + n - 1
  <2>1. d * n \in Nat
    BY <1>1
  <2>2. (d + 1) * n = d * n + n
    BY <1>1
  <2> QED
    BY <1>1, <1>2, <2>1, <2>2 DEF SlotsOf
<1>4. ASSUME NEW d \in Nat, NEW s \in SlotsOf(d) PROVE s \div n = d
  <2> DEFINE r == s - d * n
  <2>0. d * n \in Nat /\ s \in Int /\ d * n <= s /\ s <= d * n + n - 1
    <3> DEFINE a == d * n
    <3>1. a \in Nat /\ s \in a .. a + n - 1
      BY <1>3
    <3> HIDE DEF a
    <3>2. s \in Int /\ a <= s /\ s <= a + n - 1
      BY <1>1, <3>1
    <3> QED
      BY <3>1, <3>2 DEF a
  <2>1. r \in 0 .. n - 1 /\ s = n * d + r
    <3>1. n * d = d * n
      BY <1>1
    <3> QED
      BY <1>1, <2>0, <3>1
  <2> HIDE DEF r
  <2> QED
    BY <1>1, <2>1, QuotientIs
<1>5. ASSUME NEW d \in Nat
      PROVE  /\ Min(SlotsOf(d)) = d * n /\ Max(SlotsOf(d)) = d * n + n - 1
             /\ d * n \in SlotsOf(d) /\ d * n + n - 1 \in SlotsOf(d)
  <2> DEFINE lo == d * n  hi == d * n + n - 1
  <2>1. lo \in Nat /\ hi \in Nat /\ lo <= hi /\ SlotsOf(d) = lo .. hi
    BY <1>1, <1>3
  <2> HIDE DEF lo, hi
  <2>2. Min(lo .. hi) = lo
    BY <2>1 DEF Min
  <2>3. Max(lo .. hi) = hi
    BY <2>1 DEF Max
  <2> QED
    BY <2>1, <2>2, <2>3 DEF lo, hi
<1>6. ASSUME NEW d \in ArcDaySet PROVE SlotsOf(d) \subseteq ArcSlots
  <2>1. d \in Nat /\ d + 1 <= ArcDays
    BY <1>1 DEF ArcDaySet
  <2>2. (d + 1) * n <= ArcDays * n /\ ArcDays * n \in Nat
    BY <1>1, <2>1
  <2>3. ArcSlots = 0 .. ArcDays * n - 1
    BY <1>2 DEF ArcSlots
  <2>4. d * n \in Nat /\ d * n + n <= ArcDays * n /\ SlotsOf(d) = d * n .. d * n + n - 1
    BY <1>3, <2>1, <2>2
  <2> QED
    BY <1>1, <2>2, <2>3, <2>4
<1>7. ASSUME NEW s \in ArcSlots PROVE s \div n \in ArcDaySet /\ s \in SlotsOf(s \div n)
  <2> DEFINE q == s \div n
  <2>1. s \in Nat /\ s < ArcDays * n /\ ArcDays * n \in Nat
    BY <1>1, <1>2 DEF ArcSlots
  <2>2. \A u \in Nat : u \div n \in Nat /\ u % n \in 0 .. n - 1 /\ u = n * (u \div n) + (u % n)
    BY <1>1
  <2>3. q \in Nat /\ s % n \in 0 .. n - 1 /\ s = n * q + (s % n)
    BY <2>1, <2>2
  <2> HIDE DEF q
  <2>4. n * q = q * n /\ q * n \in Nat
    BY <1>1, <2>3
  <2>5. ~(ArcDays <= q)
    <3> SUFFICES ASSUME ArcDays <= q PROVE FALSE
      OBVIOUS
    <3>1. ArcDays * n <= q * n
      BY <1>1, <2>3
    <3> QED
      BY <2>1, <2>3, <2>4, <3>1
  <2>6. q \in ArcDaySet
    BY <1>1, <2>3, <2>5 DEF ArcDaySet
  <2>7. s \in q * n .. q * n + n - 1
    BY <1>1, <2>1, <2>3, <2>4
  <2> QED
    BY <1>3, <2>3, <2>6, <2>7 DEF q
<1>8. ASSUME NEW d \in Nat
      PROVE  /\ d * n \in Nat
             /\ \A s \in SlotsOf(d) : s \in Nat /\ d * n <= s /\ s <= d * n + n - 1
             /\ \A s \in Nat : d * n <= s /\ s <= d * n + n - 1 => s \in SlotsOf(d)
  <2> DEFINE lo == d * n
  <2>1. lo \in Nat /\ SlotsOf(d) = lo .. lo + n - 1
    BY <1>3
  <2> HIDE DEF lo
  <2> QED
    BY <1>1, <2>1 DEF lo
<1>9. \A d \in Nat : /\ d * n \in Nat
                     /\ \A s \in SlotsOf(d) : s \in Nat /\ d * n <= s /\ s <= d * n + n - 1
                     /\ \A s \in Nat : d * n <= s /\ s <= d * n + n - 1 => s \in SlotsOf(d)
                     /\ \A s \in SlotsOf(d) : s \div n = d
                     /\ Min(SlotsOf(d)) = d * n
                     /\ Max(SlotsOf(d)) = d * n + n - 1
                     /\ {Min(SlotsOf(d)), Max(SlotsOf(d))} \subseteq SlotsOf(d)
  BY <1>4, <1>5, <1>8
<1> QED
  BY <1>6, <1>7, <1>9 DEF n

-------------------------------------------------------------------------------
(* The counters of a metered day. *)

IsCounter(c) ==
  /\ c = [pv |-> c.pv, import |-> c.import, export |-> c.export, load |-> c.load]
  /\ c.pv \in Nat /\ c.import \in Nat /\ c.export \in Nat /\ c.load \in Nat

IsDayOf(u, d) == u \in Uploads /\ d \in CompleteDays(u)

LEMMA UploadsTyped ==
  ASSUME NEW u, NEW d, IsDayOf(u, d)
  PROVE  /\ d \in ArcDaySet /\ d \in Nat
         /\ \A c \in Channels : /\ u[c][d] \in [1 .. HoursInDay -> Nat]
                                /\ \A h \in 1 .. HoursInDay : u[c][d][h] % StepsPerHour = 0
<1>1. \A c \in Channels : d \in DOMAIN u[c]
  BY DEF IsDayOf, CompleteDays, Channels
<1>2. "pv" \in Channels
  BY DEF Channels
<1> QED
  BY <1>1, <1>2, ArchiveAssumption DEF ArchiveAssumption, IsDayOf, ArcDaySet

\* The hour of a step.
HourOf(k) == (k - 1) \div StepsPerHour + 1

LEMMA HoursOfSteps ==
  /\ \A k \in 1 .. SlotsInDay : HourOf(k) \in 1 .. HoursInDay
  /\ \A h \in 0 .. HoursInDay - 1 : \A j \in 0 .. StepsPerHour - 1 :
       /\ StepsPerHour * h + j + 1 \in 1 .. SlotsInDay
       /\ HourOf(StepsPerHour * h + j + 1) = h + 1
  /\ HourOf(SlotsInDay - 1) = HourOf(SlotsInDay)
<1> DEFINE n == StepsPerHour  m == HoursInDay
<1>1. n \in Nat \ {0} /\ n >= 2 /\ m \in Nat \ {0} /\ SlotsInDay = n * m
  BY StepSizes
<1> HIDE DEF n, m
<1>2. ASSUME NEW k \in 1 .. n * m PROVE (k - 1) \div n + 1 \in 1 .. m
  <2> DEFINE q == (k - 1) \div n
  <2>1. k - 1 \in Nat /\ n * m \in Nat /\ k <= n * m
    BY <1>1
  <2>2. \A u \in Nat : u \div n \in Nat /\ u % n \in 0 .. n - 1 /\ u = n * (u \div n) + (u % n)
    BY <1>1
  <2>3. q \in Nat /\ (k - 1) % n \in 0 .. n - 1 /\ k - 1 = n * q + ((k - 1) % n)
    BY <2>1, <2>2
  <2> HIDE DEF q
  <2>4. ~(m <= q)
    <3> SUFFICES ASSUME m <= q PROVE FALSE
      OBVIOUS
    <3>1. n * m <= n * q /\ n * q \in Nat
      BY <1>1, <2>3
    <3> QED
      BY <1>1, <2>1, <2>3, <3>1
  <2>5. q + 1 \in 1 .. m
    BY <1>1, <2>3, <2>4
  <2> QED
    BY <2>5 DEF q
<1>3. ASSUME NEW h \in 0 .. m - 1, NEW j \in 0 .. n - 1
      PROVE  n * h + j + 1 \in 1 .. n * m /\ (n * h + j + 1 - 1) \div n + 1 = h + 1
  <2>1. h \in Nat /\ h + 1 <= m /\ j \in Nat /\ j + 1 <= n
    BY <1>1
  <2>2. n * (h + 1) <= n * m /\ n * (h + 1) = n * h + n /\ n * h \in Nat /\ n * m \in Nat
    BY <1>1, <2>1
  <2>3. (n * h + j) \div n = h
    BY <1>1, <2>1, QuotientIs
  <2> DEFINE b == n * h
  <2>4. b + j + 1 - 1 = b + j /\ b + j + 1 \in 1 .. n * m
    BY <1>1, <2>1, <2>2
  <2> QED
    BY <2>1, <2>3, <2>4
<1>4. (n * m - 1 - 1) \div n = m - 1 /\ (n * m - 1) \div n = m - 1
  <2>1. m - 1 \in Nat /\ n - 1 \in 0 .. n - 1 /\ n - 2 \in 0 .. n - 1
    BY <1>1
  <2>2. n * (m - 1) \in Nat /\ n * m = n * (m - 1) + n
    BY <1>1, <2>1
  <2>3. (n * (m - 1) + (n - 1)) \div n = m - 1 /\ (n * (m - 1) + (n - 2)) \div n = m - 1
    BY <1>1, <2>1, QuotientIs
  <2> DEFINE b == n * (m - 1)
  <2>4. n * m - 1 - 1 = b + (n - 2) /\ n * m - 1 = b + (n - 1)
    BY <1>1, <2>2
  <2> QED
    BY <2>3, <2>4
<1> QED
  BY <1>1, <1>2, <1>3, <1>4 DEF HourOf, n, m

LEMMA CountersHold ==
  ASSUME NEW u, NEW d, NEW c
  PROVE  /\ Counters(u, d, c)[0] = c
         /\ \A k \in 1 .. SlotsInDay : Counters(u, d, c)[k] = StepOf(u, d, Counters(u, d, c)[k - 1], k)
<1> DEFINE Is(p, m) == p = [k \in 0 .. m |-> IF k = 0 THEN c ELSE StepOf(u, d, p[k - 1], k)]
           G == {m \in Nat : \E p : Is(p, m)}
           n == SlotsInDay
           a == CHOOSE p : Is(p, n)
<1>1. 0 \in G
  <2> DEFINE p == [k \in 0 .. 0 |-> c]
  <2>1. Is(p, 0)
    OBVIOUS
  <2> QED
    BY <2>1
<1>2. ASSUME NEW m \in Nat, m \in G PROVE m + 1 \in G
  <2>1. PICK p : Is(p, m)
    BY <1>2
  <2> DEFINE q == [k \in 0 .. m + 1 |-> IF k = m + 1 THEN StepOf(u, d, p[m], m + 1) ELSE p[k]]
  <2>2. \A k \in 0 .. m + 1 : q[k] = IF k = 0 THEN c ELSE StepOf(u, d, q[k - 1], k)
    <3> SUFFICES ASSUME NEW k \in 0 .. m + 1
                 PROVE  q[k] = IF k = 0 THEN c ELSE StepOf(u, d, q[k - 1], k)
      OBVIOUS
    <3>1. CASE k = 0
      BY <2>1, <3>1
    <3>2. CASE k # 0 /\ k # m + 1
      <4>1. k \in 0 .. m /\ k - 1 \in 0 .. m + 1 /\ k - 1 # m + 1
        BY <3>2
      <4>2. q[k] = p[k] /\ q[k - 1] = p[k - 1]
        BY <3>2, <4>1
      <4>3. p[k] = StepOf(u, d, p[k - 1], k)
        BY <2>1, <3>2, <4>1
      <4> QED
        BY <3>2, <4>2, <4>3
    <3>3. CASE k = m + 1
      <4>1. q[k] = StepOf(u, d, p[m], m + 1) /\ k - 1 = m /\ q[m] = p[m] /\ k # 0
        BY <3>3
      <4> QED
        BY <3>3, <4>1
    <3> QED
      BY <3>1, <3>2, <3>3
  <2>3. q = [k \in 0 .. m + 1 |-> q[k]]
    OBVIOUS
  <2> HIDE DEF q
  <2>4. q = [k \in 0 .. m + 1 |-> IF k = 0 THEN c ELSE StepOf(u, d, q[k - 1], k)]
    BY <2>2, <2>3
  <2> QED
    BY <2>4
<1>3. n \in Nat
  BY StepSizes
<1> HIDE DEF n
<1>4. \E p : Is(p, n)
  <2> HIDE DEF G
  <2>1. n \in G
    BY <1>1, <1>2, <1>3, Inductive
  <2> QED
    BY <2>1 DEF G
<1> HIDE DEF Is, G
<1>5. Is(a, n)
  BY <1>4
<1>6. Counters(u, d, c) = a
  BY DEF Counters, Is, a, n
<1> HIDE DEF a
<1>7. \A k \in 0 .. n : a[k] = IF k = 0 THEN c ELSE StepOf(u, d, a[k - 1], k)
  BY <1>5 DEF Is
<1>8. a[0] = c /\ \A k \in 1 .. n : a[k] = StepOf(u, d, a[k - 1], k)
  <2>1. 0 \in 0 .. n /\ \A k \in 1 .. n : k \in 0 .. n /\ k # 0
    BY <1>3
  <2> QED
    BY <1>7, <2>1
<1> QED
  BY <1>6, <1>8 DEF n

LEMMA CounterTyped ==
  ASSUME NEW p \in Nat, NEW i \in Nat, NEW e \in Nat, NEW l \in Int
  PROVE  IsCounter([pv |-> p, import |-> i, export |-> e, load |-> IF l < 0 THEN 0 ELSE l])
BY DEF IsCounter

\* The energy of a step.
LEMMA StepHolds ==
  ASSUME NEW u, NEW d, IsDayOf(u, d), NEW c, IsCounter(c), NEW k \in 1 .. SlotsInDay
  PROVE  LET q(ch) == u[ch][d][HourOf(k)] \div StepsPerHour
             n == StepOf(u, d, c, k)
             sum == c.load + q("pv") + q("import") - q("export")
         IN  /\ IsCounter(n) /\ q("pv") \in Nat /\ q("import") \in Nat /\ q("export") \in Nat
             /\ n.pv = c.pv + q("pv") /\ n.import = c.import + q("import")
             /\ n.export = c.export + q("export")
             /\ n.load = IF sum < 0 THEN 0 ELSE sum
<1> DEFINE q(ch) == u[ch][d][HourOf(k)] \div StepsPerHour
<1>1. \A ch \in Channels : q(ch) \in Nat
  <2> SUFFICES ASSUME NEW ch \in Channels PROVE q(ch) \in Nat
    OBVIOUS
  <2>1. HourOf(k) \in 1 .. HoursInDay
    BY HoursOfSteps
  <2>2. u[ch][d][HourOf(k)] \in Nat
    BY <2>1, UploadsTyped
  <2>3. StepsPerHour \in Nat \ {0}
    BY StepSizes
  <2> QED
    BY <2>2, <2>3
<1>2. q("pv") \in Nat /\ q("import") \in Nat /\ q("export") \in Nat
  BY <1>1 DEF Channels
<1>3. StepOf(u, d, c, k) =
        [pv |-> c.pv + q("pv"), import |-> c.import + q("import"), export |-> c.export + q("export"),
         load |-> IF c.load + q("pv") + q("import") - q("export") < 0 THEN 0
                  ELSE c.load + q("pv") + q("import") - q("export")]
  BY DEF StepOf, HourOf
<1> HIDE DEF q
<1>5. c.pv \in Nat /\ c.import \in Nat /\ c.export \in Nat /\ c.load \in Nat
  BY DEF IsCounter
<1>6. IsCounter(StepOf(u, d, c, k))
  <2>1. /\ c.pv + q("pv") \in Nat /\ c.import + q("import") \in Nat
        /\ c.export + q("export") \in Nat
        /\ c.load + q("pv") + q("import") - q("export") \in Int
    BY <1>2, <1>5
  <2> QED
    BY <1>3, <2>1, CounterTyped
<1>7. LET n == StepOf(u, d, c, k)
          sum == c.load + q("pv") + q("import") - q("export")
      IN  /\ n.pv = c.pv + q("pv") /\ n.import = c.import + q("import")
          /\ n.export = c.export + q("export") /\ n.load = IF sum < 0 THEN 0 ELSE sum
  BY <1>3
<1> QED
  BY <1>2, <1>6, <1>7 DEF q

LEMMA CountersTyped ==
  ASSUME NEW u, NEW d, IsDayOf(u, d), NEW c, IsCounter(c)
  PROVE  \A k \in 0 .. SlotsInDay : IsCounter(Counters(u, d, c)[k])
<1> DEFINE a == Counters(u, d, c)
           G == {k \in Nat : k <= SlotsInDay => IsCounter(a[k])}
<1>1. 0 \in G
  BY CountersHold
<1>2. ASSUME NEW k \in Nat, k \in G PROVE k + 1 \in G
  <2> SUFFICES ASSUME k + 1 <= SlotsInDay PROVE IsCounter(a[k + 1])
    OBVIOUS
  <2>1. SlotsInDay \in Nat
    BY StepSizes
  <2>2. IsCounter(a[k]) /\ k + 1 \in 1 .. SlotsInDay /\ k + 1 - 1 = k
    BY <1>2, <2>1
  <2>3. a[k + 1] = StepOf(u, d, a[k], k + 1)
    BY <2>2, CountersHold
  <2> HIDE DEF a
  <2> QED
    BY <2>2, <2>3, StepHolds
<1> HIDE DEF G
<1>3. Nat \subseteq G
  BY <1>1, <1>2, Inductive
<1> QED
  BY <1>3, StepSizes DEF G

LEMMA HourSumsHold ==
  ASSUME NEW e \in [1 .. HoursInDay -> Nat]
  PROVE  /\ HourSums(e)[0] = 0 /\ \A h \in 0 .. HoursInDay : HourSums(e)[h] \in Int
         /\ \A h \in 1 .. HoursInDay : HourSums(e)[h] = HourSums(e)[h - 1] + e[h]
<1> DEFINE m == HoursInDay
           gain == [i \in 2 .. m + 1 |-> e[i - 1]]
           Is(s) == s = [h \in 0 .. m |-> IF h = 0 THEN 0 ELSE s[h - 1] + e[h]]
           sums == CHOOSE s : Is(s)
<1>1. m \in Nat
  BY StepSizes
<1>2. \A i \in 2 .. m + 1 : gain[i] \in Int /\ gain[i] = e[i - 1]
  BY <1>1
<1> HIDE DEF gain
<1>3. PICK p : p = [i \in 1 .. m + 1 |-> IF i = 1 THEN 0 ELSE p[i - 1] + gain[i]]
  BY <1>1, PurseExists
<1> DEFINE q == [h \in 0 .. m |-> p[h + 1]]
<1>4. \A h \in 0 .. m : q[h] = IF h = 0 THEN 0 ELSE q[h - 1] + e[h]
  BY <1>1, <1>2, <1>3
<1>5. Is(q)
  <2>1. q = [h \in 0 .. m |-> q[h]]
    OBVIOUS
  <2> HIDE DEF q, m
  <2> QED
    BY <1>4, <2>1
<1> HIDE DEF q, Is
<1>7. Is(sums)
  BY <1>5
<1>8. HourSums(e) = sums
  BY DEF HourSums, Is, m, sums
<1> HIDE DEF sums
<1>9. \A h \in 0 .. m : sums[h] = IF h = 0 THEN 0 ELSE sums[h - 1] + e[h]
  BY <1>7 DEF Is
<1> DEFINE G == {h \in Nat : h <= m => sums[h] \in Int}
<1>10. 0 \in G
  BY <1>1, <1>9
<1>11. ASSUME NEW h \in Nat, h \in G PROVE h + 1 \in G
  <2> SUFFICES ASSUME h + 1 <= m PROVE sums[h + 1] \in Int
    OBVIOUS
  <2>1. sums[h + 1] = sums[h] + e[h + 1] /\ sums[h] \in Int /\ e[h + 1] \in Nat
    BY <1>1, <1>9, <1>11
  <2> QED
    BY <2>1
<1> HIDE DEF G
<1>12. Nat \subseteq G
  BY <1>10, <1>11, Inductive
<1>13. \A h \in 0 .. m : sums[h] \in Int
  BY <1>1, <1>12 DEF G
<1> QED
  BY <1>1, <1>8, <1>9, <1>13 DEF m

\* Equal steps of an hour add up to its energy, and the hours to their sum.
LEMMA StepsAddUp ==
  ASSUME NEW e \in [1 .. HoursInDay -> Nat], \A h \in 1 .. HoursInDay : e[h] % StepsPerHour = 0,
         NEW x, \A k \in 0 .. SlotsInDay : x[k] \in Int,
         \A k \in 1 .. SlotsInDay : x[k] = x[k - 1] + (e[HourOf(k)] \div StepsPerHour)
  PROVE  x[SlotsInDay] - x[0] = SumOf(e)
<1> DEFINE n == StepsPerHour  m == HoursInDay  sums == HourSums(e)  last == SlotsInDay
<1>1. n \in Nat \ {0} /\ n >= 2 /\ m \in Nat \ {0} /\ last = n * m /\ last \in Nat
  BY StepSizes
<1>2. /\ sums[0] = 0 /\ \A h \in 0 .. m : sums[h] \in Int
      /\ \A h \in 1 .. m : sums[h] = sums[h - 1] + e[h]
  BY HourSumsHold
<1>3. \A h \in 0 .. m - 1 : \A j \in 0 .. n - 1 :
        n * h + j + 1 \in 1 .. last /\ HourOf(n * h + j + 1) = h + 1
  BY HoursOfSteps
<1>4. \A k \in 1 .. last : x[k] = x[k - 1] + (e[HourOf(k)] \div n)
  OBVIOUS
<1>5. \A k \in 0 .. last : x[k] \in Int
  OBVIOUS
<1>6. \A h \in 1 .. m : e[h] \in Nat /\ e[h] % n = 0
  OBVIOUS
<1> HIDE DEF n, m, sums, last
<1> DEFINE G == {h \in Nat : h <= m => x[n * h] = x[0] + sums[h]}
<1>7. 0 \in G
  <2>1. n * 0 = 0 /\ 0 \in 0 .. last
    BY <1>1
  <2>2. x[0] = x[0] + 0
    BY <1>5, <2>1
  <2> QED
    BY <1>2, <2>1, <2>2
<1>8. ASSUME NEW h \in Nat, h \in G PROVE h + 1 \in G
  <2> SUFFICES ASSUME h + 1 <= m PROVE x[n * (h + 1)] = x[0] + sums[h + 1]
    OBVIOUS
  <2> DEFINE b == n * h  q == e[h + 1] \div n
  <2>1. b \in Nat /\ n * (h + 1) = b + n
    BY <1>1
  <2>2. e[h + 1] \in Nat /\ e[h + 1] % n = 0
    BY <1>1, <1>6
  <2>3. q \in Nat /\ e[h + 1] = n * q
    <3>1. \A v \in Nat : v \div n \in Nat /\ v = n * (v \div n) + (v % n)
      BY <1>1
    <3>2. q \in Nat /\ e[h + 1] = n * q + 0
      BY <2>2, <3>1
    <3> HIDE DEF q
    <3>3. n * q \in Nat
      BY <1>1, <3>2
    <3> QED
      BY <3>2, <3>3
  <2>4. \A j \in 0 .. n - 1 : /\ b + j + 1 \in 1 .. last /\ b + j \in 0 .. last
                              /\ x[b + j + 1] = x[b + j] + q
    <3> TAKE j \in 0 .. n - 1
    <3>1. h \in 0 .. m - 1
      BY <1>1
    <3>2. b + j + 1 \in 1 .. last /\ HourOf(b + j + 1) = h + 1
      BY <1>3, <3>1
    <3> HIDE DEF b
    <3>3. b + j + 1 - 1 = b + j /\ b + j \in 0 .. last
      BY <1>1, <2>1, <3>2
    <3> QED
      BY <1>4, <3>2, <3>3
  <2> DEFINE F == {j \in Nat : j <= n => x[b + j] = x[b] + j * q}
  <2>5. x[b] \in Int
    <3>1. 0 \in 0 .. n - 1 /\ b + 0 = b
      BY <1>1, <2>1
    <3> HIDE DEF b
    <3> QED
      BY <1>5, <2>4, <3>1
  <2> HIDE DEF b, q
  <2>6. 0 \in F
    <3>1. b + 0 = b /\ 0 * q = 0 /\ x[b] + 0 = x[b]
      BY <2>1, <2>3, <2>5
    <3> QED
      BY <3>1
  <2>7. ASSUME NEW j \in Nat, j \in F PROVE j + 1 \in F
    <3> SUFFICES ASSUME j + 1 <= n PROVE x[b + (j + 1)] = x[b] + (j + 1) * q
      OBVIOUS
    <3>1. j \in 0 .. n - 1 /\ x[b + j] = x[b] + j * q
      BY <1>1, <2>7
    <3>2. b + (j + 1) = b + j + 1 /\ x[b + j + 1] = x[b + j] + q
      BY <2>1, <2>4, <3>1
    <3>3. (j + 1) * q = j * q + q /\ j * q \in Nat
      BY <2>3
    <3> QED
      BY <2>3, <2>5, <3>1, <3>2, <3>3
  <2> HIDE DEF F
  <2>8. n \in F
    BY <1>1, <2>6, <2>7, Inductive
  <2>9. x[b + n] = x[b] + n * q
    BY <1>1, <2>8 DEF F
  <2>10. x[b] = x[0] + sums[h] /\ sums[h + 1] = sums[h] + e[h + 1]
    <3>1. h + 1 \in 1 .. m /\ h + 1 - 1 = h
      BY <1>1
    <3>2. x[b] = x[0] + sums[h]
      BY <1>1, <1>8 DEF b
    <3> QED
      BY <1>2, <3>1, <3>2
  <2>11. x[0] \in Int /\ sums[h] \in Int
    <3>1. 0 \in 0 .. last /\ h \in 0 .. m
      BY <1>1
    <3> QED
      BY <1>2, <1>5, <3>1
  <2> QED
    BY <2>1, <2>2, <2>3, <2>9, <2>10, <2>11
<1> HIDE DEF G
<1>9. Nat \subseteq G
  BY <1>7, <1>8, Inductive
<1>10. x[last] = x[0] + sums[m]
  BY <1>1, <1>9 DEF G
<1>11. x[last] \in Int /\ x[0] \in Int /\ sums[m] \in Int
  BY <1>1, <1>2, <1>5
<1>12. x[last] - x[0] = sums[m]
  BY <1>10, <1>11
<1> QED
  BY <1>12 DEF last, sums, m, SumOf

\* What a metered day holds: the counters before the first step at its first slot,
\* those after the last at its last one.
LEMMA DayBuilt ==
  ASSUME NEW u, NEW d, IsDayOf(u, d), NEW c, IsCounter(c)
  PROVE  LET first == d * SlotsInDay
             rows == BuildDay(u, d, c)
         IN  /\ rows = [s \in SlotsOf(d) |-> rows[s]]
             /\ rows[first] = c
             /\ rows[first + SlotsInDay - 1] = Counters(u, d, c)[SlotsInDay]
             /\ \A k \in 0 .. SlotsInDay - 2 : /\ first + k \in SlotsOf(d)
                                               /\ rows[first + k] = Counters(u, d, c)[k]
             /\ EndCounters(rows) = rows[first + SlotsInDay - 1]
             /\ IsCounter(rows[first + SlotsInDay - 1])
<1> DEFINE first == d * SlotsInDay  n == SlotsInDay  a == Counters(u, d, c)  rows == BuildDay(u, d, c)
<1>1. n \in Nat /\ n >= 2 /\ d \in Nat
  BY StepSizes, UploadsTyped
<1>2. /\ first \in Nat /\ Max(SlotsOf(d)) = first + n - 1
      /\ \A s \in Nat : first <= s /\ s <= first + n - 1 => s \in SlotsOf(d)
  BY <1>1, DaysOfSlots
<1>3. rows = [s \in SlotsOf(d) |-> IF s = first + n - 1 THEN a[n] ELSE a[s - first]]
  BY DEF BuildDay
<1>4. a[0] = c /\ IsCounter(a[n])
  <2>1. n \in 0 .. n
    BY <1>1
  <2> QED
    BY <2>1, CountersHold, CountersTyped
<1> HIDE DEF a, n, first, rows
<1>5. \A k \in 0 .. n - 1 : first + k \in SlotsOf(d)
  <2> TAKE k \in 0 .. n - 1
  <2>1. first + k \in Nat /\ first <= first + k /\ first + k <= first + n - 1
    BY <1>1, <1>2
  <2> QED
    BY <1>2, <2>1
<1>6. \A k \in 0 .. n - 2 : first + k \in SlotsOf(d) /\ rows[first + k] = a[k]
  <2> TAKE k \in 0 .. n - 2
  <2>1. k \in 0 .. n - 1 /\ first + k # first + n - 1 /\ (first + k) - first = k
    BY <1>1, <1>2
  <2>2. first + k \in SlotsOf(d)
    BY <1>5, <2>1
  <2>3. rows[first + k] = a[(first + k) - first]
    <3>1. \A s \in SlotsOf(d) : s # first + n - 1 => rows[s] = a[s - first]
      BY <1>3
    <3> QED
      BY <2>1, <2>2, <3>1
  <2> QED
    BY <2>1, <2>2, <2>3
<1>7. rows[first] = c
  <2>1. 0 \in 0 .. n - 2 /\ first + 0 = first
    BY <1>1, <1>2
  <2> QED
    BY <1>4, <1>6, <2>1
<1>8. rows[first + n - 1] = a[n]
  <2>1. n - 1 \in 0 .. n - 1 /\ first + (n - 1) = first + n - 1
    BY <1>1, <1>2
  <2>2. first + n - 1 \in SlotsOf(d)
    BY <1>5, <2>1
  <2> QED
    BY <1>3, <2>2
<1>9. DOMAIN rows = SlotsOf(d) /\ rows = [s \in SlotsOf(d) |-> rows[s]]
  BY <1>3
<1>10. EndCounters(rows) = rows[first + n - 1]
  BY <1>2, <1>9 DEF EndCounters
<1> QED
  BY <1>4, <1>6, <1>7, <1>8, <1>9, <1>10 DEF first, n, a, rows

LEMMA DayAddsUp ==
  ASSUME NEW u, NEW d, IsDayOf(u, d), NEW c, IsCounter(c)
  PROVE  LET close == Counters(u, d, c)[SlotsInDay]
             sums(ch) == SumOf(u[ch][d])
         IN  /\ \A ch \in Channels : close[ch] - c[ch] = sums(ch)
             /\ ((\A k \in 0 .. SlotsInDay - 2 : Counters(u, d, c)[k].load > 0) /\ close.load > 0) =>
                  close.load - c.load = sums("pv") + sums("import") - sums("export")
<1> DEFINE a == Counters(u, d, c)  n == SlotsInDay  sums(ch) == SumOf(u[ch][d])
           q(ch, k) == u[ch][d][HourOf(k)] \div StepsPerHour
<1>1. n \in Nat /\ n >= 2
  BY StepSizes
<1>2. a[0] = c /\ \A k \in 0 .. n : IsCounter(a[k])
  BY CountersHold, CountersTyped
<1>3. \A k \in 1 .. n :
        LET sum == a[k - 1].load + q("pv", k) + q("import", k) - q("export", k)
        IN  /\ q("pv", k) \in Nat /\ q("import", k) \in Nat /\ q("export", k) \in Nat
            /\ a[k].pv = a[k - 1].pv + q("pv", k) /\ a[k].import = a[k - 1].import + q("import", k)
            /\ a[k].export = a[k - 1].export + q("export", k)
            /\ a[k].load = IF sum < 0 THEN 0 ELSE sum
  <2> TAKE k \in 1 .. n
  <2>1. k - 1 \in 0 .. n
    BY <1>1
  <2>2. a[k] = StepOf(u, d, a[k - 1], k) /\ IsCounter(a[k - 1])
    BY <1>2, <2>1, CountersHold
  <2> HIDE DEF a
  <2> QED
    BY <2>2, StepHolds
<1> DEFINE x == [ch \in Channels |-> [k \in 0 .. n |-> a[k][ch]]]
<1> HIDE DEF a, n
<1>4. ASSUME NEW ch \in Channels PROVE a[n][ch] - c[ch] = sums(ch)
  <2> DEFINE y == [k \in 0 .. n |-> a[k][ch]]
  <2>1. \A k \in 0 .. n : y[k] \in Int
    <3>1. \A k \in 0 .. n : a[k].pv \in Int /\ a[k].import \in Int /\ a[k].export \in Int
      <4> TAKE k \in 0 .. n
      <4>1. IsCounter(a[k])
        BY <1>2
      <4> QED
        BY <4>1 DEF IsCounter
    <3>2. ch = "pv" \/ ch = "import" \/ ch = "export"
      BY DEF Channels
    <3> QED
      BY <3>1, <3>2
  <2>2. \A k \in 1 .. n : y[k] = y[k - 1] + q(ch, k)
    <3> SUFFICES ASSUME NEW k \in 1 .. n PROVE y[k] = y[k - 1] + q(ch, k)
      OBVIOUS
    <3>1. k \in 0 .. n /\ k - 1 \in 0 .. n
      BY <1>1
    <3>2. a[k][ch] = a[k - 1][ch] + q(ch, k)
      <4> HIDE DEF q
      <4> QED
        BY <1>3 DEF Channels
    <3> HIDE DEF q
    <3> QED
      BY <3>1, <3>2
  <2>3. 0 \in 0 .. n /\ n \in 0 .. n
    BY <1>1
  <2>4. y[n] = a[n][ch] /\ y[0] = c[ch]
    BY <1>2, <2>3
  <2>5. u[ch][d] \in [1 .. HoursInDay -> Nat] /\ \A h \in 1 .. HoursInDay : u[ch][d][h] % StepsPerHour = 0
    BY UploadsTyped
  <2> HIDE DEF y
  <2>6. y[SlotsInDay] - y[0] = SumOf(u[ch][d])
    BY <2>1, <2>2, <2>5, StepsAddUp DEF n
  <2> QED
    BY <2>4, <2>6 DEF n
<1>5. ASSUME \A k \in 0 .. n - 2 : a[k].load > 0, a[n].load > 0
      PROVE  a[n].load - c.load = sums("pv") + sums("import") - sums("export")
  <2> DEFINE net(k) == a[k].load - a[k].pv - a[k].import + a[k].export
             G == {k \in Nat : k <= n => net(k) = net(0)}
  <2> HIDE DEF q
  <2>1. \A k \in 1 .. n : a[k].load = a[k - 1].load + q("pv", k) + q("import", k) - q("export", k)
    <3> DEFINE gain(k) == q("pv", k) + q("import", k) - q("export", k)
    <3>1. \A k \in 1 .. n : k - 1 \in 0 .. n /\ k \in 0 .. n
      BY <1>1
    <3>2. \A k \in 1 .. n : gain(k) \in Int /\ a[k].load \in Nat /\ a[k - 1].load \in Nat
      <4> TAKE k \in 1 .. n
      <4>1. q("pv", k) \in Nat /\ q("import", k) \in Nat /\ q("export", k) \in Nat
        BY <1>3
      <4>2. IsCounter(a[k]) /\ IsCounter(a[k - 1])
        BY <1>2, <3>1
      <4> QED
        BY <4>1, <4>2 DEF IsCounter
    <3>3. \A k \in 1 .. n : a[k - 1].load + q("pv", k) + q("import", k) - q("export", k) = a[k - 1].load + gain(k)
      BY <1>3, <3>2
    <3>4. \A k \in 1 .. n : a[k].load = IF a[k - 1].load + gain(k) < 0 THEN 0 ELSE a[k - 1].load + gain(k)
      BY <1>3, <3>3
    <3>5. gain(n - 1) = gain(n)
      <4>1. HourOf(n - 1) = HourOf(n)
        BY HoursOfSteps DEF n
      <4> QED
        BY <4>1 DEF q
    <3> HIDE DEF gain
    <3>6. a[n].load = a[n - 1].load + gain(n)
      <4>1. n \in 1 .. n
        BY <1>1
      <4> QED
        BY <1>5, <3>2, <3>4, <4>1
    <3>7. a[n - 1].load = a[n - 2].load + gain(n - 1)
      <4>1. n - 1 \in 1 .. n /\ n - 1 - 1 = n - 2 /\ n - 2 \in 0 .. n - 2 /\ n \in 1 .. n
        BY <1>1
      <4>2. a[n - 2].load > 0 /\ a[n - 2].load \in Nat
        BY <1>5, <3>2, <4>1
      <4>3. a[n - 1].load = IF a[n - 2].load + gain(n - 1) < 0 THEN 0 ELSE a[n - 2].load + gain(n - 1)
        BY <3>4, <4>1
      <4>4. gain(n) \in Int /\ a[n].load \in Nat
        BY <3>2, <4>1
      <4> QED
        BY <1>5, <3>5, <3>6, <4>2, <4>3, <4>4
    <3>8. ASSUME NEW k \in 1 .. n PROVE a[k].load = a[k - 1].load + gain(k)
      <4>1. CASE k = n
        BY <3>6, <4>1
      <4>2. CASE k = n - 1
        <5>1. n - 1 - 1 = n - 2
          BY <1>1
        <5> QED
          BY <3>7, <4>2, <5>1
      <4>3. CASE k # n /\ k # n - 1
        <5>1. k \in 0 .. n - 2
          BY <1>1, <4>3
        <5> QED
          BY <1>5, <3>2, <3>4, <5>1
      <4> QED
        BY <4>1, <4>2, <4>3
    <3> QED
      BY <3>3, <3>8
  <2>2. 0 \in G
    OBVIOUS
  <2>3. ASSUME NEW k \in Nat, k \in G PROVE k + 1 \in G
    <3> SUFFICES ASSUME k + 1 <= n PROVE net(k + 1) = net(0)
      OBVIOUS
    <3>1. k + 1 \in 1 .. n /\ k + 1 - 1 = k /\ k \in 0 .. n /\ k + 1 \in 0 .. n
      BY <1>1
    <3>2. net(k) = net(0)
      BY <2>3, <1>1
    <3>3. /\ q("pv", k + 1) \in Nat /\ q("import", k + 1) \in Nat /\ q("export", k + 1) \in Nat
          /\ a[k + 1].pv = a[k].pv + q("pv", k + 1) /\ a[k + 1].import = a[k].import + q("import", k + 1)
          /\ a[k + 1].export = a[k].export + q("export", k + 1)
          /\ a[k + 1].load = a[k].load + q("pv", k + 1) + q("import", k + 1) - q("export", k + 1)
      BY <1>3, <2>1, <3>1
    <3>4. a[k].pv \in Nat /\ a[k].import \in Nat /\ a[k].export \in Nat /\ a[k].load \in Nat
      BY <1>2, <3>1 DEF IsCounter
    <3>5. net(k + 1) = net(k)
      BY <3>3, <3>4
    <3> QED
      BY <3>2, <3>5
  <2> HIDE DEF G
  <2>4. n \in G
    BY <1>1, <2>2, <2>3, Inductive
  <2>5. net(n) = net(0)
    BY <1>1, <2>4 DEF G
  <2>6. /\ a[n].pv - c.pv = sums("pv") /\ a[n].import - c.import = sums("import")
        /\ a[n].export - c.export = sums("export")
    BY <1>4 DEF Channels
  <2>7. IsCounter(a[n]) /\ IsCounter(a[0]) /\ a[0] = c
    <3>1. 0 \in 0 .. n /\ n \in 0 .. n
      BY <1>1
    <3> QED
      BY <1>2, <3>1
  <2> DEFINE sp == sums("pv")  si == sums("import")  se == sums("export")
  <2>8. a[n].pv - c.pv = sp /\ a[n].import - c.import = si /\ a[n].export - c.export = se
    BY <2>6
  <2> HIDE DEF sp, si, se
  <2>9. a[n].load - c.load = sp + si - se
    BY <2>5, <2>7, <2>8 DEF IsCounter
  <2> QED
    BY <2>9 DEF sp, si, se
<1> QED
  BY <1>4, <1>5 DEF a, n

-------------------------------------------------------------------------------
(* The portal's series. *)

Importing == ask.pc \in {"clear", "insert"}
Pulling == portal.pc \in {"fetch", "clear", "askoe", "insert"}

IsPull(p) == p = [pc |-> p.pc, at |-> p.at, to |-> p.to, first |-> p.first, live |-> p.live,
                  rows |-> p.rows]
PullTyped ==
  /\ IsPull(portal)
  /\ portal.pc # "idle" => portal.at \in Nat /\ portal.to \in Nat /\ portal.to - 1 \in ArcSlots

LEMMA PullWindowHolds ==
  ASSUME PullTyped, portal.pc # "idle"
  PROVE  /\ PullWindow \subseteq ArcSlots /\ PullWindow \subseteq 0 .. portal.to
         /\ WindowEnd \in Nat
<1>1. portal.at \in Nat /\ portal.to \in Nat /\ portal.to - 1 \in ArcSlots /\ SlotsInDay \in Nat
  BY StepSizes DEF PullTyped
<1>2. WindowEnd \in Nat /\ WindowEnd <= portal.to
  BY <1>1 DEF WindowEnd
<1>3. ASSUME NEW s \in PullWindow PROVE s \in ArcSlots /\ s \in 0 .. portal.to
  <2> DEFINE n == ArcDays * SlotsInDay
  <2>1. n \in Nat /\ ArcSlots = 0 .. n - 1
    BY StepSizes DEF ArcSlots
  <2> HIDE DEF n
  <2>2. s \in Nat /\ s < WindowEnd
    BY <1>1, <1>2 DEF PullWindow
  <2> QED
    BY <1>1, <1>2, <2>1, <2>2
<1> QED
  BY <1>2, <1>3

LEMMA DischargesTyped ==
  ASSUME PullTyped, portal.pc # "idle", NEW s \in PullWindow
  PROVE  DischargeAt(s) \in Nat
<1> DEFINE told == {t \in PullWindow : t <= s /\ PortalHistory[t].discharge # NoRow}
<1>1. told \subseteq ArcSlots /\ told \subseteq 0 .. portal.to /\ portal.to \in Nat
  BY PullWindowHolds DEF PullTyped
<1>2. \A t \in told : PortalHistory[t].discharge \in Nat
  BY <1>1, ArchiveAssumption DEF ArchiveAssumption
<1>3. told # {} => Max(told) \in told
  <2> SUFFICES ASSUME told # {} PROVE Max(told) \in told
    OBVIOUS
  <2> HIDE DEF told
  <2> QED
    BY <1>1, LastPosition
<1>4. DischargeAt(s) = IF told = {} THEN 0 ELSE PortalHistory[Max(told)].discharge
  BY DEF DischargeAt
<1> HIDE DEF told
<1> QED
  BY <1>2, <1>3, <1>4

\* What is kept of the portal's counters never falls, and is what was told where
\* that only grows.
LEMMA PureHolds ==
  ASSUME PullTyped, portal.pc # "idle"
  PROVE  /\ DOMAIN PurePv = Yields /\ Yields \subseteq PullWindow
         /\ \A s \in Yields : PurePv[s] \in Int
         /\ \A s \in Yields, t \in Yields : s <= t => PurePv[s] <= PurePv[t]
         /\ (\A s \in Yields, t \in Yields : s <= t => PureNow(s) <= PureNow(t)) =>
              \A s \in Yields : PurePv[s] = PureNow(s)
<1>1. /\ Yields \subseteq PullWindow /\ Yields \subseteq ArcSlots /\ Yields \subseteq 0 .. portal.to
      /\ portal.to \in Nat /\ Yields \subseteq Nat
  BY PullWindowHolds DEF Yields, PullTyped
<1>2. ASSUME NEW s \in Yields PROVE PureNow(s) \in Int
  <2> DEFINE net == PortalHistory[s].yield - DischargeAt(s)
  <2>1. PortalHistory[s].yield \in Nat
    BY <1>1, ArchiveAssumption DEF ArchiveAssumption, Yields
  <2>2. net \in Int
    BY <1>1, <2>1, DischargesTyped
  <2>3. PureNow(s) = Max({0, net})
    BY DEF PureNow
  <2> HIDE DEF net
  <2> QED
    BY <2>2, <2>3, SmallerOfTwo
<1> DEFINE upTo(s) == {u \in Yields : u <= s}
           values(s) == {PureNow(t) : t \in upTo(s)}
<1>3. DOMAIN PurePv = Yields /\ \A s \in Yields : PurePv[s] = Max(values(s))
  BY DEF PurePv
<1>4. ASSUME NEW s \in Yields
      PROVE  PurePv[s] \in values(s) /\ \A y \in values(s) : y <= PurePv[s]
  <2> DEFINE D == upTo(s)
             g == [t \in D |-> PureNow(t)]
             V == values(s)
  <2>1. D \in SUBSET (0 .. portal.to) /\ D # {}
    <3>1. s \in Nat /\ s <= s
      BY <1>1
    <3>2. s \in D
      BY <3>1
    <3> QED
      BY <1>1, <3>2
  <2>2. \A t \in D : g[t] \in Int
    BY <1>2
  <2>3. \A y : y \in V <=> \E t \in D : y = g[t]
    OBVIOUS
  <2>4. PurePv[s] = Max(V) /\ portal.to \in Nat
    BY <1>1, <1>3
  <2> HIDE DEF D, g, V
  <2>5. Max(V) \in V /\ \A y \in V : y <= Max(V)
    <3>1. NumbersOf(V, D, g)
      BY <2>2, <2>3 DEF NumbersOf
    <3> QED
      BY <2>1, <2>4, <3>1, LargestExists
  <2> QED
    BY <2>4, <2>5 DEF V
<1>5. \A s \in Yields : \A t \in Yields : t <= s => PureNow(t) <= PurePv[s]
  BY <1>4
<1>6. \A s \in Yields : \E t \in Yields : t <= s /\ PurePv[s] = PureNow(t)
  BY <1>4
<1>7. \A s \in Yields : PurePv[s] \in Int
  BY <1>2, <1>6
<1> HIDE DEF upTo, values
<1>8. ASSUME NEW s \in Yields, NEW t \in Yields, s <= t PROVE PurePv[s] <= PurePv[t]
  <2>1. PICK v \in Yields : v <= s /\ PurePv[s] = PureNow(v)
    BY <1>6
  <2>2. v <= t
    BY <1>1, <1>8, <2>1
  <2> QED
    BY <1>5, <2>1, <2>2
<1>9. ASSUME \A s \in Yields, t \in Yields : s <= t => PureNow(s) <= PureNow(t), NEW s \in Yields
      PROVE  PurePv[s] = PureNow(s)
  <2>1. PICK v \in Yields : v <= s /\ PurePv[s] = PureNow(v)
    BY <1>6
  <2>2. PureNow(v) <= PureNow(s) /\ s <= s
    BY <1>1, <1>9, <2>1
  <2>3. PureNow(s) <= PurePv[s]
    BY <1>5, <2>2
  <2> QED
    BY <1>2, <1>7, <2>1, <2>2, <2>3
<1> QED
  BY <1>1, <1>3, <1>7, <1>8, <1>9

-------------------------------------------------------------------------------
(* What every state of the two importers keeps. *)

IsUpload(a) == a = [pc |-> a.pc, days |-> a.days, grid |-> a.grid, seed |-> a.seed,
                    written |-> a.written]
UploadInv ==
  /\ IsUpload(ask) /\ metered = [d \in ArcDaySet |-> metered[d]]
  /\ ask.pc # "idle" =>
       /\ ask.grid \in Uploads /\ ask.days \subseteq CompleteDays(ask.grid) /\ IsCounter(ask.seed)
       /\ \A e \in ask.written : e \in ArcDaySet /\ \A d \in ask.days : e < d
  /\ Importing => ask.days # {}

PullInv ==
  /\ PullTyped
  /\ Pulling => portal.live \subseteq PullWindow
  /\ portal.pc \in {"clear", "askoe", "insert"} =>
       /\ DOMAIN portal.rows \subseteq DOMAIN PurePv \ portal.live
       /\ \A s \in DOMAIN portal.rows : portal.rows[s] = PurePv[s]

\* Since an import has looked at its day or window, what went live there was told;
\* what another import wrote there makes a raced day.
ApartInv ==
  /\ liveFrom \in Nat /\ liveTo \in Nat /\ SourcesApart
  /\ Importing => \A s \in SlotsOf(DayInHand) :
       (LiveRow(s) => s \in overtaken) /\ (fsRows[s] # NoRow => DayInHand \in raced)
  /\ Pulling => \A s \in PullWindow : LiveRow(s) => s \in portal.live \/ s \in overtaken
  /\ portal.pc = "insert" => \A s \in PullWindow : askRows[s] # NoRow => s \div SlotsInDay \in raced

Opening(d) == askRows[d * SlotsInDay]
Closing(d) == askRows[d * SlotsInDay + SlotsInDay - 1]

\* The rows of a metered day are still those built of an uploaded day.
BuiltOf(u, d) ==
  /\ u \in Uploads /\ d \in CompleteDays(u) /\ metered[d] = [c \in Channels |-> u[c][d]]
  /\ \A s \in SlotsOf(d) : askRows[s] = BuildDay(u, d, Opening(d))[s]
MeteredInv ==
  \A d \in ArcDaySet : metered[d] # NoRow => IsCounter(Opening(d)) /\ \E u : BuiltOf(u, d)

ChainInv ==
  /\ \A p \in chained :
       /\ p[1] \in ArcDaySet /\ p[2] \in ArcDaySet /\ Opening(p[2]) = Closing(p[1])
       /\ ask.pc # "idle" => p[1] \in ask.written /\ p[2] \in ask.written
  /\ ask.pc # "idle" =>
       \A e \in ask.written : metered[e] # NoRow /\ (\A f \in ask.written : f <= e) =>
         ask.seed = Closing(e)

ArchiveInv == UploadInv /\ PullInv /\ ApartInv /\ MeteredInv /\ ChainInv

LEMMA DayInHandHolds ==
  ASSUME UploadInv, ask.pc # "idle", ask.days # {}
  PROVE  /\ DayInHand \in ask.days /\ DayInHand \in ArcDaySet /\ IsDayOf(ask.grid, DayInHand)
         /\ \A d \in DaysLeft : d \in ask.days /\ DayInHand < d
<1>1. \A d \in ask.days : d \in ArcDaySet /\ d \in Nat /\ IsDayOf(ask.grid, d)
  BY UploadsTyped DEF UploadInv, IsDayOf
<1>2. DayInHand \in ask.days /\ \A y \in ask.days : DayInHand <= y
  BY <1>1, SmallestExists DEF DayInHand
<1>3. ASSUME NEW d \in DaysLeft PROVE d \in ask.days /\ DayInHand < d
  <2>1. d \in ask.days /\ d # DayInHand
    BY DEF DaysLeft
  <2> QED
    BY <1>1, <1>2, <2>1
<1> QED
  BY <1>1, <1>2, <1>3

\* The days of two metered days share no slot.
LEMMA DaysShareNothing ==
  ASSUME NEW d \in ArcDaySet, NEW e \in ArcDaySet, NEW s \in SlotsOf(d), s \in SlotsOf(e)
  PROVE  d = e
<1>1. d \in Nat /\ e \in Nat
  BY StepSizes DEF ArcDaySet
<1> QED
  BY <1>1, DaysOfSlots

LEMMA EndsOfDays ==
  ASSUME NEW d \in ArcDaySet
  PROVE  /\ d \in Nat /\ SlotsOf(d) \subseteq ArcSlots
         /\ d * SlotsInDay \in SlotsOf(d) /\ d * SlotsInDay + SlotsInDay - 1 \in SlotsOf(d)
         /\ Min(SlotsOf(d)) = d * SlotsInDay /\ Max(SlotsOf(d)) = d * SlotsInDay + SlotsInDay - 1
         /\ \A s \in SlotsOf(d) : s \div SlotsInDay = d
<1>1. d \in Nat
  BY StepSizes DEF ArcDaySet
<1> QED
  BY <1>1, DaysOfSlots

-------------------------------------------------------------------------------
(* The invariant says that archives hold. *)

LEMMA ArchivesFollow == ArchiveInv => ArchivesHold
<1> SUFFICES ASSUME ArchiveInv PROVE ArchivesHold
  OBVIOUS
<1>1. SourcesApart
  BY DEF ArchiveInv, ApartInv
<1>2. DaysAddUp
  <2> SUFFICES ASSUME NEW d \in ArcDaySet, metered[d] # NoRow
               PROVE  LET open == askRows[Min(SlotsOf(d))]  close == askRows[Max(SlotsOf(d))]
                      IN  /\ \A c \in Channels : close[c] - open[c] = SumOf(metered[d][c])
                          /\ (\A s \in SlotsOf(d) : askRows[s].load > 0) =>
                               close.load - open.load =
                                 SumOf(metered[d]["pv"]) + SumOf(metered[d]["import"])
                                 - SumOf(metered[d]["export"])
    BY DEF DaysAddUp, ArcDaySet
  <2>1. PICK u : BuiltOf(u, d)
    BY DEF ArchiveInv, MeteredInv
  <2>2. IsCounter(Opening(d)) /\ IsDayOf(u, d)
    BY <2>1 DEF ArchiveInv, MeteredInv, BuiltOf, IsDayOf
  <2> DEFINE first == d * SlotsInDay  last == d * SlotsInDay + SlotsInDay - 1
             rows == BuildDay(u, d, Opening(d))  a == Counters(u, d, Opening(d))
             close == a[SlotsInDay]  open == Opening(d)
  <2>3. /\ Min(SlotsOf(d)) = first /\ Max(SlotsOf(d)) = last
        /\ first \in SlotsOf(d) /\ last \in SlotsOf(d)
    BY EndsOfDays
  <2>4. /\ rows[last] = close
        /\ \A k \in 0 .. SlotsInDay - 2 : first + k \in SlotsOf(d) /\ rows[first + k] = a[k]
    BY <2>2, DayBuilt
  <2>5. \A s \in SlotsOf(d) : askRows[s] = rows[s]
    BY <2>1 DEF BuiltOf
  <2>6. askRows[Min(SlotsOf(d))] = open /\ askRows[Max(SlotsOf(d))] = close
    BY <2>3, <2>4, <2>5 DEF Opening
  <2>7. \A c \in Channels : metered[d][c] = u[c][d]
    BY <2>1 DEF BuiltOf
  <2>8. /\ \A c \in Channels : close[c] - open[c] = SumOf(u[c][d])
        /\ ((\A k \in 0 .. SlotsInDay - 2 : a[k].load > 0) /\ close.load > 0) =>
             close.load - open.load = SumOf(u["pv"][d]) + SumOf(u["import"][d]) - SumOf(u["export"][d])
    BY <2>2, DayAddsUp
  <2>9. (\A s \in SlotsOf(d) : askRows[s].load > 0) =>
          (\A k \in 0 .. SlotsInDay - 2 : a[k].load > 0) /\ close.load > 0
    <3> HIDE DEF first, last, rows, a, close
    <3> SUFFICES ASSUME \A s \in SlotsOf(d) : askRows[s].load > 0
                 PROVE  (\A k \in 0 .. SlotsInDay - 2 : a[k].load > 0) /\ close.load > 0
      OBVIOUS
    <3>1. ASSUME NEW k \in 0 .. SlotsInDay - 2 PROVE a[k].load > 0
      <4>1. first + k \in SlotsOf(d) /\ askRows[first + k] = a[k]
        BY <2>4, <2>5
      <4> QED
        BY <4>1
    <3>2. close.load > 0
      BY <2>3, <2>4, <2>5
    <3> QED
      BY <3>1, <3>2
  <2>10. "pv" \in Channels /\ "import" \in Channels /\ "export" \in Channels
    BY DEF Channels
  <2> HIDE DEF a, close, open, rows
  <2> QED
    BY <2>6, <2>7, <2>8, <2>9, <2>10
<1>3. MidnightsContinue
  <2> SUFFICES ASSUME NEW p \in chained
               PROVE  askRows[Min(SlotsOf(p[2]))] = askRows[Max(SlotsOf(p[1]))]
    BY DEF MidnightsContinue
  <2>1. p[1] \in ArcDaySet /\ p[2] \in ArcDaySet /\ Opening(p[2]) = Closing(p[1])
    BY DEF ArchiveInv, ChainInv
  <2> QED
    BY <2>1, EndsOfDays DEF Opening, Closing
<1>4. PureSeries
  <2> SUFFICES ASSUME portal.pc = "clear"
               PROVE  LET rows == portal.rows
                          grows == \A s \in Yields, t \in Yields : s <= t => PureNow(s) <= PureNow(t)
                      IN  /\ \A s \in DOMAIN rows, t \in DOMAIN rows : s <= t => rows[s] <= rows[t]
                          /\ grows => \A s \in DOMAIN rows : rows[s] = PureNow(s)
    BY DEF PureSeries
  <2>1. /\ PullTyped /\ portal.pc # "idle"
        /\ DOMAIN portal.rows \subseteq DOMAIN PurePv /\ \A s \in DOMAIN portal.rows : portal.rows[s] = PurePv[s]
    BY DEF ArchiveInv, PullInv
  <2>2. /\ DOMAIN PurePv = Yields
        /\ \A s \in Yields, t \in Yields : s <= t => PurePv[s] <= PurePv[t]
        /\ (\A s \in Yields, t \in Yields : s <= t => PureNow(s) <= PureNow(t)) =>
             \A s \in Yields : PurePv[s] = PureNow(s)
    BY <2>1, PureHolds
  <2> QED
    BY <2>1, <2>2
<1> QED
  BY <1>1, <1>2, <1>3, <1>4 DEF ArchivesHold

-------------------------------------------------------------------------------
(* The invariant holds at the start, and no step breaks it. *)

LEMMA ArchivesStart == ArcInit => ArchiveInv
<1> SUFFICES ASSUME ArcInit PROVE ArchiveInv
  OBVIOUS
<1>1. /\ ask = NoUpload /\ portal = NoPull /\ chained = {} /\ liveFrom \in Nat /\ liveTo \in Nat
      /\ \A s \in ArcSlots : fsRows[s] = NoRow /\ askRows[s] = NoRow
      /\ metered = [d \in ArcDaySet |-> NoRow]
  BY ArchiveAssumption DEF ArcInit, ArchiveAssumption, ArcDaySet
<1>2. ask.pc = "idle" /\ IsUpload(ask)
  BY <1>1 DEF NoUpload, IsUpload
<1>3. portal.pc = "idle" /\ IsPull(portal)
  BY <1>1 DEF NoPull, IsPull
<1>4. UploadInv
  BY <1>1, <1>2 DEF UploadInv, Importing
<1>5. PullInv
  BY <1>3 DEF PullInv, PullTyped, Pulling
<1>6. ApartInv
  BY <1>1, <1>2, <1>3 DEF ApartInv, SourcesApart, Importing, Pulling
<1>7. MeteredInv
  BY <1>1 DEF MeteredInv
<1>8. ChainInv
  BY <1>1, <1>2 DEF ChainInv
<1> QED
  BY <1>4, <1>5, <1>6, <1>7, <1>8 DEF ArchiveInv

LEMMA UploadKept ==
  ASSUME UploadInv, [ArcNext]_arcVars
  PROVE  UploadInv'
<1> USE DEF UploadInv, IsUpload, Importing
<1>1. ASSUME NEW u \in Uploads, UploadSheets(u) PROVE UploadInv'
  <2>1. /\ ask' = [pc |-> "check", days |-> CompleteDays(u), grid |-> u, seed |-> ZeroCounters, written |-> {}]
        /\ metered' = metered
    BY <1>1 DEF UploadSheets, NoUpload
  <2>2. IsCounter(ZeroCounters)
    BY DEF ZeroCounters, IsCounter
  <2> QED
    BY <2>1, <2>2
<1>2. ASSUME CheckDay PROVE UploadInv'
  <2>1. ask.pc = "check" /\ ask.days # {} /\ metered' = metered
    BY <1>2 DEF CheckDay
  <2>2. \/ ask' = [ask EXCEPT !.days = DaysLeft]
        \/ ask' = [ask EXCEPT !.pc = "clear"]
    BY <1>2 DEF CheckDay
  <2>3. \A d \in DaysLeft : d \in ask.days
    BY DEF DaysLeft
  <2> QED
    BY <2>1, <2>2, <2>3
<1>3. ASSUME ClearDay PROVE UploadInv'
  <2>1. /\ ask.pc = "clear" /\ ask' = [ask EXCEPT !.pc = "insert"]
        /\ metered' = [metered EXCEPT ![DayInHand] = NoRow]
    BY <1>3 DEF ClearDay
  <2>2. metered' = [d \in ArcDaySet |-> metered'[d]]
    BY <2>1
  <2> QED
    BY <2>1, <2>2
<1>4. ASSUME InsertDay PROVE UploadInv'
  <2> DEFINE rows == BuildDay(ask.grid, DayInHand, ask.seed)
  <2>1. /\ ask.pc = "insert" /\ metered' = [metered EXCEPT ![DayInHand] = [c \in Channels |-> ask.grid[c][DayInHand]]]
        /\ ask' = [ask EXCEPT !.pc = "check", !.days = DaysLeft, !.seed = NextSeed(rows),
                              !.written = @ \union {DayInHand}]
    BY <1>4 DEF InsertDay
  <2>2. /\ DayInHand \in ArcDaySet /\ IsDayOf(ask.grid, DayInHand)
        /\ \A d \in DaysLeft : d \in ask.days /\ DayInHand < d
    BY <2>1, DayInHandHolds
  <2>3. IsCounter(NextSeed(rows))
    BY <2>1, <2>2, DayBuilt DEF NextSeed
  <2>4. metered' = [d \in ArcDaySet |-> metered'[d]]
    BY <2>1
  <2> HIDE DEF rows
  <2>5. /\ ask'.pc = "check" /\ ask'.days = DaysLeft /\ ask'.grid = ask.grid
        /\ ask'.seed = NextSeed(rows) /\ ask'.written = ask.written \union {DayInHand}
        /\ IsUpload(ask')
    BY <2>1
  <2>6. ask.grid \in Uploads /\ DaysLeft \subseteq CompleteDays(ask.grid)
    BY <2>1, <2>2
  <2>7. \A e \in ask'.written : e \in ArcDaySet /\ \A d \in ask'.days : e < d
    BY <2>1, <2>2, <2>5
  <2> QED
    BY <2>3, <2>4, <2>5, <2>6, <2>7
<1>5. ASSUME EndUpload \/ StopUpload PROVE UploadInv'
  BY <1>5 DEF EndUpload, StopUpload, NoUpload
<1>6. ASSUME ClearMeterRows PROVE UploadInv'
  <2>1. ask' = ask /\ metered' = [d \in ArcDaySet |-> metered'[d]]
    BY <1>6 DEF ClearMeterRows, ArcDaySet
  <2> QED
    BY <2>1
<1>7. ASSUME UNCHANGED <<ask, metered>> PROVE UploadInv'
  BY <1>7
<1> QED
  <2>1. CASE \E r \in PortalRanges : PullHistory(r)
    BY <1>7, <2>1 DEF PullHistory
  <2>2. CASE ScanWindow \/ FetchWindow \/ ClearPortalRows \/ InsertWindow
    BY <1>7, <2>2 DEF ScanWindow, FetchWindow, ClearPortalRows, InsertWindow
  <2>3. CASE EndPull \/ StopPull \/ LiveArrives
    BY <1>7, <2>3 DEF EndPull, StopPull, LiveArrives
  <2>4. CASE UNCHANGED arcVars
    BY <1>7, <2>4 DEF arcVars
  <2> QED
    BY <1>1, <1>2, <1>3, <1>4, <1>5, <1>6, <2>1, <2>2, <2>3, <2>4 DEF ArcNext

LEMMA PullKept ==
  ASSUME PullInv, [ArcNext]_arcVars
  PROVE  PullInv'
<1> USE DEF PullInv, PullTyped, IsPull, Pulling
<1>1. ASSUME NEW r \in PortalRanges, PullHistory(r) PROVE PullInv'
  <2>1. portal' = [pc |-> "scan", at |-> r.from, to |-> r.to, first |-> r.from, live |-> {}, rows |-> <<>>]
    BY <1>1 DEF PullHistory, NoPull
  <2>2. r.from \in Nat /\ r.to \in Nat /\ r.to - 1 \in ArcSlots
    BY ArchiveAssumption DEF ArchiveAssumption
  <2> QED
    BY <2>1, <2>2
<1>2. ASSUME portal.pc # "idle", portal' = NextWindow PROVE PullInv'
  <2>1. WindowEnd \in Nat
    BY <1>2, PullWindowHolds
  <2>2. portal' = [pc |-> "scan", at |-> WindowEnd, to |-> portal.to, first |-> portal.first,
                   live |-> {}, rows |-> <<>>]
    BY <1>2 DEF NextWindow
  <2> QED
    BY <1>2, <2>1, <2>2
<1>3. ASSUME portal.pc # "idle", NEW pc, NEW live, NEW rows,
             portal' = [portal EXCEPT !.pc = pc, !.live = live, !.rows = rows],
             live \subseteq PullWindow,
             pc \in {"clear", "askoe", "insert"} =>
               /\ DOMAIN rows \subseteq DOMAIN PurePv \ live
               /\ \A s \in DOMAIN rows : rows[s] = PurePv[s]
      PROVE  PullInv'
  <2>1. /\ portal' = [pc |-> pc, at |-> portal.at, to |-> portal.to, first |-> portal.first,
                      live |-> live, rows |-> rows]
        /\ portal'.at = portal.at /\ portal'.to = portal.to
    BY <1>3
  <2>2. PullWindow' = PullWindow
    BY <2>1 DEF PullWindow, WindowEnd
  <2>3. PurePv' = PurePv
    BY <2>2 DEF PurePv, Yields, PureNow, DischargeAt
  <2>4. PullTyped' /\ portal'.pc = pc /\ portal'.live = live /\ portal'.rows = rows
    BY <1>3, <2>1
  <2> QED
    BY <1>3, <2>2, <2>3, <2>4
<1>4. ASSUME ScanWindow PROVE PullInv'
  <2> DEFINE live == {s \in PullWindow : LiveRow(s)}
  <2>1. portal.pc = "scan"
    BY <1>4 DEF ScanWindow
  <2>2. portal' = NextWindow \/ portal' = [portal EXCEPT !.pc = "fetch", !.live = live]
    BY <1>4 DEF ScanWindow
  <2>3. ASSUME portal' = [portal EXCEPT !.pc = "fetch", !.live = live] PROVE PullInv'
    <3>1. portal' = [portal EXCEPT !.pc = "fetch", !.live = live, !.rows = portal.rows]
      BY <2>3
    <3>2. live \subseteq PullWindow
      OBVIOUS
    <3> HIDE DEF live
    <3> QED
      BY <1>3, <2>1, <3>1, <3>2
  <2> QED
    BY <1>2, <2>1, <2>2, <2>3
<1>5. ASSUME FetchWindow PROVE PullInv'
  <2> DEFINE keep == DOMAIN PurePv \ portal.live
             rows == [s \in keep |-> PurePv[s]]
  <2>1. portal.pc = "fetch"
    BY <1>5 DEF FetchWindow
  <2>2. portal' = NextWindow \/ portal' = [portal EXCEPT !.pc = "clear", !.rows = rows]
    BY <1>5 DEF FetchWindow
  <2>3. ASSUME portal' = [portal EXCEPT !.pc = "clear", !.rows = rows] PROVE PullInv'
    <3>1. portal' = [portal EXCEPT !.pc = "clear", !.live = portal.live, !.rows = rows]
      BY <2>3
    <3>2. DOMAIN rows = DOMAIN PurePv \ portal.live /\ \A s \in DOMAIN rows : rows[s] = PurePv[s]
      OBVIOUS
    <3> HIDE DEF rows
    <3> QED
      BY <1>3, <2>1, <3>1, <3>2
  <2> QED
    BY <1>2, <2>1, <2>2, <2>3
<1>6. ASSUME NEW to \in {"askoe", "insert"}, portal.pc \in {"clear", "askoe"},
             portal' = [portal EXCEPT !.pc = to]
      PROVE  PullInv'
  <2>1. portal' = [portal EXCEPT !.pc = to, !.live = portal.live, !.rows = portal.rows]
    BY <1>6
  <2>2. /\ portal.live \subseteq PullWindow /\ DOMAIN portal.rows \subseteq DOMAIN PurePv \ portal.live
        /\ \A s \in DOMAIN portal.rows : portal.rows[s] = PurePv[s]
        /\ portal.pc # "idle"
    BY <1>6
  <2> DEFINE live == portal.live  rows == portal.rows
  <2> HIDE DEF live, rows
  <2>3. portal' = [portal EXCEPT !.pc = to, !.live = live, !.rows = rows]
    BY <2>1 DEF live, rows
  <2>4. /\ live \subseteq PullWindow /\ DOMAIN rows \subseteq DOMAIN PurePv \ live
        /\ \A s \in DOMAIN rows : rows[s] = PurePv[s]
    BY <2>2 DEF live, rows
  <2> QED
    BY <1>3, <2>2, <2>3, <2>4
<1>7. ASSUME ClearPortalRows \/ ClearMeterRows PROVE PullInv'
  BY <1>6, <1>7 DEF ClearPortalRows, ClearMeterRows
<1>8. ASSUME InsertWindow PROVE PullInv'
  BY <1>2, <1>8 DEF InsertWindow
<1>9. ASSUME EndPull \/ StopPull PROVE PullInv'
  BY <1>9 DEF EndPull, StopPull, NoPull
<1>10. ASSUME portal' = portal PROVE PullInv'
  <2>1. PullWindow' = PullWindow
    BY <1>10 DEF PullWindow, WindowEnd
  <2>2. PurePv' = PurePv
    BY <2>1 DEF PurePv, Yields, PureNow, DischargeAt
  <2> QED
    BY <1>10, <2>1, <2>2
<1> QED
  <2>1. CASE \E u \in Uploads : UploadSheets(u)
    BY <1>10, <2>1 DEF UploadSheets
  <2>2. CASE CheckDay \/ ClearDay \/ InsertDay \/ EndUpload \/ StopUpload \/ LiveArrives
    BY <1>10, <2>2 DEF CheckDay, ClearDay, InsertDay, EndUpload, StopUpload, LiveArrives
  <2>3. CASE UNCHANGED arcVars
    BY <1>10, <2>3 DEF arcVars
  <2> QED
    BY <1>1, <1>4, <1>5, <1>7, <1>8, <1>9, <2>1, <2>2, <2>3 DEF ArcNext

LEMMA ApartKept ==
  ASSUME UploadInv, PullInv, ApartInv, [ArcNext]_arcVars
  PROVE  ApartInv'
<1> USE DEF ApartInv, SourcesApart, Importing, Pulling
<1> DEFINE N == SlotsInDay
\* A step that leaves the rows, the live ones and what was told of races alone.
<1>1. ASSUME UNCHANGED <<liveTo, liveFrom, fsRows, askRows, raced, overtaken>>
      PROVE  /\ liveFrom' \in Nat /\ liveTo' \in Nat /\ SourcesApart'
             /\ \A s : LiveRow(s)' <=> LiveRow(s)
  <2>1. \A s : LiveRow(s)' <=> LiveRow(s)
    BY <1>1 DEF LiveRow
  <2> HIDE DEF Importing, Pulling
  <2> QED
    BY <1>1, <2>1
<1>2. ASSUME portal' = portal
      PROVE  PullWindow' = PullWindow /\ (Pulling' <=> Pulling) /\ portal'.pc = portal.pc
  BY <1>2 DEF PullWindow, WindowEnd
<1>3. ASSUME ask' = ask
      PROVE  DayInHand' = DayInHand /\ (Importing' <=> Importing)
  BY <1>3 DEF DayInHand
\* An upload that looks at no row.
<1>4. ASSUME UNCHANGED <<liveTo, liveFrom, fsRows, askRows, portal, raced, overtaken>>,
             Importing' => Importing /\ DayInHand' = DayInHand
      PROVE  ApartInv'
  <2>1. Importing' => \A s \in SlotsOf(DayInHand)' :
          (LiveRow(s)' => s \in overtaken') /\ (fsRows'[s] # NoRow => DayInHand' \in raced')
    <3> SUFFICES ASSUME Importing', NEW s \in SlotsOf(DayInHand')
                 PROVE  (LiveRow(s)' => s \in overtaken') /\ (fsRows'[s] # NoRow => DayInHand' \in raced')
      BY DEF SlotsOf
    <3>1. Importing /\ DayInHand' = DayInHand
      BY <1>4
    <3>2. (LiveRow(s) => s \in overtaken) /\ (fsRows[s] # NoRow => DayInHand \in raced)
      BY <3>1
    <3> QED
      BY <1>1, <1>4, <3>1, <3>2
  <2>2. Pulling' => \A s \in PullWindow' : LiveRow(s)' => s \in portal'.live \/ s \in overtaken'
    BY <1>1, <1>2, <1>4
  <2>3. portal'.pc = "insert" => \A s \in PullWindow' : askRows'[s] # NoRow => s \div SlotsInDay \in raced'
    BY <1>2, <1>4
  <2> QED
    BY <1>1, <1>4, <2>1, <2>2, <2>3
<1>5. ASSUME NEW u \in Uploads, UploadSheets(u) PROVE ApartInv'
  <2>1. ask'.pc = "check"
    BY <1>5 DEF UploadSheets, NoUpload
  <2> QED
    BY <1>4, <1>5, <2>1 DEF UploadSheets
<1>6. ASSUME CheckDay PROVE ApartInv'
  <2>1. /\ ask.pc = "check" /\ ask.days # {} /\ IsUpload(ask)
        /\ UNCHANGED <<liveTo, liveFrom, fsRows, askRows, portal, raced, overtaken>>
    BY <1>6 DEF CheckDay, UploadInv
  <2>2. CASE Occupied(DayInHand)
    <3>1. ask'.pc = "check"
      BY <1>6, <2>1, <2>2 DEF CheckDay, IsUpload
    <3> QED
      BY <1>4, <2>1, <3>1
  <2>3. CASE ~Occupied(DayInHand)
    <3>1. ask'.pc = "clear" /\ ask'.days = ask.days
      BY <1>6, <2>1, <2>3 DEF CheckDay, IsUpload
    <3>2. DayInHand' = DayInHand
      BY <3>1 DEF DayInHand
    <3>3. \A s \in SlotsOf(DayInHand) : ~LiveRow(s) /\ fsRows[s] = NoRow
      BY <2>3 DEF Occupied
    <3>4. Importing' => \A s \in SlotsOf(DayInHand)' :
            (LiveRow(s)' => s \in overtaken') /\ (fsRows'[s] # NoRow => DayInHand' \in raced')
      <4> SUFFICES ASSUME NEW s \in SlotsOf(DayInHand')
                   PROVE  ~LiveRow(s)' /\ fsRows'[s] = NoRow
        BY DEF SlotsOf
      <4> QED
        BY <1>1, <2>1, <3>2, <3>3
    <3>5. Pulling' => \A s \in PullWindow' : LiveRow(s)' => s \in portal'.live \/ s \in overtaken'
      BY <1>1, <1>2, <2>1
    <3>6. portal'.pc = "insert" => \A s \in PullWindow' : askRows'[s] # NoRow => s \div SlotsInDay \in raced'
      BY <1>2, <2>1
    <3> QED
      BY <1>1, <2>1, <3>4, <3>5, <3>6
  <2> QED
    BY <2>2, <2>3
<1>7. ASSUME ClearDay PROVE ApartInv'
  <2>1. /\ ask.pc = "clear" /\ ask'.days = ask.days
        /\ UNCHANGED <<liveTo, liveFrom, fsRows, portal, raced, overtaken>>
        /\ \A s \in ArcSlots : askRows'[s] = NoRow \/ askRows'[s] = askRows[s]
    BY <1>7 DEF ClearDay, UploadInv, IsUpload
  <2>2. DayInHand' = DayInHand
    BY <2>1 DEF DayInHand
  <2>3. \A s : LiveRow(s)' <=> LiveRow(s)
    BY <2>1 DEF LiveRow
  <2>4. SourcesApart'
    BY <2>1, <2>3
  <2>5. \A s \in SlotsOf(DayInHand)' :
          (LiveRow(s)' => s \in overtaken') /\ (fsRows'[s] # NoRow => DayInHand' \in raced')
    <3> SUFFICES ASSUME NEW s \in SlotsOf(DayInHand')
                 PROVE  (LiveRow(s)' => s \in overtaken') /\ (fsRows'[s] # NoRow => DayInHand' \in raced')
      BY DEF SlotsOf
    <3> QED
      BY <2>1, <2>2, <2>3
  <2>6. Pulling' => \A s \in PullWindow' : LiveRow(s)' => s \in portal'.live \/ s \in overtaken'
    BY <1>2, <2>1, <2>3
  <2>7. portal'.pc = "insert" => \A s \in PullWindow' : askRows'[s] # NoRow => s \div SlotsInDay \in raced'
    <3> SUFFICES ASSUME portal.pc = "insert", NEW s \in PullWindow, askRows'[s] # NoRow
                 PROVE  s \div SlotsInDay \in raced
      BY <1>2, <2>1
    <3>1. s \in ArcSlots
      BY PullWindowHolds DEF PullInv
    <3>2. askRows[s] # NoRow
      BY <2>1, <3>1
    <3> QED
      BY <3>2
  <2> QED
    BY <2>1, <2>4, <2>5, <2>6, <2>7
<1>8. ASSUME InsertDay PROVE ApartInv'
  <2> DEFINE d == DayInHand
  <2>1. /\ ask.pc = "insert" /\ ask'.pc = "check" /\ ask.days # {}
        /\ UNCHANGED <<liveTo, liveFrom, fsRows, portal, overtaken>>
        /\ \A s \in ArcSlots : s \notin SlotsOf(d) => askRows'[s] = askRows[s]
        /\ raced \subseteq raced' /\ (portal.pc = "insert" => d \in raced')
    BY <1>8 DEF InsertDay, UploadInv, IsUpload
  <2>2. d \in ArcDaySet
    BY <2>1, DayInHandHolds
  <2>3. \A s \in SlotsOf(d) : /\ s \in ArcSlots /\ s \div SlotsInDay = d
                              /\ (LiveRow(s) => s \in overtaken)
                              /\ (fsRows[s] # NoRow => d \in raced)
    BY <2>1, <2>2, EndsOfDays
  <2> HIDE DEF d
  <2>4. \A s : LiveRow(s)' <=> LiveRow(s)
    BY <2>1 DEF LiveRow
  <2>5. SourcesApart'
    <3> SUFFICES ASSUME NEW s \in ArcSlots
                 PROVE  /\ fsRows'[s] # NoRow /\ askRows'[s] # NoRow => s \div SlotsInDay \in raced'
                        /\ LiveRow(s)' /\ (fsRows'[s] # NoRow \/ askRows'[s] # NoRow) => s \in overtaken'
      OBVIOUS
    <3>1. CASE s \in SlotsOf(d)
      BY <2>1, <2>3, <2>4, <3>1
    <3>2. CASE s \notin SlotsOf(d)
      BY <2>1, <2>4, <3>2
    <3> QED
      BY <3>1, <3>2
  <2>6. Pulling' => \A s \in PullWindow' : LiveRow(s)' => s \in portal'.live \/ s \in overtaken'
    BY <1>2, <2>1, <2>4
  <2>7. portal'.pc = "insert" => \A s \in PullWindow' : askRows'[s] # NoRow => s \div SlotsInDay \in raced'
    <3> SUFFICES ASSUME portal.pc = "insert", NEW s \in PullWindow, askRows'[s] # NoRow
                 PROVE  s \div SlotsInDay \in raced'
      BY <1>2, <2>1
    <3>1. s \in ArcSlots
      BY PullWindowHolds DEF PullInv
    <3>2. CASE s \in SlotsOf(d)
      BY <2>1, <2>3, <3>2
    <3>3. CASE s \notin SlotsOf(d)
      BY <2>1, <3>1, <3>3
    <3> QED
      BY <3>2, <3>3
  <2> QED
    BY <2>1, <2>5, <2>6, <2>7
<1>9. ASSUME EndUpload \/ StopUpload PROVE ApartInv'
  <2>1. /\ ask'.pc = "idle"
        /\ UNCHANGED <<liveTo, liveFrom, fsRows, askRows, portal, raced, overtaken>>
    BY <1>9 DEF EndUpload, StopUpload, NoUpload
  <2> QED
    BY <1>4, <2>1
\* A pull that looks at no row.
<1>10. ASSUME UNCHANGED <<liveTo, liveFrom, fsRows, askRows, ask, raced, overtaken>>,
              Pulling' => Pulling /\ PullWindow' = PullWindow /\ portal'.live = portal.live,
              portal'.pc # "insert"
       PROVE  ApartInv'
  <2>1. Importing' => \A s \in SlotsOf(DayInHand)' :
          (LiveRow(s)' => s \in overtaken') /\ (fsRows'[s] # NoRow => DayInHand' \in raced')
    <3> SUFFICES ASSUME Importing', NEW s \in SlotsOf(DayInHand')
                 PROVE  (LiveRow(s)' => s \in overtaken') /\ (fsRows'[s] # NoRow => DayInHand' \in raced')
      BY DEF SlotsOf
    <3> QED
      BY <1>1, <1>3, <1>10
  <2>2. Pulling' => \A s \in PullWindow' : LiveRow(s)' => s \in portal'.live \/ s \in overtaken'
    BY <1>1, <1>10
  <2> QED
    BY <1>1, <1>10, <2>1, <2>2
<1>11. ASSUME PullTyped, portal' = NextWindow PROVE portal'.pc = "scan"
  BY <1>11 DEF NextWindow, PullTyped, IsPull
<1>12. ASSUME NEW r \in PortalRanges, PullHistory(r) PROVE ApartInv'
  <2>1. portal'.pc = "scan"
    BY <1>12 DEF PullHistory, NoPull
  <2> QED
    BY <1>10, <1>12, <2>1 DEF PullHistory
<1>13. ASSUME ScanWindow PROVE ApartInv'
  <2> DEFINE live == {s \in PullWindow : LiveRow(s)}
  <2>1. /\ portal.pc = "scan" /\ PullTyped
        /\ UNCHANGED <<liveTo, liveFrom, fsRows, askRows, ask, raced, overtaken>>
        /\ (portal' = NextWindow \/ portal' = [portal EXCEPT !.pc = "fetch", !.live = live])
    BY <1>13 DEF ScanWindow, PullInv
  <2>2. CASE portal' = NextWindow
    <3>1. portal'.pc = "scan"
      BY <1>11, <2>1, <2>2
    <3> QED
      BY <1>10, <2>1, <3>1
  <2>3. CASE portal' = [portal EXCEPT !.pc = "fetch", !.live = live]
    <3>1. portal'.pc = "fetch" /\ portal'.live = live /\ portal'.at = portal.at /\ portal'.to = portal.to
      BY <2>1, <2>3 DEF PullTyped, IsPull
    <3>2. PullWindow' = PullWindow
      BY <3>1 DEF PullWindow, WindowEnd
    <3>3. Importing' => \A s \in SlotsOf(DayInHand)' :
            (LiveRow(s)' => s \in overtaken') /\ (fsRows'[s] # NoRow => DayInHand' \in raced')
      <4> SUFFICES ASSUME Importing', NEW s \in SlotsOf(DayInHand')
                   PROVE  (LiveRow(s)' => s \in overtaken') /\ (fsRows'[s] # NoRow => DayInHand' \in raced')
        BY DEF SlotsOf
      <4> QED
        BY <1>1, <1>3, <2>1
    <3>4. \A s \in PullWindow' : LiveRow(s)' => s \in portal'.live
      BY <1>1, <2>1, <3>1, <3>2
    <3> QED
      BY <1>1, <2>1, <3>1, <3>3, <3>4
  <2> QED
    BY <2>1, <2>2, <2>3
<1>14. ASSUME FetchWindow PROVE ApartInv'
  <2> DEFINE rows == [s \in DOMAIN PurePv \ portal.live |-> PurePv[s]]
  <2>1. /\ portal.pc = "fetch" /\ PullTyped
        /\ UNCHANGED <<liveTo, liveFrom, fsRows, askRows, ask, raced, overtaken>>
        /\ (portal' = NextWindow \/ portal' = [portal EXCEPT !.pc = "clear", !.rows = rows])
    BY <1>14 DEF FetchWindow, PullInv
  <2>2. CASE portal' = NextWindow
    <3>1. portal'.pc = "scan"
      BY <1>11, <2>1, <2>2
    <3> QED
      BY <1>10, <2>1, <3>1
  <2>3. CASE portal' = [portal EXCEPT !.pc = "clear", !.rows = rows]
    <3> HIDE DEF rows
    <3>1. /\ portal'.pc = "clear" /\ portal'.live = portal.live /\ portal'.at = portal.at
          /\ portal'.to = portal.to
      BY <2>1, <2>3 DEF PullTyped, IsPull
    <3>2. PullWindow' = PullWindow
      BY <3>1 DEF PullWindow, WindowEnd
    <3> QED
      BY <1>10, <2>1, <3>1, <3>2
  <2> QED
    BY <2>1, <2>2, <2>3
<1>15. ASSUME ClearPortalRows \/ ClearMeterRows PROVE ApartInv'
  <2>1. /\ portal.pc \in {"clear", "askoe"} /\ PullTyped /\ portal'.pc \in {"askoe", "insert"}
        /\ portal'.live = portal.live /\ portal'.at = portal.at /\ portal'.to = portal.to
        /\ UNCHANGED <<liveTo, liveFrom, ask, raced, overtaken>>
    BY <1>15 DEF ClearPortalRows, ClearMeterRows, PullInv, PullTyped, IsPull
  <2>2. PullWindow' = PullWindow
    BY <2>1 DEF PullWindow, WindowEnd
  <2>3. \A s : LiveRow(s)' <=> LiveRow(s)
    BY <2>1 DEF LiveRow
  <2>4. \A s \in ArcSlots : /\ (fsRows'[s] = NoRow \/ fsRows'[s] = fsRows[s])
                            /\ (askRows'[s] = NoRow \/ askRows'[s] = askRows[s])
    BY <1>15 DEF ClearPortalRows, ClearMeterRows
  <2>5. SourcesApart'
    <3> SUFFICES ASSUME NEW s \in ArcSlots
                 PROVE  /\ fsRows'[s] # NoRow /\ askRows'[s] # NoRow => s \div SlotsInDay \in raced'
                        /\ LiveRow(s)' /\ (fsRows'[s] # NoRow \/ askRows'[s] # NoRow) => s \in overtaken'
      OBVIOUS
    <3>1. /\ (fsRows'[s] = NoRow \/ fsRows'[s] = fsRows[s])
          /\ (askRows'[s] = NoRow \/ askRows'[s] = askRows[s])
      BY <2>4
    <3> QED
      BY <2>1, <2>3, <3>1
  <2>6. Importing' => \A s \in SlotsOf(DayInHand)' :
          (LiveRow(s)' => s \in overtaken') /\ (fsRows'[s] # NoRow => DayInHand' \in raced')
    <3> SUFFICES ASSUME Importing', NEW s \in SlotsOf(DayInHand')
                 PROVE  (LiveRow(s)' => s \in overtaken') /\ (fsRows'[s] # NoRow => DayInHand' \in raced')
      BY DEF SlotsOf
    <3>1. Importing /\ DayInHand' = DayInHand /\ s \in SlotsOf(DayInHand)
      BY <1>3, <2>1
    <3>2. s \in ArcSlots
      <4>1. DayInHand \in ArcDaySet
        BY <3>1, DayInHandHolds DEF UploadInv
      <4> QED
        BY <3>1, <4>1, EndsOfDays
    <3> QED
      BY <2>1, <2>3, <2>4, <3>1, <3>2
  <2>7. Pulling' => \A s \in PullWindow' : LiveRow(s)' => s \in portal'.live \/ s \in overtaken'
    BY <2>1, <2>2, <2>3
  <2>8. portal'.pc = "insert" => \A s \in PullWindow' : askRows'[s] # NoRow => s \div SlotsInDay \in raced'
    <3> SUFFICES ASSUME portal'.pc = "insert", NEW s \in PullWindow PROVE askRows'[s] = NoRow
      BY <2>2
    <3>1. ~ClearPortalRows
      <4> SUFFICES ASSUME ClearPortalRows PROVE FALSE
        OBVIOUS
      <4>1. portal'.pc = "askoe"
        BY <2>1 DEF ClearPortalRows, PullTyped, IsPull
      <4> QED
        BY <4>1
    <3>2. s \in ArcSlots
      BY <2>1, PullWindowHolds
    <3> QED
      BY <1>15, <3>1, <3>2 DEF ClearMeterRows, GivesWay
  <2> QED
    BY <2>1, <2>5, <2>6, <2>7, <2>8
<1>16. ASSUME InsertWindow PROVE ApartInv'
  <2>1. /\ portal.pc = "insert" /\ PullTyped /\ portal'.pc = "scan"
        /\ UNCHANGED <<liveTo, liveFrom, askRows, ask, overtaken>>
        /\ raced \subseteq raced' /\ (Importing => DayInHand \in raced')
    BY <1>11, <1>16 DEF InsertWindow, PullInv
  <2>2. \A s \in ArcSlots : s \notin DOMAIN portal.rows => fsRows'[s] = fsRows[s]
    BY <1>16 DEF InsertWindow
  <2>3. \A s \in DOMAIN portal.rows : s \in PullWindow /\ s \notin portal.live
    <3>1. DOMAIN PurePv \subseteq PullWindow
      BY <2>1, PureHolds
    <3> QED
      BY <2>1, <3>1 DEF PullInv
  <2>4. \A s : LiveRow(s)' <=> LiveRow(s)
    BY <2>1 DEF LiveRow
  <2>5. SourcesApart'
    <3> SUFFICES ASSUME NEW s \in ArcSlots
                 PROVE  /\ fsRows'[s] # NoRow /\ askRows'[s] # NoRow => s \div SlotsInDay \in raced'
                        /\ LiveRow(s)' /\ (fsRows'[s] # NoRow \/ askRows'[s] # NoRow) => s \in overtaken'
      OBVIOUS
    <3>1. CASE s \in DOMAIN portal.rows
      BY <2>1, <2>3, <2>4, <3>1
    <3>2. CASE s \notin DOMAIN portal.rows
      BY <2>1, <2>2, <2>4, <3>2
    <3> QED
      BY <3>1, <3>2
  <2>6. Importing' => \A s \in SlotsOf(DayInHand)' :
          (LiveRow(s)' => s \in overtaken') /\ (fsRows'[s] # NoRow => DayInHand' \in raced')
    <3> SUFFICES ASSUME Importing', NEW s \in SlotsOf(DayInHand')
                 PROVE  (LiveRow(s)' => s \in overtaken') /\ DayInHand' \in raced'
      BY DEF SlotsOf
    <3> QED
      BY <1>3, <2>1, <2>4
  <2> QED
    BY <2>1, <2>5, <2>6
<1>17. ASSUME EndPull \/ StopPull PROVE ApartInv'
  <2>1. /\ portal'.pc = "idle"
        /\ UNCHANGED <<liveTo, liveFrom, fsRows, askRows, ask, raced, overtaken>>
    BY <1>17 DEF EndPull, StopPull, NoPull
  <2> QED
    BY <1>10, <2>1
<1>18. ASSUME LiveArrives PROVE ApartInv'
  <2>1. /\ liveTo \in Nat /\ liveTo' = liveTo + 1
        /\ UNCHANGED <<liveFrom, fsRows, askRows, ask, portal, raced>>
        /\ overtaken \subseteq overtaken'
        /\ (\/ Importing /\ liveTo \in SlotsOf(DayInHand)
            \/ Pulling /\ liveTo \in PullWindow
            \/ fsRows[liveTo] # NoRow \/ askRows[liveTo] # NoRow) => liveTo \in overtaken'
    BY <1>18 DEF LiveArrives
  <2>2. \A s \in Nat : LiveRow(s)' => LiveRow(s) \/ s = liveTo
    BY <2>1 DEF LiveRow
  <2>3. \A s \in ArcSlots : s \in Nat
    BY DEF ArcSlots
  <2>4. SourcesApart'
    <3> SUFFICES ASSUME NEW s \in ArcSlots
                 PROVE  /\ fsRows'[s] # NoRow /\ askRows'[s] # NoRow => s \div SlotsInDay \in raced'
                        /\ LiveRow(s)' /\ (fsRows'[s] # NoRow \/ askRows'[s] # NoRow) => s \in overtaken'
      OBVIOUS
    <3> HIDE DEF Importing, Pulling
    <3> QED
      BY <2>1, <2>2, <2>3
  <2>5. Importing' => \A s \in SlotsOf(DayInHand)' :
          (LiveRow(s)' => s \in overtaken') /\ (fsRows'[s] # NoRow => DayInHand' \in raced')
    <3> SUFFICES ASSUME Importing', NEW s \in SlotsOf(DayInHand')
                 PROVE  (LiveRow(s)' => s \in overtaken') /\ (fsRows'[s] # NoRow => DayInHand' \in raced')
      BY DEF SlotsOf
    <3>1. Importing /\ DayInHand' = DayInHand /\ s \in SlotsOf(DayInHand)
      BY <1>3, <2>1
    <3>2. s \in Nat
      <4>1. DayInHand \in ArcDaySet
        BY <3>1, DayInHandHolds DEF UploadInv
      <4> QED
        BY <2>3, <3>1, <4>1, EndsOfDays
    <3> HIDE DEF Pulling
    <3> QED
      BY <2>1, <2>2, <3>1, <3>2
  <2>6. Pulling' => \A s \in PullWindow' : LiveRow(s)' => s \in portal'.live \/ s \in overtaken'
    <3> SUFFICES ASSUME Pulling, NEW s \in PullWindow
                 PROVE  LiveRow(s)' => s \in portal'.live \/ s \in overtaken'
      BY <1>2, <2>1
    <3>1. s \in Nat
      BY <2>3, PullWindowHolds DEF PullInv
    <3> QED
      BY <2>1, <2>2, <3>1
  <2>7. portal'.pc = "insert" => \A s \in PullWindow' : askRows'[s] # NoRow => s \div SlotsInDay \in raced'
    BY <1>2, <2>1
  <2> QED
    BY <2>1, <2>4, <2>5, <2>6, <2>7
<1>19. ASSUME UNCHANGED arcVars PROVE ApartInv'
  <2>1. /\ UNCHANGED <<liveTo, liveFrom, fsRows, askRows, ask, portal, raced, overtaken>>
    BY <1>19 DEF arcVars
  <2> QED
    BY <1>3, <1>4, <2>1
<1> QED
  <2> HIDE DEF ApartInv
  <2> QED
    BY <1>5, <1>6, <1>7, <1>8, <1>9, <1>12, <1>13, <1>14, <1>15, <1>16, <1>17, <1>18, <1>19 DEF ArcNext

\* The rows of a day, kept by whatever leaves its slots alone.
LEMMA RowsOfDayKept ==
  ASSUME NEW d \in ArcDaySet, \A s \in SlotsOf(d) : askRows'[s] = askRows[s]
  PROVE  /\ Opening(d)' = Opening(d) /\ Closing(d)' = Closing(d)
         /\ (metered'[d] = metered[d] /\ metered[d] # NoRow
             /\ IsCounter(Opening(d)) /\ \E u : BuiltOf(u, d)) =>
              IsCounter(Opening(d))' /\ \E u : BuiltOf(u, d)'
<1>1. askRows'[d * SlotsInDay] = askRows[d * SlotsInDay] /\ Closing(d)' = Closing(d)
  BY EndsOfDays DEF Closing
<1>2. Opening(d)' = Opening(d)
  BY <1>1 DEF Opening
<1>3. ASSUME NEW u, BuiltOf(u, d), metered'[d] = metered[d] PROVE BuiltOf(u, d)'
  BY <1>2, <1>3 DEF BuiltOf
<1>4. IsCounter(Opening(d)) => IsCounter(Opening(d))'
  BY <1>2 DEF IsCounter
<1> QED
  BY <1>1, <1>2, <1>3, <1>4

LEMMA InsertBuilds ==
  ASSUME UploadInv, InsertDay, NEW d, d = DayInHand
  PROVE  LET rows == BuildDay(ask.grid, d, ask.seed)
         IN  /\ d \in ArcDaySet /\ IsDayOf(ask.grid, d) /\ IsCounter(ask.seed)
             /\ askRows'[d * SlotsInDay] = ask.seed
             /\ askRows'[d * SlotsInDay + SlotsInDay - 1] = NextSeed(rows)
             /\ \A s \in SlotsOf(d) : askRows'[s] = rows[s]
             /\ \A s \in ArcSlots : s \notin SlotsOf(d) => askRows'[s] = askRows[s]
             /\ metered'[d] = [c \in Channels |-> ask.grid[c][d]]
             /\ \A e \in ArcDaySet : e # d => metered'[e] = metered[e]
<1> DEFINE rows == BuildDay(ask.grid, d, ask.seed)
           first == d * SlotsInDay  last == d * SlotsInDay + SlotsInDay - 1
<1>1. ask.pc = "insert" /\ ask.days # {} /\ IsCounter(ask.seed) /\ metered = [e \in ArcDaySet |-> metered[e]]
  BY DEF InsertDay, UploadInv, Importing
<1>2. d \in ArcDaySet /\ IsDayOf(ask.grid, d)
  BY <1>1, DayInHandHolds
<1>3. /\ askRows' = [s \in ArcSlots |-> IF s \in SlotsOf(d) THEN rows[s] ELSE askRows[s]]
      /\ metered' = [metered EXCEPT ![d] = [c \in Channels |-> ask.grid[c][d]]]
  BY DEF InsertDay
<1>4. rows[first] = ask.seed /\ NextSeed(rows) = rows[last]
  BY <1>1, <1>2, DayBuilt DEF NextSeed
<1>5. SlotsOf(d) \subseteq ArcSlots /\ first \in SlotsOf(d) /\ last \in SlotsOf(d)
  BY <1>2, EndsOfDays
<1> HIDE DEF rows, first, last
<1>6. /\ \A s \in SlotsOf(d) : askRows'[s] = rows[s]
      /\ \A s \in ArcSlots : s \notin SlotsOf(d) => askRows'[s] = askRows[s]
  BY <1>3, <1>5
<1>7. askRows'[first] = ask.seed /\ askRows'[last] = NextSeed(rows)
  BY <1>4, <1>5, <1>6
<1>8. /\ metered'[d] = [c \in Channels |-> ask.grid[c][d]]
      /\ \A e \in ArcDaySet : e # d => metered'[e] = metered[e]
  BY <1>1, <1>2, <1>3
<1> QED
  BY <1>1, <1>2, <1>6, <1>7, <1>8 DEF rows, first, last

LEMMA MeteredKept ==
  ASSUME UploadInv, PullInv, MeteredInv, [ArcNext]_arcVars
  PROVE  MeteredInv'
<1>1. SUFFICES ASSUME NEW d \in ArcDaySet, metered'[d] # NoRow
               PROVE  IsCounter(Opening(d))' /\ \E u : BuiltOf(u, d)'
  BY DEF MeteredInv
<1>2. ASSUME metered'[d] = metered[d], \A s \in SlotsOf(d) : askRows'[s] = askRows[s]
      PROVE  IsCounter(Opening(d))' /\ \E u : BuiltOf(u, d)'
  BY <1>1, <1>2, RowsOfDayKept DEF MeteredInv
<1>3. CASE ClearDay
  <2>1. PICK e : e = DayInHand
    OBVIOUS
  <2>2. /\ e \in ArcDaySet /\ metered = [f \in ArcDaySet |-> metered[f]]
        /\ metered' = [metered EXCEPT ![e] = NoRow]
        /\ \A s \in ArcSlots : s \notin SlotsOf(e) => askRows'[s] = askRows[s]
    BY <1>3, <2>1, DayInHandHolds DEF ClearDay, UploadInv, Importing
  <2>3. d # e /\ metered'[d] = metered[d]
    BY <1>1, <2>2
  <2>4. \A s \in SlotsOf(d) : askRows'[s] = askRows[s]
    BY <2>2, <2>3, EndsOfDays, DaysShareNothing
  <2> QED
    BY <1>2, <2>3, <2>4
<1>4. CASE InsertDay
  <2>1. PICK e : e = DayInHand
    OBVIOUS
  <2> DEFINE rows == BuildDay(ask.grid, e, ask.seed)
  <2>2. /\ e \in ArcDaySet /\ IsDayOf(ask.grid, e) /\ IsCounter(ask.seed)
        /\ askRows'[e * SlotsInDay] = ask.seed
        /\ \A s \in SlotsOf(e) : askRows'[s] = rows[s]
        /\ \A s \in ArcSlots : s \notin SlotsOf(e) => askRows'[s] = askRows[s]
        /\ metered'[e] = [c \in Channels |-> ask.grid[c][e]]
        /\ \A f \in ArcDaySet : f # e => metered'[f] = metered[f]
    BY <1>4, <2>1, InsertBuilds
  <2>3. CASE d = e
    <3>1. PICK g : g = ask.grid
      OBVIOUS
    <3>2. PICK c : c = ask.seed
      OBVIOUS
    <3>3. Opening(d)' = c /\ IsCounter(c)
      BY <2>2, <2>3, <3>2 DEF Opening
    <3>4. BuiltOf(g, d)'
      <4>1. /\ g \in Uploads /\ d \in CompleteDays(g)
            /\ metered'[d] = [ch \in Channels |-> g[ch][d]]
            /\ \A s \in SlotsOf(d) : askRows'[s] = BuildDay(g, d, c)[s]
        BY <2>2, <2>3, <3>1, <3>2 DEF IsDayOf
      <4> QED
        BY <3>3, <4>1 DEF BuiltOf
    <3>5. IsCounter(Opening(d))'
      BY <3>3 DEF IsCounter
    <3> QED
      BY <3>4, <3>5
  <2>4. CASE d # e
    <3>1. \A s \in SlotsOf(d) : askRows'[s] = askRows[s]
      BY <2>2, <2>4, EndsOfDays, DaysShareNothing
    <3> QED
      BY <1>2, <2>2, <2>4, <3>1
  <2> QED
    BY <2>3, <2>4
<1>5. CASE ClearMeterRows
  <2>1. /\ SlotsOf(d) \cap PullWindow = {} /\ metered'[d] = metered[d]
    BY <1>1, <1>5 DEF ClearMeterRows, ArcDaySet
  <2>2. \A s \in SlotsOf(d) : askRows'[s] = askRows[s]
    BY <1>5, <2>1, EndsOfDays DEF ClearMeterRows, GivesWay
  <2> QED
    BY <1>2, <2>1, <2>2
<1>6. CASE UNCHANGED <<askRows, metered>>
  BY <1>2, <1>6
<1> QED
  <2>1. CASE \E u \in Uploads : UploadSheets(u)
    BY <1>6, <2>1 DEF UploadSheets
  <2>2. CASE \E r \in PortalRanges : PullHistory(r)
    BY <1>6, <2>2 DEF PullHistory
  <2>3. CASE CheckDay \/ EndUpload \/ StopUpload \/ LiveArrives
    BY <1>6, <2>3 DEF CheckDay, EndUpload, StopUpload, LiveArrives
  <2>4. CASE ScanWindow \/ FetchWindow \/ ClearPortalRows \/ InsertWindow \/ EndPull \/ StopPull
    BY <1>6, <2>4 DEF ScanWindow, FetchWindow, ClearPortalRows, InsertWindow, EndPull, StopPull
  <2>5. CASE UNCHANGED arcVars
    BY <1>6, <2>5 DEF arcVars
  <2> QED
    BY <1>3, <1>4, <1>5, <2>1, <2>2, <2>3, <2>4, <2>5 DEF ArcNext

LEMMA ChainKept ==
  ASSUME UploadInv, PullInv, ChainInv, [ArcNext]_arcVars
  PROVE  ChainInv'
\* A step that leaves the rows, the pairs and what was written alone.
<1>1. ASSUME UNCHANGED <<askRows, metered, chained>>,
             \/ ask'.pc = "idle"
             \/ ask.pc # "idle" /\ ask'.written = ask.written /\ ask'.seed = ask.seed
      PROVE  ChainInv'
  <2>1. \A d : Opening(d)' = Opening(d) /\ Closing(d)' = Closing(d)
    BY <1>1 DEF Opening, Closing
  <2> QED
    BY <1>1, <2>1 DEF ChainInv
<1>2. ASSUME NEW u \in Uploads, UploadSheets(u) PROVE ChainInv'
  <2>1. chained' = {} /\ ask'.written = {}
    BY <1>2 DEF UploadSheets, NoUpload
  <2> QED
    BY <2>1 DEF ChainInv
<1>3. ASSUME CheckDay PROVE ChainInv'
  <2>1. /\ ask.pc = "check" /\ UNCHANGED <<askRows, metered, chained>>
        /\ ask'.written = ask.written /\ ask'.seed = ask.seed
    BY <1>3 DEF CheckDay, UploadInv, IsUpload
  <2> QED
    BY <1>1, <2>1
<1>4. ASSUME EndUpload \/ StopUpload PROVE ChainInv'
  <2>1. UNCHANGED <<askRows, metered, chained>> /\ ask'.pc = "idle"
    BY <1>4 DEF EndUpload, StopUpload, NoUpload
  <2> QED
    BY <1>1, <2>1
<1>5. ASSUME ClearDay PROVE ChainInv'
  <2>1. PICK d : d = DayInHand
    OBVIOUS
  <2>2. /\ ask.pc = "clear" /\ ask.days # {} /\ d \in ArcDaySet /\ d \in ask.days
        /\ metered = [f \in ArcDaySet |-> metered[f]]
        /\ metered' = [metered EXCEPT ![d] = NoRow] /\ chained' = chained
        /\ ask'.written = ask.written /\ ask'.seed = ask.seed
        /\ \A s \in ArcSlots : s \notin SlotsOf(d) => askRows'[s] = askRows[s]
    BY <1>5, <2>1, DayInHandHolds DEF ClearDay, UploadInv, Importing, IsUpload
  <2>3. \A e \in ask.written : e \in ArcDaySet /\ e # d
    <3>1. \A e \in ask.written : e \in ArcDaySet /\ e < d
      BY <2>2 DEF UploadInv
    <3> QED
      BY <3>1, <2>2, StepSizes DEF ArcDaySet
  <2>4. \A e \in ask.written : /\ Opening(e)' = Opening(e) /\ Closing(e)' = Closing(e)
                               /\ metered'[e] = metered[e]
    <3> SUFFICES ASSUME NEW e \in ask.written
                 PROVE  Opening(e)' = Opening(e) /\ Closing(e)' = Closing(e) /\ metered'[e] = metered[e]
      OBVIOUS
    <3>1. e \in ArcDaySet /\ e # d
      BY <2>3
    <3>2. \A s \in SlotsOf(e) : askRows'[s] = askRows[s]
      BY <2>2, <3>1, EndsOfDays, DaysShareNothing
    <3> QED
      BY <2>2, <3>1, <3>2, RowsOfDayKept
  <2> QED
    BY <2>2, <2>4 DEF ChainInv
<1>6. ASSUME InsertDay PROVE ChainInv'
  <2>1. PICK d : d = DayInHand
    OBVIOUS
  <2> DEFINE rows == BuildDay(ask.grid, d, ask.seed)
             last == {e \in ask.written : metered[e] # NoRow /\ \A f \in ask.written : f <= e}
  <2>2. /\ d \in ArcDaySet /\ askRows'[d * SlotsInDay] = ask.seed
        /\ askRows'[d * SlotsInDay + SlotsInDay - 1] = NextSeed(rows)
        /\ \A s \in ArcSlots : s \notin SlotsOf(d) => askRows'[s] = askRows[s]
        /\ \A f \in ArcDaySet : f # d => metered'[f] = metered[f]
    <3>1. d \in ArcDaySet /\ askRows'[d * SlotsInDay] = ask.seed
      BY <1>6, <2>1, InsertBuilds
    <3>2. askRows'[d * SlotsInDay + SlotsInDay - 1] = NextSeed(rows)
      BY <1>6, <2>1, InsertBuilds
    <3>3. \A s \in ArcSlots : s \notin SlotsOf(d) => askRows'[s] = askRows[s]
      BY <1>6, <2>1, InsertBuilds
    <3>4. ASSUME NEW f \in ArcDaySet, f # d PROVE metered'[f] = metered[f]
      BY <1>6, <2>1, <3>4 DEF InsertDay, UploadInv
    <3> QED
      BY <3>1, <3>2, <3>3, <3>4
  <2>3. /\ ask.pc = "insert" /\ ask.days # {} /\ d \in ask.days
        /\ ask'.seed = NextSeed(rows) /\ ask'.written = ask.written \union {d}
        /\ chained' = chained \union {<<e, d>> : e \in last}
    BY <1>6, <2>1, DayInHandHolds DEF InsertDay, UploadInv, Importing, IsUpload
  <2>4. Opening(d)' = ask.seed /\ Closing(d)' = NextSeed(rows)
    BY <2>2 DEF Opening, Closing
  <2> HIDE DEF rows
  <2>5. \A e \in ask.written : e \in ArcDaySet /\ e < d /\ e # d /\ ~(d <= e)
    <3>1. \A e \in ask.written : e \in ArcDaySet /\ e < d
      BY <2>3 DEF UploadInv
    <3> QED
      BY <3>1, <2>2, StepSizes DEF ArcDaySet
  <2>6. \A e \in ask.written : /\ Opening(e)' = Opening(e) /\ Closing(e)' = Closing(e)
                               /\ metered'[e] = metered[e]
    <3> SUFFICES ASSUME NEW e \in ask.written
                 PROVE  Opening(e)' = Opening(e) /\ Closing(e)' = Closing(e) /\ metered'[e] = metered[e]
      OBVIOUS
    <3>1. e \in ArcDaySet /\ e # d
      BY <2>5
    <3>2. \A s \in SlotsOf(e) : askRows'[s] = askRows[s]
      BY <2>2, <3>1, EndsOfDays, DaysShareNothing
    <3> QED
      BY <2>2, <3>1, <3>2, RowsOfDayKept
  <2>7. \A e \in last : ask.seed = Closing(e)
    BY <2>3 DEF ChainInv
  <2>8. ASSUME NEW p \in chained'
        PROVE  /\ p[1] \in ArcDaySet /\ p[2] \in ArcDaySet /\ Opening(p[2])' = Closing(p[1])'
               /\ p[1] \in ask'.written /\ p[2] \in ask'.written
    <3>1. CASE p \in chained
      <4>1. /\ p[1] \in ArcDaySet /\ p[2] \in ArcDaySet /\ Opening(p[2]) = Closing(p[1])
            /\ p[1] \in ask.written /\ p[2] \in ask.written
        BY <2>3, <3>1 DEF ChainInv
      <4> QED
        BY <2>3, <2>6, <4>1
    <3>2. CASE p \in {<<e, d>> : e \in last}
      <4>1. PICK e \in last : p = <<e, d>>
        BY <3>2
      <4>2. p[1] = e /\ p[2] = d /\ e \in ask.written
        BY <4>1
      <4>3. Closing(e)' = ask.seed
        BY <2>6, <2>7, <4>2
      <4> QED
        BY <2>2, <2>3, <2>4, <2>5, <4>2, <4>3
    <3> QED
      BY <2>3, <3>1, <3>2
  <2>9. ASSUME NEW e \in ask'.written, \A f \in ask'.written : f <= e
        PROVE  ask'.seed = Closing(e)'
    <3>1. e = d
      BY <2>3, <2>5, <2>9
    <3> QED
      BY <2>3, <2>4, <3>1
  <2> QED
    BY <2>8, <2>9 DEF ChainInv
<1>7. ASSUME ClearMeterRows PROVE ChainInv'
  <2> DEFINE touched == {d \in ArcDaySet : SlotsOf(d) \cap PullWindow # {}}
  <2>1. /\ ask' = ask /\ chained' = {p \in chained : p[1] \notin touched /\ p[2] \notin touched}
        /\ metered' = [d \in ArcDaySet |-> IF d \in touched THEN NoRow ELSE metered[d]]
    BY <1>7 DEF ClearMeterRows, ArcDaySet
  <2>2. ASSUME NEW d \in ArcDaySet, d \notin touched
        PROVE  Opening(d)' = Opening(d) /\ Closing(d)' = Closing(d) /\ metered'[d] = metered[d]
    <3>1. \A s \in SlotsOf(d) : askRows'[s] = askRows[s]
      BY <1>7, <2>2, EndsOfDays DEF ClearMeterRows, GivesWay
    <3> QED
      BY <2>1, <2>2, <3>1, RowsOfDayKept
  <2>3. \A d \in touched : metered'[d] = NoRow
    BY <2>1
  <2> HIDE DEF touched
  <2>4. ASSUME NEW p \in chained'
        PROVE  /\ p[1] \in ArcDaySet /\ p[2] \in ArcDaySet /\ Opening(p[2])' = Closing(p[1])'
               /\ ask'.pc # "idle" => p[1] \in ask'.written /\ p[2] \in ask'.written
    <3>1. /\ p[1] \in ArcDaySet /\ p[2] \in ArcDaySet /\ Opening(p[2]) = Closing(p[1])
          /\ p[1] \notin touched /\ p[2] \notin touched
          /\ ask.pc # "idle" => p[1] \in ask.written /\ p[2] \in ask.written
      BY <2>1 DEF ChainInv
    <3> QED
      BY <2>1, <2>2, <3>1
  <2>5. ASSUME ask'.pc # "idle", NEW e \in ask'.written, metered'[e] # NoRow, \A f \in ask'.written : f <= e
        PROVE  ask'.seed = Closing(e)'
    <3>1. e \in ArcDaySet /\ e \notin touched
      BY <2>1, <2>3, <2>5 DEF UploadInv
    <3>2. metered[e] # NoRow /\ Closing(e)' = Closing(e)
      BY <2>2, <2>5, <3>1
    <3> QED
      BY <2>1, <2>5, <3>2 DEF ChainInv
  <2> QED
    BY <2>4, <2>5 DEF ChainInv
<1>8. ASSUME UNCHANGED <<askRows, metered, chained, ask>> PROVE ChainInv'
  <2>1. \A d : Opening(d)' = Opening(d) /\ Closing(d)' = Closing(d)
    BY <1>8 DEF Opening, Closing
  <2> QED
    BY <1>8, <2>1 DEF ChainInv
<1> QED
  <2>1. CASE \E r \in PortalRanges : PullHistory(r)
    BY <1>8, <2>1 DEF PullHistory
  <2>2. CASE ScanWindow \/ FetchWindow \/ ClearPortalRows \/ InsertWindow
    BY <1>8, <2>2 DEF ScanWindow, FetchWindow, ClearPortalRows, InsertWindow
  <2>3. CASE EndPull \/ StopPull \/ LiveArrives
    BY <1>8, <2>3 DEF EndPull, StopPull, LiveArrives
  <2>4. CASE UNCHANGED arcVars
    BY <1>8, <2>4 DEF arcVars
  <2> QED
    BY <1>2, <1>3, <1>4, <1>5, <1>6, <1>7, <2>1, <2>2, <2>3, <2>4 DEF ArcNext

\* An import leaves telemetry whose differences are the energy that flowed: the two
\* archives and the live rows keep apart but for the days two imports raced on and the
\* slots that went live under one; every metered day adds up to its hours; midnights of
\* an upload join; the portal's PV never falls (askoe_import.go, fusionsolar/import.go).
THEOREM ArchivesAreWhole == ArcSpec => []ArchivesHold
<1>1. ArcInit => ArchiveInv
  BY ArchivesStart
<1>2. ArchiveInv /\ [ArcNext]_arcVars => ArchiveInv'
  BY UploadKept, PullKept, ApartKept, MeteredKept, ChainKept DEF ArchiveInv
<1>3. ArchiveInv => ArchivesHold
  BY ArchivesFollow
<1> QED
  BY <1>1, <1>2, <1>3, PTL DEF ArcSpec

-------------------------------------------------------------------------------
(* The polls of a logger: what is stored is what the registers answered. *)

Entry == [start : Nat, words : Nat \ {0}]
Chunk == [start : Nat, words : Nat]

\* A read that takes in its neighbour.
LEMMA Widened ==
  ASSUME NEW last \in Chunk, NEW w \in Nat
  PROVE  [last EXCEPT !.words = @ + w] \in Chunk
BY DEF Chunk

\* Adding a read leaves a sequence of reads.
LEMMA AddReadTyped ==
  ASSUME NEW reads \in Seq(Chunk), NEW c \in Chunk
  PROVE  AddRead(reads, c) \in Seq(Chunk)
<1>1. CASE reads # <<>> /\ Extends(reads[Len(reads)], c)
  <2>1. Len(reads) \in 1 .. Len(reads) /\ reads[Len(reads)] \in Chunk
    BY <1>1
  <2>2. [reads[Len(reads)] EXCEPT !.words = @ + c.words] \in Chunk
    <3>1. c.words \in Nat
      BY DEF Chunk
    <3> QED
      BY <2>1, <3>1, Widened
  <2>3. AddRead(reads, c) = [reads EXCEPT ![Len(reads)] =
                               [reads[Len(reads)] EXCEPT !.words = @ + c.words]]
    BY <1>1 DEF AddRead
  <2> QED
    BY <2>1, <2>2, <2>3
<1>2. CASE ~(reads # <<>> /\ Extends(reads[Len(reads)], c))
  BY <1>2 DEF AddRead
<1> QED
  BY <1>1, <1>2

\* What one entry more adds to a plan.
OneMore(p) ==
  LET c == CHOOSE c \in p.left : \A e \in p.left : c.start <= e.start
  IN  [reads |-> AddRead(p.reads, c), left |-> p.left \ {c}]

LEMMA ReadsOfHold ==
  ASSUME NEW entries, IsFiniteSet(entries)
  PROVE  LET n == Cardinality(entries)
         IN  /\ n \in Nat
             /\ ReadsOf(entries)[0] = [reads |-> <<>>, left |-> entries]
             /\ \A i \in 1 .. n : ReadsOf(entries)[i] = OneMore(ReadsOf(entries)[i - 1])
<1> DEFINE n == Cardinality(entries)
           base == [reads |-> <<>>, left |-> entries]
           Is(p, k) == p = [i \in 0 .. k |-> IF i = 0 THEN base ELSE OneMore(p[i - 1])]
           G == {k \in Nat : \E p : Is(p, k)}
<1>1. n \in Nat
  BY FS_CardinalityType
<1> HIDE DEF base
<1>2. 0 \in G
  <2> DEFINE p == [i \in 0 .. 0 |-> base]
  <2>1. Is(p, 0)
    OBVIOUS
  <2> QED
    BY <2>1
<1>3. ASSUME NEW k \in Nat, k \in G PROVE k + 1 \in G
  <2>1. PICK p : Is(p, k)
    BY <1>3
  <2> DEFINE q == [i \in 0 .. k + 1 |-> IF i = k + 1 THEN OneMore(p[k]) ELSE p[i]]
  <2>2. \A i \in 0 .. k + 1 : q[i] = IF i = 0 THEN base ELSE OneMore(q[i - 1])
    BY <2>1
  <2>3. Is(q, k + 1)
    <3>1. q = [i \in 0 .. k + 1 |-> q[i]]
      OBVIOUS
    <3> HIDE DEF q
    <3> QED
      BY <2>2, <3>1
  <2> HIDE DEF q, Is
  <2> QED
    BY <2>3
<1> HIDE DEF G
<1>4. n \in G
  BY <1>1, <1>2, <1>3, Inductive
<1>5. \E p : Is(p, n)
  BY <1>4 DEF G
<1> DEFINE a == CHOOSE p : Is(p, n)
<1>6. Is(a, n)
  BY <1>5
<1>7. ReadsOf(entries) = a
  BY DEF ReadsOf, OneMore, a, n, base
<1> HIDE DEF a, n
<1> QED
  BY <1>1, <1>6, <1>7 DEF base, n

LEMMA FirstEntry ==
  ASSUME NEW left \in SUBSET Entry, left # {}
  PROVE  LET c == CHOOSE c \in left : \A e \in left : c.start <= e.start IN c \in left
<1> DEFINE S == {e.start : e \in left}
<1>1. S \in SUBSET Nat /\ S # {}
  BY DEF Entry
<1>2. Min(S) \in S /\ \A y \in S : Min(S) <= y
  BY <1>1, SmallestExists
<1>3. \E c \in left : \A e \in left : c.start <= e.start
  BY <1>2
<1> QED
  BY <1>3

\* A plan is a sequence of reads.
LEMMA PlansTyped ==
  ASSUME NEW keys \in SUBSET DOMAIN Catalogue
  PROVE  PlanChunks(keys) \in Seq(Chunk)
<1> DEFINE entries == {Catalogue[k] : k \in keys}
           n == Cardinality(entries)
           r == ReadsOf(entries)
           Fine(i) == /\ r[i].reads \in Seq(Chunk) /\ r[i].left \in SUBSET Entry
                      /\ IsFiniteSet(r[i].left) /\ Cardinality(r[i].left) = n - i
           G == {i \in Nat : i <= n => Fine(i)}
<1>1. entries \in SUBSET Entry /\ IsFiniteSet(entries)
  <2>1. IsFiniteSet(keys)
    BY CollectorAssumption, FS_Subset DEF CollectorAssumption
  <2>2. IsFiniteSet(entries)
    <3> DEFINE f == [k \in keys |-> Catalogue[k]]
    <3>1. f \in Surjection(keys, entries)
      BY DEF Surjection
    <3> QED
      BY <2>1, <3>1, FS_Surjection
  <2> QED
    BY <2>2, CollectorAssumption DEF CollectorAssumption, Entry
<1>2. /\ n \in Nat /\ r[0] = [reads |-> <<>>, left |-> entries]
      /\ \A i \in 1 .. n : r[i] = OneMore(r[i - 1])
  BY <1>1, ReadsOfHold
<1>3. PlanChunks(keys) = r[n].reads
  BY DEF PlanChunks
<1> HIDE DEF r, entries
<1>4. 0 \in G
  <2>1. r[0].reads = <<>> /\ r[0].left = entries /\ n = Cardinality(entries)
    BY <1>2
  <2>2. r[0].reads \in Seq(Chunk)
    BY <2>1
  <2>3. r[0].left \in SUBSET Entry /\ IsFiniteSet(r[0].left)
    BY <1>1, <2>1
  <2>4. Cardinality(r[0].left) = n - 0
    BY <1>2, <2>1
  <2> QED
    BY <2>2, <2>3, <2>4
<1>5. ASSUME NEW i \in Nat, i \in G PROVE i + 1 \in G
  <2> SUFFICES ASSUME i + 1 <= n PROVE Fine(i + 1)
    OBVIOUS
  <2> DEFINE p == r[i]
             c == CHOOSE c \in p.left : \A e \in p.left : c.start <= e.start
  <2>1. /\ p.reads \in Seq(Chunk) /\ p.left \in SUBSET Entry
        /\ IsFiniteSet(p.left) /\ Cardinality(p.left) = n - i /\ n - i > 0
    BY <1>2, <1>5
  <2>2. p.left # {}
    BY <1>2, <2>1, FS_EmptySet
  <2>3. c \in p.left
    BY <2>1, <2>2, FirstEntry
  <2>4. r[i + 1] = [reads |-> AddRead(p.reads, c), left |-> p.left \ {c}]
    <3>1. i + 1 \in 1 .. n /\ (i + 1) - 1 = i
      BY <1>2
    <3>2. r[i + 1] = OneMore(r[i])
      BY <1>2, <3>1
    <3> QED
      BY <3>2 DEF OneMore
  <2> HIDE DEF p, c
  <2>5. /\ IsFiniteSet(p.left \ {c})
        /\ Cardinality(p.left \ {c}) = Cardinality(p.left) - 1
    BY <2>1, <2>3, FS_RemoveElement
  <2>6. AddRead(p.reads, c) \in Seq(Chunk)
    BY <2>1, <2>3, AddReadTyped DEF Entry, Chunk
  <2> QED
    BY <1>2, <2>1, <2>4, <2>5, <2>6
<1> HIDE DEF G
<1>6. n \in G
  BY <1>2, <1>4, <1>5, Inductive
<1> QED
  BY <1>2, <1>3, <1>6 DEF G

LEMMA GroupsTyped ==
  /\ DOMAIN Optional \in SUBSET Nat
  /\ \A g \in DOMAIN Optional : Optional[g].keys \in SUBSET DOMAIN Catalogue
<1> DEFINE R == [keys : SUBSET DOMAIN Catalogue, every : Nat]
<1>1. Optional \in Seq(R)
  BY CollectorAssumption DEF CollectorAssumption
<1> HIDE DEF R
<1>2. DOMAIN Optional = 1 .. Len(Optional) /\ Len(Optional) \in Nat
  BY <1>1
<1>3. \A g \in 1 .. Len(Optional) : Optional[g] \in R
  BY <1>1
<1> QED
  BY <1>2, <1>3 DEF R

LEMMA ChunksTyped ==
  /\ MainChunks \in Seq(Chunk)
  /\ \A g \in DOMAIN Optional : GroupChunks[g] \in Seq(Chunk)
<1>1. MainKeys \in SUBSET DOMAIN Catalogue
  BY DEF MainKeys
<1>2. \A g \in DOMAIN Optional : Optional[g].keys \in SUBSET DOMAIN Catalogue
  BY GroupsTyped
<1> QED
  BY <1>1, <1>2, PlansTyped DEF MainChunks, GroupChunks

(***************************************************************************)
(* A session owes no reply: one that timed out is closed (Redials).  So    *)
(* what a poll has got so far are the replies to its own chunks, each      *)
(* measured since it began and within its budget.                          *)
(***************************************************************************)

Sessions == [late : {NoSample}, dead : BOOLEAN]
Reply == [start : Nat, words : Nat, at : Nat, blank : Blanks]

IsOwn(reply, chunk) ==
  /\ reply.start = chunk.start
  /\ poll.begun <= reply.at /\ reply.at <= poll.read

PollInv ==
  /\ poll.begun \in Nat /\ poll.read \in Nat /\ poll.begun <= poll.read /\ poll.read <= colClock
  /\ DOMAIN poll = {"at", "group", "left", "got", "begun", "read"}
  /\ poll.left \in SUBSET DOMAIN Optional
  /\ poll.got \in Seq(Reply)
  /\ poll.at # "idle" =>
       /\ session \in Sessions
       /\ Len(poll.got) <= Len(Chunks)
       /\ \A i \in 1 .. Len(poll.got) : IsOwn(poll.got[i], Chunks[i])
       /\ poll.read <= poll.begun + ReadBudget(Chunks)
  /\ poll.at = "optional" => poll.group \in DOMAIN Optional

ColInv ==
  /\ colClock \in Nat /\ session \in {NoSample} \cup Sessions
  /\ poll.at \in {"idle", "main", "optional"} /\ PollInv
  /\ DOMAIN samples = DOMAIN Catalogue /\ SampleIsItsReading

LEMMA ChunksOfPoll ==
  ASSUME ColInv, poll.at # "idle"
  PROVE  Chunks \in Seq(Chunk) /\ ReadBudget(Chunks) \in Nat
<1>1. Chunks \in Seq(Chunk)
  BY ChunksTyped DEF Chunks, ColInv, PollInv
<1>2. RequestTimeout \in Nat
  BY CollectorAssumption DEF CollectorAssumption
<1>3. Len(Chunks) + 1 \in Nat
  BY <1>1
<1> QED
  BY <1>1, <1>2, <1>3 DEF ReadBudget

\* What a reply of its own gives a key.
LEMMA PayloadIsOwn ==
  ASSUME ColInv, poll.at # "idle", ~Reading, NEW k \in DOMAIN Catalogue,
         Payload(k, Chunks, poll.got) # NoSample
  PROVE  LET p == Payload(k, Chunks, poll.got)
         IN  /\ p.reg = Catalogue[k].start
             /\ p.at \in Nat /\ poll.begun <= p.at /\ p.at <= poll.read
<1> DEFINE e == Catalogue[k]
           i == CHOOSE i \in Holding(e, Chunks) : TRUE
<1>1. Payload(k, Chunks, poll.got) = Slice(Chunks[i], poll.got[i], e) /\ i \in DOMAIN Chunks
  BY DEF Payload, Holding
<1>2. Chunks \in Seq(Chunk)
  BY ChunksOfPoll
<1>3. /\ poll.got \in Seq(Reply) /\ Len(poll.got) = Len(Chunks)
      /\ \A j \in 1 .. Len(poll.got) : IsOwn(poll.got[j], Chunks[j])
  BY <1>2 DEF ColInv, PollInv, Reading
<1> HIDE DEF i
<1>4. /\ i \in 1 .. Len(poll.got) /\ Chunks[i] \in Chunk /\ poll.got[i] \in Reply
  BY <1>1, <1>2, <1>3
<1>5. e.start \in Nat
  BY CollectorAssumption DEF CollectorAssumption
<1> DEFINE c == Chunks[i]
           reply == poll.got[i]
<1>6. c.start \in Nat /\ reply.start = c.start /\ reply.at \in Nat
      /\ poll.begun <= reply.at /\ reply.at <= poll.read
  BY <1>3, <1>4 DEF Chunk, Reply, IsOwn
<1> HIDE DEF c, reply, e
<1>7. Payload(k, Chunks, poll.got) = Slice(c, reply, e)
  BY <1>1 DEF c, reply
<1> DEFINE off == e.start - c.start
<1>8. Slice(c, reply, e) = [reg |-> reply.start + off, at |-> reply.at, blank |-> reply.blank]
  BY <1>7 DEF Slice
<1>9. reply.start + off = e.start
  BY <1>5, <1>6 DEF e
<1> QED
  BY <1>6, <1>7, <1>8, <1>9 DEF e

\* A poll that has just begun.
LEMMA PollBegins ==
  ASSUME ColInv, poll' = NoPoll \/
           (/\ poll' = [at |-> poll'.at, group |-> poll'.group, left |-> poll'.left, got |-> <<>>,
                        begun |-> colClock, read |-> colClock]
            /\ poll'.left \in SUBSET DOMAIN Optional
            /\ poll'.at \in {"main", "optional"} /\ session' \in Sessions
            /\ poll'.at = "optional" => poll'.group \in DOMAIN Optional),
         colClock' = colClock
  PROVE  PollInv' /\ poll'.at \in {"idle", "main", "optional"}
<1>1. colClock \in Nat
  BY DEF ColInv
<1>2. CASE poll' = NoPoll
  BY <1>1, <1>2 DEF NoPoll, PollInv
<1>3. CASE poll' # NoPoll
  <2> DEFINE chunks == Chunks'
  <2>1. chunks \in Seq(Chunk)
    BY <1>3, ChunksTyped DEF Chunks
  <2>2. Len(chunks) \in Nat /\ RequestTimeout \in Nat
    BY <2>1, CollectorAssumption DEF CollectorAssumption
  <2>3. ReadBudget(chunks) \in Nat
    BY <2>2 DEF ReadBudget
  <2>4. /\ poll'.begun = colClock /\ poll'.read = colClock /\ poll'.got = <<>>
        /\ poll'.at \in {"main", "optional"} /\ session' \in Sessions
        /\ poll'.left \in SUBSET DOMAIN Optional
        /\ poll'.at = "optional" => poll'.group \in DOMAIN Optional
        /\ DOMAIN poll' = {"at", "group", "left", "got", "begun", "read"}
    BY <1>3
  <2> HIDE DEF chunks
  <2>5. poll'.got \in Seq(Reply)' /\ Len(poll'.got) = 0
    BY <2>4
  <2>6. Len(poll'.got) <= Len(chunks) /\ poll'.read <= poll'.begun + ReadBudget(chunks)
    BY <1>1, <2>2, <2>3, <2>4, <2>5
  <2> QED
    BY <1>1, <2>4, <2>5, <2>6 DEF PollInv, chunks
<1> QED
  BY <1>2, <1>3

LEMMA GroupBegins ==
  ASSUME ColInv, NEW left \in SUBSET DOMAIN Optional, NextGroup(left),
         session \in Sessions, session' \in Sessions, colClock' = colClock
  PROVE  PollInv' /\ poll'.at \in {"idle", "main", "optional"}
<1>1. CASE left = {}
  BY <1>1, PollBegins DEF NextGroup
<1>2. CASE left # {}
  <2>1. Min(left) \in DOMAIN Optional
    BY <1>2, GroupsTyped, SmallestExists
  <2>2. poll' = [at |-> "optional", group |-> Min(left), left |-> left \ {Min(left)},
                 got |-> <<>>, begun |-> colClock, read |-> colClock]
    BY <1>2 DEF NextGroup
  <2>3. /\ poll'.at = "optional" /\ poll'.group = Min(left) /\ poll'.left = left \ {Min(left)}
    BY <2>2
  <2>4. poll' = [at |-> poll'.at, group |-> poll'.group, left |-> poll'.left,
                 got |-> <<>>, begun |-> colClock, read |-> colClock]
    BY <2>2, <2>3
  <2> QED
    BY <2>1, <2>3, <2>4, PollBegins
<1> QED
  BY <1>1, <1>2

\* The samples of a poll whose replies are complete.
LEMMA SamplesStored ==
  ASSUME ColInv, poll.at # "idle", ~Reading, NEW keys \in SUBSET DOMAIN Catalogue,
         NEW time \in {poll.begun, poll.read}, StoreSamples(keys, time),
         \A k \in keys : \/ k \in MainKeys /\ Chunks = MainChunks
                         \/ /\ k \notin MainKeys
                            /\ \E g \in DOMAIN Optional :
                                 k \in Optional[g].keys /\ Chunks = GroupChunks[g]
  PROVE  DOMAIN samples' = DOMAIN Catalogue /\ SampleIsItsReading'
<1>1. DOMAIN samples' = DOMAIN Catalogue
  BY DEF StoreSamples
<1>2. ASSUME NEW k \in DOMAIN Catalogue, samples'[k] # samples[k]
      PROVE  LET s == samples'[k]
             IN  /\ k \in keys /\ s.reg = Catalogue[k].start /\ k \notin s.blank
                 /\ s.at - s.time \in -ReadBudget(Chunks) .. ReadBudget(Chunks)
  <2> DEFINE p == Payload(k, Chunks, poll.got)
  <2>1. /\ k \in keys /\ p # NoSample /\ k \notin p.blank
        /\ samples'[k] = [reg |-> p.reg, at |-> p.at, blank |-> p.blank, time |-> time]
    BY <1>2 DEF StoreSamples
  <2>2. /\ p.reg = Catalogue[k].start
        /\ p.at \in Nat /\ poll.begun <= p.at /\ p.at <= poll.read
    BY <2>1, PayloadIsOwn
  <2> HIDE DEF p
  <2>3. /\ poll.begun \in Nat /\ poll.read \in Nat
        /\ poll.read <= poll.begun + ReadBudget(Chunks) /\ ReadBudget(Chunks) \in Nat
    BY ChunksOfPoll DEF ColInv, PollInv
  <2>4. p.at - time \in -ReadBudget(Chunks) .. ReadBudget(Chunks)
    BY <2>2, <2>3
  <2> QED
    BY <2>1, <2>2, <2>4
<1>3. ASSUME NEW k \in DOMAIN Catalogue, samples'[k] # NoSample
      PROVE  LET s == samples'[k]
                 plans == IF k \in MainKeys THEN {MainChunks}
                          ELSE {GroupChunks[g] : g \in {g \in DOMAIN Optional : k \in Optional[g].keys}}
             IN  /\ s.reg = Catalogue[k].start /\ k \notin s.blank
                 /\ \E plan \in plans : s.at - s.time \in -ReadBudget(plan) .. ReadBudget(plan)
  <2>1. CASE samples'[k] = samples[k]
    BY <1>3, <2>1 DEF ColInv, SampleIsItsReading
  <2>2. CASE samples'[k] # samples[k]
    BY <1>2, <2>2
  <2> QED
    BY <2>1, <2>2
<1> QED
  BY <1>1, <1>3 DEF SampleIsItsReading

LEMMA ColInitInv == ColInit => ColInv
<1> SUFFICES ASSUME ColInit PROVE ColInv
  OBVIOUS
<1>1. PollInv
  BY DEF ColInit, PollInv, NoPoll
<1> QED
  BY <1>1 DEF ColInit, ColInv, SampleIsItsReading, NoPoll

LEMMA ColStepInv == ColInv /\ [ColNext]_colVars => ColInv'
<1> SUFFICES ASSUME ColInv, [ColNext]_colVars PROVE ColInv'
  OBVIOUS
<1>0. /\ colClock \in Nat /\ session \in {NoSample} \cup Sessions
      /\ poll.at \in {"idle", "main", "optional"} /\ PollInv
      /\ DOMAIN samples = DOMAIN Catalogue /\ SampleIsItsReading
  BY DEF ColInv
<1>a. ASSUME samples' = samples PROVE DOMAIN samples' = DOMAIN Catalogue /\ SampleIsItsReading'
  BY <1>0, <1>a DEF SampleIsItsReading
<1>1. CASE ColTick
  <2>1. /\ colClock' = colClock + 1 /\ poll' = poll /\ session' = session /\ samples' = samples
    BY <1>1 DEF ColTick
  <2>2. PollInv'
    BY <1>0, <2>1 DEF PollInv, IsOwn, Chunks
  <2> QED
    BY <1>0, <1>a, <2>1, <2>2 DEF ColInv
<1>2. CASE DialFails \/ UNCHANGED colVars
  <2>1. /\ colClock' = colClock /\ poll' = poll /\ session' = session /\ samples' = samples
    BY <1>2 DEF DialFails, colVars
  <2>2. PollInv'
    BY <1>0, <2>1 DEF PollInv, IsOwn, Chunks
  <2> QED
    BY <1>0, <1>a, <2>1, <2>2 DEF ColInv
<1>3. CASE BeginMain
  <2>1. /\ poll' = [at |-> "main", group |-> 0, left |-> {}, got |-> <<>>,
                    begun |-> colClock, read |-> colClock]
        /\ session' = IF session = NoSample THEN [late |-> NoSample, dead |-> FALSE] ELSE session
        /\ colClock' = colClock /\ samples' = samples
    BY <1>3 DEF BeginMain
  <2>2. session' \in Sessions
    BY <1>0, <2>1 DEF Sessions
  <2>3. poll'.at = "main" /\ poll'.group = 0 /\ poll'.left = {}
    BY <2>1
  <2>4. PollInv' /\ poll'.at \in {"idle", "main", "optional"}
    BY <2>1, <2>2, <2>3, PollBegins
  <2> QED
    BY <1>0, <1>a, <2>1, <2>2, <2>4 DEF ColInv
<1>4. CASE ReadChunk
  <2> DEFINE n == Len(poll.got)
             c == Chunks[n + 1]
  <2>1. /\ poll.at # "idle" /\ n < Len(Chunks) /\ colClock <= poll.begun + ReadBudget(Chunks)
        /\ samples' = samples /\ colClock' = colClock
    BY <1>4 DEF ReadChunk, Reading
  <2>2. session \in Sessions /\ session.late = NoSample
    BY <1>0, <2>1 DEF PollInv, Sessions
  <2>3. PICK blank \in Blanks :
          /\ poll' = [poll EXCEPT !.got = Append(@, Answer(blank)), !.read = colClock]
          /\ session' = [session EXCEPT !.late = NoSample]
    BY <1>4, <2>2 DEF ReadChunk
  <2>4. session' \in Sessions
    BY <2>2, <2>3 DEF Sessions
  <2>5. /\ poll.got \in Seq(Reply) /\ n \in Nat /\ Chunks \in Seq(Chunk) /\ Len(Chunks) \in Nat
        /\ \A i \in 1 .. n : IsOwn(poll.got[i], Chunks[i])
        /\ poll.begun \in Nat /\ poll.read \in Nat /\ poll.begun <= poll.read /\ poll.read <= colClock
    BY <1>0, <2>1, ChunksOfPoll DEF PollInv
  <2>6. n + 1 \in 1 .. Len(Chunks) /\ c \in Chunk
    BY <2>1, <2>5
  <2>7. /\ Answer(blank) \in Reply /\ Answer(blank).start = c.start /\ Answer(blank).at = colClock
    BY <1>0, <2>6 DEF Answer, Reply, Chunk
  <2> DEFINE got == Append(poll.got, Answer(blank))
  <2>8. /\ got \in Seq(Reply) /\ Len(got) = n + 1 /\ got[n + 1] = Answer(blank)
        /\ \A i \in 1 .. n : got[i] = poll.got[i]
    BY <2>5, <2>7
  <2>9. /\ poll'.at = poll.at /\ poll'.group = poll.group /\ poll'.left = poll.left
        /\ poll'.begun = poll.begun /\ poll'.read = colClock /\ poll'.got = got
    <3> HIDE DEF got
    <3>1. poll' = [poll EXCEPT !.got = got, !.read = colClock]
      BY <2>3 DEF got
    <3>2. {"at", "group", "left", "got", "begun", "read"} = DOMAIN poll
      BY <1>0 DEF PollInv
    <3> QED
      BY <3>1, <3>2
  <2> HIDE DEF got, c
  <2>10. Chunks' = Chunks
    BY <2>9 DEF Chunks
  <2>11. ASSUME NEW i \in 1 .. n + 1
         PROVE  got[i].start = Chunks[i].start /\ poll.begun <= got[i].at /\ got[i].at <= colClock
    <3>1. CASE i = n + 1
      <4>1. c = Chunks[n + 1]
        BY DEF c
      <4> HIDE DEF n
      <4> QED
        BY <1>0, <2>5, <2>7, <2>8, <3>1, <4>1
    <3>2. CASE i # n + 1
      <4>1. i \in 1 .. n
        BY <2>5, <3>2
      <4>2. poll.got[i] \in Reply
        BY <2>5, <4>1
      <4>3. poll.got[i].at \in Nat
        BY <4>2 DEF Reply
      <4>4. got[i] = poll.got[i] /\ IsOwn(poll.got[i], Chunks[i])
        BY <2>5, <2>8, <4>1
      <4> QED
        BY <1>0, <2>5, <4>3, <4>4 DEF IsOwn
    <3> QED
      BY <3>1, <3>2
  <2>12. PollInv'
    <3>1. /\ Len(poll'.got) = n + 1 /\ poll'.got \in Seq(Reply)
          /\ n + 1 <= Len(Chunks)
      BY <2>6, <2>8, <2>9
    <3>2. \A i \in 1 .. Len(poll'.got) : IsOwn(poll.got[i], Chunks[i])'
      BY <2>9, <2>10, <2>11, <3>1 DEF IsOwn
    <3>3. DOMAIN poll' = {"at", "group", "left", "got", "begun", "read"}
      BY <1>0, <2>3 DEF PollInv
    <3>4. poll'.begun <= poll'.read /\ poll'.read <= colClock'
      BY <1>0, <2>1, <2>5, <2>9
    <3> HIDE DEF n
    <3> QED
      BY <1>0, <2>1, <2>4, <2>5, <2>9, <2>10, <3>1, <3>2, <3>3, <3>4 DEF PollInv
  <2> QED
    BY <1>0, <1>a, <2>1, <2>4, <2>9, <2>12 DEF ColInv
<1>5. CASE StoreMain
  <2>1. /\ poll.at = "main" /\ ~Reading /\ StoreSamples(MainKeys, poll.read) /\ NextGroup(DueGroups)
        /\ colClock' = colClock /\ session' = session
    BY <1>5 DEF StoreMain
  <2>2. Chunks = MainChunks /\ MainKeys \in SUBSET DOMAIN Catalogue
    BY <2>1 DEF Chunks, MainKeys
  <2>3. DOMAIN samples' = DOMAIN Catalogue /\ SampleIsItsReading'
    BY <2>1, <2>2, SamplesStored
  <2>4. session \in Sessions /\ session' \in Sessions
    BY <1>0, <2>1 DEF PollInv
  <2>5. PollInv' /\ poll'.at \in {"idle", "main", "optional"}
    BY <2>1, <2>4, GroupBegins DEF DueGroups
  <2> QED
    BY <1>0, <2>1, <2>3, <2>4, <2>5 DEF ColInv
<1>6. CASE MainFails \/ RestartCollector
  <2>1. /\ session' = NoSample /\ poll' = NoPoll /\ colClock' = colClock /\ samples' = samples
    BY <1>6 DEF MainFails, RestartCollector
  <2>2. PollInv' /\ poll'.at \in {"idle", "main", "optional"}
    BY <2>1, PollBegins
  <2> QED
    BY <1>0, <1>a, <2>1, <2>2 DEF ColInv
<1>7. CASE StoreOptional
  <2> DEFINE keys == Optional[poll.group].keys
  <2>1. /\ poll.at = "optional" /\ ~Reading /\ NextGroup(poll.left)
        /\ StoreSamples(keys, poll.begun) \/ samples' = samples
        /\ colClock' = colClock /\ session' = session
    BY <1>7 DEF StoreOptional
  <2>2. /\ session \in Sessions /\ session' \in Sessions /\ poll.group \in DOMAIN Optional
        /\ poll.left \in SUBSET DOMAIN Optional
    BY <1>0, <2>1 DEF PollInv
  <2>3. DOMAIN samples' = DOMAIN Catalogue /\ SampleIsItsReading'
    <3>1. /\ keys \in SUBSET DOMAIN Catalogue /\ Chunks = GroupChunks[poll.group]
          /\ \A k \in keys : k \notin MainKeys
      BY <2>1, <2>2, GroupsTyped DEF Chunks, MainKeys, OptionalKeys
    <3>2. CASE StoreSamples(keys, poll.begun)
      BY <2>1, <2>2, <3>1, <3>2, SamplesStored
    <3> QED
      BY <1>a, <2>1, <3>2
  <2>4. PollInv' /\ poll'.at \in {"idle", "main", "optional"}
    BY <2>1, <2>2, GroupBegins
  <2> QED
    BY <1>0, <2>1, <2>2, <2>3, <2>4 DEF ColInv
<1>8. CASE OptionalFails
  <2>1. PICK failure \in {"refused", "timeout", "broken"} :
          IF Redials(failure) THEN session' = NoSample /\ poll' = NoPoll /\ NextTick
          ELSE session' = AfterFailure(failure) /\ NextGroup(poll.left)
    BY <1>8 DEF OptionalFails
  <2>2. poll.at = "optional" /\ colClock' = colClock /\ samples' = samples
    BY <1>8 DEF OptionalFails
  <2>3. /\ session \in Sessions /\ poll.left \in SUBSET DOMAIN Optional
    BY <1>0, <2>2 DEF PollInv
  <2>4. CASE Redials(failure)
    BY <1>0, <1>a, <2>1, <2>2, <2>4, PollBegins DEF ColInv
  <2>5. CASE ~Redials(failure)
    <3>1. session' \in Sessions /\ NextGroup(poll.left)
      <4> DEFINE dead == failure = "broken"
      <4>1. dead \in BOOLEAN
        OBVIOUS
      <4>2. AfterFailure(failure) = [late |-> NoSample, dead |-> dead]
        BY <2>5 DEF Redials, AfterFailure
      <4> HIDE DEF dead
      <4> QED
        BY <2>1, <2>5, <4>1, <4>2 DEF Sessions
    <3>2. PollInv' /\ poll'.at \in {"idle", "main", "optional"}
      BY <2>2, <2>3, <3>1, GroupBegins
    <3> QED
      BY <1>0, <1>a, <2>2, <3>1, <3>2 DEF ColInv
  <2> QED
    BY <2>4, <2>5
<1> QED
  BY <1>1, <1>2, <1>3, <1>4, <1>5, <1>6, <1>7, <1>8 DEF ColNext

\* A stored sample is a reading of its own registers, measured within its plan's read
\* budget of its time: for every register map, chunk size and group period, whatever
\* requests time out, are refused or answered late (cmd/collector/main.go, plan.go).
THEOREM SamplesAreTheirReadings == ColSpec => []SampleIsItsReading
<1>1. ColInv => SampleIsItsReading
  BY DEF ColInv
<1> QED
  BY <1>1, ColInitInv, ColStepInv, PTL DEF ColSpec

-------------------------------------------------------------------------------
(* The plant passport and the history of its changes. *)

Known == Nat \cup {NoReading}
FlagNames == {"MODBUS_ERROR", "CONTROL_MODE_DISAGREE", "CONTROL_MODE_NOT_REMOTE"}
Snapshot == [values : [Fields -> Known], flags : SUBSET FlagNames]
Answered == [failed : BOOLEAN, values : [Fields -> Known]]

InventoryInv == snapshots \in Seq(Snapshot) /\ readings \in Seq(Answered)

LEMMA LastReportedTyped ==
  ASSUME NEW n \in Nat, NEW values \in [1 .. n -> Known]
  PROVE  LastReported(values) \in Known
<1>1. CASE Reported(values) = {}
  BY <1>1 DEF LastReported, Known
<1>2. CASE Reported(values) # {}
  <2>1. Reported(values) \in SUBSET (0 .. n)
    BY DEF Reported
  <2>2. Max(Reported(values)) \in Reported(values)
    BY <1>2, <2>1, LastPosition
  <2> QED
    BY <1>2, <2>2 DEF LastReported, Reported
<1> QED
  BY <1>1, <1>2

LEMMA InventoryInitInv == InventoryInit => InventoryInv
BY DEF InventoryInit, InventoryInv

LEMMA InventoryStepInv == InventoryInv /\ [InventoryNext]_inventoryVars => InventoryInv'
<1> SUFFICES ASSUME InventoryInv, [InventoryNext]_inventoryVars PROVE InventoryInv'
  OBVIOUS
<1>1. CASE ReadLogger
  <2>1. PICK values \in [Fields -> UNION {Readings[f] : f \in Fields} \cup {NoReading}] :
          /\ \A f \in Fields : values[f] \in
               IF f \in KeysForRole(Loggers[NextLogger]) THEN Readings[f] ELSE {NoReading}
          /\ readings' = Append(readings, [failed |-> FALSE, values |-> values])
    BY <1>1 DEF ReadLogger
  <2>2. \A f \in Fields : values[f] \in Known
    BY <2>1, PlantInventoryAssumption DEF PlantInventoryAssumption, Known
  <2>3. values \in [Fields -> Known]
    BY <2>2
  <2>4. [failed |-> FALSE, values |-> values] \in Answered
    BY <2>3 DEF Answered
  <2> QED
    BY <1>1, <2>1, <2>4 DEF ReadLogger, InventoryInv
<1>2. CASE LoggerFails
  <2>1. [failed |-> TRUE, values |-> [f \in Fields |-> NoReading]] \in Answered
    BY DEF Answered, Known
  <2> QED
    BY <1>2, <2>1 DEF LoggerFails, InventoryInv
<1>3. CASE StoreSnapshot
  <2> DEFINE n == Len(readings)
  <2>1. n \in Nat /\ DOMAIN readings = 1 .. n /\ \A i \in 1 .. n : readings[i] \in Answered
    BY DEF InventoryInv
  <2>2. ASSUME NEW f \in Fields
        PROVE  LastReported([i \in DOMAIN readings |-> readings[i].values[f]]) \in Known
    <3>1. [i \in DOMAIN readings |-> readings[i].values[f]] \in [1 .. n -> Known]
      BY <2>1 DEF Answered
    <3> HIDE DEF n
    <3> QED
      BY <2>1, <3>1, LastReportedTyped
  <2>3. Merged(readings) \in [Fields -> Known]
    BY <2>2 DEF Merged
  <2>4. Flags(readings) \in SUBSET FlagNames
    BY DEF Flags, FlagNames
  <2>5. [values |-> Merged(readings), flags |-> Flags(readings)] \in Snapshot
    BY <2>3, <2>4 DEF Snapshot
  <2> QED
    BY <1>3, <2>5 DEF StoreSnapshot, InventoryInv
<1>4. CASE InsertFails \/ UNCHANGED inventoryVars
  <2>1. snapshots' = snapshots /\ (readings' = <<>> \/ readings' = readings)
    BY <1>4 DEF InsertFails, inventoryVars
  <2>2. <<>> \in Seq(Answered)
    OBVIOUS
  <2> QED
    BY <2>1, <2>2 DEF InventoryInv
<1> QED
  BY <1>1, <1>2, <1>3, <1>4 DEF InventoryNext

\* Values that never differ from the one reported before stay near the first.
LEMMA DriftBounded ==
  ASSUME NEW n \in Nat, NEW f, NEW values \in [1 .. n -> Known],
         NEW o \in Reported(values),
         \A i \in Reported(values) : i > o =>
           ~Differs(f, values[Max({j \in Reported(values) : j < i})], values[i])
  PROVE  \A i \in Reported(values) : i >= o =>
           IF f = "controlMode" THEN values[o] = values[i]
           ELSE values[o] - values[i] \in -Tolerance * n .. Tolerance * n
<1> DEFINE T == Reported(values)
           Near(i, k) == IF f = "controlMode" THEN values[o] = values[i]
                         ELSE /\ values[o] - values[i] <= Tolerance * k
                              /\ values[i] - values[o] <= Tolerance * k
           G == {k \in Nat : \A i \in T : i >= o /\ i <= o + k => Near(i, k)}
<1>0. Tolerance \in Nat /\ NoReading \notin Int
  BY PlantInventoryAssumption DEF PlantInventoryAssumption
<1>1. T \in SUBSET (1 .. n) /\ o \in T /\ \A i \in T : values[i] \in Nat
  BY <1>0 DEF Reported, Known
<1>2. 0 \in G
  <2> SUFFICES ASSUME NEW i \in T, i >= o, i <= o + 0 PROVE Near(i, 0)
    OBVIOUS
  <2>1. i = o
    BY <1>1
  <2>2. values[o] \in Nat /\ Tolerance * 0 = 0
    BY <1>0, <1>1
  <2> QED
    BY <2>1, <2>2
<1>3. ASSUME NEW k \in Nat, k \in G PROVE k + 1 \in G
  <2> SUFFICES ASSUME NEW i \in T, i >= o, i <= o + (k + 1) PROVE Near(i, k + 1)
    OBVIOUS
  <2>1. Tolerance * (k + 1) = Tolerance * k + Tolerance /\ Tolerance * k \in Nat
    BY <1>0
  <2>2. CASE i <= o + k
    <3>1. Near(i, k)
      BY <1>3, <2>2
    <3> QED
      BY <1>0, <1>1, <2>1, <3>1
  <2>3. CASE i > o + k
    <3> DEFINE before == {j \in T : j < i}
               p == Max(before)
    <3>1. i > o /\ i = o + k + 1
      BY <1>1, <2>3
    <3>2. o \in before /\ before \in SUBSET (0 .. n)
      BY <1>1, <3>1
    <3>3. p \in before /\ o <= p
      BY <3>2, LastPosition
    <3> HIDE DEF before
    <3>4. p \in T /\ p >= o /\ p <= o + k
      BY <1>1, <3>1, <3>3 DEF before
    <3>5. ~Differs(f, values[p], values[i])
      BY <3>1 DEF before
    <3> HIDE DEF p
    <3>6. Near(p, k)
      BY <1>3, <3>4
    <3>7. values[p] \in Nat /\ values[i] \in Nat /\ values[o] \in Nat
      BY <1>1, <3>4
    <3>8. CASE f = "controlMode"
      BY <3>5, <3>6, <3>8 DEF Differs
    <3>9. CASE f # "controlMode"
      <4>1. values[p] - values[i] \in -Tolerance .. Tolerance
        BY <3>5, <3>9 DEF Differs
      <4> QED
        BY <1>0, <2>1, <3>6, <3>7, <3>9, <4>1
    <3> QED
      BY <3>8, <3>9
  <2> QED
    BY <1>1, <2>2, <2>3
<1> HIDE DEF G
<1>4. n \in G
  BY <1>2, <1>3, Inductive
<1>5. ASSUME NEW i \in T, i >= o
      PROVE  Near(i, n)
  BY <1>1, <1>4, <1>5 DEF G
<1>6. ASSUME NEW i \in T, i >= o, f # "controlMode"
      PROVE  values[o] - values[i] \in -Tolerance * n .. Tolerance * n
  <2>1. values[i] \in Nat /\ values[o] \in Nat /\ Tolerance * n \in Nat
    BY <1>0, <1>1, <1>6
  <2>2. -Tolerance * n = -(Tolerance * n)
    BY <1>0
  <2> QED
    BY <1>5, <1>6, <2>1, <2>2
<1> QED
  BY <1>5, <1>6

LEMMA HistoryInInv == InventoryInv => HistoryEndsAtPassport
<1> SUFFICES ASSUME InventoryInv, NEW f \in Fields,
                    Reported(RealValues(f, List(ListLimit))) # {}
             PROVE  LET list == List(ListLimit)
                        values == RealValues(f, list)
                        changes == DiffHistory(f, list)
                        origin == values[IF changes # {} THEN Max(changes) ELSE Min(Reported(values))]
                    IN  /\ CoalesceLatest(f, list) # NoReading
                        /\ IF f = "controlMode" THEN origin = CoalesceLatest(f, list)
                           ELSE origin - CoalesceLatest(f, list) \in
                                  -Tolerance * Len(list) .. Tolerance * Len(list)
  BY DEF HistoryEndsAtPassport
<1> DEFINE list == List(ListLimit)
           n == Len(list)
           values == RealValues(f, list)
           T == Reported(values)
           changes == DiffHistory(f, list)
           o == IF changes # {} THEN Max(changes) ELSE Min(T)
           m == Max(T)
<1>1. list \in Seq(Snapshot)
  <2>1. snapshots \in Seq(Snapshot) /\ ListLimit \in Nat
    BY PlantInventoryAssumption DEF InventoryInv, PlantInventoryAssumption
  <2>2. CASE Len(snapshots) <= ListLimit
    BY <2>1, <2>2 DEF List
  <2>3. CASE ~(Len(snapshots) <= ListLimit)
    <3>1. list = SubSeq(snapshots, Len(snapshots) - ListLimit + 1, Len(snapshots))
      BY <2>3 DEF List, Listed
    <3>2. Len(snapshots) - ListLimit + 1 \in 1 .. Len(snapshots) + 1 /\ Len(snapshots) \in Nat
      BY <2>1, <2>3
    <3> QED
      BY <2>1, <3>1, <3>2
  <2> QED
    BY <2>2, <2>3
<1> HIDE DEF list
<1>2. n \in Nat /\ DOMAIN list = 1 .. n /\ \A i \in 1 .. n : list[i].values[f] \in Known
  <2>1. n \in Nat /\ DOMAIN list = 1 .. n /\ \A i \in 1 .. n : list[i] \in Snapshot
    BY <1>1
  <2> HIDE DEF n
  <2> QED
    BY <2>1 DEF Snapshot
<1>3. values \in [1 .. n -> Known]
  BY <1>2 DEF RealValues, Real, Known
<1>4. changes = {i \in T : {j \in T : j < i} # {}
                           /\ Differs(f, values[Max({j \in T : j < i})], values[i])}
  BY DEF DiffHistory
<1>5. CoalesceLatest(f, list) = values[m]
  BY DEF CoalesceLatest, LastReported, list
<1>6. T # {}
  BY DEF list
<1> HIDE DEF n, values, changes
<1>7. T \in SUBSET (1 .. n) /\ T \in SUBSET Nat /\ T \in SUBSET (0 .. n)
  BY <1>2, <1>3 DEF Reported
<1>8. m \in T /\ \A y \in T : y <= m
  BY <1>2, <1>6, <1>7, LastPosition
<1>9. /\ o \in T
      /\ \A i \in T : i > o => ~Differs(f, values[Max({j \in T : j < i})], values[i])
  <2>1. CASE changes # {}
    <3>1. changes \in SUBSET T
      BY <1>4
    <3>2. Max(changes) \in changes /\ \A y \in changes : y <= Max(changes)
      BY <1>2, <1>7, <2>1, <3>1, LastPosition
    <3>3. o = Max(changes) /\ o \in T
      BY <2>1, <3>1, <3>2
    <3> HIDE DEF o
    <3>4. ASSUME NEW i \in T, i > o
          PROVE  ~Differs(f, values[Max({j \in T : j < i})], values[i])
      <4>1. i \notin changes
        BY <1>7, <3>2, <3>3, <3>4
      <4>2. o \in {j \in T : j < i}
        BY <1>7, <3>3, <3>4
      <4> QED
        BY <1>4, <4>1, <4>2
    <3> QED
      BY <3>3, <3>4
  <2>2. CASE changes = {}
    <3>1. o = Min(T) /\ o \in T
      BY <1>6, <1>7, <2>2, SmallestExists
    <3> HIDE DEF o
    <3>2. ASSUME NEW i \in T, i > o
          PROVE  ~Differs(f, values[Max({j \in T : j < i})], values[i])
      <4>1. o \in {j \in T : j < i}
        BY <1>7, <3>1, <3>2
      <4> QED
        BY <1>4, <2>2, <4>1
    <3> QED
      BY <3>1, <3>2
  <2> QED
    BY <2>1, <2>2
<1> HIDE DEF o, m
<1>10. IF f = "controlMode" THEN values[o] = values[m]
       ELSE values[o] - values[m] \in -Tolerance * n .. Tolerance * n
  <2>1. m >= o
    BY <1>7, <1>8, <1>9
  <2> QED
    BY <1>2, <1>3, <1>8, <1>9, <2>1, DriftBounded
<1>11. values[m] # NoReading
  BY <1>8 DEF Reported
<1> QED
  BY <1>5, <1>10, <1>11 DEF list, n, values, changes, o

\* What is stored of the plant is what its devices answered: the samples of the polls are
\* readings of their registers, and the passport is where the history of its changes
\* leads, for every number of snapshots and any tolerance (main.go, inventory/history.go).
THEOREM PlantIsRecorded == ColSpec /\ InventorySpec => []PlantRecorded
<1>1. ColInv /\ InventoryInv => PlantRecorded
  BY HistoryInInv DEF ColInv, PlantRecorded
<1> QED
  BY <1>1, ColInitInv, ColStepInv, InventoryInitInv, InventoryStepInv, PTL
     DEF ColSpec, InventorySpec

-------------------------------------------------------------------------------
(* Energy flows: ticks and buckets. *)

FlowNames == {"pvToEss", "gridToEss", "essToLoad", "essToGrid"}

LEMMA FiniteHasMax ==
  ASSUME NEW S \in SUBSET Nat, S # {}, IsFiniteSet(S)
  PROVE  Max(S) \in S /\ \A y \in S : y <= Max(S)
<1>1. PICK n \in Nat : ExistsSurjection(1 .. n, S)
  BY FS_NatSurjection
<1>2. PICK f \in Surjection(1 .. n, S) : TRUE
  BY <1>1 DEF ExistsSurjection
<1>3. (\A x \in 1 .. n : f[x] \in S) /\ \A y \in S : \E x \in 1 .. n : f[x] = y
  BY <1>2 DEF Surjection
<1>4. \A y : y \in S <=> \E x \in 1 .. n : y = f[x]
  BY <1>3
<1>5. NumbersOf(S, 1 .. n, f)
  <2> DEFINE D == 1 .. n
  <2>0. (\A y \in S : y \in Int) /\ \A x \in D : f[x] \in S
    BY <1>3
  <2> HIDE DEF D
  <2>1. \A x \in D : f[x] \in Int
    BY <2>0
  <2> QED
    BY <1>4, <2>1 DEF NumbersOf, D
<1>6. 1 .. n \in SUBSET (0 .. n)
  OBVIOUS
<1>7. 1 .. n # {}
  BY <1>4
<1> QED
  BY <1>5, <1>6, <1>7, LargestExists

LEMMA TicksHold ==
  /\ \A t \in PollTicks : t \in Nat /\ t # 0 /\ 1 <= t /\ t <= LastTick
  /\ LastTick \in PollTicks /\ LastTick \in Nat
  /\ BucketLen \in Nat \ {0} /\ DayLen \in Nat \ {0} /\ EssPower \in Nat \ {0} /\ Jump \in Nat
<1>1. PollTicks \in SUBSET Nat /\ PollTicks # {} /\ IsFiniteSet(PollTicks) /\ 0 \notin PollTicks
  BY FlowsAssumption DEF FlowsAssumption
<1>2. LastTick \in PollTicks /\ \A y \in PollTicks : y <= LastTick
  BY <1>1, FiniteHasMax DEF LastTick
<1>3. \A t \in PollTicks : t \in Nat /\ t # 0 /\ 1 <= t /\ t <= LastTick
  BY <1>1, <1>2
<1> QED
  BY <1>1, <1>2, <1>3, FlowsAssumption DEF FlowsAssumption

\* Buckets are closed on the right, and in the order of their ticks.
LEMMA BucketHolds ==
  ASSUME NEW t \in Nat \ {0}
  PROVE  /\ BucketEnd(t) \in Nat /\ t <= BucketEnd(t) /\ BucketEnd(t) < t + BucketLen
         /\ \A u \in Nat \ {0} : t <= u => BucketEnd(t) <= BucketEnd(u)
<1> DEFINE n == BucketLen
           q(u) == (u + n - 1) \div n
<1>1. n \in Nat \ {0}
  BY TicksHold
<1>e. \A u : BucketEnd(u) = Max({1, q(u)}) * n
  BY DEF BucketEnd
<1> HIDE DEF n
<1>2. \A u \in Nat : /\ u \div n \in Nat /\ u % n \in 0 .. n - 1
                     /\ u = n * (u \div n) + (u % n)
  BY <1>1
<1>3. ASSUME NEW u \in Nat \ {0}
      PROVE  /\ q(u) \in Nat /\ 1 <= q(u) /\ BucketEnd(u) = q(u) * n /\ q(u) * n \in Nat
             /\ u <= q(u) * n /\ q(u) * n < u + n
  <2> DEFINE x == u + n - 1  a == x \div n  m == x % n
  <2>1. x \in Nat /\ x >= n
    BY <1>1
  <2>2. a \in Nat /\ m \in 0 .. n - 1 /\ x = n * a + m
    BY <1>2, <2>1
  <2>3. x = u + n - 1
    OBVIOUS
  <2> HIDE DEF a, m, x
  <2>4. a # 0
    <3> SUFFICES ASSUME a = 0 PROVE FALSE
      OBVIOUS
    <3>1. n * a = 0
      BY <1>1
    <3> QED
      BY <1>1, <2>1, <2>2, <3>1
  <2>5. n * a = a * n /\ a * n \in Nat
    BY <1>1, <2>2
  <2>6. q(u) = a
    BY DEF a, x
  <2> HIDE DEF q
  <2>7. Max({1, a}) = a
    BY <2>2, <2>4, SmallerOfTwo
  <2>8. BucketEnd(u) = a * n
    BY <1>e, <2>6, <2>7
  <2>9. u <= a * n /\ a * n < u + n
    BY <1>1, <2>2, <2>3, <2>5
  <2> QED
    BY <2>2, <2>4, <2>5, <2>6, <2>8, <2>9
<1> HIDE DEF q
<1>4. ASSUME NEW u \in Nat \ {0}, t <= u PROVE q(t) <= q(u)
  <2> DEFINE a == q(u)  b == q(t)
  <2>1. a \in Nat /\ b \in Nat /\ u <= a * n /\ b * n < t + n
    BY <1>3
  <2> HIDE DEF a, b
  <2> SUFFICES ASSUME a + 1 <= b PROVE FALSE
    BY <2>1 DEF a, b
  <2>2. (a + 1) * n <= b * n /\ (a + 1) * n = a * n + n /\ a * n \in Nat /\ b * n \in Nat
    BY <1>1, <2>1
  <2> QED
    BY <1>1, <1>4, <2>1, <2>2
<1>5. ASSUME NEW u \in Nat \ {0}, t <= u PROVE BucketEnd(t) <= BucketEnd(u)
  <2>1. q(t) <= q(u) /\ q(t) \in Nat /\ q(u) \in Nat
    BY <1>3, <1>4, <1>5
  <2>2. q(t) * n <= q(u) * n
    BY <1>1, <2>1
  <2> QED
    BY <1>3, <2>2
<1> QED
  BY <1>3, <1>5 DEF n

LEMMA FlowDayHolds ==
  ASSUME NEW t \in Nat
  PROVE  /\ CivilDayOf(t) \in Nat /\ CivilDayOf(t) * DayLen <= t
         /\ t < (CivilDayOf(t) + 1) * DayLen
         /\ \A d \in Nat : d * DayLen \in Nat /\ (d * DayLen <= t => d <= CivilDayOf(t))
         /\ \A u \in Nat : t <= u => CivilDayOf(t) <= CivilDayOf(u)
<1> DEFINE n == DayLen  q == t \div n
<1>1. n \in Nat \ {0}
  BY TicksHold
<1>e. \A u : CivilDayOf(u) = u \div n
  BY DEF CivilDayOf
<1> HIDE DEF n
<1>2. \A u \in Nat : /\ u \div n \in Nat /\ u % n \in 0 .. n - 1
                     /\ u = n * (u \div n) + (u % n)
  BY <1>1
<1>3. ASSUME NEW u \in Nat
      PROVE  (u \div n) * n <= u /\ u < (u \div n + 1) * n /\ (u \div n) * n \in Nat
  <2> DEFINE a == u \div n  m == u % n
  <2>1. a \in Nat /\ m \in 0 .. n - 1 /\ u = n * a + m
    BY <1>2
  <2> HIDE DEF a, m
  <2>2. a * n <= u /\ u < (a + 1) * n /\ a * n \in Nat
    <3>1. a * n = n * a /\ (a + 1) * n = a * n + n /\ a * n \in Nat
      BY <1>1, <2>1
    <3> QED
      BY <1>1, <2>1, <3>1
  <2> QED
    BY <2>2 DEF a
<1>4. ASSUME NEW d \in Nat, NEW u \in Nat, d * n <= u PROVE d <= u \div n
  <2> DEFINE a == u \div n
  <2>1. a \in Nat /\ u < (a + 1) * n
    BY <1>2, <1>3
  <2> HIDE DEF a
  <2> SUFFICES ASSUME a + 1 <= d PROVE FALSE
    BY <2>1 DEF a
  <2>2. (a + 1) * n <= d * n /\ (a + 1) * n \in Nat /\ d * n \in Nat
    BY <1>1, <2>1
  <2> QED
    BY <1>4, <2>1, <2>2
<1>5. \A u \in Nat : t <= u => q <= u \div n
  <2> SUFFICES ASSUME NEW u \in Nat, t <= u PROVE q <= u \div n
    OBVIOUS
  <2>1. q \in Nat /\ q * n <= t /\ q * n \in Nat
    BY <1>2, <1>3
  <2> HIDE DEF q
  <2> QED
    BY <1>4, <2>1
<1>6. \A d \in Nat : d * n \in Nat
  BY <1>1
<1> QED
  BY <1>e, <1>2, <1>3, <1>4, <1>5, <1>6 DEF n

-------------------------------------------------------------------------------
(* Energy flows: sums over intervals. *)

\* What the intervals between some ticks book is no more than what a reading
\* rises by from the first to the last of them, if that is so of each interval.
LEMMA ChainSum ==
  ASSUME NEW N \in Nat, NEW T \in SUBSET (1 .. N), NEW first \in T, NEW last \in T,
         \A w \in T : first <= w /\ w <= last,
         NEW g, NEW S, NEW at,
         S[0] = 0, \A n \in 1 .. N : g[n] \in Int /\ S[n] = S[n - 1] + g[n],
         \A w \in T : at[w] \in Int,
         \A n \in 1 .. N : n \notin T \/ n = first => g[n] = 0,
         \A t, u \in T : t < u /\ (\A w \in T : w <= t \/ u <= w) => g[u] <= at[u] - at[t]
  PROVE  S[N] \in Int /\ S[N] <= at[last] - at[first]
<1> DEFINE Upto(n) == {w \in T : w <= n}
           Holds(n) == /\ S[n] \in Int
                       /\ (\A w \in T : n < w) => S[n] = 0
                       /\ \A m \in T : m <= n /\ (\A w \in T : w <= m \/ n < w)
                            => S[n] <= at[m] - at[first]
           G == {n \in Nat : n <= N => Holds(n)}
<1>1. 0 \in G
  OBVIOUS
<1>2. ASSUME NEW n \in Nat, n \in G PROVE n + 1 \in G
  <2> SUFFICES ASSUME n + 1 <= N PROVE Holds(n + 1)
    OBVIOUS
  <2>1. Holds(n)
    BY <1>2
  <2>2. n + 1 \in 1 .. N /\ S[n + 1] = S[n] + g[n + 1] /\ S[n] \in Int /\ g[n + 1] \in Int
    <3>1. n + 1 \in 1 .. N /\ (n + 1) - 1 = n
      OBVIOUS
    <3> QED
      BY <2>1, <3>1
  <2>3. S[n + 1] \in Int
    BY <2>2
  <2>4. ASSUME \A w \in T : n + 1 < w PROVE S[n + 1] = 0
    <3>1. n + 1 \notin T /\ \A w \in T : n < w
      BY <2>4
    <3> QED
      BY <2>1, <2>2, <3>1
  <2>5. ASSUME NEW m \in T, m <= n + 1, \A w \in T : w <= m \/ n + 1 < w
        PROVE  S[n + 1] <= at[m] - at[first]
    <3>1. CASE m # n + 1
      <4>1. m <= n /\ n + 1 \notin T
        BY <2>5, <3>1
      <4>2. \A w \in T : w <= m \/ n < w
        BY <2>5
      <4> QED
        BY <2>1, <2>2, <4>1, <4>2
    <3>2. CASE m = n + 1 /\ \A w \in T : n < w
      <4>1. m = first
        BY <3>2
      <4>2. S[n + 1] = 0 /\ at[m] - at[first] = 0
        BY <2>1, <2>2, <3>2, <4>1
      <4> QED
        BY <4>2
    <3>3. CASE m = n + 1 /\ ~\A w \in T : n < w
      <4>0. PICK v \in T : ~(n < v)
        BY <3>3
      <4>1. Upto(n) \in SUBSET (0 .. n) /\ Upto(n) # {}
        <5>1. \A w \in T : w \in Nat
          OBVIOUS
        <5>2. v \in Upto(n)
          BY <4>0, <5>1
        <5>3. \A w \in Upto(n) : w \in 0 .. n
          BY <5>1
        <5> QED
          BY <5>2, <5>3
      <4>2. Max(Upto(n)) \in Upto(n) /\ \A y \in Upto(n) : y <= Max(Upto(n))
        <5> HIDE DEF Upto
        <5> QED
          BY <4>1, LastPosition
      <4>3. PICK l \in T : l <= n /\ \A w \in T : w <= n => w <= l
        BY <4>2
      <4>4. \A w \in T : w <= l \/ n < w
        BY <4>3
      <4>5. S[n] <= at[l] - at[first]
        BY <2>1, <4>3, <4>4
      <4>6. l < n + 1 /\ \A w \in T : w <= l \/ n + 1 <= w
        BY <4>3, <4>4
      <4>7. g[n + 1] <= at[n + 1] - at[l]
        BY <3>3, <4>6
      <4> QED
        BY <2>2, <3>3, <4>5, <4>7
    <3> QED
      BY <3>1, <3>2, <3>3
  <2> QED
    BY <2>3, <2>4, <2>5
<1> HIDE DEF G
<1>3. N \in G
  BY <1>1, <1>2, Inductive
<1>4. Holds(N)
  BY <1>3 DEF G
<1> QED
  BY <1>4

FlowsTyped(f) == f \in [FlowNames -> Int]

LEMMA NoFlowsTyped ==
  /\ DOMAIN NoFlows = FlowNames /\ FlowsTyped(NoFlows) /\ \A k \in FlowNames : NoFlows[k] = 0
BY DEF NoFlows, FlowNames, FlowsTyped

LEMMA AddFlowsHolds ==
  ASSUME NEW a, NEW b, FlowsTyped(a), FlowsTyped(b)
  PROVE  /\ FlowsTyped(AddFlows(a, b))
         /\ \A k \in FlowNames : AddFlows(a, b)[k] = a[k] + b[k]
<1>1. AddFlows(a, b) = [k \in FlowNames |-> a[k] + b[k]]
  BY NoFlowsTyped DEF AddFlows
<1> QED
  BY <1>1 DEF FlowsTyped

\* The running sums of n flows.
RunningSums(sum, n, flows) ==
  /\ SumUpTo(n, flows) = sum[n] /\ \A i \in 0 .. n : FlowsTyped(sum[i])
  /\ \A k \in FlowNames :
       /\ sum[0][k] = 0
       /\ \A i \in 1 .. n : sum[i][k] = sum[i - 1][k] + flows[i][k]

LEMMA SumUpToHolds ==
  ASSUME NEW n \in Nat, NEW flows, \A i \in 1 .. n : FlowsTyped(flows[i])
  PROVE  \E sum : RunningSums(sum, n, flows)
<1> DEFINE Is(s, m) == s = [i \in 0 .. m |-> IF i = 0 THEN NoFlows
                                                 ELSE AddFlows(s[i - 1], flows[i])]
           G == {m \in Nat : m <= n => \E s : Is(s, m)}
<1>1. 0 \in G
  <2> DEFINE s == [i \in 0 .. 0 |-> NoFlows]
  <2>1. Is(s, 0)
    OBVIOUS
  <2> HIDE DEF s
  <2> QED
    BY <2>1
<1>2. ASSUME NEW m \in Nat, m \in G PROVE m + 1 \in G
  <2> SUFFICES ASSUME m + 1 <= n PROVE \E s : Is(s, m + 1)
    OBVIOUS
  <2>1. PICK s : Is(s, m)
    BY <1>2
  <2> DEFINE r == [i \in 0 .. m + 1 |-> IF i = m + 1 THEN AddFlows(s[m], flows[m + 1]) ELSE s[i]]
  <2>2. \A i \in 0 .. m : s[i] = IF i = 0 THEN NoFlows ELSE AddFlows(s[i - 1], flows[i])
    BY <2>1
  <2>3. \A i \in 0 .. m + 1 : r[i] = IF i = m + 1 THEN AddFlows(s[m], flows[m + 1]) ELSE s[i]
    OBVIOUS
  <2>4. r = [i \in 0 .. m + 1 |-> r[i]]
    OBVIOUS
  <2> HIDE DEF r
  <2>5. ASSUME NEW i \in 0 .. m + 1
        PROVE  r[i] = IF i = 0 THEN NoFlows ELSE AddFlows(r[i - 1], flows[i])
    <3>1. CASE i = m + 1
      <4>1. i # 0 /\ i - 1 = m /\ m \in 0 .. m + 1 /\ m # m + 1
        BY <3>1
      <4>2. r[i - 1] = s[m]
        BY <2>3, <4>1
      <4> QED
        BY <2>3, <3>1, <4>1, <4>2
    <3>2. CASE i = 0
      BY <2>2, <2>3, <3>2
    <3>3. CASE i # 0 /\ i # m + 1
      <4>1. i \in 0 .. m /\ i - 1 \in 0 .. m + 1 /\ i - 1 # m + 1
        BY <3>3
      <4> QED
        BY <2>2, <2>3, <3>3, <4>1
    <3> QED
      BY <3>1, <3>2, <3>3
  <2>6. Is(r, m + 1)
    BY <2>4, <2>5
  <2> QED
    BY <2>6
<1> HIDE DEF G
<1>3. n \in G
  BY <1>1, <1>2, Inductive
<1> DEFINE sum == CHOOSE s : Is(s, n)
<1>4. Is(sum, n)
  BY <1>3 DEF G
<1>5. SumUpTo(n, flows) = sum[n]
  BY DEF SumUpTo
<1> HIDE DEF sum
<1>6. \A i \in 0 .. n : sum[i] = IF i = 0 THEN NoFlows ELSE AddFlows(sum[i - 1], flows[i])
  BY <1>4
<1> HIDE DEF Is
<1> DEFINE H == {i \in Nat : i <= n => FlowsTyped(sum[i])}
<1>7. 0 \in H
  BY <1>6, NoFlowsTyped
<1>8. ASSUME NEW i \in Nat, i \in H PROVE i + 1 \in H
  <2> SUFFICES ASSUME i + 1 <= n PROVE FlowsTyped(sum[i + 1])
    OBVIOUS
  <2>1. FlowsTyped(sum[i]) /\ i + 1 \in 1 .. n
    BY <1>8
  <2>2. sum[i + 1] = AddFlows(sum[i], flows[i + 1])
    BY <1>6, <2>1
  <2> QED
    BY <2>1, <2>2, AddFlowsHolds
<1> HIDE DEF H
<1>9. \A i \in 0 .. n : FlowsTyped(sum[i])
  <2>1. Nat \subseteq H
    BY <1>7, <1>8, Inductive
  <2> QED
    BY <2>1 DEF H
<1>10. \A k \in FlowNames : sum[0][k] = 0
  BY <1>6, NoFlowsTyped
<1>11. ASSUME NEW k \in FlowNames, NEW i \in 1 .. n
       PROVE  sum[i][k] = sum[i - 1][k] + flows[i][k]
  <2>1. i \in 0 .. n /\ i - 1 \in 0 .. n /\ i # 0
    OBVIOUS
  <2>2. sum[i] = AddFlows(sum[i - 1], flows[i])
    BY <1>6, <2>1
  <2>3. FlowsTyped(sum[i - 1]) /\ FlowsTyped(flows[i])
    BY <1>9, <2>1
  <2> QED
    BY <2>2, <2>3, AddFlowsHolds
<1> QED
  BY <1>5, <1>9, <1>10, <1>11 DEF RunningSums

-------------------------------------------------------------------------------
(* Energy flows: the samples of some rows. *)

RowTyped(r) ==
  /\ r.t \in PollTicks /\ r.role \in {"plant", "battery"} /\ \A k \in DOMAIN r.v : r.v[k] \in Nat
  /\ r.role = "plant" => DOMAIN r.v = Plant
  /\ r.role = "battery" => DOMAIN r.v \in {Battery, {"discharged"}}

LEMMA LastOfHolds ==
  ASSUME NEW rs, rs # {}, \A r \in rs : r.t \in PollTicks
  PROVE  /\ LastOf(rs) \in rs /\ \A q \in rs : q.t <= LastOf(rs).t
         /\ FirstOf(rs) \in rs /\ \A q \in rs : FirstOf(rs).t <= q.t
<1> DEFINE S == {r.t : r \in rs}
<1>0. \A t \in PollTicks : t \in Nat /\ t \in 0 .. LastTick
  BY TicksHold
<1>1. S \in SUBSET (0 .. LastTick) /\ S # {} /\ S \in SUBSET Nat
  BY <1>0
<1>2. Max(S) \in S /\ \A y \in S : y <= Max(S)
  <2> HIDE DEF S
  <2> QED
    BY <1>1, TicksHold, LastPosition
<1>3. Min(S) \in S /\ \A y \in S : Min(S) <= y
  <2> HIDE DEF S
  <2> QED
    BY <1>1, SmallestExists
<1>4. \E r \in rs : \A q \in rs : q.t <= r.t
  BY <1>2
<1>5. \E r \in rs : \A q \in rs : r.t <= q.t
  BY <1>3
<1> QED
  BY <1>4, <1>5 DEF LastOf, FirstOf

\* A row of the bucket a sample is of.
InBucket(r, s) == BucketEnd(r.t) = BucketEnd(s.t) /\ RowTyped(r)

SampleFacts(rs, s) ==
  /\ s.t \in PollTicks /\ s = SampleAt(rs, BucketEnd(s.t))
  /\ Registers \ {"charged"} \subseteq DOMAIN s.v /\ DOMAIN s.v \subseteq Registers
  /\ \A k \in DOMAIN s.v : /\ s.v[k] \in Nat
                           /\ \E r \in rs : /\ InBucket(r, s) /\ r.t <= s.t
                                            /\ k \in DOMAIN r.v /\ r.v[k] = s.v[k]
  /\ "charged" \notin DOMAIN s.v =>
       \E r \in rs : InBucket(r, s) /\ r.role = "battery" /\ "charged" \notin DOMAIN r.v

LEMMA SamplesHold ==
  ASSUME NEW rs, \A r \in rs : RowTyped(r), NEW s \in SamplesOf(rs)
  PROVE  SampleFacts(rs, s)
<1>1. PICK e \in FullBuckets(rs) : s = SampleAt(rs, e)
  BY DEF SamplesOf
<1> DEFINE P == RowsOf(rs, e, "plant")
           W == RowsOf(rs, e, "battery")
           Y == P \cup W
           Has(k) == {r \in Y : k \in DOMAIN r.v}
<1>2. P # {} /\ W # {}
  BY DEF FullBuckets
<1>3. \A r \in Y : r \in rs /\ RowTyped(r) /\ BucketEnd(r.t) = e /\ r.t \in PollTicks
  BY DEF RowsOf, RowTyped
<1>4. (\A r \in P : r.role = "plant") /\ \A r \in W : r.role = "battery"
  BY DEF RowsOf
<1>5. s = [t |-> Max({LastOf(P).t, LastOf(W).t}), v |-> ValuesOf(Y)]
  BY <1>1 DEF SampleAt
<1>6. \A r \in P : DOMAIN r.v = Plant
  BY <1>3, <1>4 DEF RowTyped
<1>7. \A r \in W : DOMAIN r.v \in {Battery, {"discharged"}}
  BY <1>3, <1>4 DEF RowTyped
<1> HIDE DEF P, W
<1>8. /\ LastOf(P) \in P /\ \A q \in P : q.t <= LastOf(P).t
      /\ LastOf(W) \in W /\ \A q \in W : q.t <= LastOf(W).t
  BY <1>2, <1>3, LastOfHolds
<1>9. /\ s.t \in {LastOf(P).t, LastOf(W).t} /\ \A r \in Y : r.t <= s.t
      /\ s.t \in PollTicks
  <2> DEFINE p == LastOf(P).t  b == LastOf(W).t
  <2>1. p \in PollTicks /\ b \in PollTicks
    BY <1>3, <1>8
  <2>0. \A t \in PollTicks : t \in Int
    BY TicksHold
  <2>2. p \in Int /\ b \in Int
    BY <2>0, <2>1
  <2>t. s.t = Max({p, b})
    BY <1>5
  <2>3. (\A q \in P : q.t <= p) /\ \A q \in W : q.t <= b
    BY <1>8
  <2>4. \A r \in Y : r.t \in Int
    BY <1>3, <2>0
  <2> HIDE DEF p, b
  <2>5. s.t \in {p, b} /\ p <= s.t /\ b <= s.t
    BY <2>2, <2>t, SmallerOfTwo
  <2>6. s.t \in Int
    BY <2>2, <2>5
  <2>7. ASSUME NEW r \in Y PROVE r.t <= s.t
    BY <2>2, <2>3, <2>4, <2>5, <2>6
  <2> QED
    BY <2>1, <2>5, <2>7 DEF p, b
<1>10. BucketEnd(s.t) = e
  <2>1. LastOf(P) \in Y /\ LastOf(W) \in Y
    BY <1>8
  <2> QED
    BY <1>3, <1>9, <2>1
<1>11. DOMAIN s.v = UNION {DOMAIN r.v : r \in Y}
  BY <1>5 DEF ValuesOf
<1>12. ASSUME NEW k \in DOMAIN s.v
       PROVE  /\ s.v[k] \in Nat
              /\ \E r \in rs : InBucket(r, s) /\ r.t <= s.t /\ k \in DOMAIN r.v /\ r.v[k] = s.v[k]
  <2>1. Has(k) # {}
    BY <1>11
  <2>2. LastOf(Has(k)) \in Has(k)
    <3>1. \A r \in Has(k) : r.t \in PollTicks
      BY <1>3
    <3> HIDE DEF Has
    <3> QED
      BY <2>1, <3>1, LastOfHolds
  <2>3. s.v[k] = LastOf(Has(k)).v[k]
    BY <1>5, <1>11 DEF ValuesOf
  <2>4. PICK r \in Y : k \in DOMAIN r.v /\ s.v[k] = r.v[k]
    BY <2>2, <2>3
  <2>5. r \in rs /\ InBucket(r, s) /\ r.t <= s.t /\ r.v[k] \in Nat
    BY <1>3, <1>9, <1>10, <2>4 DEF InBucket, RowTyped
  <2> QED
    BY <2>4, <2>5
<1>13. Registers \ {"charged"} \subseteq DOMAIN s.v /\ DOMAIN s.v \subseteq Registers
  <2>1. PICK p \in P, b \in W : TRUE
    BY <1>2
  <2>2. Plant \subseteq DOMAIN s.v /\ "discharged" \in DOMAIN s.v
    BY <1>6, <1>7, <1>11, <2>1 DEF Battery
  <2>3. \A r \in Y : DOMAIN r.v \subseteq Registers
    BY <1>6, <1>7 DEF Registers, Battery
  <2> QED
    BY <1>11, <2>2, <2>3 DEF Registers, Battery
<1>14. ASSUME "charged" \notin DOMAIN s.v
       PROVE  \E r \in rs : InBucket(r, s) /\ r.role = "battery" /\ "charged" \notin DOMAIN r.v
  <2>1. PICK b \in W : TRUE
    BY <1>2
  <2>2. b \in Y /\ "charged" \notin DOMAIN b.v
    BY <1>11, <1>14
  <2> QED
    BY <1>3, <1>4, <1>10, <2>2 DEF InBucket
<1> QED
  BY <1>1, <1>9, <1>10, <1>12, <1>13, <1>14 DEF SampleFacts

\* Samples are told apart by their buckets, and are in their order.
LEMMA SamplesOrdered ==
  ASSUME NEW rs, \A r \in rs : RowTyped(r), NEW p \in SamplesOf(rs), NEW s \in SamplesOf(rs)
  PROVE  /\ p.t = s.t => p = s
         /\ p.t < s.t => \A q, r : InBucket(q, p) /\ InBucket(r, s) => q.t < r.t
<1>1. /\ p.t \in PollTicks /\ p = SampleAt(rs, BucketEnd(p.t))
      /\ s.t \in PollTicks /\ s = SampleAt(rs, BucketEnd(s.t))
  BY SamplesHold DEF SampleFacts
<1>2. p.t = s.t => p = s
  BY <1>1
<1>3. ASSUME p.t < s.t, NEW q, NEW r, InBucket(q, p), InBucket(r, s) PROVE q.t < r.t
  <2>1. q.t \in PollTicks /\ r.t \in PollTicks
    BY <1>3 DEF InBucket, RowTyped
  <2>2. {p.t, s.t, q.t, r.t} \subseteq Nat \ {0}
    BY <1>1, <2>1, TicksHold
  <2>3. BucketEnd(p.t) \in Nat /\ BucketEnd(s.t) \in Nat /\ BucketEnd(p.t) <= BucketEnd(s.t)
    BY <1>3, <2>2, BucketHolds
  <2>4. BucketEnd(p.t) # BucketEnd(s.t)
    BY <1>1, <1>3, <2>2
  <2>5. BucketEnd(q.t) < BucketEnd(r.t)
    BY <1>3, <2>3, <2>4 DEF InBucket
  <2>6. r.t <= q.t => BucketEnd(r.t) <= BucketEnd(q.t) /\ BucketEnd(r.t) \in Nat /\ BucketEnd(q.t) \in Nat
    BY <2>2, BucketHolds
  <2> QED
    BY <2>2, <2>5, <2>6
<1> QED
  BY <1>2, <1>3

-------------------------------------------------------------------------------
(* Energy flows: registers and rows. *)

\* No register but the charged one ever falls, and discharge is slow.
Rises(q, r) ==
  /\ \A k \in DOMAIN q.v \cap DOMAIN r.v : k # "charged" => q.v[k] <= r.v[k]
  /\ "discharged" \in DOMAIN q.v \cap DOMAIN r.v =>
       r.v["discharged"] - q.v["discharged"] <= r.t - q.t

\* What the loggers show now, as a row.
Panel == [t |-> flowTick, role |-> "battery", v |-> shownAt]

RowsInv ==
  /\ flowTick \in PollTicks /\ unbilled \in Nat /\ upsets \in Nat
  /\ shownAt \in [Registers -> Nat]
  /\ \A r \in flowRows : RowTyped(r) /\ r.t <= flowTick /\ Rises(r, Panel)
  /\ \A q, r \in flowRows : q.t <= r.t => Rises(q, r)

\* cum[t] is what upsets was after tick t.  The charged register is slow and
\* never falls while that stays the same; a row without it is worth two upsets.
Steady(cum, q, r) ==
  "charged" \in DOMAIN q.v \cap DOMAIN r.v /\ cum[q.t] = cum[r.t] =>
    q.v["charged"] <= r.v["charged"] /\ r.v["charged"] - q.v["charged"] <= r.t - q.t

SpoilInv(cum) ==
  /\ \A t \in Nat : cum[t] \in Nat /\ (flowTick <= t => cum[t] = upsets)
  /\ \A t, u \in Nat : t <= u => cum[t] <= cum[u]
  /\ \A r \in flowRows :
       /\ Steady(cum, r, Panel)
       /\ r.role = "battery" /\ "charged" \notin DOMAIN r.v => cum[r.t - 1] + 2 <= cum[r.t]
  /\ \A q, r \in flowRows : q.t <= r.t => Steady(cum, q, r)

\* What a tick does to the registers and the rows.
Moved(garbled) ==
  /\ flowTick' \in PollTicks /\ flowTick < flowTick' /\ unbilled' \in Nat
  /\ shownAt' \in [Registers -> Nat]
  /\ \A k \in Registers : k # "charged" => shownAt[k] <= shownAt'[k]
  /\ shownAt'["discharged"] <= shownAt["discharged"] + 1
  /\ \/ /\ upsets' = upsets /\ garbled = {}
        /\ shownAt["charged"] <= shownAt'["charged"]
        /\ shownAt'["charged"] <= shownAt["charged"] + 1
     \/ upsets' = upsets + 1 /\ garbled = {}
     \/ upsets' = upsets + 2 /\ garbled = {"charged"}
  /\ \E answers \in SUBSET {"plant", "battery"} : Store(flowTick', answers, shownAt', garbled)
  /\ storedDays' = storedDays

LEMMA NextPollHolds ==
  ASSUME flowTick \in PollTicks, flowTick < LastTick
  PROVE  NextPoll \in PollTicks /\ flowTick < NextPoll
<1> DEFINE S == {t \in PollTicks : t > flowTick}
<1>1. S \in SUBSET Nat /\ LastTick \in S
  BY TicksHold
<1>2. Min(S) \in S
  <2> HIDE DEF S
  <2> QED
    BY <1>1, SmallestExists
<1>3. \A t \in PollTicks : t \in Nat
  BY TicksHold
<1> QED
  BY <1>2, <1>3 DEF NextPoll

LEMMA PollMoves == RowsInv /\ Poll => Moved({})
<1> SUFFICES ASSUME RowsInv, Poll PROVE Moved({})
  OBVIOUS
<1>1. PICK m \in Moves, answers \in {{"plant"}, {"battery"}, {"plant", "battery"}}, lags \in BOOLEAN :
        /\ flowTick < LastTick /\ flowTick' = NextPoll
        /\ unbilled' = IF lags THEN unbilled + m["import"] ELSE 0
        /\ shownAt' = [k \in Registers |-> shownAt[k] + m[k]
                         + (IF k = "import" THEN unbilled - unbilled' ELSE 0)]
        /\ Store(flowTick', answers, shownAt', {})
        /\ UNCHANGED <<upsets, storedDays>>
  BY DEF Poll
<1>2. /\ flowTick \in PollTicks /\ unbilled \in Nat /\ \A k \in Registers : shownAt[k] \in Nat
  BY DEF RowsInv
<1>3. \A k \in Registers : m[k] \in {0, 1}
  BY DEF Moves
<1>r. {"import", "charged", "discharged"} \subseteq Registers
  BY DEF Registers, Plant, Battery
<1>4. unbilled' \in Nat /\ unbilled' <= unbilled + m["import"]
  <2>1. m["import"] \in Nat
    BY <1>3, <1>r
  <2> QED
    BY <1>1, <1>2, <2>1
<1>5. ASSUME NEW k \in Registers
      PROVE  /\ shownAt'[k] \in Nat /\ shownAt[k] <= shownAt'[k]
             /\ k # "import" => shownAt'[k] <= shownAt[k] + 1
  <2>1. m[k] \in {0, 1} /\ shownAt[k] \in Nat
    BY <1>2, <1>3
  <2>2. CASE k = "import"
    <3>1. shownAt'[k] = shownAt[k] + m[k] + (unbilled - unbilled')
      BY <1>1, <2>2
    <3> QED
      BY <1>2, <1>4, <2>1, <2>2, <3>1
  <2>3. CASE k # "import"
    <3>1. shownAt'[k] = shownAt[k] + m[k] + 0
      BY <1>1, <2>3
    <3> QED
      BY <2>1, <2>3, <3>1
  <2> QED
    BY <2>2, <2>3
<1>6. shownAt' \in [Registers -> Nat]
  <2>1. shownAt' = [k \in Registers |-> shownAt'[k]]
    BY <1>1
  <2> QED
    BY <1>5, <2>1
<1>7. flowTick' \in PollTicks /\ flowTick < flowTick'
  BY <1>1, <1>2, NextPollHolds
<1>8. /\ shownAt'["discharged"] <= shownAt["discharged"] + 1
      /\ shownAt["charged"] <= shownAt'["charged"]
      /\ shownAt'["charged"] <= shownAt["charged"] + 1
  BY <1>5, <1>r
<1>9. answers \in SUBSET {"plant", "battery"}
  OBVIOUS
<1> QED
  BY <1>1, <1>4, <1>5, <1>6, <1>7, <1>8, <1>9 DEF Moved

LEMMA UpsetMoves == RowsInv /\ Upset => Moved({}) \/ Moved({"charged"})
<1> SUFFICES ASSUME RowsInv, Upset PROVE Moved({}) \/ Moved({"charged"})
  OBVIOUS
<1>1. PICK how \in {"step", "reset", "garbled"} :
        /\ flowTick < LastTick /\ flowTick' = NextPoll
        /\ upsets' = upsets + (IF how = "garbled" THEN 2 ELSE 1)
        /\ shownAt' = [shownAt EXCEPT !["charged"] =
                         CASE how = "step" -> @ + Jump [] how = "reset" -> 0 [] OTHER -> @]
        /\ Store(flowTick', {"plant", "battery"}, shownAt',
                 IF how = "garbled" THEN {"charged"} ELSE {})
        /\ UNCHANGED <<unbilled, silences, storedDays>>
  BY DEF Upset
<1>2. /\ flowTick \in PollTicks /\ unbilled \in Nat /\ shownAt \in [Registers -> Nat]
  BY DEF RowsInv
<1>3. flowTick' \in PollTicks /\ flowTick < flowTick'
  BY <1>1, <1>2, NextPollHolds
<1>4. /\ "charged" \in Registers /\ "discharged" \in Registers
  BY DEF Registers, Battery
<1>5. \A k \in Registers : k # "charged" => shownAt'[k] = shownAt[k] /\ shownAt[k] \in Nat
  BY <1>1, <1>2
<1>6. shownAt' \in [Registers -> Nat]
  <2> DEFINE x == CASE how = "step" -> shownAt["charged"] + Jump
                    [] how = "reset" -> 0 [] OTHER -> shownAt["charged"]
  <2>1. x \in Nat
    BY <1>2, <1>4, TicksHold
  <2>2. shownAt' = [shownAt EXCEPT !["charged"] = x]
    BY <1>1
  <2> HIDE DEF x
  <2> QED
    BY <1>2, <1>4, <2>1, <2>2
<1>7. /\ \A k \in Registers : k # "charged" => shownAt[k] <= shownAt'[k]
      /\ shownAt'["discharged"] <= shownAt["discharged"] + 1
  BY <1>4, <1>5
<1>8. {"plant", "battery"} \in SUBSET {"plant", "battery"}
  OBVIOUS
<1>9. CASE how = "garbled"
  <2>1. upsets' = upsets + 2 /\ Store(flowTick', {"plant", "battery"}, shownAt', {"charged"})
    BY <1>1, <1>9
  <2>2. Moved({"charged"})
    BY <1>1, <1>2, <1>3, <1>6, <1>7, <1>8, <2>1 DEF Moved
  <2> QED
    BY <2>2
<1>10. CASE how # "garbled"
  <2>1. upsets' = upsets + 1 /\ Store(flowTick', {"plant", "battery"}, shownAt', {})
    BY <1>1, <1>10
  <2>2. Moved({})
    BY <1>1, <1>2, <1>3, <1>6, <1>7, <1>8, <2>1 DEF Moved
  <2> QED
    BY <2>2
<1> QED
  BY <1>9, <1>10

\* The rows that a tick adds.
LEMMA NewRows ==
  ASSUME NEW garbled, Moved(garbled), RowsInv, NEW r \in flowRows', r \notin flowRows
  PROVE  /\ r.t = flowTick' /\ RowTyped(r) /\ DOMAIN r.v \subseteq Registers
         /\ \A k \in DOMAIN r.v : r.v[k] = shownAt'[k]
         /\ r.role = "battery" /\ "charged" \notin DOMAIN r.v => upsets' = upsets + 2
<1>1. PICK answers \in SUBSET {"plant", "battery"} : Store(flowTick', answers, shownAt', garbled)
  BY DEF Moved
<1>2. PICK role \in answers :
        r = [t |-> flowTick', role |-> role,
             v |-> Restrict(shownAt', (IF role = "plant" THEN Plant ELSE Battery) \ garbled)]
  BY <1>1 DEF Store
<1>3. garbled \in {{}, {"charged"}} /\ (garbled = {"charged"} => upsets' = upsets + 2)
  BY DEF Moved
<1> DEFINE D == (IF role = "plant" THEN Plant ELSE Battery) \ garbled
<1>4. r.t = flowTick' /\ r.role = role /\ r.v = [k \in D |-> shownAt'[k]]
  BY <1>2 DEF Restrict
<1>5. role \in {"plant", "battery"}
  BY <1>1
<1>6. role = "plant" => D = Plant
  BY <1>3 DEF Plant
<1>7. role = "battery" => D = (IF garbled = {} THEN Battery ELSE {"discharged"})
  BY <1>3 DEF Battery
<1>8. "charged" \in Battery /\ D \subseteq Registers
  BY <1>5, <1>6, <1>7 DEF Battery, Registers
<1> HIDE DEF D
<1>9. DOMAIN r.v = D /\ \A k \in D : r.v[k] = shownAt'[k]
  BY <1>4
<1>10. \A k \in D : r.v[k] \in Nat
  BY <1>8, <1>9 DEF Moved
<1>11. flowTick' \in PollTicks
  BY DEF Moved
<1>12. RowTyped(r)
  BY <1>4, <1>5, <1>6, <1>7, <1>9, <1>10, <1>11 DEF RowTyped
<1>13. r.role = "battery" /\ "charged" \notin DOMAIN r.v => upsets' = upsets + 2
  BY <1>3, <1>4, <1>7, <1>8, <1>9
<1> QED
  BY <1>4, <1>8, <1>9, <1>12, <1>13

LEMMA OldRows ==
  ASSUME NEW garbled, Moved(garbled), RowsInv, NEW r \in flowRows
  PROVE  r \in flowRows' /\ r.t \in Nat /\ r.t <= flowTick /\ r.t < flowTick'
<1>1. PICK answers \in SUBSET {"plant", "battery"} : Store(flowTick', answers, shownAt', garbled)
  BY DEF Moved
<1>2. r \in flowRows'
  BY <1>1 DEF Store
<1>3. r.t \in PollTicks /\ r.t <= flowTick /\ flowTick \in PollTicks /\ flowTick' \in PollTicks
      /\ flowTick < flowTick'
  BY DEF RowsInv, RowTyped, Moved
<1>4. r.t \in Nat /\ flowTick \in Nat /\ flowTick' \in Nat
  BY <1>3, TicksHold
<1> QED
  BY <1>2, <1>3, <1>4

LEMMA PanelHolds ==
  /\ Panel.t = flowTick /\ Panel.v = shownAt
  /\ Panel'.t = flowTick' /\ Panel'.v = shownAt'
BY DEF Panel

\* A row that is as the registers are shown.
LEMMA RisesToNew ==
  ASSUME NEW garbled, Moved(garbled), RowsInv, NEW r \in flowRows', r \notin flowRows, NEW q
  PROVE  /\ Rises(q, Panel') => Rises(q, r)
         /\ \A cum : Steady(cum, q, Panel') => Steady(cum, q, r)
<1>1. r.t = flowTick' /\ DOMAIN r.v \subseteq Registers /\ \A k \in DOMAIN r.v : r.v[k] = shownAt'[k]
  BY NewRows
<1>2. DOMAIN shownAt' = Registers
  BY DEF Moved
<1>3. Panel'.t = flowTick' /\ Panel'.v = shownAt'
  BY PanelHolds
<1>4. ASSUME Rises(q, Panel') PROVE Rises(q, r)
  BY <1>1, <1>2, <1>3, <1>4 DEF Rises
<1>5. ASSUME NEW cum, Steady(cum, q, Panel') PROVE Steady(cum, q, r)
  BY <1>1, <1>2, <1>3, <1>5 DEF Steady
<1> QED
  BY <1>4, <1>5

LEMMA NewRises ==
  ASSUME NEW garbled, Moved(garbled), RowsInv, NEW q \in flowRows', q \notin flowRows
  PROVE  Rises(q, Panel') /\ \A cum : Steady(cum, q, Panel')
<1>1. /\ q.t = flowTick' /\ DOMAIN q.v \subseteq Registers /\ \A k \in DOMAIN q.v : q.v[k] = shownAt'[k]
  BY NewRows
<1>2. (\A k \in Registers : shownAt'[k] \in Nat) /\ flowTick' \in Int
  BY TicksHold DEF Moved
<1>3. Panel'.t = flowTick' /\ Panel'.v = shownAt'
  BY PanelHolds
<1>4. Rises(q, Panel')
  BY <1>1, <1>2, <1>3 DEF Rises
<1>5. ASSUME NEW cum PROVE Steady(cum, q, Panel')
  BY <1>1, <1>2, <1>3 DEF Steady
<1> QED
  BY <1>4, <1>5

LEMMA RowsMoved ==
  ASSUME NEW garbled, Moved(garbled), RowsInv
  PROVE  RowsInv'
<1>0. /\ flowTick \in Nat /\ flowTick' \in Nat /\ flowTick < flowTick'
      /\ shownAt \in [Registers -> Nat] /\ shownAt' \in [Registers -> Nat]
      /\ "discharged" \in Registers
  BY TicksHold DEF Moved, RowsInv, Registers, Battery
<1>1. ASSUME NEW r \in flowRows PROVE Rises(r, Panel')
  <2>1. Rises(r, Panel) /\ RowTyped(r) /\ r.t \in Nat
    BY OldRows DEF RowsInv
  <2>2. \A k \in DOMAIN r.v : r.v[k] \in Nat
    BY <2>1 DEF RowTyped
  <2>3. ASSUME NEW k \in DOMAIN r.v \cap Registers, k # "charged" PROVE r.v[k] <= shownAt'[k]
    <3>1. r.v[k] <= shownAt[k]
      BY <1>0, <2>1, <2>3, PanelHolds DEF Rises
    <3>2. shownAt[k] <= shownAt'[k]
      BY <2>3 DEF Moved
    <3> QED
      BY <1>0, <2>2, <3>1, <3>2
  <2>4. ASSUME "discharged" \in DOMAIN r.v
        PROVE  shownAt'["discharged"] - r.v["discharged"] <= flowTick' - r.t
    <3>1. shownAt["discharged"] - r.v["discharged"] <= flowTick - r.t
      BY <1>0, <2>1, <2>4, PanelHolds DEF Rises
    <3>2. shownAt'["discharged"] <= shownAt["discharged"] + 1
      BY DEF Moved
    <3>3. /\ shownAt'["discharged"] \in Nat /\ shownAt["discharged"] \in Nat
          /\ r.v["discharged"] \in Nat
      BY <1>0, <2>2, <2>4
    <3> QED
      BY <1>0, <2>1, <3>1, <3>2, <3>3
  <2>5. DOMAIN shownAt' = Registers
    BY <1>0
  <2> QED
    BY <2>3, <2>4, <2>5, PanelHolds DEF Rises
<1>2. \A r \in flowRows' : Rises(r, Panel')
  BY <1>1, NewRises
<1>3. \A r \in flowRows' : RowTyped(r) /\ r.t <= flowTick'
  <2>1. ASSUME NEW r \in flowRows PROVE RowTyped(r) /\ r.t <= flowTick'
    <3>1. RowTyped(r) /\ r.t \in Nat /\ r.t < flowTick'
      BY OldRows DEF RowsInv
    <3> QED
      BY <1>0, <3>1
  <2>2. ASSUME NEW r \in flowRows', r \notin flowRows PROVE RowTyped(r) /\ r.t <= flowTick'
    <3>1. RowTyped(r) /\ r.t = flowTick'
      BY <2>2, NewRows
    <3> QED
      BY <1>0, <3>1
  <2> QED
    BY <2>1, <2>2
<1>4. ASSUME NEW q \in flowRows', NEW r \in flowRows', q.t <= r.t PROVE Rises(q, r)
  <2>1. CASE r \notin flowRows
    BY <1>2, <2>1, RisesToNew
  <2>2. CASE r \in flowRows /\ q \in flowRows
    BY <1>4, <2>2 DEF RowsInv
  <2>3. CASE r \in flowRows /\ q \notin flowRows
    <3>1. q.t = flowTick' /\ r.t < flowTick' /\ r.t \in Nat
      BY <2>3, NewRows, OldRows
    <3> QED
      BY <1>0, <1>4, <3>1
  <2> QED
    BY <2>1, <2>2, <2>3
<1>5. flowTick' \in PollTicks /\ unbilled' \in Nat
  BY DEF Moved
<1>6. upsets' \in Nat
  BY DEF Moved, RowsInv
<1> QED
  BY <1>0, <1>2, <1>3, <1>4, <1>5, <1>6 DEF RowsInv

\* The history of upsets with one more tick.
LEMMA SpoilMoved ==
  ASSUME NEW garbled, Moved(garbled), RowsInv, NEW cum, SpoilInv(cum)
  PROVE  \E c : SpoilInv(c)'
<1>c. PICK c : c = [t \in Nat |-> IF t < flowTick' THEN cum[t] ELSE upsets']
  OBVIOUS
<1>0. /\ flowTick \in Nat /\ flowTick' \in Nat /\ flowTick < flowTick'
      /\ shownAt \in [Registers -> Nat] /\ shownAt' \in [Registers -> Nat]
      /\ "charged" \in Registers /\ upsets \in Nat /\ upsets' \in Nat /\ upsets <= upsets'
  BY TicksHold DEF Moved, RowsInv, Registers, Battery
<1>1. \A t \in Nat : c[t] = IF t < flowTick' THEN cum[t] ELSE upsets'
  BY <1>c
<1>2. /\ \A t \in Nat : cum[t] \in Nat /\ (flowTick <= t => cum[t] = upsets)
      /\ \A t, u \in Nat : t <= u => cum[t] <= cum[u]
  BY DEF SpoilInv
<1>3. \A t \in Nat : c[t] \in Nat /\ (flowTick' <= t => c[t] = upsets')
  BY <1>0, <1>1, <1>2
<1>4. \A t \in Nat : cum[t] <= upsets
  <2> TAKE t \in Nat
  <2>1. cum[flowTick] = upsets /\ (t <= flowTick => cum[t] <= cum[flowTick])
    BY <1>0, <1>2
  <2>2. cum[t] \in Nat
    BY <1>2
  <2> QED
    BY <1>0, <1>2, <2>1, <2>2
<1>5. \A t, u \in Nat : t <= u => c[t] <= c[u]
  <2> TAKE t, u \in Nat
  <2>1. /\ c[t] = (IF t < flowTick' THEN cum[t] ELSE upsets') /\ cum[t] \in Nat /\ cum[t] <= upsets
        /\ c[u] = (IF u < flowTick' THEN cum[u] ELSE upsets') /\ cum[u] \in Nat
        /\ (t <= u => cum[t] <= cum[u])
    BY <1>1, <1>2, <1>4
  <2> QED
    BY <1>0, <2>1
<1>6. ASSUME NEW r \in flowRows PROVE c[r.t] = cum[r.t] /\ c[r.t - 1] = cum[r.t - 1] /\ r.t - 1 \in Nat
  <2>1. r.t \in Nat /\ r.t < flowTick'
    BY OldRows
  <2>2. r.t # 0
    BY TicksHold DEF RowsInv, RowTyped
  <2>3. r.t - 1 \in Nat /\ r.t - 1 < flowTick'
    BY <1>0, <2>1, <2>2
  <2> QED
    BY <1>1, <2>1, <2>3
<1>7. ASSUME NEW r \in flowRows PROVE Steady(c, r, Panel')
  <2> SUFFICES ASSUME "charged" \in DOMAIN r.v, c[r.t] = c[flowTick']
               PROVE  /\ r.v["charged"] <= shownAt'["charged"]
                      /\ shownAt'["charged"] - r.v["charged"] <= flowTick' - r.t
    BY PanelHolds DEF Steady
  <2>1. r.t \in Nat /\ r.t <= flowTick /\ r.v["charged"] \in Nat
    BY OldRows DEF RowsInv, RowTyped
  <2>2. c[flowTick'] = upsets' /\ cum[r.t] <= upsets /\ cum[r.t] \in Nat /\ c[r.t] = cum[r.t]
    BY <1>0, <1>2, <1>3, <1>4, <1>6, <2>1
  <2>3. upsets' = upsets /\ cum[r.t] = upsets /\ cum[flowTick] = upsets
    BY <1>0, <1>2, <2>2
  <2>4. Steady(cum, r, Panel) /\ DOMAIN shownAt = Registers
    BY <1>0 DEF SpoilInv
  <2>5. /\ r.v["charged"] <= shownAt["charged"]
        /\ shownAt["charged"] - r.v["charged"] <= flowTick - r.t
    BY <1>0, <2>3, <2>4, PanelHolds DEF Steady
  <2>6. /\ shownAt["charged"] <= shownAt'["charged"]
        /\ shownAt'["charged"] <= shownAt["charged"] + 1
    BY <1>0, <2>3 DEF Moved
  <2>7. shownAt["charged"] \in Nat /\ shownAt'["charged"] \in Nat
    BY <1>0
  <2> QED
    BY <1>0, <2>1, <2>5, <2>6, <2>7
<1>8. \A r \in flowRows' : Steady(c, r, Panel')
  BY <1>7, NewRises
<1>9. ASSUME NEW r \in flowRows', r.role = "battery", "charged" \notin DOMAIN r.v
      PROVE  c[r.t - 1] + 2 <= c[r.t]
  <2>1. CASE r \in flowRows
    BY <1>6, <1>9, <2>1 DEF SpoilInv
  <2>2. CASE r \notin flowRows
    <3>1. r.t = flowTick' /\ upsets' = upsets + 2
      BY <1>9, <2>2, NewRows
    <3>2. flowTick' - 1 \in Nat /\ flowTick' - 1 < flowTick' /\ ~(flowTick' < flowTick')
      <4>1. \A a, b \in Nat : a < b => b - 1 \in Nat /\ b - 1 < b /\ ~(b < b)
        OBVIOUS
      <4> QED
        BY <1>0, <4>1
    <3>3. c[flowTick'] = upsets' /\ c[flowTick' - 1] = cum[flowTick' - 1]
      BY <1>0, <1>1, <3>2
    <3>4. cum[flowTick' - 1] <= upsets /\ cum[flowTick' - 1] \in Nat
      BY <1>2, <1>4, <3>2
    <3> QED
      BY <1>0, <3>1, <3>3, <3>4
  <2> QED
    BY <2>1, <2>2
<1>10. ASSUME NEW q \in flowRows', NEW r \in flowRows', q.t <= r.t PROVE Steady(c, q, r)
  <2>1. CASE r \notin flowRows
    BY <1>8, <2>1, RisesToNew
  <2>2. CASE r \in flowRows /\ q \in flowRows
    <3>1. Steady(cum, q, r)
      BY <1>10, <2>2 DEF SpoilInv
    <3>2. c[q.t] = cum[q.t] /\ c[r.t] = cum[r.t]
      BY <1>6, <2>2
    <3> QED
      BY <3>1, <3>2 DEF Steady
  <2>3. CASE r \in flowRows /\ q \notin flowRows
    <3>1. q.t = flowTick' /\ r.t < flowTick' /\ r.t \in Nat
      BY <2>3, NewRows, OldRows
    <3> QED
      BY <1>0, <1>10, <3>1
  <2> QED
    BY <2>1, <2>2, <2>3
<1>11. SpoilInv(c)'
  BY <1>3, <1>5, <1>8, <1>9, <1>10 DEF SpoilInv
<1> QED
  BY <1>11

-------------------------------------------------------------------------------
(* Energy flows: the stored days, and the invariant. *)

StoredInv ==
  /\ IsFiniteSet(storedDays)
  /\ \A q, r \in storedDays : q.day = r.day => q = r
  /\ \A r \in storedDays :
       /\ r.day \in Nat /\ r.day <= CivilDayOf(flowTick)
       /\ r.final => /\ r.day < CivilDayOf(flowTick)
                     /\ r.flows = Live(r.day * DayLen, (r.day + 1) * DayLen)

FlowsInv == RowsInv /\ (\E cum : SpoilInv(cum)) /\ StoredInv

\* No later tick adds rows to a day that is over.
LEMMA LiveKept ==
  ASSUME NEW garbled, Moved(garbled), RowsInv, NEW d \in Nat, d < CivilDayOf(flowTick)
  PROVE  /\ Live(d * DayLen, (d + 1) * DayLen)' = Live(d * DayLen, (d + 1) * DayLen)
         /\ d < CivilDayOf(flowTick')
<1>0. flowTick \in Nat /\ flowTick' \in Nat /\ flowTick < flowTick' /\ DayLen \in Nat \ {0}
  BY TicksHold DEF Moved, RowsInv
<1> DEFINE to == (d + 1) * DayLen  from == d * DayLen
<1>1. /\ CivilDayOf(flowTick) \in Nat /\ CivilDayOf(flowTick) * DayLen <= flowTick
      /\ CivilDayOf(flowTick) <= CivilDayOf(flowTick') /\ CivilDayOf(flowTick') \in Nat
  BY <1>0, FlowDayHolds
<1>2. to \in Nat /\ to <= flowTick
  <2> DEFINE n == CivilDayOf(flowTick)
  <2>1. n \in Nat /\ d + 1 <= n /\ n * DayLen <= flowTick
    BY <1>1
  <2> HIDE DEF n
  <2>2. (d + 1) * DayLen <= n * DayLen /\ (d + 1) * DayLen \in Nat /\ n * DayLen \in Nat
    BY <1>0, <2>1
  <2> QED
    BY <1>0, <2>1, <2>2
<1> HIDE DEF to, from
<1>3. SourcesIn(from, to)' = SourcesIn(from, to)
  <2>1. ASSUME NEW r \in flowRows', r \notin flowRows PROVE ~(r.t < to)
    <3>1. r.t = flowTick'
      BY <2>1, NewRows
    <3> QED
      BY <1>0, <1>2, <3>1
  <2>2. flowRows \subseteq flowRows'
    BY OldRows
  <2>3. SourcesIn(from, to)' = {r \in flowRows' : from <= r.t /\ r.t < to}
    BY DEF SourcesIn, from, to
  <2> QED
    BY <2>1, <2>2, <2>3 DEF SourcesIn
<1>4. Live(from, to)' = Live(from, to)
  BY <1>3 DEF Live
<1>5. d < CivilDayOf(flowTick')
  BY <1>1
<1> QED
  BY <1>4, <1>5 DEF from, to

LEMMA StoredMoved ==
  ASSUME NEW garbled, Moved(garbled), RowsInv, StoredInv
  PROVE  StoredInv'
<1>1. storedDays' = storedDays
  BY DEF Moved
<1>2. CivilDayOf(flowTick) \in Nat /\ CivilDayOf(flowTick') \in Nat
      /\ CivilDayOf(flowTick) <= CivilDayOf(flowTick')
  <2>1. flowTick \in Nat /\ flowTick' \in Nat /\ flowTick < flowTick'
    BY TicksHold DEF Moved, RowsInv
  <2> QED
    BY <2>1, FlowDayHolds
<1>3. ASSUME NEW r \in storedDays PROVE r.day \in Nat /\ r.day <= CivilDayOf(flowTick')
  <2>1. r.day \in Nat /\ r.day <= CivilDayOf(flowTick)
    BY DEF StoredInv
  <2> QED
    BY <1>2, <2>1
<1>4. ASSUME NEW r \in storedDays, r.final
      PROVE  /\ r.day < CivilDayOf(flowTick')
             /\ r.flows = Live(r.day * DayLen, (r.day + 1) * DayLen)'
  <2>1. /\ r.day \in Nat /\ r.day < CivilDayOf(flowTick)
        /\ r.flows = Live(r.day * DayLen, (r.day + 1) * DayLen)
    BY <1>4 DEF StoredInv
  <2> QED
    BY <2>1, LiveKept
<1>5. IsFiniteSet(storedDays) /\ \A q, r \in storedDays : q.day = r.day => q = r
  BY DEF StoredInv
<1>6. CivilDayOf(flowTick)' = CivilDayOf(flowTick')
  BY DEF CivilDayOf
<1> QED
  BY <1>1, <1>3, <1>4, <1>5, <1>6 DEF StoredInv

LEMMA DayStored ==
  ASSUME RowsInv, StoredInv, StoreDay
  PROVE  StoredInv'
<1>1. PICK d \in 0 .. CivilDayOf(flowTick) :
        storedDays' = {r \in storedDays : r.day # d}
         \cup {[day |-> d, flows |-> Live(d * DayLen, (d + 1) * DayLen),
                final |-> d < CivilDayOf(flowTick)]}
  BY DEF StoreDay
<1>2. flowTick' = flowTick /\ flowRows' = flowRows
  BY DEF StoreDay
<1>3. flowTick \in Nat /\ CivilDayOf(flowTick) \in Nat
  <2>1. flowTick \in Nat
    BY TicksHold DEF RowsInv
  <2> QED
    BY <2>1, FlowDayHolds
<1> DEFINE new == [day |-> d, flows |-> Live(d * DayLen, (d + 1) * DayLen),
                   final |-> d < CivilDayOf(flowTick)]
           kept == {r \in storedDays : r.day # d}
<1>4. /\ new.day = d /\ new.flows = Live(d * DayLen, (d + 1) * DayLen)
      /\ new.final = (d < CivilDayOf(flowTick))
  OBVIOUS
<1>5. storedDays' = kept \cup {new}
  BY <1>1
<1>6. kept \subseteq storedDays /\ \A r \in kept : r.day # d
  OBVIOUS
<1> HIDE DEF new, kept
<1>7. d \in Nat /\ d <= CivilDayOf(flowTick)
  BY <1>3
<1>8. IsFiniteSet(storedDays')
  <2>1. IsFiniteSet(kept)
    BY <1>6, FS_Subset DEF StoredInv
  <2> QED
    BY <1>5, <2>1, FS_AddElement
<1>9. \A q, r \in storedDays' : q.day = r.day => q = r
  BY <1>4, <1>5, <1>6 DEF StoredInv
<1>10. \A r \in storedDays' :
         /\ r.day \in Nat /\ r.day <= CivilDayOf(flowTick)
         /\ r.final => /\ r.day < CivilDayOf(flowTick)
                       /\ r.flows = Live(r.day * DayLen, (r.day + 1) * DayLen)
  <2>1. ASSUME NEW r \in kept
        PROVE /\ r.day \in Nat /\ r.day <= CivilDayOf(flowTick)
              /\ r.final => /\ r.day < CivilDayOf(flowTick)
                            /\ r.flows = Live(r.day * DayLen, (r.day + 1) * DayLen)
    BY <1>6 DEF StoredInv
  <2>2. /\ new.day \in Nat /\ new.day <= CivilDayOf(flowTick)
        /\ new.final => /\ new.day < CivilDayOf(flowTick)
                        /\ new.flows = Live(new.day * DayLen, (new.day + 1) * DayLen)
    BY <1>4, <1>7
  <2> QED
    BY <1>5, <2>1, <2>2
<1>11. \A m \in Nat : Live(m * DayLen, (m + 1) * DayLen)' = Live(m * DayLen, (m + 1) * DayLen)
  BY <1>2 DEF Live, SourcesIn
<1>12. CivilDayOf(flowTick)' = CivilDayOf(flowTick)
  BY <1>2 DEF CivilDayOf
<1> QED
  BY <1>8, <1>9, <1>10, <1>11, <1>12 DEF StoredInv

LEMMA FlowsInitInv == FlowsInit => FlowsInv
<1> SUFFICES ASSUME FlowsInit PROVE FlowsInv
  OBVIOUS
<1>1. flowTick \in PollTicks
  <2>1. PollTicks \in SUBSET Nat /\ PollTicks # {}
    BY TicksHold
  <2> QED
    BY <2>1, SmallestExists DEF FlowsInit
<1>2. /\ unbilled = 0 /\ upsets = 0 /\ storedDays = {} /\ shownAt = [k \in Registers |-> 9]
  BY DEF FlowsInit
<1>3. Plant \subseteq Registers /\ Battery \subseteq Registers /\ "charged" \in Battery
      /\ "charged" \notin Plant /\ "discharged" \in Battery
  BY DEF Registers, Plant, Battery
<1>4. \A r \in flowRows :
        /\ r.t = flowTick /\ r.role \in {"plant", "battery"}
        /\ DOMAIN r.v = (IF r.role = "plant" THEN Plant ELSE Battery)
        /\ \A k \in DOMAIN r.v : r.v[k] = 9
  BY <1>2, <1>3 DEF FlowsInit, Restrict
<1>5. flowTick \in Nat
  BY <1>1, TicksHold
<1>6. \A r \in flowRows : RowTyped(r) /\ r.t <= flowTick /\ Rises(r, Panel)
  <2> TAKE r \in flowRows
  <2>1. RowTyped(r)
    BY <1>1, <1>4 DEF RowTyped
  <2>2. Rises(r, Panel)
    <3>1. r.t = flowTick /\ (\A k \in DOMAIN r.v : r.v[k] = 9) /\ \A k \in Registers : shownAt[k] = 9
      BY <1>2, <1>4
    <3>2. DOMAIN shownAt = Registers
      BY <1>2
    <3> QED
      BY <1>5, <3>1, <3>2, PanelHolds DEF Rises
  <2> QED
    BY <1>4, <1>5, <2>1, <2>2
<1>7. \A q, r \in flowRows : Rises(q, r)
  BY <1>4, <1>5 DEF Rises
<1>8. RowsInv
  BY <1>1, <1>2, <1>6, <1>7 DEF RowsInv
<1> DEFINE cum == [t \in Nat |-> 0]
<1>9. \A t \in Nat : cum[t] = 0
  OBVIOUS
<1> HIDE DEF cum
<1>10. \A q \in flowRows : Steady(cum, q, Panel) /\ \A r \in flowRows : Steady(cum, q, r)
  <2>1. /\ \A q \in flowRows : q.t = flowTick /\ \A k \in DOMAIN q.v : q.v[k] = 9
        /\ \A k \in Registers : shownAt[k] = 9
        /\ DOMAIN shownAt = Registers
    BY <1>2, <1>4
  <2> QED
    BY <1>5, <2>1, PanelHolds DEF Steady
<1>11. \A r \in flowRows : r.role = "battery" => "charged" \in DOMAIN r.v
  BY <1>3, <1>4
<1>12. SpoilInv(cum)
  BY <1>2, <1>9, <1>10, <1>11 DEF SpoilInv
<1>13. StoredInv
  BY <1>2, FS_EmptySet DEF StoredInv
<1> QED
  BY <1>8, <1>12, <1>13 DEF FlowsInv

LEMMA FlowsStepInv == FlowsInv /\ [FlowsNext]_flowVars => FlowsInv'
<1> SUFFICES ASSUME FlowsInv, [FlowsNext]_flowVars PROVE FlowsInv'
  OBVIOUS
<1>0. RowsInv /\ StoredInv
  BY DEF FlowsInv
<1>1. PICK cum : SpoilInv(cum)
  BY DEF FlowsInv
<1>2. ASSUME NEW garbled, Moved(garbled) PROVE FlowsInv'
  <2>1. RowsInv' /\ StoredInv'
    BY <1>0, <1>2, RowsMoved, StoredMoved
  <2>2. \E c : SpoilInv(c)'
    BY <1>0, <1>1, <1>2, SpoilMoved
  <2> QED
    BY <2>1, <2>2 DEF FlowsInv
<1>3. ASSUME UNCHANGED <<flowTick, shownAt, unbilled, flowRows, upsets>>, StoredInv'
      PROVE  FlowsInv'
  <2>1. RowsInv'
    BY <1>0, <1>3 DEF RowsInv, Rises, Panel, RowTyped
  <2>2. SpoilInv(cum)'
    BY <1>1, <1>3 DEF SpoilInv, Steady, Panel
  <2> QED
    BY <1>3, <2>1, <2>2 DEF FlowsInv
<1>4. CASE Poll
  BY <1>0, <1>2, <1>4, PollMoves
<1>5. CASE Upset
  BY <1>0, <1>2, <1>5, UpsetMoves
<1>6. CASE StoreDay
  <2>1. UNCHANGED <<flowTick, shownAt, unbilled, flowRows, upsets>>
    BY <1>6 DEF StoreDay
  <2> QED
    BY <1>0, <1>3, <1>6, <2>1, DayStored
<1>7. CASE UNCHANGED flowVars
  <2>1. UNCHANGED <<flowTick, shownAt, unbilled, flowRows, upsets, storedDays>>
    BY <1>7 DEF flowVars
  <2>2. StoredInv'
    BY <1>0, <2>1 DEF StoredInv, Live, SourcesIn, CivilDayOf
  <2> QED
    BY <1>3, <2>1, <2>2
<1> QED
  BY <1>4, <1>5, <1>6, <1>7 DEF FlowsNext

LEMMA FlowsAlways == FlowsSpec => []FlowsInv
<1>1. FlowsInv /\ [FlowsNext]_flowVars => FlowsInv'
  BY FlowsStepInv
<1> QED
  BY <1>1, FlowsInitInv, PTL DEF FlowsSpec

-------------------------------------------------------------------------------
(* Energy flows: the allocator over an interval. *)

LEMMA SplitHolds ==
  ASSUME NEW d, \A k \in Registers : d[k] \in Nat
  PROVE  /\ FlowsTyped(Split(d)) /\ Split(d)["pvToEss"] <= d["pv"]
         /\ Split(d)["pvToEss"] + Split(d)["gridToEss"] = d["charged"]
<1>1. d["pv"] \in Nat /\ d["import"] \in Nat /\ d["export"] \in Nat
      /\ d["charged"] \in Nat /\ d["discharged"] \in Nat
  BY DEF Registers, Plant, Battery
<1>2. ASSUME NEW a \in Int PROVE AtLeast0(a) = IF a >= 0 THEN a ELSE 0
  <2>1. \A b \in Int : Max({a, b}) = IF a >= b THEN a ELSE b
    BY SmallerOfTwo
  <2> QED
    BY <2>1 DEF AtLeast0
<1>3. ASSUME NEW a \in Int, NEW b \in Int PROVE Least(a, b) = IF a <= b THEN a ELSE b
  <2>1. Min({a, b}) = IF a <= b THEN a ELSE b
    BY SmallerOfTwo
  <2> QED
    BY <2>1 DEF Least
<1> DEFINE app == AtLeast0(d["pv"] + d["import"] + d["discharged"] - d["export"] - d["charged"])
           sun == AtLeast0(d["pv"] - app)
           pvToEss == Least(d["charged"], sun)
           rest == AtLeast0(d["discharged"] - AtLeast0(app - d["pv"]))
           essToGrid == Least(rest, d["export"])
<1>4. app \in Nat
  <2> DEFINE x == d["pv"] + d["import"] + d["discharged"] - d["export"] - d["charged"]
  <2>1. x \in Int
    BY <1>1
  <2> HIDE DEF x
  <2>2. AtLeast0(x) \in Nat
    BY <1>2, <2>1
  <2> QED
    BY <2>2 DEF x
<1>5. Split(d) = [pvToEss |-> pvToEss, gridToEss |-> d["charged"] - pvToEss,
                  essToLoad |-> d["discharged"] - essToGrid, essToGrid |-> essToGrid]
  BY DEF Split
<1> HIDE DEF app
<1>6. sun \in Nat /\ sun <= d["pv"]
  BY <1>1, <1>2, <1>4
<1>7. rest \in Int
  <2> DEFINE y == AtLeast0(app - d["pv"])
  <2>1. y \in Nat
    BY <1>1, <1>2, <1>4
  <2> HIDE DEF y
  <2>2. AtLeast0(d["discharged"] - y) \in Int
    BY <1>1, <1>2, <2>1
  <2> QED
    BY <2>2 DEF y
<1> HIDE DEF sun, rest
<1>8. pvToEss \in Int /\ pvToEss <= d["pv"] /\ essToGrid \in Int
  BY <1>1, <1>3, <1>6, <1>7
<1> HIDE DEF pvToEss, essToGrid
<1>9. FlowsTyped(Split(d))
  BY <1>1, <1>5, <1>8 DEF FlowsTyped, FlowNames
<1>10. Split(d)["pvToEss"] = pvToEss /\ Split(d)["gridToEss"] = d["charged"] - pvToEss
  BY <1>5
<1> QED
  BY <1>1, <1>8, <1>9, <1>10

\* The battery was not stronger than it is.
WithinPower(q, s, k) == s.v[k] - q.v[k] <= EssPower * (s.t - q.t)

LEMMA AllocateHolds ==
  ASSUME NEW q, NEW s, q.t \in Nat, s.t \in Nat, q.t < s.t,
         \A k \in DOMAIN q.v : q.v[k] \in Nat, \A k \in DOMAIN s.v : s.v[k] \in Nat
  PROVE  LET out == Allocate(q, s) IN
         /\ FlowsTyped(out.flows)
         /\ out.skipped => out.flows = NoFlows
         /\ ~out.skipped =>
              /\ DOMAIN q.v = Registers /\ DOMAIN s.v = Registers
              /\ out.flows["pvToEss"] <= s.v["pv"] - q.v["pv"]
              /\ out.flows["pvToEss"] + out.flows["gridToEss"] = s.v["charged"] - q.v["charged"]
              /\ WithinPower(q, s, "charged")
         /\ /\ DOMAIN q.v = Registers /\ DOMAIN s.v = Registers
            /\ \A k \in Registers : q.v[k] <= s.v[k]
            /\ \A k \in Battery : WithinPower(q, s, k)
            => ~out.skipped
<1> DEFINE d == [k \in Registers |-> s.v[k] - q.v[k]]
           bad == \/ DOMAIN q.v # Registers \/ DOMAIN s.v # Registers
                  \/ \E k \in Registers : s.v[k] < q.v[k]
                  \/ \E k \in Battery : s.v[k] - q.v[k] > EssPower * (s.t - q.t)
           out == Allocate(q, s)
<1>1. out = IF bad THEN Skipped ELSE [skipped |-> FALSE, flows |-> Split(d)]
  <2>1. ~(s.t <= q.t)
    OBVIOUS
  <2> QED
    BY <2>1 DEF Allocate
<1>p. EssPower * (s.t - q.t) \in Int
  BY TicksHold
<1>b. "charged" \in Battery /\ "charged" \in Registers /\ Battery \subseteq Registers /\ "pv" \in Registers
  BY DEF Battery, Registers, Plant
<1>2. CASE bad
  <2>1. out.skipped /\ out.flows = NoFlows
    BY <1>1, <1>2 DEF Skipped
  <2>2. ~/\ DOMAIN q.v = Registers /\ DOMAIN s.v = Registers
         /\ \A k \in Registers : q.v[k] <= s.v[k]
         /\ \A k \in Battery : WithinPower(q, s, k)
    <3> SUFFICES ASSUME DOMAIN q.v = Registers, DOMAIN s.v = Registers,
                        \A k \in Registers : q.v[k] <= s.v[k],
                        \A k \in Battery : WithinPower(q, s, k)
                 PROVE  FALSE
      OBVIOUS
    <3>1. \A k \in Registers : q.v[k] \in Nat /\ s.v[k] \in Nat
      OBVIOUS
    <3>2. ~\E k \in Registers : s.v[k] < q.v[k]
      BY <3>1
    <3>3. ~\E k \in Battery : s.v[k] - q.v[k] > EssPower * (s.t - q.t)
      BY <1>b, <1>p, <3>1 DEF WithinPower
    <3> QED
      BY <1>2, <3>2, <3>3
  <2> QED
    BY <2>1, <2>2, NoFlowsTyped
<1>3. CASE ~bad
  <2>1. ~out.skipped /\ out.flows = Split(d)
    BY <1>1, <1>3
  <2>2. /\ DOMAIN q.v = Registers /\ DOMAIN s.v = Registers
        /\ \A k \in Registers : ~(s.v[k] < q.v[k])
        /\ ~(s.v["charged"] - q.v["charged"] > EssPower * (s.t - q.t))
    BY <1>3, <1>b
  <2>3. \A k \in Registers : q.v[k] \in Nat /\ s.v[k] \in Nat /\ d[k] = s.v[k] - q.v[k]
    BY <2>2
  <2>4. \A k \in Registers : d[k] \in Nat
    BY <2>2, <2>3
  <2>5. WithinPower(q, s, "charged")
    BY <1>b, <1>p, <2>2, <2>3 DEF WithinPower
  <2> HIDE DEF d
  <2>6. /\ FlowsTyped(Split(d)) /\ Split(d)["pvToEss"] <= d["pv"]
        /\ Split(d)["pvToEss"] + Split(d)["gridToEss"] = d["charged"]
    BY <2>4, SplitHolds
  <2>7. d["pv"] = s.v["pv"] - q.v["pv"] /\ d["charged"] = s.v["charged"] - q.v["charged"]
    BY <1>b, <2>3
  <2> HIDE DEF out, bad
  <2> QED
    BY <2>1, <2>2, <2>5, <2>6, <2>7 DEF out
<1> QED
  BY <1>2, <1>3

-------------------------------------------------------------------------------
(* Energy flows: what registers rise by between two samples. *)

LEMMA RolesHold ==
  ASSUME NEW r, RowTyped(r), NEW k \in DOMAIN r.v
  PROVE  /\ k \in Plant => r.role = "plant" /\ DOMAIN r.v = Plant
         /\ k \in Battery => r.role = "battery" /\ "discharged" \in DOMAIN r.v
BY DEF RowTyped, Plant, Battery

\* Readings of two buckets may be further apart than the samples, by less than
\* a bucket; the power of the battery allows for that.
LEMMA PowerHasSlack ==
  ASSUME BucketLen <= EssPower, NEW a \in PollTicks, NEW b \in PollTicks, NEW q \in PollTicks,
         NEW s \in PollTicks, BucketEnd(a) = BucketEnd(q), b <= s, q < s
  PROVE  b - a <= EssPower * (s - q)
<1>1. \A t \in PollTicks : t \in Nat \ {0}
  BY TicksHold
<1>2. a \in Nat \ {0} /\ b \in Nat /\ q \in Nat \ {0} /\ s \in Nat
  BY <1>1
<1>3. q <= BucketEnd(q) /\ BucketEnd(a) < a + BucketLen /\ BucketEnd(a) \in Nat
  BY <1>2, BucketHolds
<1>4. BucketLen \in Nat /\ EssPower \in Nat
  BY TicksHold
<1>5. q < a + EssPower
  BY <1>2, <1>3, <1>4
<1> DEFINE e == s - q - 1
<1>6. e \in Nat /\ s - q = e + 1
  BY <1>2
<1>7. b - a <= e + EssPower
  BY <1>2, <1>4, <1>5
<1> HIDE DEF e
<1>8. EssPower * (e + 1) = EssPower * e + EssPower /\ EssPower * e \in Nat
  BY <1>4, <1>6
<1>9. e <= EssPower * e
  <2>1. EssPower >= 1
    BY TicksHold
  <2> QED
    BY <1>4, <1>6, <2>1
<1> QED
  BY <1>2, <1>4, <1>6, <1>7, <1>8, <1>9

\* Registers are read in the order of the samples.
LEMMA ReadingsRise ==
  ASSUME RowsInv, NEW rs \in SUBSET flowRows, NEW q \in SamplesOf(rs), NEW s \in SamplesOf(rs),
         q.t < s.t
  PROVE  /\ \A k \in Plant : q.v[k] <= s.v[k]
         /\ q.v["discharged"] <= s.v["discharged"]
         /\ BucketLen <= EssPower => WithinPower(q, s, "discharged")
<1>0. \A r \in rs : RowTyped(r)
  BY DEF RowsInv
<1>1. SampleFacts(rs, q) /\ SampleFacts(rs, s)
  BY <1>0, SamplesHold
<1>2. ASSUME NEW k \in Registers, k # "charged"
      PROVE \E a, b \in rs : /\ InBucket(a, q) /\ InBucket(b, s) /\ a.t < b.t /\ b.t <= s.t
                             /\ k \in DOMAIN a.v /\ k \in DOMAIN b.v
                             /\ a.v[k] = q.v[k] /\ b.v[k] = s.v[k]
  <2>1. k \in DOMAIN q.v /\ k \in DOMAIN s.v
    BY <1>1, <1>2 DEF SampleFacts
  <2>2. PICK a \in rs : InBucket(a, q) /\ k \in DOMAIN a.v /\ a.v[k] = q.v[k]
    BY <1>1, <2>1 DEF SampleFacts
  <2>3. PICK b \in rs : InBucket(b, s) /\ b.t <= s.t /\ k \in DOMAIN b.v /\ b.v[k] = s.v[k]
    BY <1>1, <2>1 DEF SampleFacts
  <2>4. a.t < b.t
    BY <1>0, <2>2, <2>3, SamplesOrdered
  <2> QED
    BY <2>2, <2>3, <2>4
<1>3. ASSUME NEW a \in rs, NEW b \in rs, a.t < b.t PROVE a.t \in Nat /\ b.t \in Nat /\ Rises(a, b)
  <2>1. a.t \in Nat /\ b.t \in Nat
    BY <1>0, TicksHold DEF RowTyped
  <2>2. a.t <= b.t
    BY <1>3, <2>1
  <2> QED
    BY <2>1, <2>2 DEF RowsInv
<1>4. ASSUME NEW k \in Registers, k # "charged" PROVE q.v[k] <= s.v[k]
  <2>1. PICK a \in rs, b \in rs : /\ a.t < b.t /\ k \in DOMAIN a.v /\ k \in DOMAIN b.v
                                  /\ a.v[k] = q.v[k] /\ b.v[k] = s.v[k]
    BY <1>2, <1>4
  <2>2. Rises(a, b)
    BY <1>3, <2>1
  <2> QED
    BY <1>4, <2>1, <2>2 DEF Rises
<1>5. Plant \subseteq Registers /\ "charged" \notin Plant /\ "discharged" \in Registers
  BY DEF Registers, Plant, Battery
<1>6. ASSUME BucketLen <= EssPower PROVE WithinPower(q, s, "discharged")
  <2>1. PICK a \in rs, b \in rs : /\ InBucket(a, q) /\ InBucket(b, s) /\ a.t < b.t /\ b.t <= s.t
                                  /\ "discharged" \in DOMAIN a.v /\ "discharged" \in DOMAIN b.v
                                  /\ a.v["discharged"] = q.v["discharged"]
                                  /\ b.v["discharged"] = s.v["discharged"]
    BY <1>2, <1>5
  <2>2. s.v["discharged"] - q.v["discharged"] <= b.t - a.t
    BY <1>3, <2>1 DEF Rises
  <2>3. a.t \in PollTicks /\ b.t \in PollTicks /\ BucketEnd(a.t) = BucketEnd(q.t)
    BY <1>0, <2>1 DEF RowTyped, InBucket
  <2>4. b.t - a.t <= EssPower * (s.t - q.t)
    BY <1>1, <1>6, <2>1, <2>3, PowerHasSlack DEF SampleFacts
  <2>5. s.v["discharged"] \in Nat /\ q.v["discharged"] \in Nat
    BY <1>1, <1>5 DEF SampleFacts
  <2>p. EssPower * (s.t - q.t) \in Int
    <3>1. s.t \in Nat /\ q.t \in Nat /\ EssPower \in Nat
      BY <1>1, TicksHold DEF SampleFacts
    <3> QED
      BY <3>1
  <2>6. a.t \in Nat /\ b.t \in Nat
    BY <2>3, TicksHold
  <2> QED
    BY <2>2, <2>4, <2>5, <2>p, <2>6 DEF WithinPower
<1> QED
  BY <1>4, <1>5, <1>6

\* The row a sample has its charge from, or one that lacks it.
IsMark(rs, s, m) ==
  /\ m \in rs /\ m.role = "battery" /\ InBucket(m, s)
  /\ IF "charged" \in DOMAIN s.v
       THEN "charged" \in DOMAIN m.v /\ m.v["charged"] = s.v["charged"] /\ m.t <= s.t
       ELSE "charged" \notin DOMAIN m.v
MarkOf(rs, s) == CHOOSE m : IsMark(rs, s, m)

LEMMA MarkHolds ==
  ASSUME NEW rs, NEW s, SampleFacts(rs, s)
  PROVE  IsMark(rs, s, MarkOf(rs, s))
<1>1. CASE "charged" \in DOMAIN s.v
  <2>1. PICK r \in rs : InBucket(r, s) /\ r.t <= s.t /\ "charged" \in DOMAIN r.v
                        /\ r.v["charged"] = s.v["charged"]
    BY <1>1 DEF SampleFacts
  <2>2. r.role = "battery"
    BY <2>1, RolesHold DEF InBucket, Battery
  <2>3. IsMark(rs, s, r)
    BY <1>1, <2>1, <2>2 DEF IsMark
  <2> QED
    BY <2>3 DEF MarkOf
<1>2. CASE "charged" \notin DOMAIN s.v
  <2>1. PICK r \in rs : InBucket(r, s) /\ r.role = "battery" /\ "charged" \notin DOMAIN r.v
    BY <1>2 DEF SampleFacts
  <2>2. IsMark(rs, s, r)
    BY <1>2, <2>1 DEF IsMark
  <2> QED
    BY <2>2 DEF MarkOf
<1> QED
  BY <1>1, <1>2

\* The upsets until a sample, less one for the interval an unread charge has
\* yet to spoil.
Spoilt(cum, rs, s) ==
  cum[MarkOf(rs, s).t] - (IF "charged" \in DOMAIN s.v THEN 0 ELSE 1)

LEMMA SpoiltHolds ==
  ASSUME RowsInv, NEW cum, SpoilInv(cum), NEW rs \in SUBSET flowRows, NEW s \in SamplesOf(rs)
  PROVE  /\ Spoilt(cum, rs, s) \in Int /\ 0 <= Spoilt(cum, rs, s)
         /\ Spoilt(cum, rs, s) + (IF "charged" \in DOMAIN s.v THEN 0 ELSE 1) <= upsets
<1> DEFINE m == MarkOf(rs, s)
<1>1. IsMark(rs, s, m)
  <2>1. SampleFacts(rs, s)
    BY SamplesHold DEF RowsInv
  <2> QED
    BY <2>1, MarkHolds
<1> HIDE DEF m
<1>2. m \in flowRows /\ m.t \in PollTicks /\ m.t <= flowTick /\ flowTick \in PollTicks
  BY <1>1 DEF IsMark, RowsInv, RowTyped
<1>3. m.t \in Nat /\ m.t - 1 \in Nat /\ flowTick \in Nat /\ m.t >= 1
  <2>1. m.t \in Nat /\ 1 <= m.t /\ flowTick \in Nat
    BY <1>2, TicksHold
  <2> QED
    BY <2>1
<1>4. /\ cum[m.t] \in Nat /\ cum[m.t - 1] \in Nat /\ cum[m.t] <= cum[flowTick]
      /\ cum[flowTick] = upsets
  BY <1>2, <1>3 DEF SpoilInv
<1>5. "charged" \notin DOMAIN s.v => cum[m.t - 1] + 2 <= cum[m.t]
  BY <1>1, <1>2 DEF SpoilInv, IsMark
<1>6. upsets \in Nat
  BY DEF RowsInv
<1>7. Spoilt(cum, rs, s) = cum[m.t] - (IF "charged" \in DOMAIN s.v THEN 0 ELSE 1)
  BY DEF Spoilt, m
<1> QED
  BY <1>4, <1>5, <1>6, <1>7

\* An interval is skipped only after an upset.
LEMMA SkipsAreSpoilt ==
  ASSUME RowsInv, NEW cum, SpoilInv(cum), BucketLen <= EssPower, NEW rs \in SUBSET flowRows,
         NEW q \in SamplesOf(rs), NEW s \in SamplesOf(rs), q.t < s.t
  PROVE  Spoilt(cum, rs, q) + (IF Allocate(q, s).skipped THEN 1 ELSE 0) <= Spoilt(cum, rs, s)
<1> DEFINE a == MarkOf(rs, q)  b == MarkOf(rs, s)  cq == cum[a.t]  cs == cum[b.t]
<1>0. (\A r \in rs : RowTyped(r)) /\ SampleFacts(rs, q) /\ SampleFacts(rs, s)
  <2>1. \A r \in rs : RowTyped(r)
    BY DEF RowsInv
  <2> QED
    BY <2>1, SamplesHold
<1>1. IsMark(rs, q, a) /\ IsMark(rs, s, b)
  BY <1>0, MarkHolds
<1>2. /\ Spoilt(cum, rs, q) = cq - (IF "charged" \in DOMAIN q.v THEN 0 ELSE 1)
      /\ Spoilt(cum, rs, s) = cs - (IF "charged" \in DOMAIN s.v THEN 0 ELSE 1)
  BY DEF Spoilt
<1> HIDE DEF a, b
<1>3. a.t < b.t /\ a \in rs /\ b \in rs
  <2>1. a \in rs /\ b \in rs /\ InBucket(a, q) /\ InBucket(b, s)
    BY <1>1 DEF IsMark
  <2> QED
    BY <1>0, <2>1, SamplesOrdered
<1>4. a.t \in Nat /\ b.t \in Nat /\ b.t - 1 \in Nat /\ a.t <= b.t - 1
  <2>1. a.t \in Nat /\ b.t \in Nat
    BY <1>0, <1>3, TicksHold DEF RowTyped
  <2> QED
    BY <1>3, <2>1
<1>5. cq \in Nat /\ cs \in Nat /\ cum[b.t - 1] \in Nat /\ cq <= cs /\ cq <= cum[b.t - 1]
  <2>1. a.t <= b.t
    BY <1>4
  <2> QED
    BY <1>4, <2>1 DEF SpoilInv
<1>6. "charged" \notin DOMAIN s.v => cum[b.t - 1] + 2 <= cs
  BY <1>1, <1>3 DEF SpoilInv, IsMark
<1>7. ASSUME "charged" \in DOMAIN q.v, "charged" \in DOMAIN s.v, cq = cs
      PROVE  ~Allocate(q, s).skipped
  <2>1. Steady(cum, a, b)
    BY <1>3, <1>4 DEF SpoilInv
  <2>2. /\ "charged" \in DOMAIN a.v /\ a.v["charged"] = q.v["charged"]
        /\ "charged" \in DOMAIN b.v /\ b.v["charged"] = s.v["charged"] /\ b.t <= s.t
        /\ BucketEnd(a.t) = BucketEnd(q.t)
    BY <1>1, <1>7 DEF IsMark, InBucket
  <2>3. q.v["charged"] <= s.v["charged"] /\ s.v["charged"] - q.v["charged"] <= b.t - a.t
    BY <1>7, <2>1, <2>2 DEF Steady
  <2>4. a.t \in PollTicks /\ b.t \in PollTicks /\ q.t \in PollTicks /\ s.t \in PollTicks
    BY <1>0, <1>3 DEF RowTyped, SampleFacts
  <2>5. b.t - a.t <= EssPower * (s.t - q.t)
    BY <2>2, <2>4, PowerHasSlack
  <2>6. q.t \in Nat /\ s.t \in Nat /\ EssPower * (s.t - q.t) \in Int
    <3>1. q.t \in Nat /\ s.t \in Nat /\ EssPower \in Nat
      BY <2>4, TicksHold
    <3> QED
      BY <3>1
  <2>7. /\ DOMAIN q.v = Registers /\ DOMAIN s.v = Registers
        /\ (\A k \in DOMAIN q.v : q.v[k] \in Nat) /\ \A k \in DOMAIN s.v : s.v[k] \in Nat
    BY <1>0, <1>7 DEF SampleFacts
  <2>8. "charged" \in Registers /\ "discharged" \in Registers
        /\ Registers = Plant \cup {"charged", "discharged"} /\ Battery = {"charged", "discharged"}
    BY DEF Registers, Battery
  <2>9. WithinPower(q, s, "charged")
    <3>1. q.v["charged"] \in Nat /\ s.v["charged"] \in Nat
      BY <2>7, <2>8
    <3> QED
      BY <1>4, <2>3, <2>5, <2>6, <3>1 DEF WithinPower
  <2>10. /\ \A k \in Plant : q.v[k] <= s.v[k]
         /\ q.v["discharged"] <= s.v["discharged"] /\ WithinPower(q, s, "discharged")
    BY ReadingsRise
  <2>11. (\A k \in Registers : q.v[k] <= s.v[k]) /\ \A k \in Battery : WithinPower(q, s, k)
    BY <2>3, <2>8, <2>9, <2>10
  <2> QED
    BY <2>6, <2>7, <2>11, AllocateHolds
<1> HIDE DEF cq, cs
<1>8. CASE "charged" \in DOMAIN q.v /\ "charged" \in DOMAIN s.v
  <2>1. Allocate(q, s).skipped => cq # cs
    BY <1>7, <1>8
  <2> QED
    BY <1>2, <1>5, <1>8, <2>1
<1>9. CASE ~("charged" \in DOMAIN q.v /\ "charged" \in DOMAIN s.v)
  BY <1>2, <1>5, <1>6, <1>9
<1> QED
  BY <1>8, <1>9

-------------------------------------------------------------------------------
(* Energy flows: the intervals of some rows. *)

EndingAt(rs, t) == {i \in Intervals(rs) : i.to = t}

\* s is the sample after q.
Adjoins(ss, q, s) == q \in ss /\ s \in ss /\ q.t < s.t /\ \A w \in ss : w.t <= q.t \/ s.t <= w.t

LEMMA SampleTicks ==
  ASSUME NEW rs, \A r \in rs : RowTyped(r), SamplesOf(rs) # {}
  PROVE  LET ss == SamplesOf(rs) IN
         /\ \A s \in ss : s.t \in Nat /\ 1 <= s.t /\ s.t <= LastTick /\ s.t \in PollTicks
         /\ FirstOf(ss) \in ss /\ LastOf(ss) \in ss
         /\ \A s \in ss : FirstOf(ss).t <= s.t /\ s.t <= LastOf(ss).t
<1>1. \A s \in SamplesOf(rs) : s.t \in PollTicks
  BY SamplesHold DEF SampleFacts
<1> QED
  BY <1>1, TicksHold, LastOfHolds

\* One interval ends at each sample but the first, and no other does.
LEMMA IntervalsHold ==
  ASSUME NEW rs, \A r \in rs : RowTyped(r), SamplesOf(rs) # {}
  PROVE  LET ss == SamplesOf(rs) IN
         /\ \A q, s : Adjoins(ss, q, s) =>
              EndingAt(rs, s.t) = {[to |-> s.t, out |-> Allocate(q, s)]}
         /\ \A t : (\A s \in ss : s.t # t) \/ t = FirstOf(ss).t => EndingAt(rs, t) = {}
         /\ \A i \in Intervals(rs) : \E q, s : /\ Adjoins(ss, q, s) /\ i.to = s.t
                                               /\ i.out = Allocate(q, s)
<1> DEFINE ss == SamplesOf(rs)
           later == {q \in ss : \E p \in ss : p.t < q.t}
           at(s) == [to |-> s.t, out |-> Allocate(Predecessor(ss, s), s)]
<1>1. Intervals(rs) = {at(s) : s \in later}
  BY DEF Intervals
<1>2. \A s \in ss : s.t \in Nat /\ s.t \in PollTicks /\ FirstOf(ss).t <= s.t
  BY SampleTicks
<1>3. FirstOf(ss) \in ss
  BY SampleTicks
<1>4. \A p, s \in ss : p.t = s.t => p = s
  BY SamplesOrdered
<1> HIDE DEF ss
<1>5. ASSUME NEW s \in later PROVE Adjoins(ss, Predecessor(ss, s), s)
  <2> DEFINE before == {p \in ss : p.t < s.t}
  <2>1. before # {} /\ \A p \in before : p.t \in PollTicks
    BY <1>2
  <2>2. Predecessor(ss, s) = LastOf(before)
    BY DEF Predecessor
  <2>3. LastOf(before) \in before /\ \A w \in before : w.t <= LastOf(before).t
    <3> HIDE DEF before
    <3> QED
      BY <2>1, LastOfHolds
  <2>4. \A w \in ss : w \in before \/ s.t <= w.t
    BY <1>2
  <2> QED
    BY <2>2, <2>3, <2>4 DEF Adjoins
<1>6. ASSUME NEW q, NEW s, Adjoins(ss, q, s)
      PROVE s \in later /\ Predecessor(ss, s) = q
  <2>1. q \in ss /\ s \in ss /\ q.t < s.t /\ \A w \in ss : w.t <= q.t \/ s.t <= w.t
    BY <1>6 DEF Adjoins
  <2>2. s \in later
    BY <2>1
  <2> DEFINE p == Predecessor(ss, s)
  <2>3. p \in ss /\ p.t < s.t /\ \A w \in ss : w.t <= p.t \/ s.t <= w.t
    BY <1>5, <2>2 DEF Adjoins
  <2> HIDE DEF p
  <2>4. p.t = q.t
    <3>1. p.t \in Nat /\ q.t \in Nat /\ s.t \in Nat
      BY <1>2, <2>1, <2>3
    <3> QED
      BY <2>1, <2>3, <3>1
  <2> QED
    BY <1>4, <2>1, <2>2, <2>3, <2>4 DEF p
<1>7. ASSUME NEW q, NEW s, Adjoins(ss, q, s)
      PROVE EndingAt(rs, s.t) = {[to |-> s.t, out |-> Allocate(q, s)]}
  <2>1. s \in later /\ Predecessor(ss, s) = q
    BY <1>6, <1>7
  <2>2. at(s) = [to |-> s.t, out |-> Allocate(q, s)]
    BY <2>1
  <2>3. at(s) \in EndingAt(rs, s.t)
    BY <1>1, <2>1 DEF EndingAt
  <2>4. ASSUME NEW i \in EndingAt(rs, s.t) PROVE i = at(s)
    <3>1. PICK u \in later : i = at(u)
      BY <1>1 DEF EndingAt
    <3>2. u.t = s.t
      BY <3>1 DEF EndingAt
    <3>3. u = s
      BY <1>4, <2>1, <3>2
    <3> QED
      BY <3>1, <3>3
  <2> HIDE DEF at
  <2> QED
    BY <2>2, <2>3, <2>4
<1>8. ASSUME NEW t, (\A s \in ss : s.t # t) \/ t = FirstOf(ss).t PROVE EndingAt(rs, t) = {}
  <2> SUFFICES ASSUME NEW i \in EndingAt(rs, t) PROVE FALSE
    OBVIOUS
  <2>1. PICK u \in later : u.t = t
    BY <1>1 DEF EndingAt
  <2>2. PICK p \in ss : p.t < u.t
    OBVIOUS
  <2>3. t = FirstOf(ss).t
    BY <1>8, <2>1
  <2>4. p.t \in Nat /\ u.t \in Nat /\ FirstOf(ss).t \in Nat /\ FirstOf(ss).t <= p.t
    BY <1>2, <1>3, <2>2
  <2> QED
    BY <2>1, <2>2, <2>3, <2>4
<1>9. ASSUME NEW i \in Intervals(rs)
      PROVE \E q, s : Adjoins(ss, q, s) /\ i.to = s.t /\ i.out = Allocate(q, s)
  <2>1. PICK s \in later : i = at(s)
    BY <1>1
  <2> QED
    BY <1>5, <2>1
<1> QED
  BY <1>7, <1>8, <1>9 DEF ss

\* A sum over the intervals of a day, bounded by what its samples differ by.
LEMMA DayChain ==
  ASSUME NEW rs, \A r \in rs : RowTyped(r), SamplesOf(rs) # {},
         NEW g, NEW S, NEW at,
         S[0] = 0, \A n \in 1 .. LastTick : g[n] \in Int /\ S[n] = S[n - 1] + g[n],
         \A s \in SamplesOf(rs) : at[s] \in Int,
         \A n \in 1 .. LastTick : EndingAt(rs, n) = {} => g[n] = 0,
         \A q, s : Adjoins(SamplesOf(rs), q, s) => g[s.t] <= at[s] - at[q]
  PROVE  /\ S[LastTick] \in Int
         /\ S[LastTick] <= at[LastOf(SamplesOf(rs))] - at[FirstOf(SamplesOf(rs))]
<1> DEFINE ss == SamplesOf(rs)
           T == {s.t : s \in ss}
           sample == [t \in T |-> CHOOSE s \in ss : s.t = t]
           level == [t \in T |-> at[sample[t]]]
           first == FirstOf(ss).t
           last == LastOf(ss).t
<1>1. /\ \A s \in ss : s.t \in Nat /\ 1 <= s.t /\ s.t <= LastTick
      /\ FirstOf(ss) \in ss /\ LastOf(ss) \in ss
      /\ \A s \in ss : FirstOf(ss).t <= s.t /\ s.t <= LastOf(ss).t
  BY SampleTicks
<1>2. \A p, s \in ss : p.t = s.t => p = s
  BY SamplesOrdered
<1>3. (\A s \in ss : s.t \in T) /\ \A t \in T : sample[t] \in ss /\ sample[t].t = t
  OBVIOUS
<1>4. \A s \in ss : sample[s.t] = s
  BY <1>2, <1>3
<1>5. \A t \in T : level[t] = at[sample[t]]
  OBVIOUS
<1>6. T \in SUBSET (1 .. LastTick) /\ first \in T /\ last \in T /\ \A w \in T : first <= w /\ w <= last
  BY <1>1
<1>7. level[first] = at[FirstOf(ss)] /\ level[last] = at[LastOf(ss)]
  BY <1>1, <1>3, <1>4, <1>5
<1>8. \A n \in 1 .. LastTick : n \notin T \/ n = first => g[n] = 0
  <2> TAKE n \in 1 .. LastTick
  <2> HAVE n \notin T \/ n = first
  <2>1. (\A s \in ss : s.t # n) \/ n = FirstOf(ss).t
    BY <1>3
  <2>2. EndingAt(rs, n) = {}
    BY <2>1, IntervalsHold
  <2> QED
    BY <2>2
<1>9. \A w \in T : level[w] \in Int
  BY <1>3, <1>5
<1>10. \A t, u \in T : t < u /\ (\A w \in T : w <= t \/ u <= w) => g[u] <= level[u] - level[t]
  <2> TAKE t, u \in T
  <2> HAVE t < u /\ \A w \in T : w <= t \/ u <= w
  <2>1. sample[t] \in ss /\ sample[u] \in ss /\ sample[t].t = t /\ sample[u].t = u
    BY <1>3
  <2>2. Adjoins(ss, sample[t], sample[u])
    BY <1>3, <2>1 DEF Adjoins
  <2> QED
    BY <1>5, <2>1, <2>2
<1>11. LastTick \in Nat
  BY TicksHold
<1> HIDE DEF ss, T, sample, level, first, last
<1>12. S[LastTick] \in Int /\ S[LastTick] <= level[last] - level[first]
  BY <1>6, <1>8, <1>9, <1>10, <1>11, ChainSum
<1> QED
  BY <1>7, <1>12 DEF ss

-------------------------------------------------------------------------------
(* Energy flows: what a run of the allocator books. *)

FlowsAt(rs, t) ==
  IF EndingAt(rs, t) = {} THEN NoFlows ELSE (CHOOSE i \in EndingAt(rs, t) : TRUE).out.flows

\* Two samples that follow one another, with what is allocated between them.
LEMMA AdjoinsHolds ==
  ASSUME RowsInv, NEW rs \in SUBSET flowRows, NEW q, NEW s, Adjoins(SamplesOf(rs), q, s)
  PROVE  /\ q \in SamplesOf(rs) /\ s \in SamplesOf(rs) /\ q.t < s.t
         /\ SampleFacts(rs, q) /\ SampleFacts(rs, s) /\ q.t \in Nat /\ s.t \in Nat
         /\ FlowsAt(rs, s.t) = Allocate(q, s).flows
         /\ (\A k \in DOMAIN q.v : q.v[k] \in Nat) /\ \A k \in DOMAIN s.v : s.v[k] \in Nat
<1>1. \A r \in rs : RowTyped(r)
  BY DEF RowsInv
<1>2. q \in SamplesOf(rs) /\ s \in SamplesOf(rs) /\ q.t < s.t
  BY DEF Adjoins
<1>3. SampleFacts(rs, q) /\ SampleFacts(rs, s)
  BY <1>1, <1>2, SamplesHold
<1>4. q.t \in Nat /\ s.t \in Nat
  BY <1>3, TicksHold DEF SampleFacts
<1>5. FlowsAt(rs, s.t) = Allocate(q, s).flows
  <2> DEFINE i == [to |-> s.t, out |-> Allocate(q, s)]
  <2>1. EndingAt(rs, s.t) = {i}
    BY <1>1, <1>2, IntervalsHold
  <2>2. i.out = Allocate(q, s)
    OBVIOUS
  <2> HIDE DEF i
  <2>3. (CHOOSE j \in EndingAt(rs, s.t) : TRUE) = i
    BY <2>1
  <2> QED
    BY <2>1, <2>2, <2>3 DEF FlowsAt
<1>6. (\A k \in DOMAIN q.v : q.v[k] \in Nat) /\ \A k \in DOMAIN s.v : s.v[k] \in Nat
  BY <1>3 DEF SampleFacts
<1> QED
  BY <1>2, <1>3, <1>4, <1>5, <1>6

LEMMA RecomputeHolds ==
  ASSUME RowsInv, NEW rs \in SUBSET flowRows, SamplesOf(rs) # {}
  PROVE  /\ \A n \in 1 .. LastTick : FlowsTyped(FlowsAt(rs, n))
         /\ \E sum : /\ Recompute(rs) = sum[LastTick]
                     /\ \A i \in 0 .. LastTick : FlowsTyped(sum[i])
                     /\ \A k \in FlowNames :
                          /\ sum[0][k] = 0
                          /\ \A i \in 1 .. LastTick : sum[i][k] = sum[i - 1][k] + FlowsAt(rs, i)[k]
<1>0. LastTick \in Nat
  BY TicksHold
<1>1. ASSUME NEW t PROVE FlowsTyped(FlowsAt(rs, t))
  <2>1. CASE EndingAt(rs, t) = {}
    BY <2>1, NoFlowsTyped DEF FlowsAt
  <2>2. CASE EndingAt(rs, t) # {}
    <3> DEFINE i == CHOOSE j \in EndingAt(rs, t) : TRUE
    <3>1. i \in Intervals(rs)
      BY <2>2 DEF EndingAt
    <3>2. FlowsAt(rs, t) = i.out.flows
      BY <2>2 DEF FlowsAt
    <3> HIDE DEF i
    <3>3. PICK q, s : Adjoins(SamplesOf(rs), q, s) /\ i.out = Allocate(q, s)
      <4>1. \A r \in rs : RowTyped(r)
        BY DEF RowsInv
      <4> QED
        BY <3>1, <4>1, IntervalsHold
    <3>4. FlowsTyped(Allocate(q, s).flows)
      BY <3>3, AdjoinsHolds, AllocateHolds
    <3> QED
      BY <3>2, <3>3, <3>4
  <2> QED
    BY <2>1, <2>2
<1> DEFINE f == [t \in 1 .. LastTick |-> FlowsAt(rs, t)]
<1>2. Recompute(rs) = SumUpTo(LastTick, f)
  BY DEF Recompute, FlowsAt, EndingAt
<1>3. \A n \in 1 .. LastTick : f[n] = FlowsAt(rs, n)
  OBVIOUS
<1> HIDE DEF f
<1>t. \A n \in 1 .. LastTick : FlowsTyped(f[n])
  BY <1>1, <1>3
<1>4. PICK sum : RunningSums(sum, LastTick, f)
  BY <1>0, <1>t, SumUpToHolds
<1>5. \A k \in FlowNames : /\ sum[0][k] = 0
                           /\ \A i \in 1 .. LastTick : sum[i][k] = sum[i - 1][k] + FlowsAt(rs, i)[k]
  BY <1>3, <1>4 DEF RunningSums
<1> QED
  BY <1>1, <1>2, <1>4, <1>5 DEF RunningSums

\* Nothing is booked at a tick no interval ends at.
LEMMA NothingEnds ==
  ASSUME NEW rs, NEW t, EndingAt(rs, t) = {}, NEW k \in FlowNames
  PROVE  FlowsAt(rs, t)[k] = 0
BY NoFlowsTyped DEF FlowsAt

\* The charge from the sun is no more than the sun gave.
LEMMA SunBooked ==
  ASSUME RowsInv, NEW rs \in SUBSET flowRows, SamplesOf(rs) # {}
  PROVE  Recompute(rs).pvToEss
           <= LastOf(SamplesOf(rs)).v["pv"] - FirstOf(SamplesOf(rs)).v["pv"]
<1> DEFINE ss == SamplesOf(rs)
<1>0. (\A r \in rs : RowTyped(r)) /\ LastTick \in Nat /\ "pvToEss" \in FlowNames
  BY TicksHold DEF RowsInv, FlowNames
<1>1. PICK sum : /\ Recompute(rs) = sum[LastTick]
                 /\ \A i \in 0 .. LastTick : FlowsTyped(sum[i])
                 /\ \A k \in FlowNames :
                      /\ sum[0][k] = 0
                      /\ \A i \in 1 .. LastTick : sum[i][k] = sum[i - 1][k] + FlowsAt(rs, i)[k]
  BY RecomputeHolds
<1>2. \A n \in 1 .. LastTick : FlowsTyped(FlowsAt(rs, n))
  BY RecomputeHolds
<1> DEFINE g == [n \in 1 .. LastTick |-> FlowsAt(rs, n)["pvToEss"]]
           S == [n \in 0 .. LastTick |-> sum[n]["pvToEss"]]
           at == [s \in ss |-> s.v["pv"]]
<1>3. (\A n \in 1 .. LastTick : g[n] = FlowsAt(rs, n)["pvToEss"])
      /\ (\A n \in 0 .. LastTick : S[n] = sum[n]["pvToEss"]) /\ \A s \in ss : at[s] = s.v["pv"]
  OBVIOUS
<1> HIDE DEF g, S, at
<1>4. S[0] = 0
  BY <1>0, <1>1, <1>3
<1>5. ASSUME NEW n \in 1 .. LastTick
      PROVE  g[n] \in Int /\ S[n] = S[n - 1] + g[n] /\ (EndingAt(rs, n) = {} => g[n] = 0)
  <2>1. n \in 0 .. LastTick /\ n - 1 \in 0 .. LastTick
    BY <1>0
  <2>2. S[n] = S[n - 1] + g[n]
    BY <1>0, <1>1, <1>3, <2>1
  <2>3. g[n] \in Int
    BY <1>0, <1>2, <1>3 DEF FlowsTyped
  <2> QED
    BY <1>0, <1>3, <2>2, <2>3, NothingEnds
<1>6. \A s \in ss : at[s] \in Int
  <2> TAKE s \in ss
  <2>1. SampleFacts(rs, s) /\ "pv" \in Registers \ {"charged"}
    BY <1>0, SamplesHold DEF Registers, Plant
  <2> QED
    BY <1>3, <2>1 DEF SampleFacts
<1>7. ASSUME NEW q, NEW s, Adjoins(ss, q, s) PROVE g[s.t] <= at[s] - at[q]
  <2>1. /\ q \in ss /\ s \in ss /\ q.t < s.t /\ q.t \in Nat /\ s.t \in Nat
        /\ FlowsAt(rs, s.t) = Allocate(q, s).flows
        /\ (\A k \in DOMAIN q.v : q.v[k] \in Nat) /\ \A k \in DOMAIN s.v : s.v[k] \in Nat
    BY <1>7, AdjoinsHolds
  <2>2. g[s.t] = Allocate(q, s).flows["pvToEss"]
    <3>1. s.t \in 1 .. LastTick
      BY <1>0, <2>1, SampleTicks
    <3> QED
      BY <1>3, <2>1, <3>1
  <2>3. at[s] = s.v["pv"] /\ at[q] = q.v["pv"] /\ at[s] \in Int /\ at[q] \in Int
    BY <1>3, <1>6, <2>1
  <2>4. q.v["pv"] <= s.v["pv"]
    BY <2>1, ReadingsRise DEF Plant
  <2>5. CASE Allocate(q, s).skipped
    <3>1. g[s.t] = 0
      BY <1>0, <2>1, <2>2, <2>5, AllocateHolds, NoFlowsTyped
    <3> QED
      BY <2>3, <2>4, <3>1
  <2>6. CASE ~Allocate(q, s).skipped
    BY <2>1, <2>2, <2>3, <2>6, AllocateHolds
  <2> QED
    BY <2>5, <2>6
<1>8. S[LastTick] <= at[LastOf(ss)] - at[FirstOf(ss)]
  <2> HIDE DEF ss
  <2> QED
    BY <1>0, <1>4, <1>5, <1>6, <1>7, DayChain DEF ss
<1>9. FirstOf(ss) \in ss /\ LastOf(ss) \in ss
  BY <1>0, SampleTicks
<1> QED
  BY <1>0, <1>1, <1>3, <1>8, <1>9

\* What was booked of the charged register, bounded from one side: from above
\* if sign is one, from below if it is minus one.
LEMMA ChargeChain ==
  ASSUME RowsInv, NEW rs \in SUBSET flowRows, SamplesOf(rs) # {}, NEW sign \in {1, -1}, NEW at,
         \A s \in SamplesOf(rs) : at[s] \in Int,
         \A q, s : Adjoins(SamplesOf(rs), q, s) =>
           IF Allocate(q, s).skipped THEN 0 <= at[s] - at[q]
           ELSE sign * (s.v["charged"] - q.v["charged"]) <= at[s] - at[q]
  PROVE  LET booked == Recompute(rs).pvToEss + Recompute(rs).gridToEss IN
         booked \in Int /\ sign * booked <= at[LastOf(SamplesOf(rs))] - at[FirstOf(SamplesOf(rs))]
<1> DEFINE ss == SamplesOf(rs)
<1>0. /\ (\A r \in rs : RowTyped(r)) /\ LastTick \in Nat
      /\ "pvToEss" \in FlowNames /\ "gridToEss" \in FlowNames
  BY TicksHold DEF RowsInv, FlowNames
<1>1. PICK sum : /\ Recompute(rs) = sum[LastTick]
                 /\ \A i \in 0 .. LastTick : FlowsTyped(sum[i])
                 /\ \A k \in FlowNames :
                      /\ sum[0][k] = 0
                      /\ \A i \in 1 .. LastTick : sum[i][k] = sum[i - 1][k] + FlowsAt(rs, i)[k]
  BY RecomputeHolds
<1>2. \A n \in 1 .. LastTick : FlowsTyped(FlowsAt(rs, n))
  BY RecomputeHolds
<1> DEFINE both(f) == f["pvToEss"] + f["gridToEss"]
           g == [n \in 1 .. LastTick |-> sign * both(FlowsAt(rs, n))]
           S == [n \in 0 .. LastTick |-> sign * both(sum[n])]
<1>3. (\A n \in 1 .. LastTick : g[n] = sign * both(FlowsAt(rs, n)))
      /\ \A n \in 0 .. LastTick : S[n] = sign * both(sum[n])
  OBVIOUS
<1>t. \A f : FlowsTyped(f) => f["pvToEss"] \in Int /\ f["gridToEss"] \in Int
  BY <1>0 DEF FlowsTyped
<1> HIDE DEF g, S
<1>4. S[0] = 0
  <2>1. both(sum[0]) = 0
    BY <1>0, <1>1
  <2> HIDE DEF both
  <2> QED
    BY <1>0, <1>3, <2>1
<1>5. ASSUME NEW n \in 1 .. LastTick
      PROVE  g[n] \in Int /\ S[n] = S[n - 1] + g[n] /\ (EndingAt(rs, n) = {} => g[n] = 0)
  <2>1. n \in 0 .. LastTick /\ n - 1 \in 0 .. LastTick
    BY <1>0
  <2> DEFINE a == both(sum[n - 1])  b == both(FlowsAt(rs, n))  c == both(sum[n])
  <2>2. a \in Int /\ b \in Int
    BY <1>1, <1>2, <1>t, <2>1
  <2>3. c = a + b
    <3>1. sum[n]["pvToEss"] = sum[n - 1]["pvToEss"] + FlowsAt(rs, n)["pvToEss"]
          /\ sum[n]["gridToEss"] = sum[n - 1]["gridToEss"] + FlowsAt(rs, n)["gridToEss"]
      BY <1>0, <1>1
    <3>2. FlowsTyped(sum[n - 1]) /\ FlowsTyped(FlowsAt(rs, n))
      BY <1>1, <1>2, <2>1
    <3>3. \A w, x, y, z \in Int : (w + x) + (y + z) = (w + y) + (x + z)
      OBVIOUS
    <3> QED
      BY <1>t, <3>1, <3>2, <3>3
  <2>4. EndingAt(rs, n) = {} => b = 0
    BY <1>0, NothingEnds
  <2>5. g[n] = sign * b /\ S[n] = sign * c /\ S[n - 1] = sign * a
    BY <1>3, <2>1
  <2> HIDE DEF a, b, c, both
  <2>6. \A x \in Int : sign * x = IF sign = 1 THEN x ELSE -x
    <3> TAKE x \in Int
    <3>1. CASE sign = 1
      BY <3>1
    <3>2. CASE sign = -1
      BY <3>2
    <3> QED
      BY <3>1, <3>2
  <2> QED
    BY <2>2, <2>3, <2>4, <2>5, <2>6
<1>7. ASSUME NEW q, NEW s, Adjoins(ss, q, s) PROVE g[s.t] <= at[s] - at[q]
  <2>1. /\ q \in ss /\ s \in ss /\ q.t < s.t /\ q.t \in Nat /\ s.t \in Nat
        /\ FlowsAt(rs, s.t) = Allocate(q, s).flows
        /\ (\A k \in DOMAIN q.v : q.v[k] \in Nat) /\ \A k \in DOMAIN s.v : s.v[k] \in Nat
    BY <1>7, AdjoinsHolds
  <2>2. g[s.t] = sign * both(Allocate(q, s).flows)
    <3>1. s.t \in 1 .. LastTick
      BY <1>0, <2>1, SampleTicks
    <3> QED
      BY <1>3, <2>1, <3>1
  <2>5. CASE Allocate(q, s).skipped
    <3>1. both(Allocate(q, s).flows) = 0
      BY <1>0, <2>1, <2>5, AllocateHolds, NoFlowsTyped
    <3>2. 0 <= at[s] - at[q]
      BY <1>7, <2>5
    <3> HIDE DEF both
    <3> QED
      BY <2>2, <3>1, <3>2
  <2>6. CASE ~Allocate(q, s).skipped
    <3>1. both(Allocate(q, s).flows) = s.v["charged"] - q.v["charged"]
      BY <2>1, <2>6, AllocateHolds
    <3>2. sign * (s.v["charged"] - q.v["charged"]) <= at[s] - at[q]
      BY <1>7, <2>6
    <3> HIDE DEF both
    <3> QED
      BY <2>2, <3>1, <3>2
  <2> QED
    BY <2>5, <2>6
<1>8. S[LastTick] <= at[LastOf(ss)] - at[FirstOf(ss)]
  <2> HIDE DEF ss
  <2> QED
    BY <1>0, <1>4, <1>5, <1>7, DayChain DEF ss
<1>9. S[LastTick] = sign * both(sum[LastTick]) /\ FlowsTyped(sum[LastTick])
  BY <1>0, <1>1, <1>3
<1>10. both(sum[LastTick]) \in Int
  BY <1>t, <1>9
<1> QED
  BY <1>1, <1>8, <1>9, <1>10

\* No more is booked than the battery can take.
LEMMA ChargeWithinPower ==
  ASSUME RowsInv, NEW rs \in SUBSET flowRows, SamplesOf(rs) # {}
  PROVE  Recompute(rs).pvToEss + Recompute(rs).gridToEss
           <= EssPower * (LastOf(SamplesOf(rs)).t - FirstOf(SamplesOf(rs)).t)
<1> DEFINE ss == SamplesOf(rs)
           at == [s \in ss |-> EssPower * s.t]
<1>0. /\ EssPower \in Nat /\ (\A s \in ss : s.t \in Nat)
      /\ FirstOf(ss) \in ss /\ LastOf(ss) \in ss
  <2>1. \A r \in rs : RowTyped(r)
    BY DEF RowsInv
  <2> QED
    BY <2>1, TicksHold, SampleTicks
<1>1. \A s \in ss : at[s] = EssPower * s.t
  OBVIOUS
<1>2. \A a, b \in Nat : EssPower * (a - b) = EssPower * a - EssPower * b /\ EssPower * a \in Nat
  BY <1>0
<1> HIDE DEF at
<1>3. \A s \in ss : at[s] \in Int
  BY <1>0, <1>1, <1>2
<1>4. ASSUME NEW q, NEW s, Adjoins(ss, q, s)
      PROVE  IF Allocate(q, s).skipped THEN 0 <= at[s] - at[q]
             ELSE 1 * (s.v["charged"] - q.v["charged"]) <= at[s] - at[q]
  <2>1. /\ q \in ss /\ s \in ss /\ q.t < s.t /\ q.t \in Nat /\ s.t \in Nat
        /\ (\A k \in DOMAIN q.v : q.v[k] \in Nat) /\ \A k \in DOMAIN s.v : s.v[k] \in Nat
    BY <1>4, AdjoinsHolds
  <2>2. at[s] - at[q] = EssPower * (s.t - q.t)
    BY <1>1, <1>2, <2>1
  <2>3. EssPower * (s.t - q.t) \in Nat
    <3>1. s.t - q.t \in Nat
      BY <2>1
    <3> QED
      BY <1>0, <3>1
  <2>4. ASSUME ~Allocate(q, s).skipped
        PROVE  /\ WithinPower(q, s, "charged")
               /\ s.v["charged"] \in Nat /\ q.v["charged"] \in Nat
    <3>1. DOMAIN q.v = Registers /\ DOMAIN s.v = Registers /\ WithinPower(q, s, "charged")
      BY <2>1, <2>4, AllocateHolds
    <3> QED
      BY <2>1, <3>1 DEF Registers, Battery
  <2> QED
    BY <2>2, <2>3, <2>4 DEF WithinPower
<1> DEFINE booked == Recompute(rs).pvToEss + Recompute(rs).gridToEss
<1>5. booked \in Int /\ 1 * booked <= at[LastOf(ss)] - at[FirstOf(ss)]
  <2>1. 1 \in {1, -1}
    OBVIOUS
  <2> HIDE DEF ss
  <2> QED
    BY <1>3, <1>4, <2>1, ChargeChain DEF ss
<1>6. at[LastOf(ss)] - at[FirstOf(ss)] = EssPower * (LastOf(ss).t - FirstOf(ss).t)
  <2> DEFINE a == LastOf(ss).t  b == FirstOf(ss).t
  <2>1. a \in Nat /\ b \in Nat /\ at[LastOf(ss)] = EssPower * a /\ at[FirstOf(ss)] = EssPower * b
    BY <1>0, <1>1
  <2> HIDE DEF a, b
  <2>2. EssPower * (a - b) = EssPower * a - EssPower * b
    BY <1>2, <2>1
  <2> QED
    BY <2>1, <2>2 DEF a, b
<1>7. booked <= EssPower * (LastOf(ss).t - FirstOf(ss).t)
  <2> HIDE DEF booked, ss
  <2> QED
    BY <1>5, <1>6
<1> QED
  BY <1>7

\* Without an upset every kWh of the register is booked.
LEMMA ChargeComplete ==
  ASSUME RowsInv, NEW cum, SpoilInv(cum), BucketLen <= EssPower, upsets = 0,
         NEW rs \in SUBSET flowRows, SamplesOf(rs) # {}
  PROVE  Recompute(rs).pvToEss + Recompute(rs).gridToEss
           = LastOf(SamplesOf(rs)).v["charged"] - FirstOf(SamplesOf(rs)).v["charged"]
<1> DEFINE ss == SamplesOf(rs)
           booked == Recompute(rs).pvToEss + Recompute(rs).gridToEss
           up == [s \in ss |-> s.v["charged"]]
           down == [s \in ss |-> 0 - s.v["charged"]]
<1>0. \A r \in rs : RowTyped(r)
  BY DEF RowsInv
<1>1. FirstOf(ss) \in ss /\ LastOf(ss) \in ss
  BY <1>0, SampleTicks
<1>2. ASSUME NEW s \in ss PROVE "charged" \in DOMAIN s.v /\ s.v["charged"] \in Int /\ Spoilt(cum, rs, s) = 0
  <2>1. /\ Spoilt(cum, rs, s) \in Int /\ 0 <= Spoilt(cum, rs, s)
        /\ Spoilt(cum, rs, s) + (IF "charged" \in DOMAIN s.v THEN 0 ELSE 1) <= 0
    BY SpoiltHolds
  <2>2. "charged" \in DOMAIN s.v /\ Spoilt(cum, rs, s) = 0
    BY <2>1
  <2>3. s.v["charged"] \in Nat
    BY <1>0, <2>2, SamplesHold DEF SampleFacts
  <2> QED
    BY <2>2, <2>3
<1>3. ASSUME NEW q, NEW s, Adjoins(ss, q, s)
      PROVE  /\ ~Allocate(q, s).skipped /\ q \in ss /\ s \in ss
             /\ q.v["charged"] \in Int /\ s.v["charged"] \in Int
  <2>1. q \in ss /\ s \in ss /\ q.t < s.t
    BY <1>3, AdjoinsHolds
  <2>2. Spoilt(cum, rs, q) + (IF Allocate(q, s).skipped THEN 1 ELSE 0) <= Spoilt(cum, rs, s)
    BY <2>1, SkipsAreSpoilt
  <2>3. Spoilt(cum, rs, q) = 0 /\ Spoilt(cum, rs, s) = 0
    BY <1>2, <2>1
  <2> QED
    BY <1>2, <2>1, <2>2, <2>3
<1>4. \A s \in ss : up[s] = s.v["charged"] /\ down[s] = 0 - s.v["charged"]
  OBVIOUS
<1> HIDE DEF up, down
<1>5. \A s \in ss : up[s] \in Int /\ down[s] \in Int
  BY <1>2, <1>4
<1>6. booked \in Int /\ 1 * booked <= up[LastOf(ss)] - up[FirstOf(ss)]
  <2>1. ASSUME NEW q, NEW s, Adjoins(ss, q, s)
        PROVE  IF Allocate(q, s).skipped THEN 0 <= up[s] - up[q]
               ELSE 1 * (s.v["charged"] - q.v["charged"]) <= up[s] - up[q]
    BY <1>3, <1>4, <2>1
  <2>2. 1 \in {1, -1}
    OBVIOUS
  <2> HIDE DEF ss
  <2> QED
    BY <1>5, <2>1, <2>2, ChargeChain DEF ss
<1>7. (-1) * booked <= down[LastOf(ss)] - down[FirstOf(ss)]
  <2>1. ASSUME NEW q, NEW s, Adjoins(ss, q, s)
        PROVE  IF Allocate(q, s).skipped THEN 0 <= down[s] - down[q]
               ELSE (-1) * (s.v["charged"] - q.v["charged"]) <= down[s] - down[q]
    BY <1>3, <1>4, <2>1
  <2>2. -1 \in {1, -1}
    OBVIOUS
  <2> HIDE DEF ss
  <2> QED
    BY <1>5, <2>1, <2>2, ChargeChain DEF ss
<1>8. /\ up[LastOf(ss)] = LastOf(ss).v["charged"] /\ up[FirstOf(ss)] = FirstOf(ss).v["charged"]
      /\ down[LastOf(ss)] = 0 - LastOf(ss).v["charged"]
      /\ down[FirstOf(ss)] = 0 - FirstOf(ss).v["charged"]
      /\ LastOf(ss).v["charged"] \in Int /\ FirstOf(ss).v["charged"] \in Int
  BY <1>1, <1>2, <1>4
<1>9. booked = LastOf(ss).v["charged"] - FirstOf(ss).v["charged"]
  <2> HIDE DEF booked, ss
  <2> QED
    BY <1>6, <1>7, <1>8
<1> QED
  BY <1>9

\* An upset register costs no more intervals than it has spoiled.
LEMMA SkipsCounted ==
  ASSUME RowsInv, NEW cum, SpoilInv(cum), BucketLen <= EssPower,
         NEW rs \in SUBSET flowRows, SamplesOf(rs) # {}
  PROVE  Cardinality({i \in Intervals(rs) : i.out.skipped}) <= upsets
<1> DEFINE ss == SamplesOf(rs)
           skips == {i \in Intervals(rs) : i.out.skipped}
           Upto(n) == {i \in skips : i.to <= n}
           g == [n \in 1 .. LastTick |-> IF \E i \in skips : i.to = n THEN 1 ELSE 0]
           S == [n \in 0 .. LastTick |-> Cardinality(Upto(n))]
           at == [s \in ss |-> Spoilt(cum, rs, s)]
<1>0. (\A r \in rs : RowTyped(r)) /\ LastTick \in Nat
  BY TicksHold DEF RowsInv
<1>1. /\ \A s \in ss : s.t \in Nat /\ 1 <= s.t /\ s.t <= LastTick
      /\ FirstOf(ss) \in ss /\ LastOf(ss) \in ss
  BY <1>0, SampleTicks
<1>2. ASSUME NEW i \in Intervals(rs)
      PROVE  /\ i.to \in Nat /\ 1 <= i.to /\ i.to <= LastTick
             /\ \A j \in Intervals(rs) : j.to = i.to => j = i
  <2>1. PICK q, s : Adjoins(ss, q, s) /\ i.to = s.t
    BY <1>0, IntervalsHold
  <2>2. s \in ss
    BY <2>1 DEF Adjoins
  <2> DEFINE x == [to |-> s.t, out |-> Allocate(q, s)]
  <2>3. EndingAt(rs, i.to) = {x}
    BY <1>0, <2>1, IntervalsHold
  <2> HIDE DEF x
  <2> QED
    BY <1>1, <2>1, <2>2, <2>3 DEF EndingAt
<1>3. skips \subseteq Intervals(rs)
  OBVIOUS
<1>4. /\ \A n \in 1 .. LastTick : g[n] = IF \E i \in skips : i.to = n THEN 1 ELSE 0
      /\ \A n \in 0 .. LastTick : S[n] = Cardinality(Upto(n))
      /\ \A s \in ss : at[s] = Spoilt(cum, rs, s)
  OBVIOUS
<1>s. \A i \in skips : i \in Intervals(rs) /\ i.out.skipped
  OBVIOUS
<1> HIDE DEF skips, g, S, at
<1>5. Upto(0) = {}
  BY <1>2, <1>3
<1>6. ASSUME NEW n \in Nat, IsFiniteSet(Upto(n))
      PROVE  /\ IsFiniteSet(Upto(n + 1))
             /\ Cardinality(Upto(n + 1))
                  = Cardinality(Upto(n)) + (IF \E i \in skips : i.to = n + 1 THEN 1 ELSE 0)
  <2>1. \A i \in skips : i.to \in Nat
    BY <1>2, <1>3
  <2>2. CASE ~\E i \in skips : i.to = n + 1
    <3>1. Upto(n + 1) = Upto(n)
      BY <2>1, <2>2
    <3>2. Cardinality(Upto(n)) \in Nat
      BY <1>6, FS_CardinalityType
    <3> HIDE DEF Upto
    <3> QED
      BY <1>6, <2>2, <3>1, <3>2
  <2>3. CASE \E i \in skips : i.to = n + 1
    <3>1. PICK i \in skips : i.to = n + 1
      BY <2>3
    <3>2. \A j \in skips : j.to = n + 1 => j = i
      BY <1>2, <1>3, <3>1
    <3>3. Upto(n + 1) = Upto(n) \cup {i}
      BY <2>1, <3>1, <3>2
    <3>4. i \notin Upto(n)
      BY <3>1
    <3> HIDE DEF Upto
    <3> QED
      BY <1>6, <2>3, <3>3, <3>4, FS_AddElement
  <2> QED
    BY <2>2, <2>3
<1>7. \A n \in Nat : IsFiniteSet(Upto(n))
  <2> DEFINE G == {n \in Nat : IsFiniteSet(Upto(n))}
  <2>1. 0 \in G
    BY <1>5, FS_EmptySet
  <2>2. \A n \in Nat : n \in G => n + 1 \in G
    BY <1>6
  <2> HIDE DEF G
  <2>3. Nat \subseteq G
    BY <2>1, <2>2, Inductive
  <2> QED
    BY <2>3 DEF G
<1>8. S[0] = 0
  BY <1>0, <1>4, <1>5, FS_EmptySet
<1>9. ASSUME NEW n \in 1 .. LastTick PROVE g[n] \in Int /\ S[n] = S[n - 1] + g[n]
  <2>1. n \in 0 .. LastTick /\ n - 1 \in 0 .. LastTick /\ n - 1 \in Nat /\ (n - 1) + 1 = n
    BY <1>0
  <2>2. Cardinality(Upto(n)) = Cardinality(Upto(n - 1)) + (IF \E i \in skips : i.to = n THEN 1 ELSE 0)
    <3>1. IsFiniteSet(Upto(n - 1))
      BY <1>7, <2>1
    <3> HIDE DEF Upto
    <3> QED
      BY <1>6, <2>1, <3>1
  <2> HIDE DEF Upto
  <2> QED
    BY <1>4, <2>1, <2>2
<1>10. \A s \in ss : at[s] \in Int
  BY <1>4, SpoiltHolds
<1>11. ASSUME NEW n \in 1 .. LastTick, EndingAt(rs, n) = {} PROVE g[n] = 0
  <2>1. ~\E i \in skips : i.to = n
    BY <1>3, <1>11 DEF EndingAt
  <2> QED
    BY <1>4, <2>1
<1>12. ASSUME NEW q, NEW s, Adjoins(ss, q, s) PROVE g[s.t] <= at[s] - at[q]
  <2>1. q \in ss /\ s \in ss /\ q.t < s.t
    BY <1>12, AdjoinsHolds
  <2>2. at[q] + (IF Allocate(q, s).skipped THEN 1 ELSE 0) <= at[s]
    BY <1>4, <2>1, SkipsAreSpoilt
  <2>3. s.t \in 1 .. LastTick
    BY <1>0, <1>1, <2>1
  <2>4. g[s.t] = 1 => Allocate(q, s).skipped
    <3> SUFFICES ASSUME NEW i \in skips, i.to = s.t PROVE Allocate(q, s).skipped
      BY <1>4, <2>3
    <3> DEFINE x == [to |-> s.t, out |-> Allocate(q, s)]
    <3>1. EndingAt(rs, s.t) = {x} /\ x.out = Allocate(q, s)
      BY <1>0, <1>12, IntervalsHold
    <3>2. i \in EndingAt(rs, s.t)
      BY <1>3 DEF EndingAt
    <3>3. i.out.skipped
      BY <1>s
    <3> HIDE DEF x
    <3> QED
      BY <3>1, <3>2, <3>3
  <2>5. g[s.t] \in {0, 1}
    BY <1>4, <2>3
  <2>6. at[q] \in Int /\ at[s] \in Int
    BY <1>10, <2>1
  <2> QED
    BY <2>2, <2>4, <2>5, <2>6
<1>13. S[LastTick] \in Int /\ S[LastTick] <= at[LastOf(ss)] - at[FirstOf(ss)]
  <2> HIDE DEF ss
  <2> QED
    BY <1>0, <1>8, <1>9, <1>10, <1>11, <1>12, DayChain DEF ss
<1>14. Upto(LastTick) = skips
  BY <1>2, <1>3
<1>15. /\ at[LastOf(ss)] \in Int /\ at[LastOf(ss)] <= upsets
       /\ at[FirstOf(ss)] \in Int /\ 0 <= at[FirstOf(ss)]
  <2>1. /\ at[LastOf(ss)] \in Int /\ at[FirstOf(ss)] \in Int
        /\ at[LastOf(ss)] + (IF "charged" \in DOMAIN LastOf(ss).v THEN 0 ELSE 1) <= upsets
        /\ 0 <= at[FirstOf(ss)]
    BY <1>1, <1>4, SpoiltHolds
  <2>2. upsets \in Nat
    BY DEF RowsInv
  <2> QED
    BY <2>1, <2>2
<1>16. S[LastTick] = Cardinality(skips)
  BY <1>0, <1>4, <1>14
<1>17. Cardinality(skips) <= upsets
  <2>1. upsets \in Nat
    BY DEF RowsInv
  <2> QED
    BY <1>13, <1>15, <1>16, <2>1
<1> QED
  BY <1>17 DEF skips

LEMMA DayHasSamples ==
  ASSUME FlowsInv, NEW d \in Nat, Cardinality(SamplesOf(DayRows(d))) > 1
  PROVE  DayRows(d) \in SUBSET flowRows /\ SamplesOf(DayRows(d)) # {}
<1>1. DayRows(d) \subseteq flowRows
  BY DEF DayRows, SourcesIn
<1>2. SamplesOf(DayRows(d)) # {}
  <2> SUFFICES ASSUME SamplesOf(DayRows(d)) = {} PROVE FALSE
    OBVIOUS
  <2>1. Cardinality(SamplesOf(DayRows(d))) = 0
    BY FS_EmptySet
  <2> QED
    BY <2>1
<1> QED
  BY <1>1, <1>2

LEMMA SolarHolds == FlowsInv => SolarChargeWithinYield
<1> SUFFICES ASSUME FlowsInv, NEW d \in DaysSeen,
                    Cardinality(SamplesOf(DayRows(d))) > 1
             PROVE  Recompute(DayRows(d)).pvToEss
                      <= LastOf(SamplesOf(DayRows(d))).v["pv"] - FirstOf(SamplesOf(DayRows(d))).v["pv"]
  BY DEF SolarChargeWithinYield
<1>1. d \in Nat
  BY DEF DaysSeen
<1> QED
  BY <1>1, DayHasSamples, SunBooked DEF FlowsInv

LEMMA ChargeHolds == FlowsInv /\ BucketLen <= EssPower => ChargeBookedOnce
<1> SUFFICES ASSUME FlowsInv, BucketLen <= EssPower, NEW d \in DaysSeen,
                    Cardinality(SamplesOf(DayRows(d))) > 1
             PROVE  LET s == SamplesOf(DayRows(d))
                        f == Recompute(DayRows(d))
                        booked == f.pvToEss + f.gridToEss
                    IN /\ booked <= EssPower * (LastOf(s).t - FirstOf(s).t)
                       /\ Cardinality({i \in Intervals(DayRows(d)) : i.out.skipped}) <= upsets
                       /\ upsets = 0 =>
                            booked = LastOf(s).v["charged"] - FirstOf(s).v["charged"]
  BY DEF ChargeBookedOnce
<1>1. d \in Nat
  BY DEF DaysSeen
<1>2. DayRows(d) \in SUBSET flowRows /\ SamplesOf(DayRows(d)) # {}
  BY <1>1, DayHasSamples
<1>3. PICK cum : SpoilInv(cum)
  BY DEF FlowsInv
<1>4. RowsInv
  BY DEF FlowsInv
<1> QED
  BY <1>2, <1>3, <1>4, ChargeWithinPower, SkipsCounted, ChargeComplete

-------------------------------------------------------------------------------
(* Energy flows: the summary. *)

LEMMA DaysTouched ==
  ASSUME NEW from \in Nat, NEW to \in Nat, from < to, to <= (LastDay + 1) * DayLen
  PROVE  {d \in 0 .. LastDay : from < (d + 1) * DayLen /\ d * DayLen < to} = CivilDays(from, to)
<1> DEFINE n == DayLen  first == CivilDayOf(from)  last == CivilDayOf(to - 1)
<1>1. n \in Nat \ {0} /\ to - 1 \in Nat /\ LastDay \in Nat
  BY TicksHold, FlowDayHolds DEF LastDay
<1>2. /\ first \in Nat /\ first * n <= from /\ from < (first + 1) * n
      /\ last \in Nat /\ last * n <= to - 1
      /\ \A d \in Nat : d * n \in Nat /\ (d * n <= to - 1 => d <= last)
  BY <1>1, FlowDayHolds
<1>3. CivilDays(from, to) = first .. last
  BY DEF CivilDays
<1>4. to <= (LastDay + 1) * n
  OBVIOUS
<1> HIDE DEF n, first, last
<1>5. \A a, b \in Nat : a <= b => a * n <= b * n
  BY <1>1
<1>6. ASSUME NEW d \in first .. last
      PROVE  d \in 0 .. LastDay /\ from < (d + 1) * n /\ d * n < to
  <2>1. d \in Nat /\ first + 1 <= d + 1 /\ d <= last
    BY <1>2
  <2>2. (first + 1) * n <= (d + 1) * n /\ d * n <= last * n
    BY <1>2, <1>5, <2>1
  <2>3. (first + 1) * n \in Nat /\ (d + 1) * n \in Nat /\ d * n \in Nat /\ last * n \in Nat
    BY <1>2, <2>1
  <2>4. from < (d + 1) * n /\ d * n < to
    BY <1>2, <2>2, <2>3
  <2>5. ASSUME LastDay + 1 <= d PROVE FALSE
    <3>1. (LastDay + 1) * n <= d * n /\ (LastDay + 1) * n \in Nat
      BY <1>1, <1>2, <1>5, <2>1, <2>5
    <3> QED
      BY <1>4, <2>3, <2>4, <3>1
  <2> QED
    BY <1>1, <2>1, <2>4, <2>5
<1>7. ASSUME NEW d \in 0 .. LastDay, from < (d + 1) * n, d * n < to
      PROVE  d \in first .. last
  <2>1. d \in Nat /\ d * n \in Nat /\ (d + 1) * n \in Nat /\ first * n \in Nat
    BY <1>1, <1>2
  <2>2. d <= last
    <3>1. d * n <= to - 1
      BY <1>7, <2>1
    <3> QED
      BY <1>2, <2>1, <3>1
  <2>3. ASSUME d + 1 <= first PROVE FALSE
    <3>1. (d + 1) * n <= first * n
      BY <1>2, <1>5, <2>1, <2>3
    <3> QED
      BY <1>2, <1>7, <2>1, <3>1
  <2> QED
    BY <1>2, <2>1, <2>2, <2>3
<1>8. \A d : d \in {x \in 0 .. LastDay : from < (x + 1) * n /\ x * n < to} <=> d \in first .. last
  BY <1>6, <1>7
<1> QED
  BY <1>3, <1>8 DEF n

\* Stored days of a window: no more than it has, and what live runs gave if
\* there are as many and all of them are final.
LEMMA TotalHolds ==
  ASSUME StoredInv, NEW X \in SUBSET storedDays, NEW days, IsFiniteSet(days),
         \A r \in X : r.day \in days
  PROVE  /\ Cardinality(X) <= Cardinality(days)
         /\ Cardinality(X) = Cardinality(days) /\ (\A r \in X : r.final) =>
              TotalOf(X) = SumOfDays(days, [d \in days |-> Live(d * DayLen, (d + 1) * DayLen)])
<1> DEFINE f == [r \in X |-> r.day]
           D == {r.day : r \in X}
           flowsOf == [d \in D |-> (CHOOSE r \in X : r.day = d).flows]
           live == [d \in days |-> Live(d * DayLen, (d + 1) * DayLen)]
<1>1. f \in Injection(X, days)
  <2>1. f \in [X -> days]
    OBVIOUS
  <2>2. \A q, r \in X : f[q] = f[r] => q = r
    BY DEF StoredInv
  <2> HIDE DEF f
  <2> QED
    BY <2>1, <2>2 DEF Injection, IsInjective
<1>2. /\ Cardinality(X) <= Cardinality(days)
      /\ Cardinality(X) = Cardinality(days) => f \in Surjection(X, days)
  <2> HIDE DEF f
  <2> QED
    BY <1>1, FS_Injection
<1>3. ASSUME Cardinality(X) = Cardinality(days), \A r \in X : r.final
      PROVE  TotalOf(X) = SumOfDays(days, live)
  <2>1. \A d \in days : \E r \in X : f[r] = d
    <3> HIDE DEF f
    <3> QED
      BY <1>2, <1>3 DEF Surjection
  <2>2. D = days
    BY <2>1
  <2>3. ASSUME NEW d \in days PROVE flowsOf[d] = Live(d * DayLen, (d + 1) * DayLen)
    <3> DEFINE r == CHOOSE r \in X : r.day = d
    <3>1. r \in X /\ r.day = d
      BY <2>1
    <3>2. flowsOf[d] = r.flows
      BY <2>2
    <3> HIDE DEF r
    <3>3. r.flows = Live(r.day * DayLen, (r.day + 1) * DayLen)
      BY <1>3, <3>1 DEF StoredInv
    <3> QED
      BY <3>1, <3>2, <3>3
  <2>4. flowsOf = live
    <3>1. flowsOf = [d \in D |-> flowsOf[d]]
      OBVIOUS
    <3>2. live = [d \in days |-> Live(d * DayLen, (d + 1) * DayLen)]
      OBVIOUS
    <3> HIDE DEF flowsOf, D, live
    <3> QED
      BY <2>2, <2>3, <3>1, <3>2
  <2>5. TotalOf(X) = SumOfDays(D, flowsOf)
    BY DEF TotalOf
  <2> QED
    BY <2>2, <2>4, <2>5
<1> QED
  BY <1>2, <1>3

\* A summary that says it is of days is of some of those stored.
LEMMA SummaryOfSome ==
  ASSUME NEW from, NEW to, NEW now, Summary(from, to, now).source = "days"
  PROVE  \E X \in SUBSET storedDays :
           /\ \A r \in X : r.day \in CivilDays(from, to)
           /\ Summary(from, to, now).flows = TotalOf(X)
           /\ Summary(from, to, now).covered = Cardinality(X)
           /\ Summary(from, to, now).expected = Cardinality(CivilDays(from, to))
<1> DEFINE days   == CivilDays(from, to)
           stored == {r \in storedDays : r.day \in days}
           final  == {r \in stored : r.final}
           whole  == from % DayLen = 0 /\ to % DayLen = 0 /\ to <= CivilDayOf(now) * DayLen
           As(X)  == [source |-> "days", flows |-> TotalOf(X), covered |-> Cardinality(X),
                      expected |-> Cardinality(days)]
           s == Summary(from, to, now)
<1>1. s = IF to - from > LiveWindow
          THEN IF stored = {} THEN [source |-> "none"] ELSE As(stored)
          ELSE IF whole /\ Cardinality(final) = Cardinality(days) THEN As(final)
          ELSE [source |-> "allocator", flows |-> Live(from, to)]
  BY DEF Summary
<1>2. stored \in SUBSET storedDays /\ final \in SUBSET storedDays
      /\ (\A r \in stored : r.day \in days) /\ \A r \in final : r.day \in days
  OBVIOUS
<1>3. \A X : /\ As(X).flows = TotalOf(X) /\ As(X).covered = Cardinality(X)
             /\ As(X).expected = Cardinality(days)
  OBVIOUS
<1>4. [source |-> "none"].source # "days"
      /\ [source |-> "allocator", flows |-> Live(from, to)].source # "days"
  OBVIOUS
<1>5. s.source = "days"
  OBVIOUS
<1> HIDE DEF s, stored, final, whole, As, days
<1>6. s = As(stored) \/ s = As(final)
  BY <1>1, <1>4, <1>5
<1> QED
  BY <1>2, <1>3, <1>6 DEF s, days

LEMMA SummaryHolds == FlowsInv => SummaryOfItsDays
<1> SUFFICES ASSUME FlowsInv,
                    NEW from \in {t \in 0 .. (LastDay + 1) * DayLen : 2 * t % DayLen = 0},
                    NEW to \in {t \in 0 .. (LastDay + 1) * DayLen : 2 * t % DayLen = 0},
                    from < to, Summary(from, to, flowTick).source = "days"
             PROVE
               LET s == Summary(from, to, flowTick)
                   touched == {d \in 0 .. LastDay : from < (d + 1) * DayLen /\ d * DayLen < to}
               IN /\ s.expected = Cardinality(touched) /\ s.covered <= s.expected
                  /\ (\A r \in storedDays : r.final) /\ s.covered = s.expected =>
                       s.flows = SumOfDays(touched,
                                   [d \in touched |-> Live(d * DayLen, (d + 1) * DayLen)])
  BY DEF SummaryOfItsDays
<1> DEFINE s == Summary(from, to, flowTick)
           touched == {d \in 0 .. LastDay : from < (d + 1) * DayLen /\ d * DayLen < to}
<1>1. from \in Nat /\ to \in Nat /\ to <= (LastDay + 1) * DayLen
  <2>1. LastDay \in Nat /\ DayLen \in Nat
    BY TicksHold, FlowDayHolds DEF LastDay
  <2>2. (LastDay + 1) * DayLen \in Nat
    BY <2>1
  <2> QED
    BY <2>2
<1>2. touched = CivilDays(from, to)
  BY <1>1, DaysTouched
<1>3. PICK X \in SUBSET storedDays :
        /\ \A r \in X : r.day \in CivilDays(from, to)
        /\ s.flows = TotalOf(X) /\ s.covered = Cardinality(X)
        /\ s.expected = Cardinality(CivilDays(from, to))
  BY SummaryOfSome
<1>4. IsFiniteSet(touched)
  <2>1. LastDay \in Nat
    BY TicksHold, FlowDayHolds DEF LastDay
  <2>2. IsFiniteSet(0 .. LastDay)
    BY <2>1, FS_Interval
  <2>3. touched \in SUBSET (0 .. LastDay)
    OBVIOUS
  <2> HIDE DEF touched
  <2> QED
    BY <2>2, <2>3, FS_Subset
<1> HIDE DEF touched, s
<1>5. /\ Cardinality(X) <= Cardinality(touched)
      /\ Cardinality(X) = Cardinality(touched) /\ (\A r \in X : r.final) =>
           TotalOf(X) = SumOfDays(touched, [d \in touched |-> Live(d * DayLen, (d + 1) * DayLen)])
  BY <1>2, <1>3, <1>4, TotalHolds DEF FlowsInv
<1>6. /\ s.expected = Cardinality(touched) /\ s.covered <= s.expected
      /\ (\A r \in storedDays : r.final) /\ s.covered = s.expected =>
           s.flows = SumOfDays(touched, [d \in touched |-> Live(d * DayLen, (d + 1) * DayLen)])
  BY <1>2, <1>3, <1>5
<1> QED
  BY <1>6 DEF s, touched

\* The flows of a day never say that the sun charged more than it gave, book
\* every kWh of the charge register once, lose no more intervals than an upset
\* register spoils; a summary of stored days adds up those it was asked for:
\* Allocate, IterateIntervals, Recompute, maybeAttachEnergyFlow.  For all polls,
\* buckets, days and upsets, where the guard on the battery's power leaves room
\* for what it moves in a bucket, as readings of a sample may be that far apart.
THEOREM FlowsAreBooked == BucketLen <= EssPower => (FlowsSpec => []FlowsBooked)
<1> SUFFICES ASSUME BucketLen <= EssPower PROVE FlowsSpec => []FlowsBooked
  OBVIOUS
<1>1. FlowsInv => FlowsBooked
  BY SolarHolds, ChargeHolds, SummaryHolds DEF FlowsBooked
<1> QED
  BY <1>1, FlowsAlways, PTL
================================================================================
