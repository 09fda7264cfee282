----------------------------- MODULE MCDataParts -----------------------------
(***************************************************************************)
(* Parts that take records in and compute from them.  In: the collector's  *)
(* session with a device, the passports of the inverters, exchange rates,  *)
(* market prices and the workbooks they come in, weather, archives of the  *)
(* meters and of the vendor.  From them: the energy flows between the      *)
(* counters, the ledger of a day, months and years, the best day the       *)
(* battery could have had, the plan of today, the solar plan, the          *)
(* dispatcher's desk.  They share no state: one of them, chosen at the     *)
(* start, moves.                                                           *)
(***************************************************************************)
EXTENDS Collector, PlantInventory, EnergyFlows, FxRates, Feeds, SheetStrings, ArchiveImport,
        DayLedger, PeriodTotals, OptimumDay, DayPlans, PvPlan, DispatchDesk

VARIABLE moving

\* A catalogue of two main requests, as start and soc are not adjacent to v,
\* and two optional ones; a is asked for on every poll.
MCCatalogue ==
  [k \in {"p", "soc", "v", "a"} |->
    CASE k = "p"   -> [start |-> 1, words |-> 2]
      [] k = "soc" -> [start |-> 3, words |-> 1]
      [] k = "v"   -> [start |-> 8, words |-> 1]
      [] k = "a"   -> [start |-> 20, words |-> 1]]
MCOptional == <<[keys |-> {"v"}, every |-> 2], [keys |-> {"a"}, every |-> 0]>>

\* A logger of each role; rated power that drifts by less than the tolerance.
MCLoggers == [d \in {"a", "b"} |-> IF d = "a" THEN "pv" ELSE "ess"]
MCReadings ==
  [f \in Fields |->
    CASE f = "pvRated" -> {0, 40, 41, 60} [] f = "essRated" -> {20} [] OTHER -> {0, 4}]

\* Rates that rise and fall, days that earn and days that lose.
MCMarket == [t \in 0 .. LastFxTick |-> <<2, 3, 6, 4, 12>>[(t % 5) + 1]]
MCEbitda == [d \in FxDays |-> <<3, -2, 1, -3>>[d + 1]]

\* Hours of a month: a night that charges and an evening that sells; an hour
\* that claims more than the inverters can, and one without a ledger.
HourOfMonth(ch, dis, peak, net, rev, cost, profit) ==
  [charged |-> ch, discharged |-> dis, peak |-> peak, net |-> net,
   revenue |-> rev, cost |-> cost, profit |-> profit]
DayOfMonth(n, effect, ebitda, import, price, net, hours) ==
  [hoursWithData |-> n, effect |-> effect, ebitda |-> ebitda, import |-> import,
   price |-> price, net |-> net, hours |-> hours]
MCDayRecords == {
  DayOfMonth(0, 0, 0, 0, 0, 0, <<>>),
  DayOfMonth(2, 5, 7, 3, 2, 4,
    <<HourOfMonth(4, 0, 0, -2, 0, 0, 0), HourOfMonth(0, 3, 3, 6, 9, 2, 4)>>),
  DayOfMonth(2, -3, -2, 1, 4, 30,
    <<HourOfMonth(0, 9, 9, 33, 40, 5, 30), HourOfMonth(0, 2, 0, -3, 3, 4, NotYet)>>)}
MCPowerOn == [d \in StoredDays |-> IF d < 2 THEN 5 ELSE 9]

\* Hours of a best day: sun to store, an evening peak, both directions at
\* once, one without prices, a corrupt one, a dear one, one that sells dearer
\* than it buys.
HourOfBest(priced, import, export, pvG, pvE, gL, eL, gE, ch, dis, res, bad) ==
  [priced |-> priced, import |-> import, export |-> export, pvToGrid |-> pvG, pvToEss |-> pvE,
   gridToLoad |-> gL, essToLoad |-> eL, gridToEss |-> gE, charged |-> ch, discharged |-> dis,
   residual |-> res, bad |-> bad]
MCHourRecords == {
  HourOfBest(TRUE, 3, 1, 1, 3, 0, 0, 0, 3, 0, 0, FALSE),
  HourOfBest(TRUE, 9, 7, 0, 0, 2, 2, 0, 0, 2, 1, FALSE),
  HourOfBest(TRUE, 4, 2, 2, 0, 3, 0, 3, 6, 0, 2, FALSE),
  HourOfBest(FALSE, 0, 0, 1, 0, 1, 0, 0, 0, 0, NoLevel, FALSE),
  HourOfBest(TRUE, 9, 7, 5, 5, 5, 5, 5, 99, 99, 3, TRUE),
  HourOfBest(TRUE, 6, 5, 0, 0, 4, 0, 0, 0, 4, 2, FALSE),
  HourOfBest(TRUE, 2, 4, 3, 0, 1, 0, 2, 2, 0, 1, FALSE)}

\* Hours of a plan for today.
HourOfPlan(priced, import, export, pvL, pvG, gL, eL, bad) ==
  [priced |-> priced, import |-> import, export |-> export, pvToLoad |-> pvL, pvToGrid |-> pvG,
   gridToLoad |-> gL, essToLoad |-> eL, bad |-> bad]
MCLoadRecords == {
  HourOfPlan(TRUE, 5, 2, 2, 3, 0, 0, FALSE), HourOfPlan(TRUE, 7, 4, 0, 0, 4, 0, FALSE),
  HourOfPlan(TRUE, 3, 1, 0, 0, 0, 1, FALSE), HourOfPlan(FALSE, 0, 0, 0, 0, 3, 0, FALSE),
  HourOfPlan(TRUE, 5, 2, 1, 1, 1, 9, TRUE), HourOfPlan(FALSE, 0, 0, 0, 0, 1, 0, FALSE)}
MCYesterday == [h \in DayHours |-> IF h = 0 THEN NoPlanYet ELSE 5]

\* Drafts of the desk over three hours: every kind of command, alone and as
\* blocks, with limits that bind, exports allowed and not, an hour without load.
Command(type, value, block) == [type |-> type, value |-> value, id |-> block]
Limits(reserve, grid, sale, block, import, export) ==
  [reserve |-> reserve, gridCharge |-> grid, essSale |-> sale, blockExport |-> block,
   importCap |-> import, exportCap |-> export]
Draft(loads, commands, cfg) == [loads |-> loads, commands |-> commands, cfg |-> cfg]
Selling == Limits(1, TRUE, TRUE, FALSE, 4, 2)
Guarded == Limits(1, TRUE, FALSE, TRUE, 0, NotKnown)
MCSun == [h \in 0 .. 9 |-> <<3, 0, 0, 1>>[(h % 4) + 1]]
MCDeskPrices == [h \in 0 .. 9 |-> <<2, 5, 3, 4>>[(h % 4) + 1]]
MCDeskLimits == {[import |-> 4, ceiling |-> 2], [import |-> 3, ceiling |-> NotKnown]}
MCDrafts == {
  Draft(<<1, 3, 2>>, <<Command("target", 4, 1), Command("target", 4, 1), Command("cover", 2, 2)>>,
        Selling),
  Draft(<<1, 3, 2>>, <<Command("solar", 2, 1), Command("cover", 2, 2), Command("discharge", 1, 3)>>,
        Limits(2, FALSE, FALSE, FALSE, 3, NotKnown)),
  Draft(<<3, 2, 1>>, <<Auto, Auto, Auto>>, Guarded),
  Draft(<<1, 4, 2>>, <<Command("charge", 1, 1), Command("hold", 0, 2), Command("cap", 1, 3)>>,
        Guarded),
  Draft(<<1, 4, NotKnown>>, <<Command("export", 1, 1), Command("cap", 2, 2), Command("target", 3, 3)>>,
        Selling),
  Draft(<<1, 3, 2>>, <<Command("discharge", 1, 1), Auto, Command("export", 2, 2)>>, Selling),
  Draft(<<1, 3, 1>>, <<Auto, Command("cap", 1, 1), Command("target", 2, 2)>>,
        Limits(1, TRUE, FALSE, FALSE, 3, NotKnown))}

\* Tables of one or two short strings, narrow and wide, formatted and phonetic,
\* continued in another record anywhere a writer may; a workbook of three sheets.
Wide(text) == \E i \in DOMAIN text : text[i] > 255
MCStrings == {s \in [text : {<<65>>, <<66, 65>>, <<1075, 66>>}, wide : BOOLEAN,
                     cut : {"none", "head", "runs", "chars"}, at : 0..3, tail : BOOLEAN,
                     runs : {0, 1}, phonetic : {0, 3}] :
  LET chars == s.cut = "chars"
  IN  /\ IF chars THEN s.at \in 1..Len(s.text) ELSE s.at = 0
      /\ Wide(IF chars THEN SubSeq(s.text, 1, s.at - 1) ELSE s.text) => s.wide
      /\ IF chars THEN Wide(SubSeq(s.text, s.at, Len(s.text))) => s.tail ELSE s.tail = s.wide
      /\ s.phonetic = 0 \/ s.runs = 1
      /\ s.cut = "runs" => s.runs > 0}
Narrow(text) == [text |-> text, wide |-> FALSE, cut |-> "none", at |-> 0, tail |-> FALSE,
                 runs |-> 0, phonetic |-> 0]
MCTables == {t \in MCStrings \X {s \in MCStrings : s.runs = 0 /\ Len(s.text) = 2} :
              t[1].cut # "head"}
Bof == [id |-> "BOF", row |-> 0, isst |-> 0]
Eof == [Bof EXCEPT !.id = "EOF"]
Label(row, isst) == [id |-> "LABELSST", row |-> row, isst |-> isst]
MCWorkbook == <<Bof, Label(1, 1), Eof, Bof, Label(1, 0), Label(2, 1), Label(3, 7),
                Label(2, 0), Eof, Bof, Label(1, 1), Eof>>

\* Two metered days in full and an upload whose first day lacks channels; a
\* history with gaps and a counter that starts anew.
Grid(pv, import, export) ==
  [c \in Channels |-> CASE c = "pv" -> pv [] c = "import" -> import [] c = "export" -> export]
MCUploads == {
  Grid([d \in 0..1 |-> <<2, 4>>], [d \in 0..1 |-> <<4, 0>>], [d \in 0..1 |-> <<2, 6>>]),
  Grid([d \in {1} |-> <<0, 2>>], [d \in 0..1 |-> <<2, 2>>], [d \in {1} |-> <<0, 0>>])}
MCRanges == {[from |-> 0, to |-> 8], [from |-> 2, to |-> 6]}
Told(yield, discharge) == [yield |-> yield, discharge |-> discharge]
MCHistory == [s \in ArcSlots |->
  <<Told(10, 4), Told(12, NoRow), Told(14, 5), Told(14, 7), Told(NoRow, 7), Told(20, NoRow),
    Told(21, 9), Told(3, 9)>>[s + 1]]

\* The books of a day and of the periods made of days add up (DayLedger, PeriodTotals).
BooksAddUp == LedgerAddsUp /\ PeriodIsItsDays

\* The answers of the desk are long to check and only the desk changes them
\* (DispatchDesk).
DeskReliable == moving = "desk" => DeskAnswers

collectVars == <<colVars, inventoryVars, flowVars, fxVars>>
feedVars == <<damVars, sheetVars, wxVars, arcVars>>
computeVars == <<dayVars, periodVars, optVars, planVars, pvVars, deskVars>>

OneTable == <<Narrow(<<65>>), Narrow(<<66, 65>>)>>
OneLimit == [import |-> 4, ceiling |-> 2]

DataInit ==
  /\ moving \in {"collector", "inventory", "flows", "rates", "prices", "sheets", "weather",
                 "archive", "ledger", "period", "optimum", "today", "solar", "desk"}
  /\ ColInit /\ InventoryInit /\ FlowsInit /\ FxInit
  /\ DamInit /\ WxInit /\ ArcInit
  /\ sheetTable \in IF moving = "sheets" THEN SheetTables ELSE {OneTable}
  /\ SheetInit
  /\ DayInit /\ PeriodInit /\ OptInit /\ PlanInit /\ PvInit
  /\ charge \in IF moving = "desk" THEN DeskLevels ELSE {0}
  /\ limits \in IF moving = "desk" THEN DeskLimits ELSE {OneLimit}
  /\ DeskInit

DataNext ==
  /\ UNCHANGED moving
  /\ \/ /\ moving = "collector" /\ ColNext
        /\ UNCHANGED <<inventoryVars, flowVars, fxVars, feedVars, computeVars>>
     \/ /\ moving = "inventory" /\ InventoryNext
        /\ UNCHANGED <<colVars, flowVars, fxVars, feedVars, computeVars>>
     \/ /\ moving = "flows" /\ FlowsNext
        /\ UNCHANGED <<colVars, inventoryVars, fxVars, feedVars, computeVars>>
     \/ /\ moving = "rates" /\ FxNext
        /\ UNCHANGED <<colVars, inventoryVars, flowVars, feedVars, computeVars>>
     \/ /\ moving = "prices" /\ DamNext
        /\ UNCHANGED <<sheetVars, wxVars, arcVars, collectVars, computeVars>>
     \/ /\ moving = "sheets" /\ SheetNext
        /\ UNCHANGED <<damVars, wxVars, arcVars, collectVars, computeVars>>
     \/ /\ moving = "weather" /\ WxNext
        /\ UNCHANGED <<damVars, sheetVars, arcVars, collectVars, computeVars>>
     \/ /\ moving = "archive" /\ ArcNext
        /\ UNCHANGED <<damVars, sheetVars, wxVars, collectVars, computeVars>>
     \/ /\ moving = "ledger" /\ DayNext
        /\ UNCHANGED <<periodVars, optVars, planVars, pvVars, deskVars, collectVars, feedVars>>
     \/ /\ moving = "period" /\ PeriodNext
        /\ UNCHANGED <<dayVars, optVars, planVars, pvVars, deskVars, collectVars, feedVars>>
     \/ /\ moving = "optimum" /\ OptNext
        /\ UNCHANGED <<dayVars, periodVars, planVars, pvVars, deskVars, collectVars, feedVars>>
     \/ /\ moving = "today" /\ PlanNext
        /\ UNCHANGED <<dayVars, periodVars, optVars, pvVars, deskVars, collectVars, feedVars>>
     \/ /\ moving = "solar" /\ PvNext
        /\ UNCHANGED <<dayVars, periodVars, optVars, planVars, deskVars, collectVars, feedVars>>
     \/ /\ moving = "desk" /\ DeskNext
        /\ UNCHANGED <<dayVars, periodVars, optVars, planVars, pvVars, collectVars, feedVars>>

DataSpec == DataInit /\ [][DataNext]_<<moving, collectVars, feedVars, computeVars>>
===============================================================================
