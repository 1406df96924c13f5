----------------------------- MODULE MCPositions -----------------------------
(***************************************************************************)
(* Small instances of PortfolioPage and Panels for TLC.  The two share no  *)
(* state, so each is run by itself: part says which.                       *)
(***************************************************************************)
EXTENDS PortfolioPage, Panels

CONSTANTS t1, t2
VARIABLE part

TabSymmetry == Permutations({t1, t2})

MCInit == Init /\ PanelInit /\ part \in {"page", "panels"}
MCNext == \/ part = "page" /\ Next /\ UNCHANGED <<panel, part>>
          \/ part = "panels" /\ PanelNext /\ UNCHANGED <<vars, part>>
MCSpec == MCInit /\ [][MCNext]_<<vars, panel, part>>

PageSpec == (Init /\ PanelInit /\ part = "page") /\ [][Next /\ UNCHANGED <<panel, part>>]_<<vars, panel, part>>

-----------------------------------------------------------------------------
(* The page: one put at 50 dollars, ten days from its expiry. *)

aPut == [type |-> "put", strike |-> 5000, exp |-> 10]
aCall == [type |-> "call", strike |-> 6000, exp |-> 10]
OnePut == {aPut}
HeldPut == aPut :> 1

Sold(dte, off, pays) == [dte |-> dte, off |-> off, pays |-> pays, open |-> TRUE, liquid |-> TRUE]
EntryRules ==
  [minDte |-> 7, maxDte |-> 45, tolerance |-> 0, buffer |-> 2, policy |-> "exclude",
   excludeUnknown |-> TRUE, blocked |-> {}]

\* The stock away from the put: it is used up, and a fresh one pays well.
Away == [spot |-> 5500, board |-> 5500, mark |-> 5, ask |-> 2,
         puts |-> {Sold(7, 0, 500), Sold(14, 0, 400)},
         report |-> NoDate, gated |-> TRUE, down |-> FALSE, dividends |-> {}]
Below == [Away EXCEPT !.spot = 4900, !.mark = 150, !.ask = 160]
TwoMarkets == {Away, Below}

SomePicks == <<[name |-> "XYZ", yield |-> 150], [name |-> "OPQ", yield |-> 450],
               [name |-> "own", yield |-> 300]>>

-----------------------------------------------------------------------------
(* The panels *)

PutAndCall == {aPut, aCall}
Dividend(day, amount, est) == [day |-> day, amount |-> amount, freq |-> "monthly", est |-> est]
\* At the money, in it for the call, the put still paying, no pick but the
\* median, no chain, no price but the chain's, no price at all, no ask.
SomeMarkets ==
  {Away, Below,
   [Away EXCEPT !.spot = 5000, !.mark = 100],
   [Away EXCEPT !.spot = 6100, !.mark = 110, !.dividends = {Dividend(5, 50, FALSE)}],
   [Away EXCEPT !.spot = 6100, !.mark = 160, !.dividends = {Dividend(-20, 50, FALSE)}],
   [Away EXCEPT !.ask = 40], [Away EXCEPT !.report = 3], [Away EXCEPT !.gated = FALSE],
   [Away EXCEPT !.down = TRUE], [Away EXCEPT !.spot = None],
   [Away EXCEPT !.spot = None, !.board = 4900],
   [Away EXCEPT !.spot = None, !.board = None], [Away EXCEPT !.ask = None]}

Listed(type, strike, exp, bid, ask, delta, oi) ==
  [type |-> type, strike |-> strike, exp |-> exp, bid |-> bid, ask |-> ask, delta |-> delta,
   oi |-> oi, vol |-> 5, size |-> 20]
BoardA ==
  <<Listed("put", 4500, 10, 20, 22, -10, 500), Listed("put", 5000, 10, 60, 66, -30, 500),
    Listed("put", 5000, 38, 150, 160, -35, 500), Listed("put", 4500, 38, 80, 90, -22, 500),
    Listed("put", 5500, 38, None, 520, -60, 500), Listed("put", 4500, 45, 90, 100, -20, 4),
    Listed("put", 4600, 45, 100, 105, -24, 500), Listed("put", 4000, 17, 5, 9, None, 500),
    Listed("call", 6000, 10, 30, 33, 20, 500), Listed("call", 6000, 38, 90, 95, 24, 2),
    Listed("call", 5500, 38, 250, 260, 48, 500), Listed("call", 6500, 38, 20, 60, 12, 500)>>
BoardB ==
  <<Listed("put", 5000, 10, 260, None, -70, 500), Listed("put", 5000, 38, 360, 370, -58, 500),
    Listed("call", 5000, 10, 40, 44, 20, 50), Listed("call", 5200, 31, 44, 48, 24, 50)>>
\* What is liquid is out of reach of the nearest; one is listed twice, adjusted.
BoardC ==
  <<Listed("put", 5000, 10, 60, 66, -45, 500),
    Listed("put", 4500, 17, 30, 33, -20, 4), Listed("put", 4200, 17, 12, 13, -12, 500),
    Listed("put", 4500, 31, 50, 54, -21, 4), Listed("put", 4200, 31, 22, 24, -13, 500),
    Listed("put", 5000, 17, 80, 84, -46, 500), Listed("put", 5000, 17, 70, 95, -46, 0)>>
SomeBoards == {BoardA, BoardB, BoardC}
SomeQuotes == {4800, 5600, 6400, None}
SomeHistories == {{}, {Dividend(-20, 30, FALSE)}, {Dividend(6, 30, FALSE)}}
Position(short, type, strike, qty) ==
  [short |-> short, type |-> type, strike |-> strike, exp |-> 10, qty |-> qty]
SomeHeld == {Position(TRUE, "put", 5000, 2), Position(TRUE, "call", 6000, 1),
             Position(FALSE, "put", 5000, 1)}

Sound == [pe |-> 1500, ps |-> 150, pb |-> 200, peg |-> None, dcf |-> 9000, price |-> 6000,
          roe |-> 15, roa |-> 12, ros |-> 8, roi |-> None, debt_to_equity |-> 80,
          net_debt_to_ebitda |-> 150, fcf_yield |-> 4, current_ratio |-> 160,
          quick_ratio |-> 70, cash_ratio |-> None, eps |-> 300, total_equity |-> 1000,
          ebitda |-> 500]
Cheap == [Sound EXCEPT !.pe = 700, !.roe = 30]
Loss == [Sound EXCEPT !.eps = -10, !.pe = -800, !.roe = 40]
Thinly == [Sound EXCEPT !.pe = None, !.ps = None, !.pb = None, !.roa = None]
Levered == [Cheap EXCEPT !.net_debt_to_ebitda = 900]
Named(symbol, bulk, deep, cap, report) ==
  [symbol |-> symbol, sector |-> "s", metrics |-> None, bulk |-> bulk, deep |-> deep,
   cap |-> cap, report |-> report]
SomeUniverses ==
  {<<Named("a", x, x, 3, NoDate), Named("b", y, IF y = Thinly THEN Sound ELSE y, 2, r),
     Named("c", z, None, 1, NoDate)>> :
     x \in {Sound, Loss, Levered}, y \in {Cheap, Thinly, Loss}, z \in {Sound, None, Levered},
     r \in {NoDate, 5}}

FactorWeights == [valuation |-> 20, efficiency |-> 45, sustainability |-> 35]

Row3(strength, yield) == [strength |-> strength, yield |-> yield]
SomeRows ==
  {<<Row3(None, y), Row3(200, 200), Row3(500, y), Row3(700, y), Row3(800, 100), Row3(last, y)>> :
     y \in {100, 160, 300, None}, last \in {None, 600, 900}}
=============================================================================
