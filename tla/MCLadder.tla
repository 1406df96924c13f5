------------------------------ MODULE MCLadder ------------------------------
(* A small instance of LadderPlan for TLC: one holding bought at 100       *)
(* dollars, two shapes of chain, and the code's own limits.                *)
EXTENDS LadderPlan

\* A call's value and delta: what it is in the money plus a time value that
\* falls away from the strike, a hyperbola close to Black-Scholes.
\* 800 * sqrt(days / 365)
RootOfDays ==
  [d \in 0..200 |-> CHOOSE r \in 0..800 : /\ r * r <= (640000 * d) \div 365
                                          /\ (r + 1) * (r + 1) > (640000 * d) \div 365]
Width(spot, days, iv) == (((spot * iv) \div 100) * RootOfDays[days]) \div 1000
Hyperbola(spot, strike, days, iv) ==
  LET w == IF days <= 0 THEN 0 ELSE Width(spot, days, iv)
  IN Floor0(spot - strike)
     + (IF w = 0 THEN 0 ELSE (w * w) \div (2 * (2 * Gap(spot, strike) + w)))
HyperbolaDelta(spot, strike, days, iv) ==
  IF days <= 0 THEN (IF spot > strike THEN 100 ELSE 0)
  ELSE 50 + (50 * (spot - strike)) \div (Gap(spot, strike) + Width(spot, days, iv) + 1)

Steady(spot, growth, day) == Max({100, spot + (((spot * growth) \div 100) * day * 10) \div 304})

Weekly == {2 + 7 * n : n \in 0..215}
Monthly == {16 + 7 * ((304375 * n) \div 70000) : n \in 0..49}

-----------------------------------------------------------------------------
Quoted(spot, strike, exp, iv, priced) ==
  LET v == Hyperbola(spot, strike, exp, 40)
  IN [strike |-> strike, exp |-> exp, mid |-> IF priced THEN v ELSE None,
      bid |-> IF priced THEN Floor0(v - 5) ELSE None, ask |-> v + 5, last |-> None, iv |-> iv]
Chain(spot, exps, strikes, iv, priced) ==
  LET n == Len(strikes)
  IN [i \in 1..(n * Len(exps)) |->
        Quoted(IF spot = None THEN 9000 ELSE spot, strikes[1 + ((i - 1) % n)],
               exps[1 + ((i - 1) \div n)], iv, priced)]

Pulled(spot, calls, report) ==
  [spot |-> spot, calls |-> calls, report |-> report,
   dividends |-> {[day |-> 12, amount |-> 40, freq |-> "quarterly", est |-> FALSE]}]

Round == [n \in 1..10 |-> 8000 + 250 * n]
Gappy == <<8500, 9000, 9250, 10000>>
Low == [n \in 1..4 |-> 7500 + 250 * n]
SomePulls ==
  {None, Pulled(9000, <<>>, None), Pulled(None, Chain(None, <<16, 44>>, Round, 40, TRUE), 30)}
  \cup {Pulled(s, Chain(s, exps, Round, iv, TRUE), r) :
          s \in {8300, 9400, 9800, 10300}, r \in {None, 0, 30, 58},
          exps \in {<<9, 16, 30, 44, 72>>, <<16, 44, 79>>}, iv \in {25, 60}}
  \cup {Pulled(8300, Chain(8300, <<9, 16, 37>>, Low, iv, p), 40) : iv \in {None, 30}, p \in BOOLEAN}
  \cup {Pulled(8300, Chain(8300, <<16, 44>>, Gappy, 60, TRUE), None)}

-----------------------------------------------------------------------------
Short(strike, exp, sold) == [strike |-> strike, exp |-> exp, sold |-> sold, expired |-> FALSE]
Holding(shares, price, calls) == [shares |-> shares, cost |-> 10000, price |-> price, calls |-> calls]
SomeHoldings ==
  {Holding(100, 9000, {}), Holding(250, 9000, {Short(8500, 16, 400), Short(9000, 44, 200)}),
   Holding(100, 9000, {Short(9000, 44, None)}), Holding(100, 9000, {Short(10500, 16, 100)}),
   Holding(100, 9000, {[Short(8000, 0, 100) EXCEPT !.expired = TRUE]}),
   Holding(50, 9000, {}), Holding(100, 10400, {})}

Sent == {FormValues(p) : p \in {ForHolding(h) : h \in SomeHoldings} \ {None}}
Adjusted ==
  {[f EXCEPT !.growth = g] : f \in Sent, g \in {None, -2, 4, 9}}
  \cup {[f EXCEPT !.premiums = 700] : f \in Sent}
  \cup {[f EXCEPT !.strike = 9000, !.exp = -3, !.sold = None] : f \in Sent}
Broken ==
  LET f == CHOOSE f \in Sent : TRUE
  IN {[f EXCEPT !.shares = None], [f EXCEPT !.shares = 90], [f EXCEPT !.cost = 0],
      [f EXCEPT !.premiums = -1], [f EXCEPT !.strike = 9000, !.exp = None],
      [f EXCEPT !.growth = 12]}
SomeForms == Adjusted \cup Broken
=============================================================================
