-------------------------- MODULE FundamentalRank --------------------------
(***************************************************************************)
(* The funnel of a screen before and after the chains: the gates, the peer *)
(* percentile and the absolute strength of core/fundamentals.py, the cut   *)
(* to the names worth a chain of core/pipeline/rate_fundamentals.py, and   *)
(* the order of the rows of core/pipeline/rank.py.                         *)
(*                                                                         *)
(* A metric is an integer in hundredths, or None; scores, percentiles and  *)
(* yields are per mille, rounded down.  A name is a record with sector,    *)
(* metrics (a record, or None), bulk (the cheap metrics, or None), report  *)
(* (the day it reports, or NoDate) and cap (its market capitalisation).    *)
(***************************************************************************)
EXTENDS Optional, EarningsGuard

CONSTANTS
  Weights,           \* factor_weights: a percentage for each factor
  MaxLeverage, MinMetricsPresent,
  TopNames, PrerankKeep, UniverseLimit, MaxPerSector, MinStrength,
  MinBucket,         \* _MIN_BUCKET
  MinRated,          \* _MIN_RATED_FOR_MEDIAN
  YieldGood, YieldSatisfactory,
  MinScore

ASSUME RatingAssumption ==
  MinRated \in Nat \ {0} /\ YieldGood \in Int /\ YieldSatisfactory \in Int

-----------------------------------------------------------------------------
(* core/fundamentals.py *)

\* The metrics of each factor, with the way that is good and the bars of a
\* stalwart.  Valuation is ranked over the universe, the others by sector.
Factors ==
  [valuation      |-> {<<"pe", "low", 1000, 2000>>, <<"ps", "low", 100, 200>>,
                       <<"pb", "low", 100, 500>>, <<"peg", "low", 100, 300>>,
                       <<"dcf_gap", "low", 100, 200>>},
   efficiency     |-> {<<"roe", "high", 20, 10>>, <<"roa", "high", 10, 5>>,
                       <<"ros", "high", 10, 5>>, <<"roi", "high", 20, 10>>},
   sustainability |-> {<<"debt_to_equity", "low", 100, 200>>,
                       <<"net_debt_to_ebitda", "low", 100, 200>>,
                       <<"current_ratio", "high", 150, 100>>,
                       <<"quick_ratio", "high", 100, 50>>, <<"cash_ratio", "high", 50, 20>>}]

CoreMetrics == {"pe", "ps", "pb", "roe", "roa", "ros", "debt_to_equity", "current_ratio"}

NotAbove(x, bound) == IF x = None THEN FALSE ELSE x <= bound
Positive(x) == IF x = None THEN FALSE ELSE x > 0

\* A ratio whose sign makes it meaningless is not there.
Sanitized(m) ==
  LET loss == NotAbove(m.eps, 0)
      noEquity == NotAbove(m.total_equity, 0)
      Unless(bad, x) == IF bad THEN None ELSE x
  IN [m EXCEPT !.pe = Unless(loss \/ ~Positive(@), @),
               !.ps = Unless(~Positive(@), @),
               !.pb = Unless(noEquity \/ ~Positive(@), @),
               !.peg = Unless(loss \/ ~Positive(@), @),
               !.debt_to_equity = Unless(noEquity, @),
               !.net_debt_to_ebitda = Unless(NotAbove(m.ebitda, 0), @)]
     @@ [dcf_gap |-> IF m.price # None /\ Positive(m.dcf) THEN (100 * m.price) \div m.dcf ELSE None]

GateReasons(m) ==
  IF m = None THEN {"no_metrics"}
  ELSE {r \in {"negative_equity", "loss_maker", "negative_roe", "negative_fcf",
               "excess_leverage", "insufficient_data"} :
          CASE r = "negative_equity" -> NotAbove(m.total_equity, 0)
            [] r = "loss_maker"      -> NotAbove(m.eps, 0) \/ NotAbove(m.ros, -1)
            [] r = "negative_roe"    -> NotAbove(m.roe, -1)
            [] r = "negative_fcf"    -> NotAbove(m.fcf_yield, 0)
            [] r = "excess_leverage" -> /\ m.net_debt_to_ebitda # None /\ Positive(m.ebitda)
                                        /\ ~NotAbove(m.net_debt_to_ebitda, MaxLeverage)
            [] r = "insufficient_data" ->
                 Cardinality({k \in CoreMetrics : m[k] # None}) < MinMetricsPresent}

BarPoints(x, bar) ==
  LET Clears(level) == IF bar[2] = "low" THEN x < level ELSE x > level
  IN IF Clears(bar[3]) THEN 1000 ELSE IF Clears(bar[4]) THEN 500 ELSE 0

Blended(score) ==
  LET fs == DOMAIN score
      weight == Total([f \in fs |-> Weights[f]])
  IN Total([f \in fs |-> Weights[f] * score[f]]) \div (IF weight = 0 THEN 1 ELSE weight)

\* The absolute strength: a factor without a metric is left out.
ScoreStrength(m) ==
  LET san == Sanitized(m)
      present == [f \in DOMAIN Factors |-> {b \in Factors[f] : san[b[1]] # None}]
      rated == {f \in DOMAIN Factors : present[f] # {}}
  IN IF m = None THEN None
     ELSE IF rated = {} THEN None
     ELSE Blended([f \in rated |->
                     Total([b \in present[f] |-> BarPoints(san[b[1]], b)]) \div Cardinality(present[f])])

\* The percentile of each of some values; of equal ones, the middle.
OrientedPct(values, way) ==
  LET present == {i \in DOMAIN values : values[i] # None}
      Pct(i) == (500 * (2 * Cardinality({j \in present : values[j] < values[i]})
                        + Cardinality({j \in present : values[j] = values[i]})))
                \div Cardinality(present)
  IN [i \in DOMAIN values |-> IF i \notin present THEN None
                              ELSE IF way = "low" THEN 1000 - Pct(i) ELSE Pct(i)]

\* Within the sector; over the universe where it has fewer than MinBucket.
SectorPct(values, sectors, way) ==
  LET peers(i) == {j \in DOMAIN sectors : sectors[j] = sectors[i]}
      all == OrientedPct(values, way)
  IN [i \in DOMAIN values |->
        IF Cardinality(peers(i)) < MinBucket THEN all[i]
        ELSE OrientedPct([j \in peers(i) |-> values[j]], way)[i]]

\* Each name with its percentile and its strength, best percentile first.
RankByFundamentals(names) ==
  LET sectors == [i \in DOMAIN names |-> names[i].sector]
      san == [i \in DOMAIN names |-> Sanitized(names[i].metrics)]
      pct == [f \in DOMAIN Factors |-> [b \in Factors[f] |->
               LET raw == [i \in DOMAIN names |-> san[i][b[1]]]
               IN IF f = "valuation" THEN OrientedPct(raw, b[2]) ELSE SectorPct(raw, sectors, b[2])]]
      Neutral(x) == IF x = None THEN 500 ELSE x
      Factor(f, i) == Total([b \in Factors[f] |-> Neutral(pct[f][b][i])]) \div Cardinality(Factors[f])
      scored == [i \in DOMAIN names |->
                   [percentile |-> Blended([f \in DOMAIN Factors |-> Factor(f, i)]),
                    strength |-> ScoreStrength(names[i].metrics)] @@ names[i]]
  IN BestFirst(scored, LAMBDA n : n.percentile)

-----------------------------------------------------------------------------
(* core/pipeline/rate_fundamentals.py *)

CoverageReasons == {"insufficient_data", "no_metrics"}

CapPerSector(names) ==
  IF MaxPerSector = None THEN names
  ELSE LET Before(i) == {j \in 1..(i - 1) : names[j].sector = names[i].sector}
       IN FoldLeftDomain(LAMBDA acc, i : IF Cardinality(Before(i)) < MaxPerSector
                                         THEN Append(acc, names[i]) ELSE acc, <<>>, names)

\* Gates, rank, earnings, floor, sector cap, and the first TopNames.
SelectTop(names, g, minDte) ==
  LET gated == Those(names, LAMBDA n : GateReasons(n.metrics) = {})
      clean == Those(RankByFundamentals(gated),
                     LAMBDA n : ~BlocksEveryExpiry(g, n.symbol, minDte))
      Strong(n) == MinStrength = None \/ (IF n.strength = None THEN 0 ELSE n.strength) >= MinStrength
  IN Take(CapPerSector(Those(clean, Strong)), TopNames)

\* Variant: the cut to the deep fetch is made before the gates.
PrerankUngated(universe) ==
  Those(Take(RankByFundamentals(Those(universe, LAMBDA n : n.metrics # None)),
             IF TopNames = None THEN None ELSE Max({PrerankKeep, TopNames})),
        LAMBDA n : GateReasons(n.metrics) \subseteq CoverageReasons)

\* The names worth a deep fetch, by the cheap metrics: those the gates
\* already refuse take none of the places.
Prerank(universe) ==
  Take(RankByFundamentals(Those(universe, LAMBDA n : n.metrics # None
                                                     /\ GateReasons(n.metrics) \subseteq CoverageReasons)),
       IF TopNames = None THEN None ELSE Max({PrerankKeep, TopNames}))

\* Without the bulk endpoints, the largest.
RateAndRank(universe, bulkWorks, g, minDte) ==
  LET cheap == [i \in DOMAIN universe |-> [universe[i] EXCEPT !.metrics = universe[i].bulk]]
      keep == IF bulkWorks THEN Prerank(cheap)
              ELSE Take(BestFirst(universe, LAMBDA n : n.cap), UniverseLimit)
      deep == [i \in DOMAIN keep |-> [keep[i] EXCEPT !.metrics = IF keep[i].deep # None THEN keep[i].deep ELSE @]]
  IN SelectTop(deep, g, minDte)

-----------------------------------------------------------------------------
(* core/pipeline/rank.py *)

YieldRating(y) ==
  IF y = None \/ ~Positive(y) THEN 0
  ELSE IF y >= YieldGood THEN 1000
  ELSE IF y >= YieldSatisfactory THEN
         500 + (500 * (y - YieldSatisfactory)) \div (YieldGood - YieldSatisfactory)
  ELSE (500 * y) \div YieldSatisfactory

\* The geometric mean of the ratings, at the weight of a half, by its square.
Blend(strength, rating) ==
  (IF strength = None THEN rating ELSE strength) * rating

\* The middle of the rated field, if there are enough to speak of one.
FieldMedian(strengths) ==
  LET s == BestFirst(strengths, LAMBDA x : -x)
      mid == Len(s) \div 2
  IN IF Len(s) < MinRated THEN None
     ELSE IF Len(s) % 2 = 1 THEN s[mid + 1] ELSE (s[mid] + s[mid + 1]) \div 2

\* Variant: a name without a rating is scored by its yield alone.
StandInNone(rows) == None

\* What stands in for the strength of a row that cannot be rated.
StandIn(rows) ==
  FieldMedian(Those([i \in DOMAIN rows |-> rows[i].strength], LAMBDA s : s # None))

Rank(rows) ==
  LET Strength(r) == IF r.strength # None THEN r.strength ELSE StandIn(rows)
      scored == [i \in DOMAIN rows |->
                   With(rows[i], "score", Blend(Strength(rows[i]), YieldRating(rows[i].yield)))]
      kept == Those(scored, LAMBDA r : MinScore = None \/ r.score >= MinScore * MinScore)
  IN BestFirst(kept, LAMBDA r : r.score)
=============================================================================
