----------------------------- MODULE BondEvents -----------------------------
(***************************************************************************)
(* The bond calendar's arithmetic: what a list of bonds is read as, which  *)
(* bond of the exchange a name stands for, the events of a bond, the       *)
(* calendar of a list, and that calendar shaped to the portfolios shown.   *)
(* Days are integers, months Month days each.  A list's line (an item)     *)
(* has a code (None when it has only a name, Gone once the exchange has    *)
(* dropped the bond), a name, a maturity (or None) and a quantity (or      *)
(* None).  The exchange is a function from its codes to cards:             *)
(*   isin, short, mat, face, listed (in the list of traded bonds),         *)
(*   coupons <<[day, amount, rate]>>, amort <<[day, amount, last]>>,       *)
(*   offers <<[from, until, day, price]>>                                  *)
(***************************************************************************)
EXTENDS Optional

CONSTANTS Gone,      \* NOT_FOUND
          Month,     \* days of a month
          Match,     \* Match[name][secid]: series matched, share of the words found
          SeriesOf   \* the names that name a series

ASSUME MonthAssumption == Month \in Nat \ {0}

Coded(it) == it.code \notin {None, Gone}

\* item_key
ItemKey(it) == IF Coded(it) THEN it.code ELSE it.name

-----------------------------------------------------------------------------
(* Reading a list *)

AddQty(a, b) == IF b = None THEN a ELSE IF a = None THEN b ELSE a + b

\* parse_rows: each bond once, the quantities of its lines added up
ParseRows(rows) ==
  FoldLeft(LAMBDA kept, row :
             IF \E i \in DOMAIN kept : ItemKey(kept[i]) = ItemKey(row)
             THEN [i \in DOMAIN kept |->
                     IF ItemKey(kept[i]) = ItemKey(row)
                     THEN [kept[i] EXCEPT !.qty = AddQty(@, row.qty)] ELSE kept[i]]
             ELSE Append(kept, row), <<>>,
           SelectSeq(rows, LAMBDA row : row.code # None \/ row.name # None))

\* read_portfolio: what is sold out is left out
ReadPortfolio(rows) ==
  SelectSeq(ParseRows(rows), LAMBDA it : it.qty = None \/ it.qty > 0)

\* reuse_resolved: codes the bonds held before have, under the same name and
\* maturity; of two, the later one's
ReuseResolved(items, previous) ==
  [i \in DOMAIN items |->
     LET known == SelectSeq(previous, LAMBDA p :
                    /\ p.code # None /\ p.name # None
                    /\ p.name = items[i].name /\ p.mat = items[i].mat) IN
     IF items[i].code = None /\ known # <<>>
     THEN [items[i] EXCEPT !.code = Last(known).code] ELSE items[i]]

-----------------------------------------------------------------------------
(* Which bond a name stands for *)

BondKey(moex, s) == IF moex[s].isin = None THEN s ELSE moex[s].isin

\* pick: the best of the candidates a name may stand for, None when two are as good
Pick(moex, cands, name, needSeries, mat) ==
  LET fits(s) == LET m == Match[name][s] IN
        /\ needSeries => m.series
        /\ m.words > 0 \/ (m.series /\ ~needSeries)
        /\ mat = None \/ moex[s].mat = None \/ moex[s].mat = mat
      better(s, r) == LET m == Match[name][s]  o == Match[name][r] IN
        IF m.series = o.series THEN m.words > o.words ELSE m.series
      best == {s \in cands : fits(s) /\ \A r \in cands \ {s} : fits(r) => better(s, r)}
  IN IF best = {} THEN None ELSE CHOOSE s \in best : TRUE

\* find: among the bonds of its maturity, then by its series among the traded,
\* then among all the exchange's search returns
FindByName(moex, it) ==
  LET traded == {s \in DOMAIN moex : moex[s].listed}
      series == it.name \in SeriesOf
      atDate == IF it.mat = None THEN None
                ELSE Pick(moex, {s \in traded : moex[s].mat = it.mat}, it.name, FALSE, None)
      bySeries == IF series THEN Pick(moex, traded, it.name, TRUE, it.mat) ELSE None
      anywhere == IF series THEN Pick(moex, DOMAIN moex, it.name, TRUE, None) ELSE None
  IN IF atDate # None THEN atDate ELSE IF bySeries # None THEN bySeries ELSE anywhere

\* resolve_names, of one item: found, gone for good, or a problem
Resolved(moex, it, today) ==
  LET found == FindByName(moex, it) IN
  IF found # None THEN [it EXCEPT !.code = BondKey(moex, found)]
  ELSE IF it.mat # None /\ it.mat < today THEN [it EXCEPT !.code = Gone]
  ELSE it

MaturedBefore(it, from) == from # None /\ it.mat # None /\ it.mat < from

\* A list that cannot be had (listDown) leaves every name a problem.
ResolveNames(moex, items, today, skipBefore, listDown) ==
  [i \in DOMAIN items |->
     IF items[i].code # None \/ items[i].name = None \/ MaturedBefore(items[i], skipBefore)
        \/ listDown
     THEN items[i] ELSE Resolved(moex, items[i], today)]

-----------------------------------------------------------------------------
(* The events of a bond *)

SecOf(moex, code) ==
  IF code \in DOMAIN moex THEN code
  ELSE LET of == {s \in DOMAIN moex : moex[s].isin = code} IN
       IF of = {} THEN None ELSE CHOOSE s \in of : TRUE

TotalOf(amount, qty) == IF amount = None \/ ~Given(qty) THEN None ELSE amount * qty
Amount(x) == IF Given(x) THEN x ELSE None

Event(moex, s, it, day, kind, amount, rate, remind) ==
  [date |-> day, kind |-> kind, name |-> IF it.name = None THEN moex[s].short ELSE it.name,
   secid |-> s, isin |-> moex[s].isin, amount |-> amount, rate |-> rate, qty |-> it.qty,
   total |-> TotalOf(amount, it.qty), remind |-> remind]

Coupons(moex, s, it) ==
  LET cs == moex[s].coupons IN
  [i \in DOMAIN cs |->
     Event(moex, s, it, cs[i].day, "coupon", Amount(cs[i].amount), Amount(cs[i].rate), None)]

\* The last payment of principal is the redemption; a bond without any is
\* redeemed at its maturity, at its face value
Principal(moex, s, it) ==
  LET card == moex[s]
      sorted == SortSeq(SelectSeq(card.amort, LAMBDA a : a.day # None),
                        LAMBDA a, b : a.day < b.day)
      final(i) == i = Len(sorted) \/ sorted[i].day = card.mat \/ sorted[i].last IN
  IF sorted # <<>>
  THEN [i \in DOMAIN sorted |->
          Event(moex, s, it, sorted[i].day, IF final(i) THEN "redemption" ELSE "amortization",
                Amount(sorted[i].amount), None, None)]
  ELSE IF card.mat = None THEN <<>>
  ELSE <<Event(moex, s, it, card.mat, "redemption", card.face, None, None)>>

\* An offer: the days applications open and close (or the one day there is), and
\* the buyback, with an early reminder while the application days are not known
Offer(moex, s, it, o) ==
  LET one == IF o.from = None THEN o.until ELSE o.from
      window == o.from # None /\ o.until # None /\ o.from # o.until
      amount == IF Given(o.price) /\ Given(moex[s].face) THEN (o.price * moex[s].face) \div 100
                ELSE None
      apply == IF window
               THEN <<Event(moex, s, it, o.from, "opens", None, None, None),
                      Event(moex, s, it, o.until, "last day", None, None, "window")>>
               ELSE IF one # None
               THEN <<Event(moex, s, it, one, "offer day", None, None, "window")>>
               ELSE <<>>
      remind == IF one = None THEN "no window" ELSE None
  IN apply \o (IF o.day = None THEN <<>>
               ELSE <<Event(moex, s, it, o.day, "buyback", amount, None, remind)>>)

Offers(moex, s, it) ==
  FoldLeft(LAMBDA es, o : es \o Offer(moex, s, it, o), <<>>, moex[s].offers)

\* events_for: None when the code is unknown or is another bond's
EventsFor(moex, it) ==
  LET s == SecOf(moex, it.code) IN
  IF s = None \/ (it.mat # None /\ moex[s].mat # None /\ moex[s].mat # it.mat) THEN None
  ELSE Coupons(moex, s, it) \o Principal(moex, s, it) \o Offers(moex, s, it)
=============================================================================
