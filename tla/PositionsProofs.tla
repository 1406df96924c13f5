-------------------------- MODULE PositionsProofs --------------------------
(***************************************************************************)
(* Theorems about PortfolioPage, for any contracts, tabs, markets, sizes   *)
(* and times to live, and about Panels, for any contracts, markets, boards,*)
(* positions, universes and tables.                                        *)
(*                                                                         *)
(* SizesCorrect rests on SizesKept: every verdict, on a row or in the      *)
(* cache, is about the size it is kept with, and the key it is found by    *)
(* holds that size.  RefreshCorrect follows one request that no other      *)
(* overlaps (IsAlone): it has dropped the balances, so the account read it *)
(* comes to is its own and nothing is yet said on its rows; it has cleared *)
(* the verdicts, so it finds none; and what it then shows it has judged.   *)
(* One that is overlapped gets no such promise: another may have put the   *)
(* balances or a verdict back.                                             *)
(*                                                                         *)
(* OpinionsCorrect rests on AheadIs: a dividend in a contract's life is    *)
(* ahead of it, so the note and the rule of a row see the same first one.  *)
(* SearchCorrect rests on PlacesTaken: each of a finite set in order has a *)
(* place of its own.  So the first n are n, and what is left out comes     *)
(* after all of them (ChosenAre).  A sequence in order is the set by its   *)
(* places (SortedIs), which the three theorems after it rest on: what      *)
(* passes a test passes it again (SamePassers, for FunnelCorrect); the     *)
(* middle of a list has no more than half of it on either side (MedianIs,  *)
(* for RankingCorrect); and the rows of the ways out are those of the      *)
(* rolls and the position's own (RankedAre, for RollsCorrect).             *)
(***************************************************************************)
EXTENDS PortfolioPage, Panels, FiniteSetTheorems, WellFoundedInduction, TLAPS

\* What a row, a verdict and a page are made of.
Spots == {m.spot : m \in Market} \cup {m.board : m \in Market}
Cashes == {None} \cup {p * n : p \in Spots \cup {k.strike : k \in Contract}, n \in Sizes}
Verdicts ==
  [action : {"not-applicable", "keep", "swap", "idle"}, spot : Spots, at : Nat, cash : Cashes]
RowSet ==
  [qty : Sizes, spot : Spots, mark : {m.mark : m \in Market}, verdict : Verdicts \cup {None},
   risk : {Row(k, n, m).risk : k \in Contract, n \in Sizes, m \in Market}]
RowsSet == UNION {[held -> RowSet] : held \in SUBSET Contract}
Reads == [at : Nat, rows : RowsSet]
Kinds == {"page", "refresh", "panel"}
Requests ==
  [phase : {"read", "store", "clear", "lookup", "review", "put", "render"}, kind : Kinds,
   k : Contract \cup {None}, read : Nat, todo : SUBSET Contract, began : Nat,
   alone : BOOLEAN, failed : SUBSET Contract]
Pages ==
  [rows : RowsSet, read : Nat, began : Nat, kind : Kinds, sound : BOOLEAN,
   panel : Verdicts \cup {None}, k : Contract \cup {None}]

\* Every variable keeps its type.
PageTypes ==
  /\ now \in Nat
  /\ DOMAIN broker \subseteq Contract /\ \A k \in DOMAIN broker : broker[k] \in Sizes
  /\ reads \in Seq(Reads)
  /\ balances \in [read : Nat, at : Nat] \cup {None}
  /\ DOMAIN swaps \subseteq Contract \X Sizes
  /\ \A e \in DOMAIN swaps : swaps[e] \in [verdict : Verdicts, at : Nat]
  /\ req \in [Tab -> Requests \cup {Idle}]
  /\ shown \in [Tab -> Pages \cup {None}]

\* The cached balances and the pages are of a read there was.
BalancesThere == balances # None => balances.read \in DOMAIN reads
ShownThere == \A t \in Tab : shown[t] # None => shown[t].read \in DOMAIN reads

\* A request past its read has one, and reviews only what is on it; whoever asks
\* for a panel is shown a page.
RequestThere(t) ==
  req[t] # Idle =>
    /\ req[t].phase # "read" => req[t].read \in DOMAIN reads
    /\ req[t].phase \in {"review", "put"} => req[t].todo \subseteq DOMAIN reads[req[t].read].rows
    /\ req[t].kind = "panel" => shown[t] # None

\* The dollars of a verdict are those of n contracts.
Sized(k, n, v) ==
  Judges(v) => v.cash = (IF k.type = "call" THEN v.spot ELSE k.strike) * n

\* Every verdict there is is about the size it is kept with: on a row, and in the cache.
SizesKept ==
  /\ \A i \in DOMAIN reads : \A k \in DOMAIN reads[i].rows :
       Sized(k, reads[i].rows[k].qty, reads[i].rows[k].verdict)
  /\ \A e \in DOMAIN swaps : Sized(e[1], e[2], swaps[e].verdict)

\* All on the rows was judged since began, and so was the account read.
Since(began, i, rows) ==
  reads[i].at >= began /\ \A k \in DOMAIN rows : rows[k].verdict # None => rows[k].verdict.at >= began

\* A request that was alone still is.  A refresh that is has no balances to find,
\* then a read of its own and no verdict to find.
IsAlone(t) ==
  req[t] # Idle =>
    /\ req[t].began <= now
    /\ req[t].alone =>
         /\ \A u \in Tab \ {t} : req[u] = Idle
         /\ req[t].kind = "refresh" =>
              /\ req[t].phase = "read" => balances = None
              /\ req[t].phase # "read" =>
                   Since(req[t].began, req[t].read, reads[req[t].read].rows)
              /\ req[t].phase = "lookup" => DOMAIN swaps = {}

\* The inductive invariant of the page.
PageInv ==
  /\ PageTypes /\ BalancesThere /\ ShownThere /\ SizesKept
  /\ \A t \in Tab : RequestThere(t) /\ IsAlone(t)
  /\ RightSize /\ RefreshIsNew

-----------------------------------------------------------------------------
(* Rows *)

\* A put's verdict is about its strike, times its contracts, or about nothing.
LEMMA ReviewSays ==
  ASSUME NEW put, NEW same, NEW others, NEW median
  PROVE  /\ Review(put, same, others, median).action \in {"not-applicable", "keep", "swap"}
         /\ Review(put, same, others, median).cash \in {None, put.strike * put.qty}
<1>1. CASE ~InScope(put)
  BY <1>1 DEF Review
<1>2. CASE InScope(put) /\ (IF same # None THEN same.yield ELSE median) = None
  BY <1>2 DEF Review
<1>3. CASE InScope(put) /\ (IF same # None THEN same.yield ELSE median) # None
  BY <1>3 DEF Review
<1> QED
  BY <1>1, <1>2, <1>3

\* A call's is about the stock behind it.
LEMMA CallSays ==
  ASSUME NEW call
  PROVE  /\ ReviewCoveredCall(call).action \in {"not-applicable", "keep", "idle"}
         /\ ReviewCoveredCall(call).cash \in {None, call.spot * call.qty}
BY DEF ReviewCoveredCall

\* A row as it is read: nothing is said of it yet.
LEMMA RowIs ==
  ASSUME NEW k \in Contract, NEW n \in Sizes, NEW m \in Market
  PROVE  Row(k, n, m) \in RowSet /\ Row(k, n, m).qty = n /\ Row(k, n, m).verdict = None
<1>1. Row(k, n, m).risk \in {Row(j, i, o).risk : j \in Contract, i \in Sizes, o \in Market}
  OBVIOUS
<1>2. Row(k, n, m) = [qty |-> n, spot |-> m.spot, mark |-> m.mark, verdict |-> None,
                      risk |-> Row(k, n, m).risk]
  BY DEF Row
<1>3. m.spot \in Spots /\ m.mark \in {o.mark : o \in Market}
  BY DEF Spots
<1> QED
  BY <1>1, <1>2, <1>3 DEF RowSet

\* Judging a row keeps its size, and is about that size, now.
LEMMA JudgedIs ==
  ASSUME NEW k \in Contract, NEW row \in RowSet, NEW m \in Market, NEW same, now \in Nat
  PROVE  /\ Judged(k, row, m, same) \in RowSet /\ Judged(k, row, m, same).qty = row.qty
         /\ Sized(k, row.qty, Judged(k, row, m, same).verdict)
         /\ Judged(k, row, m, same).verdict.at = now
<1> DEFINE settled == k.exp < 1 \/ (row.spot # None /\ row.spot <= k.strike)
           pulled == ~settled /\ ~m.down
           spot == IF row.spot = None /\ pulled THEN m.board ELSE row.spot
           put == [strike |-> k.strike, days |-> k.exp, qty |-> row.qty, spot |-> spot,
                   ask |-> IF pulled THEN m.ask ELSE None]
           call == [strike |-> k.strike, days |-> k.exp, qty |-> row.qty,
                    spot |-> row.spot, price |-> row.mark]
           said == IF k.type = "call" THEN ReviewCoveredCall(call)
                   ELSE Review(put, same, Others, MedianYield)
           seen == IF k.type = "call" THEN row.spot ELSE spot
           new == [action |-> said.action, cash |-> said.cash, spot |-> seen, at |-> now]
<1>1. Judge(k, row, m, same) =
        [row EXCEPT !.spot = seen,
                    !.verdict = [action |-> said.action, cash |-> said.cash, spot |-> seen]]
  BY DEF Judge
<1>2. /\ row.qty \in Sizes /\ row.spot \in Spots
      /\ row = [qty |-> row.qty, spot |-> row.spot, mark |-> row.mark, verdict |-> row.verdict,
                risk |-> row.risk]
  BY DEF RowSet
<1>3. seen \in Spots
  BY <1>2 DEF Spots
<1>4. /\ said.action \in {"not-applicable", "keep", "swap", "idle"}
      /\ k.type = "call" => said.cash \in {None, row.spot * row.qty}
      /\ k.type # "call" => said.cash \in {None, k.strike * row.qty}
  <2>1. CASE k.type = "call"
    <3>1. call.spot = row.spot /\ call.qty = row.qty
      OBVIOUS
    <3> HIDE DEF call
    <3> QED
      BY <2>1, <3>1, CallSays
  <2>2. CASE k.type # "call"
    <3>1. put.strike = k.strike /\ put.qty = row.qty
      OBVIOUS
    <3> HIDE DEF put
    <3> QED
      BY <2>2, <3>1, ReviewSays
  <2> QED
    BY <2>1, <2>2
<1>5. k.type = "call" => seen = row.spot
  OBVIOUS
<1> HIDE DEF said, seen
<1>6. Judged(k, row, m, same) =
        [qty |-> row.qty, spot |-> seen, mark |-> row.mark, verdict |-> new, risk |-> row.risk]
  <2> DEFINE bare == [action |-> said.action, cash |-> said.cash, spot |-> seen]
  <2>1. Judge(k, row, m, same) = [qty |-> row.qty, spot |-> seen, mark |-> row.mark,
                                  verdict |-> bare, risk |-> row.risk]
    <3> HIDE DEF bare, settled
    <3>1. Judge(k, row, m, same) = [row EXCEPT !.spot = seen, !.verdict = bare]
      BY <1>1 DEF bare
    <3> QED
      BY <1>2, <3>1
  <2> HIDE DEF settled
  <2> QED
    BY <2>1 DEF Judged
<1> HIDE DEF settled
<1>7. said.cash \in Cashes
  BY <1>2, <1>4 DEF Cashes
<1>8. new \in Verdicts
  BY <1>3, <1>4, <1>7 DEF Verdicts
<1>9. Sized(k, row.qty, new)
  <2>1. new.cash = said.cash /\ new.spot = seen
    OBVIOUS
  <2> HIDE DEF new
  <2> QED
    BY <1>4, <1>5, <2>1 DEF Sized, Judges
<1>10. new.at = now
  OBVIOUS
<1> HIDE DEF new
<1> QED
  <2>1. Judged(k, row, m, same) \in RowSet
    BY <1>2, <1>3, <1>6, <1>8 DEF RowSet
  <2> QED
    BY <1>6, <1>9, <1>10, <2>1

-----------------------------------------------------------------------------
(* What a step leaves as it was *)

\* The reads there are stay, on the positions they are of.
ReadsKeep ==
  /\ DOMAIN reads \subseteq DOMAIN reads'
  /\ \A j \in DOMAIN reads : reads'[j].at = reads[j].at /\ DOMAIN reads'[j].rows = DOMAIN reads[j].rows

\* Writing on the rows of one read changes nothing else of any.
LEMMA RowsChange ==
  ASSUME PageTypes, NEW i \in DOMAIN reads, NEW rows \in RowsSet,
         reads' = [reads EXCEPT ![i].rows = rows], DOMAIN rows = DOMAIN reads[i].rows
  PROVE  /\ reads' \in Seq(Reads) /\ ReadsKeep /\ DOMAIN reads' = DOMAIN reads
         /\ reads'[i].rows = rows
         /\ \A j \in DOMAIN reads : j # i => reads'[j] = reads[j]
<1>1. reads \in Seq(Reads) /\ DOMAIN reads = 1 .. Len(reads) /\ Len(reads) \in Nat
  BY DEF PageTypes
<1>2. reads[i] \in Reads
  BY <1>1
<1>21. reads[i] = [at |-> reads[i].at, rows |-> reads[i].rows] /\ reads[i].at \in Nat
  BY <1>2 DEF Reads
<1> DEFINE new == [at |-> reads[i].at, rows |-> rows]
<1>3. reads' = [reads EXCEPT ![i] = new]
  <2>1. [reads[i] EXCEPT !.rows = rows] = new
    BY <1>21
  <2>2. reads' = [reads EXCEPT ![i] = [reads[i] EXCEPT !.rows = rows]]
    BY Zenon
  <2> QED
    BY <2>1, <2>2
<1>4. new \in Reads
  BY <1>21 DEF Reads
<1>5. new.at = reads[i].at /\ new.rows = rows
  OBVIOUS
<1> HIDE DEF new
<1>6. reads' \in Seq(Reads) /\ DOMAIN reads' = DOMAIN reads /\ reads'[i] = new
  BY <1>1, <1>3, <1>4
<1>7. \A j \in DOMAIN reads : j # i => reads'[j] = reads[j]
  BY <1>1, <1>3
<1> QED
  BY <1>5, <1>6, <1>7 DEF ReadsKeep

\* The pages shown stay right.
LEMMA PagesStay ==
  ASSUME PageInv, ReadsKeep, shown' = shown
  PROVE  ShownThere' /\ RightSize' /\ RefreshIsNew'
<1>1. ShownThere'
  BY DEF PageInv, ShownThere, ReadsKeep
<1>2. RightSize'
  BY DEF PageInv, RightSize
<1>3. RefreshIsNew'
  <2> SUFFICES ASSUME NEW t \in Tab, shown[t] # None, shown[t].kind = "refresh", shown[t].sound
               PROVE  /\ reads'[shown[t].read].at >= shown[t].began
                      /\ \A k \in DOMAIN shown[t].rows :
                           shown[t].rows[k].verdict # None =>
                             shown[t].rows[k].verdict.at >= shown[t].began
    BY DEF RefreshIsNew
  <2>1. reads'[shown[t].read].at = reads[shown[t].read].at
    BY DEF PageInv, ShownThere, ReadsKeep
  <2> QED
    BY <2>1 DEF PageInv, RefreshIsNew
<1> QED
  BY <1>1, <1>2, <1>3

\* While one request moves the others stand, and none of them is alone.
LEMMA OthersStand ==
  ASSUME PageInv, ReadsKeep, NEW t \in Tab, req[t] # Idle, now' = now,
         \A u \in Tab \ {t} : req'[u] = req[u] /\ shown'[u] = shown[u]
  PROVE  \A u \in Tab \ {t} : RequestThere(u)' /\ IsAlone(u)'
<1> SUFFICES ASSUME NEW u \in Tab \ {t}
             PROVE  RequestThere(u)' /\ IsAlone(u)'
  OBVIOUS
<1>1. req'[u] = req[u] /\ shown'[u] = shown[u] /\ RequestThere(u) /\ IsAlone(u)
  BY DEF PageInv
<1>2. RequestThere(u)'
  BY <1>1 DEF RequestThere, ReadsKeep
<1>3. req[u] # Idle => ~req[u].alone
  BY <1>1 DEF IsAlone
<1>4. IsAlone(u)'
  BY <1>1, <1>3 DEF IsAlone
<1> QED
  BY <1>2, <1>4

\* A request under way has the fields of one.
LEMMA UnderWay ==
  ASSUME PageInv, NEW t \in Tab, req[t].phase # "idle"
  PROVE  /\ req[t] # Idle /\ req[t] \in Requests
         /\ req[t] = [phase |-> req[t].phase, kind |-> req[t].kind, k |-> req[t].k,
                      read |-> req[t].read, todo |-> req[t].todo, began |-> req[t].began,
                      alone |-> req[t].alone, failed |-> req[t].failed]
<1>1. req[t] # Idle
  BY DEF Idle
<1>2. req[t] \in Requests
  BY <1>1 DEF PageInv, PageTypes
<1> QED
  BY <1>1, <1>2 DEF Requests

-----------------------------------------------------------------------------
(* The steps *)

\* Nothing was asked, and the broker holds what is held at the start.
LEMMA InitPage == Init => PageInv
<1> SUFFICES ASSUME Init
             PROVE  PageInv
  OBVIOUS
<1> USE DEF Init
<1>1. PageTypes
  BY StartAssumption DEF PageTypes
<1>2. BalancesThere /\ ShownThere /\ SizesKept
  BY DEF BalancesThere, ShownThere, SizesKept
<1>3. \A t \in Tab : RequestThere(t) /\ IsAlone(t)
  BY DEF RequestThere, IsAlone
<1>4. RightSize /\ RefreshIsNew
  BY DEF RightSize, RefreshIsNew
<1> QED
  BY <1>1, <1>2, <1>3, <1>4 DEF PageInv

\* A request that begins takes from all others that they are alone.
LEMMA Begins ==
  ASSUME PageInv, NEW t \in Tab, NEW kind \in Kinds, NEW k \in Contract \cup {None},
         Begin(t, kind, k), UNCHANGED <<now, broker, reads, swaps, shown, trades>>,
         balances' \in {balances, None}, kind = "refresh" => balances' = None,
         kind = "panel" => shown[t] # None
  PROVE  PageInv'
<1> DEFINE others == {u \in Tab \ {t} : req[u] # Idle}
           mine == [phase |-> "read", kind |-> kind, k |-> k, read |-> 0, todo |-> {},
                    began |-> now, alone |-> others = {}, failed |-> {}]
<1> USE DEF PageInv
<1>1. /\ req' = [u \in Tab |-> IF u = t THEN mine
                               ELSE IF u \in others THEN [req[u] EXCEPT !.alone = FALSE]
                               ELSE req[u]]
      /\ now' = now /\ broker' = broker /\ reads' = reads /\ swaps' = swaps /\ shown' = shown
  BY DEF Begin
<1>2. mine \in Requests /\ mine # Idle /\ mine.phase = "read" /\ mine.kind = kind
      /\ mine.began = now /\ mine.alone = (others = {})
  BY DEF Requests, Idle, PageTypes
<1> HIDE DEF mine
<1>3. ASSUME NEW u \in others
      PROVE  /\ req'[u] \in Requests /\ req'[u] # Idle /\ ~req'[u].alone
             /\ req'[u].phase = req[u].phase /\ req'[u].read = req[u].read
             /\ req'[u].todo = req[u].todo /\ req'[u].kind = req[u].kind
             /\ req'[u].began = req[u].began
  <2>1. req[u] \in Requests
    BY DEF PageTypes
  <2>2. req'[u] = [req[u] EXCEPT !.alone = FALSE]
    BY <1>1
  <2>3. req'[u] \in Requests
    BY <2>1, <2>2 DEF Requests
  <2>4. /\ ~req'[u].alone /\ req'[u].phase = req[u].phase /\ req'[u].read = req[u].read
        /\ req'[u].todo = req[u].todo /\ req'[u].kind = req[u].kind
        /\ req'[u].began = req[u].began
    BY <2>1, <2>2 DEF Requests
  <2>5. req'[u].phase # "idle"
    BY <2>3 DEF Requests
  <2> QED
    BY <2>3, <2>4, <2>5 DEF Idle
<1>4. req'[t] = mine /\ \A u \in Tab \ {t} : u \notin others => req'[u] = Idle
  BY <1>1
<1>5. PageTypes'
  <2>1. req' \in [Tab -> Requests \cup {Idle}]
    <3>1. \A u \in Tab : req'[u] \in Requests \cup {Idle}
      BY <1>2, <1>3, <1>4
    <3> QED
      BY <1>1, <3>1
  <2> QED
    BY <1>1, <2>1 DEF PageTypes
<1>6. BalancesThere' /\ SizesKept'
  BY <1>1 DEF BalancesThere, SizesKept
<1>7. ShownThere' /\ RightSize' /\ RefreshIsNew'
  BY <1>1, PagesStay DEF ReadsKeep
<1>8. RequestThere(t)' /\ IsAlone(t)'
  <2>1. RequestThere(t)'
    BY <1>1, <1>2, <1>4 DEF RequestThere
  <2>2. mine.alone => \A u \in Tab \ {t} : req'[u] = Idle
    BY <1>2, <1>4
  <2>3. mine.began <= now
    BY <1>2 DEF PageTypes
  <2> QED
    BY <1>1, <1>2, <1>4, <2>1, <2>2, <2>3 DEF IsAlone
<1>9. ASSUME NEW u \in Tab \ {t}
      PROVE  RequestThere(u)' /\ IsAlone(u)'
  <2>1. CASE u \in others
    BY <1>1, <1>3, <2>1 DEF RequestThere, IsAlone
  <2>2. CASE u \notin others
    BY <1>4, <2>2 DEF RequestThere, IsAlone
  <2> QED
    BY <2>1, <2>2
<1> QED
  BY <1>5, <1>6, <1>7, <1>8, <1>9

\* A request that goes on to the next thing: it is right if it has its read, and
\* if, being a refresh that is alone, what it has is new.
LEMMA Moves ==
  ASSUME PageInv, NEW t \in Tab, req[t] # Idle, NEW new \in Requests,
         req' = [req EXCEPT ![t] = new], now' = now, shown' = shown, ReadsKeep,
         new.alone = req[t].alone, new.began = req[t].began, new.kind = req[t].kind,
         new.phase # "read", new.read \in DOMAIN reads',
         new.phase \in {"review", "put"} => new.todo \subseteq DOMAIN reads'[new.read].rows,
         new.alone /\ new.kind = "refresh" =>
           /\ reads'[new.read].at >= new.began
           /\ \A k \in DOMAIN reads'[new.read].rows :
                reads'[new.read].rows[k].verdict # None =>
                  reads'[new.read].rows[k].verdict.at >= new.began
           /\ new.phase = "lookup" => DOMAIN swaps' = {},
         req' \in [Tab -> Requests \cup {Idle}] => PageTypes', BalancesThere', SizesKept'
  PROVE  PageInv'
<1> USE DEF PageInv
<1>1. req'[t] = new /\ \A u \in Tab \ {t} : req'[u] = req[u] /\ shown'[u] = shown[u]
  BY DEF PageTypes
<1>2. req' \in [Tab -> Requests \cup {Idle}]
  BY DEF PageTypes
<1>3. \A u \in Tab \ {t} : RequestThere(u)' /\ IsAlone(u)'
  BY <1>1, OthersStand
<1>4. ShownThere' /\ RightSize' /\ RefreshIsNew'
  BY PagesStay
<1>5. RequestThere(t) /\ IsAlone(t)
  OBVIOUS
<1>6. RequestThere(t)'
  BY <1>1, <1>5 DEF RequestThere
<1>7. new.alone => \A u \in Tab \ {t} : req'[u] = Idle
  BY <1>1, <1>5 DEF IsAlone
<1>8. new.began <= now
  BY <1>5 DEF IsAlone
<1>9. IsAlone(t)'
  BY <1>1, <1>7, <1>8 DEF IsAlone, Since
<1> QED
  BY <1>2, <1>3, <1>4, <1>6, <1>9

\* The balances are found in the cache: a refresh that is alone finds none.
LEMMA ReadCachedStep ==
  ASSUME PageInv, NEW t \in Tab, ReadCached(t)
  PROVE  PageInv'
<1> DEFINE new == [req[t] EXCEPT !.phase = AfterRead(t), !.read = balances.read]
<1> USE DEF PageInv
<1>1. /\ req[t].phase = "read" /\ balances # None /\ req' = [req EXCEPT ![t] = new]
      /\ UNCHANGED <<now, broker, reads, balances, swaps, shown, asked, trades>>
  BY DEF ReadCached, Fresh
<1>2. req[t] # Idle /\ req[t] \in Requests
  BY <1>1, UnderWay
<1>3. balances \in [read : Nat, at : Nat] /\ balances.read \in DOMAIN reads
  BY <1>1 DEF PageTypes, BalancesThere
<1>4. AfterRead(t) \in {"clear", "lookup"}
  BY DEF AfterRead
<1>5. /\ new \in Requests /\ new.phase = AfterRead(t) /\ new.read = balances.read
      /\ new.alone = req[t].alone /\ new.began = req[t].began /\ new.kind = req[t].kind
  BY <1>2, <1>3, <1>4 DEF Requests
<1> HIDE DEF new
<1>6. ~(new.alone /\ new.kind = "refresh")
  BY <1>1, <1>2, <1>5 DEF IsAlone
<1>7. req' \in [Tab -> Requests \cup {Idle}] => PageTypes'
  BY <1>1 DEF PageTypes
<1>8. BalancesThere' /\ SizesKept' /\ ReadsKeep
  BY <1>1 DEF BalancesThere, SizesKept, ReadsKeep
<1> QED
  BY <1>1, <1>2, <1>3, <1>4, <1>5, <1>6, <1>7, <1>8, Moves

\* The account is read: no verdict is on it yet.
LEMMA ReadBrokerStep ==
  ASSUME PageInv, NEW t \in Tab, ReadBroker(t)
  PROVE  PageInv'
<1> DEFINE n == Len(reads) + 1
           new == [req[t] EXCEPT !.phase = "store", !.read = n]
<1> USE DEF PageInv
<1>1. /\ req[t].phase = "read" /\ req' = [req EXCEPT ![t] = new]
      /\ UNCHANGED <<now, broker, balances, swaps, shown, asked, trades>>
  BY DEF ReadBroker
<1>2. PICK m \in Market :
        reads' = Append(reads, [at |-> now, rows |-> [k \in DOMAIN broker |-> Row(k, broker[k], m)]])
  BY DEF ReadBroker
<1>3. req[t] # Idle /\ req[t] \in Requests
  BY <1>1, UnderWay
<1> DEFINE rows == [k \in DOMAIN broker |-> Row(k, broker[k], m)]
           read == [at |-> now, rows |-> rows]
<1>4. \A k \in DOMAIN rows : rows[k] \in RowSet /\ rows[k].verdict = None
  BY RowIs DEF PageTypes
<1>5. rows \in RowsSet
  <2>1. DOMAIN broker \in SUBSET Contract
    BY DEF PageTypes
  <2>2. rows \in [DOMAIN broker -> RowSet]
    BY <1>4
  <2> HIDE DEF rows
  <2> QED
    BY <2>1, <2>2 DEF RowsSet
<1> HIDE DEF rows
<1>6. read \in Reads /\ read.at = now /\ read.rows = rows /\ now \in Nat
  BY <1>5 DEF Reads, PageTypes
<1>7. reads \in Seq(Reads) /\ Len(reads) \in Nat
  BY DEF PageTypes
<1>8. reads' = Append(reads, read)
  BY <1>2 DEF rows
<1> HIDE DEF read
<1>9. /\ reads' \in Seq(Reads) /\ DOMAIN reads' = 1 .. Len(reads) + 1 /\ DOMAIN reads = 1 .. Len(reads)
      /\ reads'[Len(reads) + 1] = read /\ \A i \in DOMAIN reads : reads'[i] = reads[i]
  BY <1>6, <1>7, <1>8
<1>10. ReadsKeep
  BY <1>7, <1>9 DEF ReadsKeep
<1>11. /\ new \in Requests /\ new.phase = "store" /\ new.read = Len(reads) + 1
       /\ new.alone = req[t].alone /\ new.began = req[t].began /\ new.kind = req[t].kind
  <2>1. n \in Nat
    BY <1>7
  <2> HIDE DEF n
  <2>2. new \in Requests /\ new.phase = "store" /\ new.read = n
        /\ new.alone = req[t].alone /\ new.began = req[t].began /\ new.kind = req[t].kind
    BY <1>3, <2>1 DEF Requests
  <2> QED
    BY <2>2 DEF n
<1> HIDE DEF new
<1>12. new.read \in DOMAIN reads' /\ reads'[new.read] = read
  BY <1>7, <1>9, <1>11
<1>13. read.at >= new.began
  BY <1>3, <1>6, <1>11 DEF IsAlone
<1>14. req' \in [Tab -> Requests \cup {Idle}] => PageTypes'
  BY <1>1, <1>9 DEF PageTypes
<1>15. BalancesThere'
  BY <1>1, <1>10 DEF BalancesThere, ReadsKeep
<1>16. SizesKept'
  <2>1. ASSUME NEW i \in DOMAIN reads', NEW k \in DOMAIN reads'[i].rows
        PROVE  Sized(k, reads'[i].rows[k].qty, reads'[i].rows[k].verdict)
    <3>1. CASE i \in DOMAIN reads
      BY <1>9, <2>1, <3>1 DEF SizesKept
    <3>2. CASE i \notin DOMAIN reads
      <4>1. i = Len(reads) + 1
        BY <1>7, <1>9, <3>2
      <4> QED
        BY <1>4, <1>6, <1>9, <2>1, <4>1 DEF Sized, Judges
    <3> QED
      BY <3>1, <3>2
  <2> QED
    BY <1>1, <2>1 DEF SizesKept, Sized
<1> QED
  BY <1>1, <1>3, <1>4, <1>6, <1>10, <1>11, <1>12, <1>13, <1>14, <1>15, <1>16, Moves

\* The balances are kept for the next request.
LEMMA StoreBalancesStep ==
  ASSUME PageInv, NEW t \in Tab, StoreBalances(t)
  PROVE  PageInv'
<1> DEFINE new == [req[t] EXCEPT !.phase = AfterRead(t)]
<1> USE DEF PageInv
<1>1. /\ req[t].phase = "store" /\ req' = [req EXCEPT ![t] = new]
      /\ balances' = [read |-> req[t].read, at |-> now]
      /\ UNCHANGED <<now, broker, reads, swaps, shown, asked, trades>>
  BY DEF StoreBalances, To
<1>2. req[t] # Idle /\ req[t] \in Requests
  BY <1>1, UnderWay
<1>3. AfterRead(t) \in {"clear", "lookup"} /\ (req[t].kind = "refresh" => AfterRead(t) = "clear")
  BY DEF AfterRead
<1>4. /\ new \in Requests /\ new.phase = AfterRead(t) /\ new.read = req[t].read
      /\ new.alone = req[t].alone /\ new.began = req[t].began /\ new.kind = req[t].kind
  BY <1>2, <1>3 DEF Requests
<1> HIDE DEF new
<1>5. req[t].read \in DOMAIN reads /\ req[t].read \in Nat
  BY <1>1, <1>2 DEF RequestThere, Requests
<1>6. new.alone /\ new.kind = "refresh" => Since(req[t].began, req[t].read, reads[req[t].read].rows)
  BY <1>1, <1>2, <1>4 DEF IsAlone
<1>7. balances'.read = req[t].read /\ balances' \in [read : Nat, at : Nat]
  BY <1>1, <1>5 DEF PageTypes
<1>8. req' \in [Tab -> Requests \cup {Idle}] => PageTypes'
  BY <1>1, <1>7 DEF PageTypes
<1>9. BalancesThere' /\ SizesKept' /\ ReadsKeep
  BY <1>1, <1>5, <1>7 DEF BalancesThere, SizesKept, ReadsKeep
<1> QED
  BY <1>1, <1>2, <1>3, <1>4, <1>5, <1>6, <1>8, <1>9, Moves DEF Since

\* A refresh clears the verdicts, so that it finds none.
LEMMA ClearVerdictsStep ==
  ASSUME PageInv, NEW t \in Tab, ClearVerdicts(t)
  PROVE  PageInv'
<1> DEFINE new == [req[t] EXCEPT !.phase = "lookup"]
<1> USE DEF PageInv
<1>1. /\ req[t].phase = "clear" /\ req' = [req EXCEPT ![t] = new] /\ swaps' = <<>>
      /\ UNCHANGED <<now, broker, reads, balances, shown, asked, trades>>
  BY DEF ClearVerdicts, To
<1>2. req[t] # Idle /\ req[t] \in Requests
  BY <1>1, UnderWay
<1>3. /\ new \in Requests /\ new.phase = "lookup" /\ new.read = req[t].read
      /\ new.alone = req[t].alone /\ new.began = req[t].began /\ new.kind = req[t].kind
  BY <1>2 DEF Requests
<1> HIDE DEF new
<1>4. req[t].read \in DOMAIN reads
  BY <1>1, <1>2 DEF RequestThere
<1>5. new.alone /\ new.kind = "refresh" => Since(req[t].began, req[t].read, reads[req[t].read].rows)
  BY <1>1, <1>2, <1>3 DEF IsAlone
<1>6. DOMAIN swaps' = {}
  BY <1>1
<1>7. req' \in [Tab -> Requests \cup {Idle}] => PageTypes'
  BY <1>1, <1>6 DEF PageTypes
<1>8. BalancesThere' /\ SizesKept' /\ ReadsKeep
  BY <1>1, <1>6 DEF BalancesThere, SizesKept, ReadsKeep
<1> QED
  BY <1>1, <1>2, <1>3, <1>4, <1>5, <1>6, <1>7, <1>8, Moves DEF Since

\* Verdicts are written onto the rows of one read, whoever shares it: the rows stay
\* rows of the same positions, about the same sizes.
LEMMA SizesOnRows ==
  ASSUME PageInv, NEW i \in DOMAIN reads, NEW rows, UNCHANGED swaps,
         DOMAIN rows = DOMAIN reads[i].rows, DOMAIN reads' = DOMAIN reads,
         reads'[i].rows = rows, \A j \in DOMAIN reads : j # i => reads'[j] = reads[j],
         \A k \in DOMAIN rows : Sized(k, rows[k].qty, rows[k].verdict)
  PROVE  SizesKept'
<1>1. ASSUME NEW j \in DOMAIN reads', NEW k \in DOMAIN reads'[j].rows
      PROVE  Sized(k, reads'[j].rows[k].qty, reads'[j].rows[k].verdict)
  <2>1. CASE j = i
    BY <2>1
  <2>2. CASE j # i
    BY <2>2 DEF PageInv, SizesKept
  <2> QED
    BY <2>1, <2>2
<1> QED
  BY <1>1 DEF PageInv, SizesKept, Sized

\* The rows of a read there is.
LEMMA RowsAre ==
  ASSUME PageTypes, NEW i \in DOMAIN reads
  PROVE  /\ reads[i].rows \in RowsSet /\ DOMAIN reads[i].rows \subseteq Contract
         /\ \A k \in DOMAIN reads[i].rows : reads[i].rows[k] \in RowSet
<1>1. reads \in Seq(Reads) /\ DOMAIN reads = 1 .. Len(reads)
  BY DEF PageTypes
<1>2. reads[i] \in Reads
  BY <1>1
<1>3. reads[i].rows \in RowsSet
  BY <1>2 DEF Reads
<1> QED
  BY <1>3 DEF RowsSet

\* A row with a verdict written onto it.
LEMMA Written ==
  ASSUME NEW row \in RowSet, NEW v \in Verdicts
  PROVE  /\ [row EXCEPT !.verdict = v] \in RowSet /\ [row EXCEPT !.verdict = v].qty = row.qty
         /\ [row EXCEPT !.verdict = v].verdict = v
BY DEF RowSet

\* What is cached for a row is written onto it: it is about the row's size, and a
\* refresh that is alone finds nothing.
LEMMA LookupStep ==
  ASSUME PageInv, NEW t \in Tab, Lookup(t)
  PROVE  PageInv'
<1> DEFINE i == req[t].read
           old == reads[i].rows
           hit == {k \in DOMAIN old : Fresh(Cached(Key(k, old[k])), SwapTTL)}
           todo == DOMAIN old \ hit
           rows == [k \in DOMAIN old |->
                      IF k \in hit THEN [old[k] EXCEPT !.verdict = swaps[Key(k, old[k])].verdict]
                      ELSE old[k]]
           new == [req[t] EXCEPT !.todo = todo, !.phase = IF todo = {} THEN "render" ELSE "review"]
<1> USE DEF PageInv
<1>1. /\ req[t].phase = "lookup" /\ req' = [req EXCEPT ![t] = new]
      /\ reads' = [reads EXCEPT ![i].rows = rows]
      /\ UNCHANGED <<now, broker, balances, swaps, shown, asked, trades>>
  BY DEF Lookup
<1>2. req[t] # Idle /\ req[t] \in Requests
  BY <1>1, UnderWay
<1>3. i \in DOMAIN reads
  BY <1>1, <1>2 DEF RequestThere
<1> HIDE DEF i
<1>4. /\ DOMAIN old \subseteq Contract /\ \A k \in DOMAIN old : old[k] \in RowSet
      /\ \A k \in DOMAIN old : Sized(k, old[k].qty, old[k].verdict)
  BY <1>3, RowsAre DEF SizesKept
<1> HIDE DEF old
<1>5. ASSUME NEW k \in hit
      PROVE  /\ <<k, old[k].qty>> \in DOMAIN swaps
             /\ swaps[Key(k, old[k])].verdict \in Verdicts
             /\ Sized(k, old[k].qty, swaps[Key(k, old[k])].verdict)
  <2>1. Cached(Key(k, old[k])) # None
    BY DEF Fresh
  <2>2. Key(k, old[k]) = <<k, old[k].qty>> /\ Key(k, old[k]) \in DOMAIN swaps
    BY <2>1 DEF Cached, Key
  <2> QED
    BY <2>2 DEF PageTypes, SizesKept
<1>6. ASSUME NEW k \in DOMAIN old
      PROVE  /\ rows[k] \in RowSet /\ rows[k].qty = old[k].qty
             /\ Sized(k, rows[k].qty, rows[k].verdict)
             /\ k \notin hit => rows[k] = old[k]
  <2>1. CASE k \in hit
    <3>1. rows[k] = [old[k] EXCEPT !.verdict = swaps[Key(k, old[k])].verdict]
      BY <2>1
    <3>2. old[k] \in RowSet
      BY <1>4
    <3>3. rows[k] \in RowSet /\ rows[k].qty = old[k].qty
          /\ rows[k].verdict = swaps[Key(k, old[k])].verdict
      <4> DEFINE v == swaps[Key(k, old[k])].verdict
      <4>1. v \in Verdicts
        BY <1>5, <2>1
      <4>2. rows[k] = [old[k] EXCEPT !.verdict = v]
        BY <3>1
      <4> HIDE DEF v, rows
      <4>3. rows[k] \in RowSet /\ rows[k].qty = old[k].qty /\ rows[k].verdict = v
        BY <3>2, <4>1, <4>2, Written
      <4> QED
        BY <4>3 DEF v
    <3> HIDE DEF rows, hit
    <3> QED
      BY <1>5, <2>1, <3>3
  <2>2. CASE k \notin hit
    <3>1. rows[k] = old[k]
      BY <2>2
    <3> HIDE DEF rows, hit
    <3> QED
      BY <1>4, <2>2, <3>1
  <2> QED
    BY <2>1, <2>2
<1>7. DOMAIN rows = DOMAIN old /\ rows \in [DOMAIN old -> RowSet]
  <2>1. DOMAIN rows = DOMAIN old
    OBVIOUS
  <2>2. rows \in [DOMAIN old -> RowSet]
    BY <1>6
  <2> QED
    BY <2>1, <2>2
<1>8. todo \subseteq DOMAIN old /\ todo \in SUBSET Contract
  BY <1>4
<1>9. DOMAIN swaps = {} => hit = {}
  BY <1>5
<1> HIDE DEF rows, hit, todo
<1>10. rows \in RowsSet
  BY <1>4, <1>7 DEF RowsSet
<1>11. /\ reads' \in Seq(Reads) /\ ReadsKeep /\ DOMAIN reads' = DOMAIN reads /\ reads'[i].rows = rows
       /\ \A j \in DOMAIN reads : j # i => reads'[j] = reads[j]
  BY <1>1, <1>3, <1>7, <1>10, RowsChange DEF old
<1>12. /\ new \in Requests /\ new.phase \in {"render", "review"} /\ new.read = i /\ new.todo = todo
       /\ new.alone = req[t].alone /\ new.began = req[t].began /\ new.kind = req[t].kind
  BY <1>2, <1>8 DEF Requests, i
<1> HIDE DEF new
<1>13. ASSUME new.alone, new.kind = "refresh"
       PROVE  /\ reads'[i].at >= new.began
              /\ \A k \in DOMAIN rows : rows[k].verdict # None => rows[k].verdict.at >= new.began
  <2>1. Since(req[t].began, i, old) /\ DOMAIN swaps = {}
    BY <1>1, <1>2, <1>12, <1>13 DEF IsAlone, i, old
  <2>2. \A k \in DOMAIN old : rows[k] = old[k]
    BY <1>6, <1>9, <2>1
  <2>3. reads'[i].at = reads[i].at
    BY <1>3, <1>11 DEF ReadsKeep
  <2> QED
    BY <1>7, <1>12, <2>1, <2>2, <2>3 DEF Since
<1>14. SizesKept'
  BY <1>1, <1>3, <1>6, <1>7, <1>11, SizesOnRows DEF old
<1>15. req' \in [Tab -> Requests \cup {Idle}] => PageTypes'
  BY <1>1, <1>11 DEF PageTypes
<1>16. BalancesThere'
  BY <1>1, <1>11 DEF BalancesThere
<1> QED
  BY <1>1, <1>2, <1>3, <1>7, <1>8, <1>11, <1>12, <1>13, <1>14, <1>15, <1>16, Moves

\* Every position that had no verdict is judged now, or its review failed.
LEMMA ReviewAllStep ==
  ASSUME PageInv, NEW t \in Tab, ReviewAll(t)
  PROVE  PageInv'
<1> DEFINE i == req[t].read
           old == reads[i].rows
           todo == req[t].todo
<1> USE DEF PageInv
<1>1. PICK m \in Market, failed \in SUBSET (todo \cap Puts) :
        /\ \E same \in [todo -> UNION {FreshPuts(m, k) : k \in todo}] :
             /\ \A k \in todo : same[k] \in FreshPuts(m, k)
             /\ reads' = [reads EXCEPT ![i].rows =
                         [k \in DOMAIN old |-> IF k \in todo \ failed
                                               THEN Judged(k, old[k], m, same[k]) ELSE old[k]]]
        /\ req' = [req EXCEPT ![t].phase = "put", ![t].failed = failed]
  BY Zenon DEF ReviewAll
<1>2. PICK same \in [todo -> UNION {FreshPuts(m, k) : k \in todo}] :
        reads' = [reads EXCEPT ![i].rows =
                    [k \in DOMAIN old |-> IF k \in todo \ failed
                                          THEN Judged(k, old[k], m, same[k]) ELSE old[k]]]
  BY <1>1
<1> DEFINE rows == [k \in DOMAIN old |-> IF k \in todo \ failed
                                         THEN Judged(k, old[k], m, same[k]) ELSE old[k]]
           new == [req[t] EXCEPT !.phase = "put", !.failed = failed]
<1>3. req[t].phase = "review" /\ UNCHANGED <<now, broker, balances, swaps, shown, asked, trades>>
  BY DEF ReviewAll
<1>4. req[t] # Idle /\ req[t] \in Requests
  BY <1>3, UnderWay
<1>5. i \in DOMAIN reads /\ todo \subseteq DOMAIN old /\ now \in Nat
  BY <1>3, <1>4 DEF RequestThere, PageTypes
<1>6. reads' = [reads EXCEPT ![i].rows = rows] /\ req' = [req EXCEPT ![t] = new]
  BY <1>1, <1>2, <1>4 DEF PageTypes
<1> HIDE DEF i
<1>7. /\ DOMAIN old \subseteq Contract /\ \A k \in DOMAIN old : old[k] \in RowSet
      /\ \A k \in DOMAIN old : Sized(k, old[k].qty, old[k].verdict)
  BY <1>5, RowsAre DEF SizesKept
<1>8. /\ new \in Requests /\ new.phase = "put" /\ new.read = i /\ new.todo = todo
      /\ new.alone = req[t].alone /\ new.began = req[t].began /\ new.kind = req[t].kind
  <2>1. failed \in SUBSET Contract
    BY <1>5, <1>7
  <2> HIDE DEF old
  <2> QED
    BY <1>4, <2>1 DEF Requests, i
<1> HIDE DEF old, todo, new
<1>9. ASSUME NEW k \in DOMAIN old
      PROVE  /\ rows[k] \in RowSet /\ rows[k].qty = old[k].qty
             /\ Sized(k, rows[k].qty, rows[k].verdict)
             /\ rows[k] = old[k] \/ rows[k].verdict.at = now
  <2>1. CASE k \in todo \ failed
    <3>1. rows[k] = Judged(k, old[k], m, same[k])
      BY <2>1
    <3>2. k \in Contract /\ old[k] \in RowSet
      BY <1>7
    <3> HIDE DEF rows
    <3> QED
      BY <1>5, <3>1, <3>2, JudgedIs
  <2>2. CASE k \notin todo \ failed
    <3>1. rows[k] = old[k]
      BY <2>2
    <3> HIDE DEF rows
    <3> QED
      BY <1>7, <3>1
  <2> QED
    BY <2>1, <2>2
<1>10. DOMAIN rows = DOMAIN old /\ rows \in [DOMAIN old -> RowSet]
  <2>1. DOMAIN rows = DOMAIN old
    OBVIOUS
  <2>2. rows \in [DOMAIN old -> RowSet]
    BY <1>9
  <2> QED
    BY <2>1, <2>2
<1> HIDE DEF rows
<1>11. rows \in RowsSet
  BY <1>7, <1>10 DEF RowsSet
<1>12. /\ reads' \in Seq(Reads) /\ ReadsKeep /\ DOMAIN reads' = DOMAIN reads /\ reads'[i].rows = rows
       /\ \A j \in DOMAIN reads : j # i => reads'[j] = reads[j]
  BY <1>5, <1>6, <1>10, <1>11, RowsChange DEF old
<1>13. ASSUME new.alone, new.kind = "refresh"
       PROVE  /\ reads'[i].at >= new.began
              /\ \A k \in DOMAIN rows : rows[k].verdict # None => rows[k].verdict.at >= new.began
  <2>1. Since(req[t].began, i, old) /\ req[t].began <= now /\ req[t].began \in Nat
    BY <1>3, <1>4, <1>8, <1>13 DEF IsAlone, i, old, Requests
  <2>2. reads'[i].at = reads[i].at
    BY <1>5, <1>12 DEF ReadsKeep
  <2>3. ASSUME NEW k \in DOMAIN rows, rows[k].verdict # None
        PROVE  rows[k].verdict.at >= new.began
    <3>1. k \in DOMAIN old
      BY <1>10
    <3>2. CASE rows[k] = old[k]
      BY <1>8, <2>1, <2>3, <3>1, <3>2 DEF Since
    <3>3. CASE rows[k].verdict.at = now
      BY <1>5, <1>8, <2>1, <3>3
    <3> QED
      BY <1>9, <3>1, <3>2, <3>3
  <2> QED
    BY <1>8, <2>1, <2>2, <2>3 DEF Since
<1>14. SizesKept'
  BY <1>3, <1>5, <1>9, <1>10, <1>12, SizesOnRows DEF old
<1>15. req' \in [Tab -> Requests \cup {Idle}] => PageTypes'
  BY <1>3, <1>12 DEF PageTypes
<1>16. BalancesThere'
  BY <1>3, <1>12 DEF BalancesThere
<1>17. todo \subseteq DOMAIN rows
  BY <1>5, <1>10
<1> QED
  BY <1>3, <1>4, <1>5, <1>6, <1>8, <1>12, <1>13, <1>14, <1>15, <1>16, <1>17, Moves

\* What the rows hold is cached, each verdict under the size of its row.
LEMMA PutBackStep ==
  ASSUME PageInv, NEW t \in Tab, PutBack(t)
  PROVE  PageInv'
<1> DEFINE i == req[t].read
           rows == reads[i].rows
           put == {Key(k, rows[k]) : k \in {j \in req[t].todo : rows[j].verdict # None}}
           new == [req[t] EXCEPT !.phase = "render"]
<1> USE DEF PageInv
<1>1. /\ req[t].phase = "put" /\ req' = [req EXCEPT ![t] = new]
      /\ swaps' = [e \in DOMAIN swaps \cup put |->
                     IF e \in put THEN [verdict |-> rows[e[1]].verdict, at |-> now] ELSE swaps[e]]
      /\ UNCHANGED <<now, broker, reads, balances, shown, asked, trades>>
  BY DEF PutBack, To
<1>2. req[t] # Idle /\ req[t] \in Requests
  BY <1>1, UnderWay
<1>3. i \in DOMAIN reads /\ req[t].todo \subseteq DOMAIN rows /\ now \in Nat
  BY <1>1, <1>2 DEF RequestThere, PageTypes
<1>4. /\ new \in Requests /\ new.phase = "render" /\ new.read = i
      /\ new.alone = req[t].alone /\ new.began = req[t].began /\ new.kind = req[t].kind
  BY <1>2 DEF Requests
<1> HIDE DEF new
<1>5. new.alone /\ new.kind = "refresh" => Since(req[t].began, i, rows)
  BY <1>1, <1>2, <1>4 DEF IsAlone
<1> HIDE DEF i
<1>6. /\ DOMAIN rows \subseteq Contract /\ \A k \in DOMAIN rows : rows[k] \in RowSet
      /\ \A k \in DOMAIN rows : Sized(k, rows[k].qty, rows[k].verdict)
  BY <1>3, RowsAre DEF SizesKept
<1>7. ASSUME NEW e \in put
      PROVE  /\ e \in Contract \X Sizes /\ Sized(e[1], e[2], rows[e[1]].verdict)
             /\ rows[e[1]].verdict \in Verdicts
  <2> HIDE DEF rows
  <2>1. PICK k \in req[t].todo : e = Key(k, rows[k]) /\ rows[k].verdict # None
    OBVIOUS
  <2>2. k \in DOMAIN rows /\ k \in Contract /\ rows[k] \in RowSet
    BY <1>3, <1>6
  <2>3. e = <<k, rows[k].qty>> /\ rows[k].qty \in Sizes /\ rows[k].verdict \in Verdicts
    BY <2>1, <2>2 DEF Key, RowSet
  <2> QED
    BY <1>6, <2>2, <2>3
<1> HIDE DEF put, rows
<1>8. ASSUME NEW e \in DOMAIN swaps'
      PROVE  /\ e \in Contract \X Sizes /\ swaps'[e] \in [verdict : Verdicts, at : Nat]
             /\ Sized(e[1], e[2], swaps'[e].verdict)
  <2>1. CASE e \in put
    <3>1. swaps'[e] = [verdict |-> rows[e[1]].verdict, at |-> now]
      BY <1>1, <2>1
    <3> QED
      BY <1>3, <1>7, <2>1, <3>1
  <2>2. CASE e \notin put
    <3>1. e \in DOMAIN swaps /\ swaps'[e] = swaps[e]
      BY <1>1, <2>2
    <3> QED
      BY <3>1 DEF PageTypes, SizesKept
  <2> QED
    BY <2>1, <2>2
<1>9. req' \in [Tab -> Requests \cup {Idle}] => PageTypes'
  BY <1>1, <1>8 DEF PageTypes
<1>10. SizesKept'
  BY <1>1, <1>8 DEF SizesKept, Sized
<1>11. BalancesThere' /\ ReadsKeep
  BY <1>1 DEF BalancesThere, ReadsKeep
<1> QED
  BY <1>1, <1>2, <1>3, <1>4, <1>5, <1>9, <1>10, <1>11, Moves DEF Since, rows

\* A request ends and its tab shows nothing, or a page of a read there was: it is
\* right if the page is.
LEMMA Ends ==
  ASSUME PageInv, NEW t \in Tab, req[t] # Idle, NEW page \in Pages \cup {None},
         req' = [req EXCEPT ![t] = Idle], shown' = [shown EXCEPT ![t] = page],
         UNCHANGED <<now, broker, reads, balances, swaps, trades>>,
         page # None =>
           /\ page.read \in DOMAIN reads
           /\ \A k \in DOMAIN page.rows : Sized(k, page.rows[k].qty, page.rows[k].verdict)
           /\ page.kind = "refresh" /\ page.sound => Since(page.began, page.read, page.rows)
  PROVE  PageInv'
<1> USE DEF PageInv
<1>1. /\ req'[t] = Idle /\ shown'[t] = page /\ ReadsKeep
      /\ \A u \in Tab \ {t} : req'[u] = req[u] /\ shown'[u] = shown[u]
  BY DEF PageTypes, ReadsKeep
<1>2. PageTypes'
  BY DEF PageTypes
<1>3. BalancesThere' /\ SizesKept'
  BY DEF BalancesThere, SizesKept
<1>4. \A u \in Tab \ {t} : RequestThere(u)' /\ IsAlone(u)'
  BY <1>1, OthersStand
<1>5. RequestThere(t)' /\ IsAlone(t)'
  BY <1>1 DEF RequestThere, IsAlone
<1>6. ASSUME NEW u \in Tab, shown'[u] # None
      PROVE  /\ shown'[u].read \in DOMAIN reads
             /\ \A k \in DOMAIN shown'[u].rows :
                  Sized(k, shown'[u].rows[k].qty, shown'[u].rows[k].verdict)
             /\ shown'[u].kind = "refresh" /\ shown'[u].sound =>
                  Since(shown'[u].began, shown'[u].read, shown'[u].rows)
  <2>1. CASE u = t
    BY <1>1, <1>6, <2>1
  <2>2. CASE u # t
    <3>1. shown'[u] = shown[u] /\ shown[u] # None
      BY <1>1, <1>6, <2>2
    <3> QED
      BY <3>1 DEF ShownThere, RightSize, RefreshIsNew, Sized, Since
  <2> QED
    BY <2>1, <2>2
<1>7. ShownThere'
  BY <1>6 DEF ShownThere
<1>8. RightSize'
  BY <1>6 DEF RightSize, Sized
<1>9. RefreshIsNew'
  BY <1>6 DEF RefreshIsNew, Since
<1> QED
  BY <1>2, <1>3, <1>4, <1>5, <1>7, <1>8, <1>9

\* No account, no page.
LEMMA BrokerFailsStep ==
  ASSUME PageInv, NEW t \in Tab, BrokerFails(t)
  PROVE  PageInv'
<1>1. req[t].phase = "read"
  BY DEF BrokerFails
<1>2. req[t] # Idle
  BY <1>1, UnderWay
<1> QED
  BY <1>2, Ends DEF BrokerFails

\* A page is the rows of its read as they are; a panel leaves the page it is on.
LEMMA RenderStep ==
  ASSUME PageInv, NEW t \in Tab, Render(t)
  PROVE  PageInv'
<1> DEFINE r == req[t]
           rows == reads[r.read].rows
           table == [rows |-> rows, read |-> r.read, began |-> r.began, kind |-> r.kind,
                     sound |-> r.alone /\ r.failed = {}, panel |-> None, k |-> None]
           there == r.k \in DOMAIN rows
           verdict == IF there THEN rows[r.k].verdict ELSE None
           page == IF r.kind # "panel" THEN table
                   ELSE [shown[t] EXCEPT !.k = r.k, !.panel = verdict]
<1> USE DEF PageInv
<1>1. /\ r.phase = "render" /\ req' = [req EXCEPT ![t] = Idle]
      /\ shown' = [shown EXCEPT ![t] = page]
      /\ UNCHANGED <<now, broker, reads, balances, swaps, trades>>
  BY DEF Render
<1>2. r # Idle /\ r \in Requests
  BY <1>1, UnderWay
<1>3. r.read \in DOMAIN reads /\ (r.kind = "panel" => shown[t] # None)
  BY <1>1, <1>2 DEF RequestThere
<1>4. /\ rows \in RowsSet /\ \A k \in DOMAIN rows : rows[k] \in RowSet
      /\ \A k \in DOMAIN rows : Sized(k, rows[k].qty, rows[k].verdict)
  BY <1>3, RowsAre DEF SizesKept
<1>5. r.alone /\ r.kind = "refresh" => Since(r.began, r.read, rows)
  BY <1>1, <1>2 DEF IsAlone
<1>6. verdict \in Verdicts \cup {None}
  BY <1>4 DEF RowSet
<1>7. /\ r.kind \in Kinds /\ r.read \in Nat /\ r.began \in Nat /\ r.alone \in BOOLEAN
      /\ r.k \in Contract \cup {None}
  BY <1>2 DEF Requests
<1> HIDE DEF rows, verdict
<1>8. CASE r.kind # "panel"
  <2>1. table \in Pages
    BY <1>4, <1>7 DEF Pages
  <2>2. /\ table.read = r.read /\ table.rows = rows /\ table.kind = r.kind /\ table.began = r.began
        /\ table.sound => r.alone
    OBVIOUS
  <2>3. page = table
    BY <1>8
  <2> HIDE DEF page, table, r
  <2> QED
    BY <1>1, <1>2, <1>3, <1>4, <1>5, <2>1, <2>2, <2>3, Ends DEF r
<1>9. CASE r.kind = "panel"
  <2>1. shown[t] # None /\ shown[t] \in Pages
    BY <1>3, <1>9 DEF PageTypes
  <2>2. page = [shown[t] EXCEPT !.k = r.k, !.panel = verdict]
    BY <1>9
  <2> HIDE DEF page, r
  <2>3. /\ page \in Pages /\ page.read = shown[t].read /\ page.rows = shown[t].rows
        /\ page.kind = shown[t].kind /\ page.began = shown[t].began
        /\ page.sound = shown[t].sound
    BY <1>6, <1>7, <2>1, <2>2 DEF Pages
  <2>4. /\ shown[t].read \in DOMAIN reads
        /\ \A k \in DOMAIN shown[t].rows :
             Sized(k, shown[t].rows[k].qty, shown[t].rows[k].verdict)
        /\ shown[t].kind = "refresh" /\ shown[t].sound =>
             Since(shown[t].began, shown[t].read, shown[t].rows)
    BY <2>1 DEF ShownThere, RightSize, RefreshIsNew, Sized, Since
  <2> QED
    BY <1>1, <1>2, <2>3, <2>4, Ends DEF r
<1> QED
  BY <1>8, <1>9

\* A panel is opened on a position the page shows.
LEMMA OpenPanelStep ==
  ASSUME PageInv, NEW t \in Tab, OpenPanel(t)
  PROVE  PageInv'
<1>1. /\ shown[t] # None /\ UNCHANGED <<now, broker, reads, balances, swaps, shown, trades>>
  BY DEF OpenPanel
<1>2. PICK k \in DOMAIN shown[t].rows : Begin(t, "panel", k)
  BY DEF OpenPanel
<1>3. k \in Contract
  <2>1. shown[t].rows \in RowsSet
    BY <1>1 DEF PageInv, PageTypes, Pages
  <2> QED
    BY <2>1 DEF RowsSet
<1> QED
  BY <1>1, <1>2, <1>3, Begins DEF Kinds

\* What happens at the broker is not known before the next read.
LEMMA TradeStep ==
  ASSUME PageInv, Trade
  PROVE  PageInv'
<1> USE DEF PageInv
<1>1. UNCHANGED <<now, reads, balances, swaps, req, shown>>
  BY DEF Trade
<1>2. DOMAIN broker' \subseteq Contract /\ \A k \in DOMAIN broker' : broker'[k] \in Sizes
  <2>1. PICK k \in Contract :
          \/ \E n \in Sizes :
               broker' = [c \in DOMAIN broker \cup {k} |-> IF c = k THEN n ELSE broker[c]]
          \/ broker' = Restrict(broker, DOMAIN broker \ {k})
    BY DEF Trade
  <2>2. CASE broker' = Restrict(broker, DOMAIN broker \ {k})
    BY <2>2 DEF Restrict, PageTypes
  <2>3. ASSUME NEW n \in Sizes,
               broker' = [c \in DOMAIN broker \cup {k} |-> IF c = k THEN n ELSE broker[c]]
        PROVE  DOMAIN broker' \subseteq Contract /\ \A c \in DOMAIN broker' : broker'[c] \in Sizes
    BY <2>3 DEF PageTypes
  <2> QED
    BY <2>1, <2>2, <2>3
<1>3. PageTypes'
  BY <1>1, <1>2 DEF PageTypes
<1>4. BalancesThere' /\ SizesKept'
  BY <1>1 DEF BalancesThere, SizesKept
<1>5. ShownThere' /\ RightSize' /\ RefreshIsNew'
  BY <1>1, PagesStay DEF ReadsKeep
<1>6. \A t \in Tab : RequestThere(t)' /\ IsAlone(t)'
  BY <1>1 DEF RequestThere, IsAlone, Since
<1> QED
  BY <1>3, <1>4, <1>5, <1>6

\* Time passes.
LEMMA TickPage ==
  ASSUME PageInv, Tick
  PROVE  PageInv'
<1> USE DEF PageInv
<1>1. now' = now + 1 /\ now \in Nat /\ UNCHANGED <<broker, reads, balances, swaps, req, shown>>
  BY DEF Tick, PageTypes
<1>2. PageTypes'
  BY <1>1 DEF PageTypes
<1>3. BalancesThere' /\ SizesKept'
  BY <1>1 DEF BalancesThere, SizesKept
<1>4. ShownThere' /\ RightSize' /\ RefreshIsNew'
  BY <1>1, PagesStay DEF ReadsKeep
<1>5. ASSUME NEW t \in Tab
      PROVE  RequestThere(t)' /\ IsAlone(t)'
  <2>1. req[t] # Idle => req[t].began \in Nat
    BY DEF PageTypes, Requests
  <2>2. req[t] # Idle => req[t].began <= now + 1
    BY <1>1, <2>1 DEF IsAlone
  <2>3. RequestThere(t)'
    BY <1>1 DEF RequestThere
  <2> QED
    BY <1>1, <2>2, <2>3 DEF IsAlone, Since
<1> QED
  BY <1>2, <1>3, <1>4, <1>5

\* Every step keeps the invariant.
LEMMA StepPage == PageInv /\ [Next]_vars => PageInv'
<1> SUFFICES ASSUME PageInv, [Next]_vars
             PROVE  PageInv'
  OBVIOUS
<1>1. ASSUME NEW t \in Tab, OpenPage(t)
      PROVE  PageInv'
  BY <1>1, Begins DEF OpenPage, Kinds
<1>2. ASSUME NEW t \in Tab, Refresh(t)
      PROVE  PageInv'
  BY <1>2, Begins DEF Refresh, Kinds
<1>3. ASSUME NEW t \in Tab, \/ OpenPanel(t) \/ ReadCached(t) \/ ReadBroker(t) \/ StoreBalances(t)
                            \/ BrokerFails(t)
      PROVE  PageInv'
  BY <1>3, OpenPanelStep, ReadCachedStep, ReadBrokerStep, StoreBalancesStep, BrokerFailsStep
<1>4. ASSUME NEW t \in Tab, \/ ClearVerdicts(t) \/ Lookup(t) \/ ReviewAll(t) \/ PutBack(t)
                            \/ Render(t)
      PROVE  PageInv'
  BY <1>4, ClearVerdictsStep, LookupStep, ReviewAllStep, PutBackStep, RenderStep
<1>5. CASE Trade \/ Tick
  BY <1>5, TradeStep, TickPage
<1>6. CASE UNCHANGED vars
  <2>1. UNCHANGED <<now, broker, reads, balances, swaps, req, shown>>
    BY <1>6 DEF vars
  <2>2. PageTypes' /\ BalancesThere' /\ SizesKept'
    BY <2>1 DEF PageInv, PageTypes, BalancesThere, SizesKept
  <2>3. ShownThere' /\ RightSize' /\ RefreshIsNew'
    BY <2>1, PagesStay DEF ReadsKeep
  <2>4. \A t \in Tab : RequestThere(t)' /\ IsAlone(t)'
    BY <2>1 DEF PageInv, RequestThere, IsAlone, Since
  <2> QED
    BY <2>2, <2>3, <2>4 DEF PageInv
<1> QED
  BY <1>1, <1>2, <1>3, <1>4, <1>5, <1>6 DEF Next

\* The inductive invariant of the page.
THEOREM PageInvariant == Spec => []PageInv
BY InitPage, StepPage, PTL DEF Spec

\* The dollars of every verdict on the page are those of the size on its row,
\* whichever cache the two came from (_position_key).
THEOREM SizesCorrect == Spec => []RightSize
BY PageInvariant, PTL DEF PageInv

\* Refresh answers from no cache, unless another request came between
\* (portfolio_swaps_refresh).
THEOREM RefreshCorrect == Spec => []RefreshIsNew
BY PageInvariant, PTL DEF PageInv
-----------------------------------------------------------------------------
(* The panels: dividends *)

Smaller == {ss \in Nat \X Nat : ss[1] < ss[2]}

\* Of some naturals one is the least.
LEMMA Least ==
  ASSUME NEW S \in SUBSET Nat, S # {}
  PROVE  \E n \in S : \A m \in S : n <= m
<1>1. IsWellFoundedOn(Smaller, Nat)
  BY NatLessThanWellFounded DEF OpToRel, Smaller
<1>2. \E n \in S : \A m \in S : ~(<<m, n>> \in Smaller)
  BY <1>1, WFMin, Zenon
<1>3. PICK n \in S : \A m \in S : ~(<<m, n>> \in Smaller)
  BY <1>2
<1>4. \A m \in S : ~(m < n)
  BY <1>3 DEF Smaller
<1> QED
  BY <1>3, <1>4

\* Of finitely many dividends one is the latest.
LEMMA LatestIs ==
  ASSUME NEW H, IsFiniteSet(H), H # {}, \A d \in H : d.day \in Int
  PROVE  Latest(H) \in H /\ \A d \in H : d.day <= Latest(H).day
<1> DEFINE HasLatest(T) == \E d \in T : \A e \in T : e.day <= d.day
           bad == {n \in Nat : \E T \in SUBSET H : T # {} /\ Cardinality(T) = n /\ ~HasLatest(T)}
<1>1. bad = {}
  <2>1. SUFFICES ASSUME bad # {} PROVE FALSE
    OBVIOUS
  <2>2. PICK n \in bad : \A m \in bad : n <= m
    BY <2>1, Least
  <2>3. PICK T \in SUBSET H : T # {} /\ Cardinality(T) = n /\ ~HasLatest(T)
    BY <2>2
  <2>4. PICK x \in T : TRUE
    BY <2>3
  <2>5. IsFiniteSet(T) /\ IsFiniteSet(T \ {x}) /\ Cardinality(T \ {x}) = n - 1 /\ n - 1 \in Nat
    <3>1. IsFiniteSet(T)
      BY FS_Subset
    <3>2. IsFiniteSet(T \ {x}) /\ Cardinality(T \ {x}) = Cardinality(T) - 1
      BY <2>4, <3>1, FS_RemoveElement
    <3>3. Cardinality(T \ {x}) \in Nat
      BY <3>2, FS_CardinalityType
    <3> QED
      BY <2>3, <3>1, <3>2, <3>3
  <2>6. n - 1 \notin bad
    BY <2>2, <2>5
  <2>7. CASE T \ {x} = {}
    <3>1. T = {x} /\ x.day \in Int
      BY <2>4, <2>7
    <3> QED
      BY <2>3, <3>1
  <2>8. CASE T \ {x} # {}
    <3>1. HasLatest(T \ {x})
      BY <2>5, <2>6, <2>8
    <3>2. PICK y \in T \ {x} : \A e \in T \ {x} : e.day <= y.day
      BY <3>1
    <3>3. x.day \in Int /\ y.day \in Int /\ \A e \in T : e.day \in Int
      BY <2>4
    <3>4. \A e \in T : e.day <= y.day \/ e = x
      BY <3>2
    <3>5. CASE x.day <= y.day
      <4>1. \A e \in T : e.day <= y.day
        BY <3>4, <3>5
      <4> QED
        BY <2>3, <4>1
    <3>6. CASE ~(x.day <= y.day)
      <4>1. \A e \in T : e.day <= x.day
        BY <3>3, <3>4, <3>6
      <4> QED
        BY <2>3, <2>4, <4>1
    <3> QED
      BY <3>5, <3>6
  <2> QED
    BY <2>7, <2>8
<1>2. Cardinality(H) \in Nat
  BY FS_CardinalityType
<1>3. HasLatest(H)
  BY <1>1, <1>2
<1> QED
  BY <1>3 DEF Latest

\* The larger of two.
LEMMA LargerIs ==
  ASSUME NEW a \in Int, NEW b \in Int
  PROVE  Max({a, b}) \in Int /\ Max({a, b}) >= b
<1>1. \E x \in {a, b} : \A y \in {a, b} : x >= y
  OBVIOUS
<1> QED
  BY <1>1 DEF Max

\* These ex-dates are all in the days of a contract that expires on exp.
Lived(ds, exp) == \A d \in ds : 0 < d.day /\ d.day <= exp

\* Those of its life are.
LEMMA AheadIs ==
  ASSUME NEW history, IsFiniteSet(history), \A d \in history : d.day \in Int, NEW exp \in Int
  PROVE  Lived(InLife(history, exp), exp)
<1> DEFINE regular == {d \in history : d.freq \in DOMAIN ScheduleDays /\ ~d.est}
           anchor == Latest(regular)
           step == ScheduleDays[anchor.freq]
           from == Max({anchor.day + step, 0 + 1})
           live == regular # {} /\ anchor.day >= 0 - (3 * step) \div 2
           projected == {n \in from..exp : (n - from) % step = 0}
           planned == IF live THEN {[day |-> n, amount |-> anchor.amount, freq |-> anchor.freq,
                                     est |-> TRUE] : n \in projected}
                      ELSE {}
<1>1. InLife(history, exp) = {d \in history : 0 < d.day /\ d.day <= exp} \cup planned
  BY DEF InLife, Upcoming
<1>2. ASSUME NEW d \in planned
      PROVE  0 < d.day /\ d.day <= exp
  <2>1. regular # {}
    OBVIOUS
  <2>2. IsFiniteSet(regular) /\ regular \subseteq history
    BY FS_Subset
  <2>3. anchor \in regular
    BY <2>1, <2>2, LatestIs
  <2>4. anchor.day \in Int /\ step \in Int
    <3> HIDE DEF anchor
    <3>1. anchor \in history /\ anchor.freq \in DOMAIN ScheduleDays
      BY <2>3
    <3>2. \A f \in DOMAIN ScheduleDays : ScheduleDays[f] \in Int
      BY DEF ScheduleDays
    <3> QED
      BY <3>1, <3>2
  <2> HIDE DEF anchor, step
  <2>5. from \in Int /\ from >= 1
    <3>1. anchor.day + step \in Int
      BY <2>4
    <3> QED
      BY <3>1, LargerIs
  <2> HIDE DEF from, live, regular
  <2>6. PICK n \in projected : d.day = n
    <3>1. d \in {[day |-> n, amount |-> anchor.amount, freq |-> anchor.freq, est |-> TRUE]
                  : n \in projected}
      BY <1>2
    <3> HIDE DEF projected
    <3> QED
      BY <3>1
  <2>7. n \in Int /\ from <= n /\ n <= exp
    BY <2>5, <2>6
  <2> QED
    BY <2>5, <2>6, <2>7
<1> HIDE DEF planned
<1> QED
  BY <1>1, <1>2 DEF Lived

-----------------------------------------------------------------------------
(* The panels: verdicts *)

\* A put that is judged has the stock above its strike.
LEMMA ReviewedIs ==
  ASSUME NEW put, NEW same, NEW others, NEW median,
         Review(put, same, others, median).cash # None
  PROVE  put.spot # None /\ put.spot > put.strike
<1>1. InScope(put)
  BY DEF Review
<1> QED
  BY <1>1 DEF InScope

\* A call that is judged has it below.
LEMMA CoveredIs ==
  ASSUME NEW call, ReviewCoveredCall(call).cash # None
  PROVE  call.spot # None /\ ~(call.spot >= call.strike)
BY DEF ReviewCoveredCall

\* What is judged is out of the money at the price it is judged at.
LEMMA JudgedOut ==
  ASSUME NEW k \in PanelContract, NEW read \in PanelMarket, NEW then \in PanelMarket, NEW same,
         Judges(Judge(k, Row(k, 1, read), then, same).verdict)
  PROVE  LET v == Judge(k, Row(k, 1, read), then, same).verdict
         IN /\ v.spot \in Int /\ ~InTheMoney(k.strike, v.spot, k.type)
            /\ Intrinsic(k.strike, v.spot, 1, k.type) = 0
<1> DEFINE row == Row(k, 1, read)
           settled == k.exp < 1 \/ (row.spot # None /\ row.spot <= k.strike)
           pulled == ~settled /\ ~then.down
           spot == IF row.spot = None /\ pulled THEN then.board ELSE row.spot
           put == [strike |-> k.strike, days |-> k.exp, qty |-> row.qty, spot |-> spot,
                   ask |-> IF pulled THEN then.ask ELSE None]
           call == [strike |-> k.strike, days |-> k.exp, qty |-> row.qty,
                    spot |-> row.spot, price |-> row.mark]
           said == IF k.type = "call" THEN ReviewCoveredCall(call)
                   ELSE Review(put, same, Others, MedianYield)
           seen == IF k.type = "call" THEN row.spot ELSE spot
           v == Judge(k, row, then, same).verdict
<1>1. k.type \in {"put", "call"} /\ k.strike \in Int
  BY ContractAssumption
<1>2. /\ row.spot = read.spot
      /\ row = [qty |-> 1, spot |-> read.spot, mark |-> read.mark, verdict |-> None,
                risk |-> row.risk]
  BY DEF Row
<1>3. row.spot \in Int \cup {None} /\ spot \in Int \cup {None}
  BY <1>2, MarketAssumption
<1> HIDE DEF row
<1>4. v.cash = said.cash /\ v.spot = seen
  <2>1. Judge(k, row, then, same) =
          [row EXCEPT !.spot = seen,
                      !.verdict = [action |-> said.action, cash |-> said.cash, spot |-> seen]]
    BY DEF Judge
  <2> HIDE DEF said, seen
  <2>2. v = [action |-> said.action, cash |-> said.cash, spot |-> seen]
    BY <1>2, <2>1
  <2> QED
    BY <2>2
<1>5. said.cash # None
  BY <1>4 DEF Judges, row
<1>6. CASE k.type = "call"
  <2>1. call.spot = row.spot /\ call.strike = k.strike /\ said = ReviewCoveredCall(call)
    BY <1>6
  <2> HIDE DEF call, said
  <2>2. row.spot # None /\ ~(row.spot >= k.strike)
    BY <1>5, <2>1, CoveredIs
  <2>3. v.spot = row.spot /\ v.spot \in Int /\ v.spot < k.strike
    BY <1>1, <1>3, <1>4, <1>6, <2>2
  <2>4. ~InTheMoney(k.strike, v.spot, k.type) /\ Intrinsic(k.strike, v.spot, 1, k.type) = 0
    <3> HIDE DEF v
    <3> QED
      BY <1>1, <1>6, <2>3 DEF InTheMoney, Intrinsic, Floor0
  <2> QED
    BY <2>3, <2>4 DEF row
<1>7. CASE k.type = "put"
  <2>1. put.spot = spot /\ put.strike = k.strike /\ said = Review(put, same, Others, MedianYield)
    BY <1>7
  <2> HIDE DEF put, said, spot
  <2>2. spot # None /\ spot > k.strike
    BY <1>5, <2>1, ReviewedIs
  <2>3. v.spot = spot /\ v.spot \in Int /\ v.spot > k.strike
    BY <1>1, <1>3, <1>4, <1>7, <2>2
  <2>4. ~InTheMoney(k.strike, v.spot, k.type) /\ Intrinsic(k.strike, v.spot, 1, k.type) = 0
    <3> HIDE DEF v
    <3> QED
      BY <1>1, <1>7, <2>3, NothingAssumption DEF InTheMoney, Intrinsic, Floor0
  <2> QED
    BY <2>3, <2>4 DEF row
<1> QED
  BY <1>1, <1>6, <1>7

\* Nothing expects an assignment of what is out of the money.
LEMMA OutIsLow ==
  ASSUME NEW type, NEW strike, NEW spot, NEW price, NEW exp, NEW today, NEW ds,
         spot # None, Intrinsic(strike, spot, 1, type) = 0
  PROVE  Assess(type, strike, spot, price, exp, today, ds).risk = "low"
BY DEF Assess

\* A put is never assigned for a dividend.
LEMMA PutsAre ==
  ASSUME NEW time, NEW ahead, NEW strike, NEW exp, NEW today
  PROVE  AssessPut(time, ahead, strike, exp, today) # [risk |-> "likely", cause |-> "dividend"]
<1> DEFINE said == AssessPut(time, ahead, strike, exp, today)
<1>1. said.risk = "likely" => said.cause \in {"interest", "no-time-value"}
  BY DEF AssessPut
<1> HIDE DEF said
<1> QED
  BY <1>1 DEF said

\* A call is for one where its time value is less than the first of them.
LEMMA CallsAre ==
  ASSUME NEW time, NEW ahead, ahead # {}
  PROVE  (AssessCall(time, ahead) = [risk |-> "likely", cause |-> "dividend"])
           <=> time < Earliest(ahead).amount
<1> DEFINE first == Earliest(ahead)
<1>1. CASE time < first.amount
  BY <1>1 DEF AssessCall
<1>2. CASE ~(time < first.amount)
  <2>1. AssessCall(time, ahead) \in {[risk |-> "possible", cause |-> "dividend"],
                                     [risk |-> "likely", cause |-> "no-time-value"],
                                     [risk |-> "low", cause |-> None]}
    BY <1>2 DEF AssessCall
  <2>2. AssessCall(time, ahead).risk = "likely" => AssessCall(time, ahead).cause = "no-time-value"
    BY <2>1
  <2> HIDE DEF first
  <2> QED
    BY <1>2, <2>2 DEF first
<1> QED
  BY <1>1, <1>2

ForDividend(risk) == risk # None /\ risk = [risk |-> "likely", cause |-> "dividend"]

\* The note on the dividends and the early-assignment rule decide alike.
LEMMA NotesAgree ==
  ASSUME NEW type \in {"put", "call"}, NEW strike \in Int, NEW spot \in Int \cup {None},
         NEW price, NEW exp, NEW ds, Lived(ds, exp),
         Impact(ds, type, strike, spot, price) # None
  PROVE  Impact(ds, type, strike, spot, price).likely
           <=> ForDividend(Assess(type, strike, spot, price, exp, 0, ds))
<1> DEFINE risk == Assess(type, strike, spot, price, exp, 0, ds)
           gain == Floor0(spot - strike)
           told == [risk |-> "likely", cause |-> "dividend"]
           ahead == {d \in ds : 0 < d.day /\ d.day <= exp}
           worth == Intrinsic(strike, spot, 1, type)
<1>1. ds # {} /\ ahead = ds
  BY DEF Impact, Lived
<1>2. Impact(ds, type, strike, spot, price).likely
        <=> (type = "call" /\ spot # None /\ price # None /\ spot > strike
             /\ price - gain < Earliest(ds).amount)
  BY <1>1 DEF Impact
<1> HIDE DEF ahead
<1>3. risk = IF spot = None THEN None
             ELSE IF worth = 0 THEN [risk |-> "low", cause |-> None]
             ELSE IF price = None THEN [risk |-> "unknown", cause |-> None]
             ELSE IF type = "call" THEN AssessCall(price - worth, ds)
             ELSE AssessPut(price - worth, ds, strike, exp, 0)
  <2> HIDE DEF worth
  <2> QED
    BY <1>1 DEF Assess, ahead, worth
<1>4. ForDividend(risk) <=> risk = told
  BY NothingAssumption DEF ForDividend
<1>5. CASE spot = None
  BY <1>2, <1>3, <1>4, <1>5, NothingAssumption
<1>6. CASE spot # None /\ type = "call"
  <2>1. spot \in Int /\ worth = gain /\ (worth = 0 <=> ~(spot > strike))
    BY <1>6 DEF Intrinsic, Floor0
  <2> HIDE DEF worth, gain
  <2>2. CASE worth = 0 \/ price = None
    <3>1. risk.risk # "likely"
      <4> HIDE DEF risk
      <4> QED
        BY <1>3, <1>6, <2>2
    <3> HIDE DEF risk
    <3> QED
      BY <1>2, <1>4, <2>1, <2>2, <3>1 DEF risk
  <2>3. CASE worth # 0 /\ price # None
    <3>1. risk = AssessCall(price - worth, ds)
      BY <1>3, <1>6, <2>3
    <3>2. risk = told <=> price - worth < Earliest(ds).amount
      BY <1>1, <3>1, CallsAre
    <3> HIDE DEF risk
    <3> QED
      BY <1>2, <1>4, <1>6, <2>1, <2>3, <3>2 DEF risk
  <2> QED
    BY <2>2, <2>3
<1>7. CASE spot # None /\ type = "put"
  <2>1. risk # told
    <3>1. CASE worth = 0 \/ price = None
      <4>1. risk.risk # "likely"
        <5> HIDE DEF risk, worth
        <5> QED
          BY <1>3, <1>7, <3>1
      <4> HIDE DEF risk
      <4> QED
        BY <4>1
    <3>2. CASE worth # 0 /\ price # None
      <4>1. risk = AssessPut(price - worth, ds, strike, exp, 0)
        <5> HIDE DEF worth
        <5> QED
          BY <1>3, <1>7, <3>2
      <4> HIDE DEF risk, worth
      <4> QED
        BY <4>1, PutsAre
    <3> QED
      BY <3>1, <3>2
  <2> HIDE DEF risk, told
  <2> QED
    BY <1>2, <1>4, <1>7, <2>1 DEF risk
<1> QED
  BY <1>5, <1>6, <1>7

-----------------------------------------------------------------------------
(* The panels: orders *)

\* R puts the members of S in an order.
Orders(R, S) ==
  \A x, y, z \in S : /\ <<x, x>> \notin R
                     /\ x # y => <<x, y>> \in R \/ <<y, x>> \in R
                     /\ <<x, y>> \in R /\ <<y, z>> \in R => <<x, z>> \in R

Before(S, R, x) == {y \in S : <<y, x>> \in R}
Place(S, R, x) == Cardinality(Before(S, R, x))

\* Each has a place, a later one than all before it.
LEMMA PlaceIs ==
  ASSUME NEW S, IsFiniteSet(S), NEW R, Orders(R, S), NEW x \in S
  PROVE  Place(S, R, x) \in 0..(Cardinality(S) - 1)
<1>1. Before(S, R, x) \subseteq S \ {x}
  BY DEF Before, Orders
<1>2. IsFiniteSet(S \ {x}) /\ Cardinality(S \ {x}) = Cardinality(S) - 1
  BY FS_RemoveElement
<1>3. IsFiniteSet(Before(S, R, x)) /\ Cardinality(Before(S, R, x)) <= Cardinality(S \ {x})
  BY <1>1, <1>2, FS_Subset
<1>4. Cardinality(Before(S, R, x)) \in Nat /\ Cardinality(S) \in Nat
  BY <1>3, FS_CardinalityType
<1> QED
  BY <1>2, <1>3, <1>4 DEF Place

\* What is ahead of another has the earlier place.
LEMMA PlacesGrow ==
  ASSUME NEW S, IsFiniteSet(S), NEW R, Orders(R, S), NEW x \in S, NEW y \in S, <<x, y>> \in R
  PROVE  Place(S, R, x) < Place(S, R, y)
<1>1. x \in Before(S, R, y) /\ Before(S, R, x) \subseteq Before(S, R, y) \ {x}
  BY DEF Before, Orders
<1>2. IsFiniteSet(Before(S, R, y))
  <2>1. Before(S, R, y) \subseteq S
    BY DEF Before
  <2> QED
    BY <2>1, FS_Subset
<1>3. IsFiniteSet(Before(S, R, y) \ {x})
      /\ Cardinality(Before(S, R, y) \ {x}) = Cardinality(Before(S, R, y)) - 1
  BY <1>1, <1>2, FS_RemoveElement
<1>4. Cardinality(Before(S, R, x)) <= Cardinality(Before(S, R, y) \ {x})
  BY <1>1, <1>3, FS_Subset
<1>5. Place(S, R, x) \in Int /\ Place(S, R, y) \in Int
  BY PlaceIs
<1> QED
  BY <1>3, <1>4, <1>5 DEF Place

\* Every place is taken, by one.
LEMMA PlacesTaken ==
  ASSUME NEW S, IsFiniteSet(S), NEW R, Orders(R, S)
  PROVE  /\ \A k \in 0..(Cardinality(S) - 1) : \E x \in S : Place(S, R, x) = k
         /\ \A x, y \in S : Place(S, R, x) = Place(S, R, y) => x = y
<1> DEFINE n == Cardinality(S)
           f == [x \in S |-> Place(S, R, x)]
<1>1. n \in Nat
  BY FS_CardinalityType
<1>2. \A x \in S : f[x] \in 0..(n - 1)
  BY PlaceIs
<1>3. \A x, y \in S : Place(S, R, x) = Place(S, R, y) => x = y
  <2> SUFFICES ASSUME NEW x \in S, NEW y \in S, x # y
               PROVE  Place(S, R, x) # Place(S, R, y)
    OBVIOUS
  <2>1. Place(S, R, x) \in Int /\ Place(S, R, y) \in Int
    BY PlaceIs
  <2>2. CASE <<x, y>> \in R
    BY <2>1, <2>2, PlacesGrow
  <2>3. CASE <<y, x>> \in R
    BY <2>1, <2>3, PlacesGrow
  <2> QED
    BY <2>2, <2>3 DEF Orders
<1>4. f \in Injection(S, 0..(n - 1))
  <2>1. f \in [S -> 0..(n - 1)]
    BY <1>2
  <2>2. \A x, y \in S : f[x] = f[y] => x = y
    BY <1>3
  <2> HIDE DEF f
  <2> QED
    BY <2>1, <2>2 DEF Injection, IsInjective
<1>5. IsFiniteSet(0..(n - 1)) /\ Cardinality(0..(n - 1)) = n
  BY <1>1, FS_Interval
<1> HIDE DEF f
<1>6. f \in Surjection(S, 0..(n - 1))
  BY <1>4, <1>5, FS_Injection
<1> QED
  BY <1>3, <1>6 DEF Surjection, f

\* So as many are among the first n as there is room for.
LEMMA FirstFew ==
  ASSUME NEW S, IsFiniteSet(S), NEW R, Orders(R, S), NEW n \in Nat,
         NEW x \in S, Place(S, R, x) >= n
  PROVE  Cardinality({y \in S : Place(S, R, y) < n}) = n
<1> DEFINE top == {y \in S : Place(S, R, y) < n}
           f == [y \in top |-> Place(S, R, y)]
<1>1. \A y \in S : Place(S, R, y) \in 0..(Cardinality(S) - 1)
  BY PlaceIs
<1>2. Cardinality(S) \in Nat
  BY FS_CardinalityType
<1>3. \A y \in top : f[y] \in 0..(n - 1)
  BY <1>1, <1>2
<1>4. \A k \in 0..(n - 1) : \E y \in top : f[y] = k
  <2> SUFFICES ASSUME NEW k \in 0..(n - 1)
               PROVE  \E y \in top : f[y] = k
    OBVIOUS
  <2>1. k \in 0..(Cardinality(S) - 1)
    BY <1>1, <1>2
  <2>2. PICK y \in S : Place(S, R, y) = k
    BY <2>1, PlacesTaken
  <2> QED
    BY <2>2
<1>5. \A y, z \in top : f[y] = f[z] => y = z
  BY PlacesTaken
<1>6. IsFiniteSet(top)
  <2>1. top \subseteq S
    OBVIOUS
  <2> QED
    BY <2>1, FS_Subset
<1>7. f \in [top -> 0..(n - 1)]
  BY <1>3
<1> HIDE DEF f, top
<1>8. f \in Injection(top, 0..(n - 1)) /\ f \in Surjection(top, 0..(n - 1))
  BY <1>4, <1>5, <1>7 DEF Injection, IsInjective, Surjection
<1>9. Cardinality(0..(n - 1)) = n
  BY FS_Interval
<1>10. Cardinality(top) = Cardinality(0..(n - 1))
  BY <1>6, <1>8, FS_Surjection
<1> QED
  BY <1>9, <1>10 DEF top

\* One comes first.
LEMMA OneIsFirst ==
  ASSUME NEW S, IsFiniteSet(S), S # {}, NEW R, Orders(R, S)
  PROVE  \E x \in S : Place(S, R, x) = 0
<1>1. Cardinality(S) \in Nat /\ Cardinality(S) # 0
  BY FS_CardinalityType, FS_EmptySet
<1>2. 0 \in 0..(Cardinality(S) - 1)
  BY <1>1
<1>3. \A k \in 0..(Cardinality(S) - 1) : \E x \in S : Place(S, R, x) = k
  BY PlacesTaken
<1> QED
  BY <1>2, <1>3

\* Of finitely many whole numbers, the first by a measure, the lesser of two as near.
LEMMA FirstIs ==
  ASSUME NEW S \in SUBSET Int, IsFiniteSet(S), S # {}, NEW d, \A i \in S : d[i] \in Int
  PROVE  \E i \in S : \A j \in S : d[i] < d[j] \/ (d[i] = d[j] /\ i <= j)
<1> DEFINE R == {w \in S \X S : d[w[1]] < d[w[2]] \/ (d[w[1]] = d[w[2]] /\ w[1] < w[2])}
<1>1. \A i, j \in S : <<i, j>> \in R <=> d[i] < d[j] \/ (d[i] = d[j] /\ i < j)
  OBVIOUS
<1> HIDE DEF R
<1>2. \A i \in S : i \in Int /\ d[i] \in Int
  OBVIOUS
<1>3. Orders(R, S)
  <2> SUFFICES ASSUME NEW x \in S, NEW y \in S, NEW z \in S
               PROVE  /\ <<x, x>> \notin R
                      /\ x # y => <<x, y>> \in R \/ <<y, x>> \in R
                      /\ <<x, y>> \in R /\ <<y, z>> \in R => <<x, z>> \in R
    BY DEF Orders
  <2>1. x \in Int /\ y \in Int /\ z \in Int /\ d[x] \in Int /\ d[y] \in Int /\ d[z] \in Int
    BY <1>2
  <2>2. <<x, x>> \notin R
    BY <1>1, <2>1
  <2>3. x # y => <<x, y>> \in R \/ <<y, x>> \in R
    BY <1>1, <2>1
  <2>4. <<x, y>> \in R /\ <<y, z>> \in R => <<x, z>> \in R
    BY <1>1, <2>1
  <2> QED
    BY <2>2, <2>3, <2>4
<1>4. Cardinality(S) \in Nat
  BY FS_CardinalityType
<1>5. PICK i \in S : Place(S, R, i) = 0
  BY <1>3, OneIsFirst
<1>6. ASSUME NEW j \in S
      PROVE  <<j, i>> \notin R
  <2>1. SUFFICES ASSUME <<j, i>> \in R PROVE FALSE
    OBVIOUS
  <2>2. Place(S, R, j) < 0 /\ Place(S, R, j) \in 0..(Cardinality(S) - 1)
    BY <1>3, <1>5, <2>1, PlacesGrow, PlaceIs
  <2> QED
    BY <1>4, <2>2
<1>7. ASSUME NEW j \in S
      PROVE  d[i] < d[j] \/ (d[i] = d[j] /\ i <= j)
  <2>1. ~(d[j] < d[i] \/ (d[j] = d[i] /\ j < i))
    BY <1>1, <1>6
  <2>2. i \in Int /\ j \in Int /\ d[i] \in Int /\ d[j] \in Int
    BY <1>2
  <2> QED
    BY <2>1, <2>2
<1> QED
  BY <1>7

\* The least of some numbers is one of them.
LEMMA LeastIs ==
  ASSUME NEW S \in SUBSET Nat, S # {}
  PROVE  Min(S) \in S
<1>1. PICK n \in S : \A m \in S : n <= m
  BY Least
<1> QED
  BY <1>1 DEF Min

-----------------------------------------------------------------------------
(* The panels: the search of a ticker *)

\* What a search could show, and what of it is liquid and in reach of all of its
\* expiry.
Priced(board, side, g) == {c \in Range(board) : Searchable(c, side, g)}
Reachable(c, board, side, g) ==
  /\ LiquidityProblem(c) = None
  /\ \A d \in Priced(board, side, g) : d.exp = c.exp => Off(c, side) <= Off(d, side) + LiquidReach

\* How far a delta is off its target is a number.
LEMMA OffIs ==
  ASSUME NEW c, c.delta \in Int \cup {None}, c.delta # None, NEW side
  PROVE  Off(c, side) \in Int
<1>1. SignedTarget(side) \in Int
  BY BoardAssumption DEF SignedTarget
<1> QED
  BY <1>1 DEF Off, Gap

\* What a search selects of a chain.
LEMMA ChosenAre ==
  ASSUME NEW board \in Board, NEW side, NEW n \in SearchSize, NEW g
  PROVE  LET chosen == SelectTopContracts(board, n, side, g)
         IN /\ Len(chosen) \in Nat /\ DOMAIN chosen = 1..Len(chosen)
            /\ \A c \in Priced(board, side, g) :
                 /\ \/ \E i \in DOMAIN chosen : chosen[i].exp = c.exp
                    \/ /\ Len(chosen) = n
                       /\ \A i \in DOMAIN chosen :
                            /\ Reachable(c, board, side, g) => LiquidityProblem(chosen[i]) = None
                            /\ \/ Reachable(c, board, side, g)
                               \/ LiquidityProblem(chosen[i]) # None
                               => Off(chosen[i], side) <= Off(c, side)
                 /\ \A i \in DOMAIN chosen :
                      (/\ chosen[i].exp = c.exp /\ LiquidityProblem(chosen[i]) # None
                       /\ LiquidityProblem(c) = None) =>
                        Off(c, side) > Off(chosen[i], side) + LiquidReach
<1> DEFINE found == {i \in DOMAIN board : Searchable(board[i], side, g)}
           Closer(i, j) == Off(board[i], side) < Off(board[j], side)
                           \/ (Off(board[i], side) = Off(board[j], side) /\ i <= j)
           Nearest(S) == CHOOSE i \in S : \A j \in S : Closer(i, j)
           Poor(i) == LiquidityProblem(board[i]) # None
           First(i) == Min({j \in found : board[j].exp = board[i].exp})
           All(e) == {i \in found : board[i].exp = e}
           Liquid(e) == {i \in All(e) : ~Poor(i)}
           Pick(e) == IF Liquid(e) # {} /\ Off(board[Nearest(Liquid(e))], side)
                                           <= Off(board[Nearest(All(e))], side) + LiquidReach
                      THEN Nearest(Liquid(e)) ELSE Nearest(All(e))
           picks == {Pick(board[i].exp) : i \in found}
           Ahead(i, j) == IF Poor(i) # Poor(j) THEN Poor(j)
                          ELSE IF Off(board[i], side) # Off(board[j], side) THEN
                                 Off(board[i], side) < Off(board[j], side)
                          ELSE First(i) < First(j)
           top == {i \in picks : Cardinality({j \in picks \ {i} : Ahead(j, i)}) < n}
           T == {board[i] : i \in top}
           chosen == SelectTopContracts(board, n, side, g)
           off(i) == Off(board[i], side)
<1>1. chosen = [m \in 1..Cardinality(T) |->
                  CHOOSE x \in T : Cardinality({y \in T : y.exp < x.exp}) = m - 1]
  BY DEF SelectTopContracts, InOrder
<1>2. /\ n \in Nat /\ LiquidReach \in Nat /\ found \subseteq DOMAIN board /\ DOMAIN board \subseteq Nat
      /\ IsFiniteSet(found)
  <2>1. Len(board) \in Nat /\ DOMAIN board = 1..Len(board)
    BY BoardAssumption
  <2>2. IsFiniteSet(1..Len(board))
    BY <2>1, FS_Interval
  <2>3. found \subseteq 1..Len(board)
    BY <2>1
  <2>4. IsFiniteSet(found)
    BY <2>2, <2>3, FS_Subset
  <2> QED
    BY <2>1, <2>3, <2>4, BoardAssumption
<1>3. \A i \in found : off(i) \in Int /\ board[i].exp \in Int /\ i \in Nat
  <2> SUFFICES ASSUME NEW i \in found
               PROVE  off(i) \in Int /\ board[i].exp \in Int /\ i \in Nat
    OBVIOUS
  <2>1. board[i].delta \in Int \cup {None} /\ board[i].delta # None /\ board[i].exp \in Int
    BY BoardAssumption DEF Searchable
  <2>2. off(i) \in Int
    BY <2>1, OffIs
  <2> QED
    BY <1>2, <2>1, <2>2
<1>4. ASSUME NEW S \in SUBSET found, S # {}
      PROVE  Nearest(S) \in S /\ \A j \in S : off(Nearest(S)) <= off(j)
  <2> DEFINE d == [i \in S |-> off(i)]
  <2>1. \A i \in S : d[i] \in Int
    BY <1>3
  <2>2. IsFiniteSet(S) /\ S \in SUBSET Int
    BY <1>2, <1>4, <1>3, FS_Subset
  <2> HIDE DEF d
  <2>3. PICK i \in S : \A j \in S : d[i] < d[j] \/ (d[i] = d[j] /\ i <= j)
    BY <1>4, <2>1, <2>2, FirstIs
  <2>4. \A j \in S : Closer(i, j)
    BY <2>3 DEF d
  <2>5. Nearest(S) \in S /\ \A j \in S : Closer(Nearest(S), j)
    <3> HIDE DEF Closer
    <3> QED
      BY <2>4
  <2> HIDE DEF Nearest
  <2>6. \A j \in S : off(Nearest(S)) \in Int /\ off(j) \in Int
    BY <1>3, <2>5
  <2> QED
    BY <2>5, <2>6
<1> HIDE DEF Nearest
<1>5. ASSUME NEW e, NEW k \in All(e)
      PROVE  /\ Pick(e) \in All(e)
             /\ \A j \in All(e) :
                  /\ ~Poor(Pick(e)) /\ ~Poor(j) => off(Pick(e)) <= off(j)
                  /\ Poor(Pick(e)) => off(Pick(e)) <= off(j)
                  /\ Poor(Pick(e)) /\ ~Poor(j) => off(j) > off(Pick(e)) + LiquidReach
  <2> DEFINE near == Nearest(All(e))
             best == Nearest(Liquid(e))
             pick == Pick(e)
  <2>1. near \in All(e) /\ \A j \in All(e) : off(near) <= off(j)
    BY <1>4
  <2>2. Liquid(e) # {} => best \in Liquid(e) /\ \A j \in Liquid(e) : off(best) <= off(j)
    BY <1>4
  <2>3. \A j \in All(e) : j \in found /\ (j \in Liquid(e) <=> ~Poor(j))
    OBVIOUS
  <2>4. pick = IF Liquid(e) # {} /\ off(best) <= off(near) + LiquidReach THEN best ELSE near
    OBVIOUS
  <2>5. Liquid(e) \subseteq All(e)
    OBVIOUS
  <2> HIDE DEF near, best, pick, All, Liquid, Poor, off, found
  <2>6. \A j \in All(e) : off(j) \in Int
    BY <1>3, <2>3
  <2>7. CASE Liquid(e) # {} /\ off(best) <= off(near) + LiquidReach
    <3>1. pick = best /\ pick \in All(e) /\ ~Poor(pick)
      BY <2>2, <2>3, <2>4, <2>5, <2>7
    <3>2. \A j \in All(e) : ~Poor(j) => off(pick) <= off(j)
      BY <2>2, <2>3, <2>7, <3>1
    <3> QED
      BY <3>1, <3>2 DEF pick
  <2>8. CASE ~(Liquid(e) # {} /\ off(best) <= off(near) + LiquidReach)
    <3>1. pick = near /\ pick \in All(e) /\ \A j \in All(e) : off(pick) <= off(j)
      BY <2>1, <2>4, <2>8
    <3>2. ASSUME NEW j \in All(e), ~Poor(j)
          PROVE  off(j) > off(pick) + LiquidReach
      <4>1. j \in Liquid(e) /\ off(best) <= off(j) /\ best \in All(e)
        BY <2>2, <2>3, <2>5, <3>2
      <4>2. ~(off(best) <= off(pick) + LiquidReach)
        BY <2>8, <3>1, <4>1
      <4>3. off(best) \in Int /\ off(j) \in Int /\ off(pick) \in Int
        BY <2>6, <3>1, <4>1
      <4> QED
        BY <1>2, <4>1, <4>2, <4>3
    <3> QED
      BY <3>1, <3>2 DEF pick
  <2> QED
    BY <2>7, <2>8
<1> HIDE DEF Pick
<1>6. /\ IsFiniteSet(picks) /\ picks \subseteq found
      /\ \A i \in picks : i = Pick(board[i].exp)
      /\ \A i, j \in picks : board[i].exp = board[j].exp => i = j
  <2>1. \A i \in found : Pick(board[i].exp) \in found
                         /\ board[Pick(board[i].exp)].exp = board[i].exp
    <3> SUFFICES ASSUME NEW i \in found
                 PROVE  Pick(board[i].exp) \in found
                        /\ board[Pick(board[i].exp)].exp = board[i].exp
      OBVIOUS
    <3>1. i \in All(board[i].exp)
      OBVIOUS
    <3>2. Pick(board[i].exp) \in All(board[i].exp)
      BY <1>5, <3>1
    <3> QED
      BY <3>2
  <2>2. \A p \in picks : \E i \in found : p = Pick(board[i].exp)
    OBVIOUS
  <2> HIDE DEF picks, found
  <2>3. picks \subseteq found
    BY <2>1, <2>2
  <2>4. \A i \in picks : i = Pick(board[i].exp)
    BY <2>1, <2>2
  <2>5. \A i, j \in picks : board[i].exp = board[j].exp => i = j
    BY <2>4
  <2>6. IsFiniteSet(picks)
    BY <1>2, <2>3, FS_Subset
  <2> QED
    BY <2>3, <2>4, <2>5, <2>6
<1>7. \A i \in found : Pick(board[i].exp) \in picks
  OBVIOUS
<1>8. \A i \in found : First(i) \in found /\ board[First(i)].exp = board[i].exp
  <2> SUFFICES ASSUME NEW i \in found
               PROVE  First(i) \in found /\ board[First(i)].exp = board[i].exp
    OBVIOUS
  <2> DEFINE S == {j \in found : board[j].exp = board[i].exp}
  <2>1. S \in SUBSET Nat /\ i \in S
    BY <1>2
  <2>2. First(i) = Min(S)
    OBVIOUS
  <2> HIDE DEF First, S
  <2>3. First(i) \in S
    BY <2>1, <2>2, LeastIs
  <2> QED
    BY <2>3 DEF S
<1> DEFINE R == {w \in picks \X picks : Ahead(w[1], w[2])}
<1>9. \A i, j \in picks : <<i, j>> \in R <=> Ahead(i, j)
  OBVIOUS
<1> HIDE DEF R
<1>10. \A i \in picks : off(i) \in Int /\ First(i) \in Int /\ Poor(i) \in BOOLEAN /\ board[i].exp \in Int
  <2>1. \A i \in picks : Poor(i) \in BOOLEAN
    OBVIOUS
  <2> HIDE DEF Poor, First, off, picks, found
  <2> QED
    BY <1>2, <1>3, <1>6, <1>8, <2>1
<1>11. \A i, j \in picks : First(i) = First(j) => i = j
  <2> HIDE DEF First, picks, found
  <2> QED
    BY <1>6, <1>8
<1>12. \A i, j \in picks : Ahead(i, j) <=> \/ ~Poor(i) /\ Poor(j)
                                          \/ /\ Poor(i) <=> Poor(j)
                                             /\ off(i) < off(j) \/ (off(i) = off(j) /\ First(i) < First(j))
  <2> SUFFICES ASSUME NEW i \in picks, NEW j \in picks
               PROVE  Ahead(i, j) <=> \/ ~Poor(i) /\ Poor(j)
                                      \/ /\ Poor(i) <=> Poor(j)
                                         /\ off(i) < off(j) \/ (off(i) = off(j) /\ First(i) < First(j))
    OBVIOUS
  <2>1. off(i) \in Int /\ off(j) \in Int /\ Poor(i) \in BOOLEAN /\ Poor(j) \in BOOLEAN
    BY <1>10
  <2> HIDE DEF First
  <2>2. Ahead(i, j) = IF Poor(i) # Poor(j) THEN Poor(j)
                      ELSE IF off(i) # off(j) THEN off(i) < off(j) ELSE First(i) < First(j)
    OBVIOUS
  <2> HIDE DEF Ahead, Poor, off
  <2>3. CASE Poor(i) # Poor(j)
    BY <2>1, <2>2, <2>3
  <2>4. CASE Poor(i) = Poor(j) /\ off(i) # off(j)
    BY <2>1, <2>2, <2>4
  <2>5. CASE Poor(i) = Poor(j) /\ off(i) = off(j)
    <3>1. Ahead(i, j) <=> First(i) < First(j)
      BY <2>2, <2>5
    <3>2. (Poor(i) <=> Poor(j)) /\ ~(off(i) < off(j))
      BY <2>1, <2>5
    <3> QED
      BY <2>5, <3>1, <3>2
  <2> QED
    BY <2>3, <2>4, <2>5
<1>13. top = {i \in picks : Place(picks, R, i) < n}
  <2>1. ASSUME NEW i \in picks
        PROVE  {j \in picks \ {i} : Ahead(j, i)} = Before(picks, R, i)
    <3>1. ~Ahead(i, i)
      <4> HIDE DEF Ahead, Poor, First, off
      <4> QED
        BY <1>10, <1>12
    <3> HIDE DEF Ahead
    <3> QED
      BY <1>9, <3>1 DEF Before
  <2>2. \A i \in picks : Cardinality({j \in picks \ {i} : Ahead(j, i)}) = Place(picks, R, i)
    BY <2>1 DEF Place
  <2> HIDE DEF picks, Ahead
  <2> QED
    BY <2>2
<1> HIDE DEF Ahead, top
<1>14. Orders(R, picks)
  <2> SUFFICES ASSUME NEW x \in picks, NEW y \in picks, NEW z \in picks
               PROVE  /\ <<x, x>> \notin R
                      /\ x # y => <<x, y>> \in R \/ <<y, x>> \in R
                      /\ <<x, y>> \in R /\ <<y, z>> \in R => <<x, z>> \in R
    BY DEF Orders
  <2> HIDE DEF Poor, First, off, picks
  <2>1. /\ off(x) \in Int /\ off(y) \in Int /\ off(z) \in Int
        /\ First(x) \in Int /\ First(y) \in Int /\ First(z) \in Int
    BY <1>10
  <2>2. <<x, x>> \notin R
    BY <1>9, <1>12, <2>1
  <2>3. x # y => <<x, y>> \in R \/ <<y, x>> \in R
    BY <1>9, <1>11, <1>12, <2>1
  <2>4. <<x, y>> \in R /\ <<y, z>> \in R => <<x, z>> \in R
    BY <1>9, <1>12, <2>1
  <2> QED
    BY <2>2, <2>3, <2>4
<1>15. ASSUME NEW p \in picks, p \notin top
       PROVE  /\ Cardinality(top) = n
              /\ \A t \in top : /\ Poor(t) => Poor(p)
                                /\ (Poor(t) <=> Poor(p)) => off(t) <= off(p)
  <2> HIDE DEF Poor, First, off, picks
  <2>1. Place(picks, R, p) \in Int /\ Place(picks, R, p) >= n
    <3>1. Place(picks, R, p) \in 0..(Cardinality(picks) - 1)
      BY <1>6, <1>14, PlaceIs
    <3>2. ~(Place(picks, R, p) < n)
      BY <1>13, <1>15
    <3> QED
      BY <1>2, <3>1, <3>2
  <2>2. Cardinality(top) = n
    BY <1>2, <1>6, <1>13, <1>14, <2>1, FirstFew
  <2>3. ASSUME NEW t \in top
        PROVE  Ahead(t, p)
    <3>1. t \in picks /\ Place(picks, R, t) < n
      BY <1>13
    <3>2. <<p, t>> \notin R
      <4>1. SUFFICES ASSUME <<p, t>> \in R PROVE FALSE
        OBVIOUS
      <4>2. Place(picks, R, p) < Place(picks, R, t)
        BY <1>6, <1>14, <3>1, <4>1, PlacesGrow
      <4>3. Place(picks, R, t) \in 0..(Cardinality(picks) - 1)
        BY <1>6, <1>14, <3>1, PlaceIs
      <4> QED
        BY <1>2, <2>1, <3>1, <4>2, <4>3
    <3>3. t # p
      BY <1>15
    <3> QED
      BY <1>9, <1>14, <3>1, <3>2, <3>3 DEF Orders
  <2>4. ASSUME NEW t \in top
        PROVE  (Poor(t) => Poor(p)) /\ ((Poor(t) <=> Poor(p)) => off(t) <= off(p))
    <3>1. t \in picks /\ Ahead(t, p)
      BY <1>13, <2>3
    <3>2. off(t) \in Int /\ off(p) \in Int
      BY <1>10, <3>1
    <3> QED
      BY <1>12, <3>1, <3>2
  <2> QED
    BY <2>2, <2>4
<1>16. /\ Cardinality(T) = Cardinality(top) /\ IsFiniteSet(T)
       /\ \A x \in T : \E i \in top : x = board[i]
       /\ \A i \in top : board[i] \in T
  <2>1. top \subseteq picks /\ IsFiniteSet(top)
    <3>1. top \subseteq picks
      BY <1>13
    <3> QED
      BY <1>6, <3>1, FS_Subset
  <2>2. (\A x \in T : \E i \in top : x = board[i]) /\ (\A i \in top : board[i] \in T)
    OBVIOUS
  <2> HIDE DEF T, picks
  <2> DEFINE f == [i \in top |-> board[i]]
  <2>3. f \in [top -> T] /\ \A i, j \in top : f[i] = f[j] => i = j
    BY <1>6, <2>1, <2>2
  <2>4. \A x \in T : \E i \in top : f[i] = x
    BY <2>2
  <2> HIDE DEF f
  <2>5. f \in Injection(top, T) /\ f \in Surjection(top, T)
    BY <2>3, <2>4 DEF Injection, IsInjective, Surjection
  <2>6. IsFiniteSet(T) /\ Cardinality(T) = Cardinality(top)
    BY <2>1, <2>5, FS_Surjection
  <2> QED
    BY <2>2, <2>6
<1> DEFINE Q == {w \in T \X T : w[1].exp < w[2].exp}
<1>17. /\ Len(chosen) = Cardinality(T) /\ Cardinality(T) \in Nat
       /\ DOMAIN chosen = 1..Len(chosen)
       /\ \A m \in DOMAIN chosen : chosen[m] \in T
       /\ \A x \in T : \E m \in DOMAIN chosen : chosen[m] = x
  <2>1. \A x, y \in T : <<x, y>> \in Q <=> x.exp < y.exp
    OBVIOUS
  <2> DEFINE RankIn(x) == Cardinality({y \in T : y.exp < x.exp})
  <2> HIDE DEF Q, T, picks
  <2>2. \A x \in T : x.exp \in Int
    <3>1. top \subseteq picks
      BY <1>13
    <3> QED
      BY <1>10, <1>16, <3>1
  <2>3. \A x, y \in T : x.exp = y.exp => x = y
    <3>1. top \subseteq picks
      BY <1>13
    <3> QED
      BY <1>6, <1>16, <3>1
  <2>4. Orders(Q, T)
    <3> SUFFICES ASSUME NEW x \in T, NEW y \in T, NEW z \in T
                 PROVE  /\ <<x, x>> \notin Q
                        /\ x # y => <<x, y>> \in Q \/ <<y, x>> \in Q
                        /\ <<x, y>> \in Q /\ <<y, z>> \in Q => <<x, z>> \in Q
      BY DEF Orders
    <3>1. x.exp \in Int /\ y.exp \in Int /\ z.exp \in Int /\ (x.exp = y.exp => x = y)
      BY <2>2, <2>3
    <3>2. /\ <<x, x>> \in Q <=> x.exp < x.exp
          /\ <<x, y>> \in Q <=> x.exp < y.exp
          /\ <<y, x>> \in Q <=> y.exp < x.exp
          /\ <<y, z>> \in Q <=> y.exp < z.exp
          /\ <<x, z>> \in Q <=> x.exp < z.exp
      BY <2>1
    <3> QED
      BY <3>1, <3>2
  <2>5. ASSUME NEW x \in T
        PROVE  RankIn(x) = Place(T, Q, x)
    <3>1. {y \in T : y.exp < x.exp} = Before(T, Q, x)
      BY <2>1 DEF Before
    <3> QED
      BY <3>1 DEF Place
  <2>6. chosen = [m \in 1..Cardinality(T) |-> CHOOSE x \in T : RankIn(x) = m - 1]
    BY <1>1
  <2>7. Cardinality(T) \in Nat
    BY <1>16, FS_CardinalityType
  <2> HIDE DEF chosen, RankIn
  <2>8. Len(chosen) = Cardinality(T) /\ DOMAIN chosen = 1..Cardinality(T)
    BY <2>6, <2>7
  <2>9. ASSUME NEW m \in 1..Cardinality(T)
        PROVE  chosen[m] \in T /\ RankIn(chosen[m]) = m - 1
    <3>1. m - 1 \in 0..(Cardinality(T) - 1)
      BY <2>7
    <3>2. \E x \in T : RankIn(x) = m - 1
      BY <1>16, <2>4, <2>5, <3>1, PlacesTaken
    <3>3. chosen[m] = CHOOSE x \in T : RankIn(x) = m - 1
      BY <2>6
    <3> QED
      BY <3>2, <3>3
  <2>10. ASSUME NEW x \in T
         PROVE  \E m \in 1..Cardinality(T) : chosen[m] = x
    <3>1. RankIn(x) \in 0..(Cardinality(T) - 1)
      BY <1>16, <2>4, <2>5, PlaceIs
    <3>2. RankIn(x) + 1 \in 1..Cardinality(T) /\ (RankIn(x) + 1) - 1 = RankIn(x)
      BY <2>7, <3>1
    <3>3. chosen[RankIn(x) + 1] \in T /\ RankIn(chosen[RankIn(x) + 1]) = RankIn(x)
      BY <2>9, <3>2
    <3>4. chosen[RankIn(x) + 1] = x
      BY <1>16, <2>4, <2>5, <3>3, PlacesTaken
    <3> QED
      BY <3>2, <3>4
  <2> QED
    BY <2>7, <2>8, <2>9, <2>10
<1>18. ASSUME NEW c \in Priced(board, side, g)
       PROVE  /\ \/ \E i \in DOMAIN chosen : chosen[i].exp = c.exp
                 \/ /\ Len(chosen) = n
                    /\ \A i \in DOMAIN chosen :
                         /\ Reachable(c, board, side, g) => LiquidityProblem(chosen[i]) = None
                         /\ \/ Reachable(c, board, side, g)
                            \/ LiquidityProblem(chosen[i]) # None
                            => Off(chosen[i], side) <= Off(c, side)
              /\ \A i \in DOMAIN chosen :
                   (/\ chosen[i].exp = c.exp /\ LiquidityProblem(chosen[i]) # None
                    /\ LiquidityProblem(c) = None) =>
                     Off(c, side) > Off(chosen[i], side) + LiquidReach
  <2>1. PICK j \in found : c = board[j]
    BY DEF Priced, Range
  <2> DEFINE e == board[j].exp
             p == Pick(e)
  <2>2. j \in All(e) /\ p \in picks
    BY <1>7
  <2>3. /\ p \in All(e)
        /\ ~Poor(p) /\ ~Poor(j) => off(p) <= off(j)
        /\ Poor(p) => off(p) <= off(j)
        /\ Poor(p) /\ ~Poor(j) => off(j) > off(p) + LiquidReach
    BY <1>5, <2>2
  <2>4. p \in found /\ board[p].exp = e /\ c.exp = e
    BY <2>1, <2>3
  <2>5. off(p) \in Int /\ off(j) \in Int
    BY <1>3, <2>4
  <2>6. Reachable(c, board, side, g) => ~Poor(j) /\ off(j) <= off(p) + LiquidReach
    <3>1. board[p] \in Priced(board, side, g)
      BY <1>2, <2>4 DEF Priced, Range
    <3> QED
      BY <2>1, <2>4, <3>1 DEF Reachable
  <2>7. Reachable(c, board, side, g) => ~Poor(p)
    BY <1>2, <2>3, <2>5, <2>6
  <2>8. \A i \in DOMAIN chosen : \E t \in top : chosen[i] = board[t]
    <3> HIDE DEF chosen, T
    <3> QED
      BY <1>16, <1>17
  <2>9. \A t \in top : t \in picks
    BY <1>13
  <2>10. (LiquidityProblem(c) = None) = ~Poor(j) /\ off(j) = Off(c, side)
    BY <2>1
  <2>11. \A i \in DOMAIN chosen : \E t \in top :
           /\ chosen[i].exp = board[t].exp /\ (LiquidityProblem(chosen[i]) # None <=> Poor(t))
           /\ Off(chosen[i], side) = off(t)
    <3> HIDE DEF chosen
    <3> QED
      BY <2>8
  <2>12. \A i \in DOMAIN chosen :
           (/\ chosen[i].exp = c.exp /\ LiquidityProblem(chosen[i]) # None
            /\ LiquidityProblem(c) = None) =>
             Off(c, side) > Off(chosen[i], side) + LiquidReach
    <3> SUFFICES ASSUME NEW i \in DOMAIN chosen, chosen[i].exp = c.exp,
                        LiquidityProblem(chosen[i]) # None, LiquidityProblem(c) = None
                 PROVE  Off(c, side) > Off(chosen[i], side) + LiquidReach
      OBVIOUS
    <3>1. PICK t \in top : /\ chosen[i].exp = board[t].exp /\ Poor(t)
                           /\ Off(chosen[i], side) = off(t)
      <4> HIDE DEF chosen, Poor, off
      <4> QED
        BY <2>11
    <3> HIDE DEF chosen, Poor, off, picks
    <3>2. t = p
      <4>1. t \in picks /\ t = Pick(board[t].exp)
        BY <1>6, <2>9
      <4> QED
        BY <2>4, <3>1, <4>1
    <3>3. ~Poor(j)
      BY <2>10
    <3> QED
      BY <2>3, <2>10, <3>1, <3>2, <3>3
  <2>13. CASE p \in top
    <3>1. board[p] \in T
      BY <1>16, <2>13
    <3>2. PICK m \in DOMAIN chosen : chosen[m] = board[p]
      <4> HIDE DEF chosen, T
      <4> QED
        BY <1>17, <3>1
    <3> QED
      BY <2>4, <2>12, <3>2
  <2>14. CASE p \notin top
    <3>1. /\ Cardinality(top) = n
          /\ \A t \in top : (Poor(t) => Poor(p)) /\ ((Poor(t) <=> Poor(p)) => off(t) <= off(p))
      BY <1>15, <2>2, <2>14
    <3> HIDE DEF chosen, T
    <3>2. Len(chosen) = n
      BY <1>16, <1>17, <3>1
    <3>3. ASSUME NEW i \in DOMAIN chosen
          PROVE  /\ Reachable(c, board, side, g) => LiquidityProblem(chosen[i]) = None
                 /\ Reachable(c, board, side, g) \/ LiquidityProblem(chosen[i]) # None
                      => Off(chosen[i], side) <= Off(c, side)
      <4>1. PICK t \in top : /\ (LiquidityProblem(chosen[i]) # None <=> Poor(t))
                             /\ Off(chosen[i], side) = off(t)
        <5> HIDE DEF Poor, off
        <5> QED
          BY <2>11, <3>3
      <4> HIDE DEF Poor, off, picks, p, e
      <4>2. t \in found /\ off(t) \in Int
        BY <1>10, <1>6, <2>9
      <4>3. /\ Poor(t) => Poor(p)
            /\ (Poor(t) <=> Poor(p)) => off(t) <= off(p)
        BY <3>1
      <4>4. CASE Reachable(c, board, side, g)
        <5>1. ~Poor(p) /\ ~Poor(t) /\ ~Poor(j)
          BY <2>6, <2>7, <4>3, <4>4
        <5>2. off(t) <= off(p) /\ off(p) <= off(j)
          BY <2>3, <4>3, <5>1
        <5>3. off(t) <= off(j)
          BY <2>5, <4>2, <5>2
        <5> QED
          BY <2>10, <4>1, <5>1, <5>3
      <4>5. CASE ~Reachable(c, board, side, g)
        <5> SUFFICES ASSUME Poor(t)
                     PROVE  off(t) <= off(j)
          BY <2>10, <4>1, <4>5
        <5>1. off(t) <= off(p) /\ off(p) <= off(j)
          BY <2>3, <4>3
        <5> QED
          BY <2>5, <4>2, <5>1
      <4> QED
        BY <4>4, <4>5
    <3> QED
      BY <2>12, <3>2, <3>3 DEF chosen
  <2> QED
    BY <2>13, <2>14
<1> QED
  <2> HIDE DEF chosen, T
  <2>1. Len(chosen) \in Nat /\ DOMAIN chosen = 1..Len(chosen)
    BY <1>17
  <2> QED
    BY <1>18, <2>1 DEF chosen

-----------------------------------------------------------------------------
(* The panels: sequences in order *)

\* A finite set in the order R, as InOrder gives it.
Sorted(S, R) == [n \in 1..Cardinality(S) |-> CHOOSE x \in S : Place(S, R, x) = n - 1]

\* It has each once, and those before it before it.
LEMMA SortedIs ==
  ASSUME NEW S, IsFiniteSet(S), NEW R, Orders(R, S)
  PROVE  /\ Cardinality(S) \in Nat /\ Len(Sorted(S, R)) = Cardinality(S)
         /\ DOMAIN Sorted(S, R) = 1..Cardinality(S)
         /\ \A n \in 1..Cardinality(S) :
              Sorted(S, R)[n] \in S /\ Place(S, R, Sorted(S, R)[n]) = n - 1
         /\ \A x \in S : \E n \in 1..Cardinality(S) : Sorted(S, R)[n] = x
         /\ \A n, m \in 1..Cardinality(S) : n < m => <<Sorted(S, R)[n], Sorted(S, R)[m]>> \in R
<1>1. Cardinality(S) \in Nat
  BY FS_CardinalityType
<1>2. Len(Sorted(S, R)) = Cardinality(S) /\ DOMAIN Sorted(S, R) = 1..Cardinality(S)
  BY <1>1 DEF Sorted
<1>3. ASSUME NEW n \in 1..Cardinality(S)
      PROVE  Sorted(S, R)[n] \in S /\ Place(S, R, Sorted(S, R)[n]) = n - 1
  <2>1. n - 1 \in 0..(Cardinality(S) - 1)
    BY <1>1
  <2>2. \A k \in 0..(Cardinality(S) - 1) : \E x \in S : Place(S, R, x) = k
    BY PlacesTaken
  <2>3. \E x \in S : Place(S, R, x) = n - 1
    BY <2>1, <2>2
  <2>4. Sorted(S, R)[n] = CHOOSE x \in S : Place(S, R, x) = n - 1
    BY DEF Sorted
  <2> QED
    BY <2>3, <2>4
<1>4. ASSUME NEW x \in S
      PROVE  \E n \in 1..Cardinality(S) : Sorted(S, R)[n] = x
  <2>1. Place(S, R, x) \in 0..(Cardinality(S) - 1)
    BY PlaceIs
  <2>2. PICK n \in 1..Cardinality(S) : n - 1 = Place(S, R, x)
    <3>1. Place(S, R, x) + 1 \in 1..Cardinality(S) /\ (Place(S, R, x) + 1) - 1 = Place(S, R, x)
      BY <1>1, <2>1
    <3> QED
      BY <3>1
  <2>3. Sorted(S, R)[n] \in S /\ Place(S, R, Sorted(S, R)[n]) = Place(S, R, x)
    BY <1>3, <2>2
  <2>4. \A y, z \in S : Place(S, R, y) = Place(S, R, z) => y = z
    BY PlacesTaken
  <2> QED
    BY <2>3, <2>4
<1>5. ASSUME NEW n \in 1..Cardinality(S), NEW m \in 1..Cardinality(S), n < m
      PROVE  <<Sorted(S, R)[n], Sorted(S, R)[m]>> \in R
  <2> DEFINE x == Sorted(S, R)[n]
             y == Sorted(S, R)[m]
  <2>1. x \in S /\ y \in S /\ Place(S, R, x) = n - 1 /\ Place(S, R, y) = m - 1
    BY <1>3
  <2>2. n \in Int /\ m \in Int
    BY <1>1
  <2> HIDE DEF x, y
  <2>3. x # y
    BY <1>5, <2>1, <2>2
  <2>4. <<y, x>> \notin R
    <3>1. SUFFICES ASSUME <<y, x>> \in R PROVE FALSE
      OBVIOUS
    <3>2. Place(S, R, y) < Place(S, R, x)
      BY <2>1, <3>1, PlacesGrow
    <3> QED
      BY <1>5, <2>1, <2>2, <3>2
  <2>5. \A u, v \in S : u # v => <<u, v>> \in R \/ <<v, u>> \in R
    BY DEF Orders
  <2>6. <<x, y>> \in R
    BY <2>1, <2>3, <2>4, <2>5
  <2> QED
    BY <2>6 DEF x, y
<1> QED
  BY <1>1, <1>2, <1>3, <1>4, <1>5

\* Numbers in their order.
LEMMA AscendingIs ==
  ASSUME NEW S \in SUBSET Int, IsFiniteSet(S)
  PROVE  /\ Cardinality(S) \in Nat /\ Len(Ascending(S)) = Cardinality(S)
         /\ DOMAIN Ascending(S) = 1..Cardinality(S)
         /\ \A n \in 1..Cardinality(S) : Ascending(S)[n] \in S
         /\ \A x \in S : \E n \in 1..Cardinality(S) : Ascending(S)[n] = x
         /\ \A n, m \in 1..Cardinality(S) : n < m => Ascending(S)[n] < Ascending(S)[m]
<1> DEFINE R == {w \in S \X S : w[1] < w[2]}
<1>1. \A i, j \in S : <<i, j>> \in R <=> i < j
  OBVIOUS
<1> HIDE DEF R
<1>2. Orders(R, S)
  <2> SUFFICES ASSUME NEW x \in S, NEW y \in S, NEW z \in S
               PROVE  /\ <<x, x>> \notin R
                      /\ x # y => <<x, y>> \in R \/ <<y, x>> \in R
                      /\ <<x, y>> \in R /\ <<y, z>> \in R => <<x, z>> \in R
    BY DEF Orders
  <2>1. x \in Int /\ y \in Int /\ z \in Int
    OBVIOUS
  <2> QED
    BY <1>1, <2>1
<1>3. Ascending(S) = Sorted(S, R)
  <2>1. \A x \in S : {y \in S : y < x} = Before(S, R, x)
    BY <1>1 DEF Before
  <2>2. \A x \in S : Cardinality({y \in S : y < x}) = Place(S, R, x)
    BY <2>1 DEF Place
  <2> DEFINE RankIn(x) == Cardinality({y \in S : y < x})
  <2>3. Ascending(S) = [n \in 1..Cardinality(S) |-> CHOOSE x \in S : RankIn(x) = n - 1]
    BY DEF Ascending, InOrder
  <2>4. \A x \in S : RankIn(x) = Place(S, R, x)
    BY <2>2
  <2> HIDE DEF RankIn
  <2>5. \A n : (CHOOSE x \in S : RankIn(x) = n - 1) = CHOOSE x \in S : Place(S, R, x) = n - 1
    BY <2>4
  <2> QED
    BY <2>3, <2>5 DEF Sorted
<1>4. /\ Cardinality(S) \in Nat /\ Len(Sorted(S, R)) = Cardinality(S)
      /\ DOMAIN Sorted(S, R) = 1..Cardinality(S)
      /\ \A n \in 1..Cardinality(S) : Sorted(S, R)[n] \in S
      /\ \A x \in S : \E n \in 1..Cardinality(S) : Sorted(S, R)[n] = x
      /\ \A n, m \in 1..Cardinality(S) : n < m => <<Sorted(S, R)[n], Sorted(S, R)[m]>> \in R
  BY <1>2, SortedIs
<1> QED
  BY <1>1, <1>3, <1>4

\* The first numbers are in their order.
LEMMA AscendingOf ==
  ASSUME NEW n \in Nat
  PROVE  Ascending(1..n) = [i \in 1..n |-> i]
<1>1. IsFiniteSet(1..n) /\ Cardinality(1..n) = n
  BY FS_Interval
<1>2. ASSUME NEW x \in 1..n
      PROVE  Cardinality({y \in 1..n : y < x}) = x - 1
  <2>1. {y \in 1..n : y < x} = 1..(x - 1)
    OBVIOUS
  <2>2. Cardinality(1..(x - 1)) = x - 1
    BY FS_Interval
  <2> QED
    BY <2>1, <2>2
<1>3. ASSUME NEW i \in 1..n
      PROVE  (CHOOSE x \in 1..n : Cardinality({y \in 1..n : y < x}) = i - 1) = i
  BY <1>2
<1> QED
  BY <1>1, <1>3 DEF Ascending, InOrder

\* Those of a sequence, by where they are in it.
LEMMA ThoseAre ==
  ASSUME NEW seq, Len(seq) \in Nat, DOMAIN seq = 1..Len(seq), NEW S \in SUBSET DOMAIN seq
  PROVE  LET at == Ascending(S)
             those == [n \in DOMAIN at |-> seq[at[n]]]
         IN /\ Cardinality(S) \in Nat /\ Len(those) = Cardinality(S)
            /\ DOMAIN those = 1..Cardinality(S) /\ DOMAIN at = 1..Cardinality(S)
            /\ \A n \in 1..Cardinality(S) : at[n] \in S /\ those[n] = seq[at[n]]
            /\ \A i \in S : \E n \in 1..Cardinality(S) : at[n] = i /\ those[n] = seq[i]
            /\ \A n, m \in 1..Cardinality(S) : n < m => at[n] < at[m]
<1>1. S \in SUBSET Int /\ IsFiniteSet(S)
  <2>1. IsFiniteSet(1..Len(seq))
    BY FS_Interval
  <2> QED
    BY <2>1, FS_Subset
<1>2. /\ Cardinality(S) \in Nat /\ DOMAIN Ascending(S) = 1..Cardinality(S)
      /\ \A n \in 1..Cardinality(S) : Ascending(S)[n] \in S
      /\ \A x \in S : \E n \in 1..Cardinality(S) : Ascending(S)[n] = x
      /\ \A n, m \in 1..Cardinality(S) : n < m => Ascending(S)[n] < Ascending(S)[m]
  BY <1>1, AscendingIs
<1> QED
  BY <1>2

-----------------------------------------------------------------------------
(* The panels: the funnel *)

\* What the cheap metrics say of a name, and the names as they say.
Passing(n) == n.bulk # None /\ GateReasons(n.bulk) \subseteq CoverageReasons
CheapOf(names) == [i \in DOMAIN names |-> [names[i] EXCEPT !.metrics = names[i].bulk]]

\* A name the gates refuse takes no place: those that pass are the same, whether
\* the others were there or not.
LEMMA SamePassers ==
  ASSUME NEW names \in Universe
  PROVE  Prerank(CheapOf(names)) = Prerank(CheapOf(Those(names, Passing)))
<1> DEFINE T(n) == n.metrics # None /\ GateReasons(n.metrics) \subseteq CoverageReasons
           S == {i \in DOMAIN names : Passing(names[i])}
           at == Ascending(S)
           few == Those(names, Passing)
           cheap == CheapOf(names)
           left == CheapOf(few)
           m == Cardinality(S)
<1>1. /\ Len(names) \in Nat /\ DOMAIN names = 1..Len(names)
      /\ \A i \in DOMAIN names :
           DOMAIN names[i] = {"symbol", "sector", "metrics", "bulk", "deep", "cap", "report"}
  BY UniverseAssumption
<1>2. DOMAIN cheap = DOMAIN names /\ \A i \in DOMAIN names : cheap[i].metrics = names[i].bulk
  BY <1>1 DEF CheapOf
<1>3. {i \in DOMAIN cheap : T(cheap[i])} = S
  <2> HIDE DEF cheap
  <2> QED
    BY <1>2 DEF Passing
<1>4. few = [n \in DOMAIN at |-> names[at[n]]]
  BY DEF Those
<1>5. Those(cheap, T) = [n \in DOMAIN at |-> cheap[at[n]]]
  <2> HIDE DEF T, S, cheap
  <2> QED
    BY <1>3 DEF Those
<1>6. m \in Nat /\ DOMAIN at = 1..m /\ \A n \in 1..m : at[n] \in S
  BY <1>1, ThoseAre
<1>7. DOMAIN left = 1..m /\ \A n \in 1..m : left[n] = cheap[at[n]]
  <2>1. DOMAIN few = 1..m /\ \A n \in 1..m : few[n] = names[at[n]] /\ at[n] \in DOMAIN names
    <3> HIDE DEF few, at
    <3> QED
      BY <1>4, <1>6
  <2> HIDE DEF few, at, S
  <2> QED
    BY <2>1 DEF CheapOf
<1>8. {n \in DOMAIN left : T(left[n])} = 1..m
  <2>1. \A n \in 1..m : T(cheap[at[n]])
    <3> HIDE DEF cheap, at, T
    <3> QED
      BY <1>3, <1>6
  <2> HIDE DEF left, cheap, at, S
  <2> QED
    BY <1>7, <2>1
<1>9. Those(left, T) = [n \in 1..m |-> left[n]]
  <2>1. Ascending(1..m) = [n \in 1..m |-> n]
    BY <1>6, AscendingOf
  <2> HIDE DEF T, S, left, m
  <2>2. Those(left, T) = [n \in DOMAIN Ascending(1..m) |-> left[Ascending(1..m)[n]]]
    BY <1>8 DEF Those
  <2> QED
    BY <2>1, <2>2
<1>10. Those(left, T) = Those(cheap, T)
  <2> HIDE DEF T, S, left, m, cheap, at
  <2> QED
    BY <1>5, <1>6, <1>7, <1>9
<1>11. Prerank(cheap) = Prerank(left)
  <2> HIDE DEF S, left, m, cheap, at
  <2> DEFINE n == IF TopNames = None THEN None ELSE Max({PrerankKeep, TopNames})
  <2>1. \A u : Prerank(u) = Take(RankByFundamentals(Those(u, T)), n)
    BY DEF Prerank
  <2> HIDE DEF T, n
  <2> QED
    BY <1>10, <2>1
<1> QED
  BY <1>11

-----------------------------------------------------------------------------
(* The panels: the order of the rows *)

\* Numbers from the greatest to the least, of two alike the earlier first.
ByScore(n, sc) ==
  {w \in (1..n) \X (1..n) :
     sc[w[1]] > sc[w[2]] \/ (sc[w[1]] = sc[w[2]] /\ w[1] < w[2])}
Over(n, sc, x) == {i \in 1..n : sc[i] > x}
Under(n, sc, x) == {i \in 1..n : sc[i] < x}

Order(n, sc) == Sorted(1..n, ByScore(n, sc))
AllInt(n, sc) == \A i \in 1..n : sc[i] \in Int
IsOrder(order, n, sc) ==
  /\ DOMAIN order = 1..n /\ \A k \in 1..n : order[k] \in 1..n
  /\ \A i \in 1..n : \E k \in 1..n : order[k] = i
  /\ \A k, l \in 1..n : k < l => sc[order[k]] >= sc[order[l]]
  /\ \A k \in 1..n :
       /\ Cardinality(Over(n, sc, sc[order[k]])) <= k - 1
       /\ Cardinality(Under(n, sc, sc[order[k]])) <= n - k

\* In their order none has more above it than come before it, nor more below it
\* than come after.
LEMMA OrderIs ==
  ASSUME NEW n \in Nat, NEW sc, AllInt(n, sc)
  PROVE  IsOrder(Order(n, sc), n, sc)
<1> DEFINE S == 1..n
           R == ByScore(n, sc)
           order == Sorted(S, R)
<1> USE DEF AllInt
<1>1. \A i, j \in S : <<i, j>> \in R <=> sc[i] > sc[j] \/ (sc[i] = sc[j] /\ i < j)
  BY DEF ByScore
<1>2. IsFiniteSet(S) /\ Cardinality(S) = n
  BY FS_Interval
<1>3. Orders(R, S)
  <2> SUFFICES ASSUME NEW x \in S, NEW y \in S, NEW z \in S
               PROVE  /\ <<x, x>> \notin R
                      /\ x # y => <<x, y>> \in R \/ <<y, x>> \in R
                      /\ <<x, y>> \in R /\ <<y, z>> \in R => <<x, z>> \in R
    BY DEF Orders
  <2>1. x \in Int /\ y \in Int /\ z \in Int /\ sc[x] \in Int /\ sc[y] \in Int /\ sc[z] \in Int
    OBVIOUS
  <2> HIDE DEF R, S
  <2>2. <<x, x>> \notin R
    BY <1>1, <2>1
  <2>3. x # y => <<x, y>> \in R \/ <<y, x>> \in R
    BY <1>1, <2>1
  <2>4. <<x, y>> \in R /\ <<y, z>> \in R => <<x, z>> \in R
    BY <1>1, <2>1
  <2> QED
    BY <2>2, <2>3, <2>4
<1>4. /\ DOMAIN order = S
      /\ \A k \in S : order[k] \in S /\ Place(S, R, order[k]) = k - 1
      /\ \A x \in S : \E k \in S : order[k] = x
      /\ \A k, l \in S : k < l => <<order[k], order[l]>> \in R
  <2> HIDE DEF S, R
  <2>1. /\ DOMAIN order = 1..Cardinality(S)
        /\ \A k \in 1..Cardinality(S) : order[k] \in S /\ Place(S, R, order[k]) = k - 1
        /\ \A x \in S : \E k \in 1..Cardinality(S) : order[k] = x
        /\ \A k, l \in 1..Cardinality(S) : k < l => <<order[k], order[l]>> \in R
    BY <1>2, <1>3, SortedIs
  <2>2. 1..Cardinality(S) = S
    BY <1>2 DEF S
  <2> HIDE DEF order
  <2> QED
    BY <2>1, <2>2
<1> HIDE DEF order
<1>5. ASSUME NEW k \in S, NEW l \in S, k < l
      PROVE  sc[order[k]] >= sc[order[l]]
  <2>1. order[k] \in S /\ order[l] \in S /\ <<order[k], order[l]>> \in R
    BY <1>4, <1>5
  <2>2. sc[order[k]] \in Int /\ sc[order[l]] \in Int
    BY <2>1
  <2> HIDE DEF R
  <2> QED
    BY <1>1, <2>1, <2>2
<1>6. ASSUME NEW k \in S
      PROVE  /\ Cardinality(Over(n, sc, sc[order[k]])) <= k - 1
             /\ Cardinality(Under(n, sc, sc[order[k]])) <= n - k
  <2> DEFINE x == order[k]
             ahead == Before(S, R, x)
  <2>1. x \in S /\ sc[x] \in Int /\ Cardinality(ahead) = k - 1 /\ k \in Int
    <3>1. x \in S /\ Place(S, R, x) = k - 1
      <4> HIDE DEF R, S
      <4> QED
        BY <1>4
    <3>2. sc[x] \in Int /\ k \in Int
      BY <3>1
    <3> HIDE DEF x, R
    <3> QED
      BY <3>1, <3>2 DEF Place
  <2> HIDE DEF x
  <2>2. Over(n, sc, sc[x]) \subseteq ahead
    <3>1. \A i \in S : sc[i] > sc[x] => <<i, x>> \in R
      BY <1>1, <2>1
    <3> QED
      BY <3>1 DEF Over, Before
  <2>3. IsFiniteSet(ahead) /\ ahead \subseteq S
    <3>1. ahead \subseteq S
      BY DEF Before
    <3> QED
      BY <1>2, <3>1, FS_Subset
  <2>4. Cardinality(Over(n, sc, sc[x])) <= k - 1
    BY <2>1, <2>2, <2>3, FS_Subset
  <2> DEFINE rest == (S \ {x}) \ ahead
  <2>5. Under(n, sc, sc[x]) \subseteq rest
    <3>1. \A i \in S : sc[i] < sc[x] => i # x /\ <<i, x>> \notin R
      <4> HIDE DEF R
      <4> QED
        BY <1>1, <2>1
    <3> HIDE DEF R
    <3> QED
      BY <3>1 DEF Under, Before
  <2>6. IsFiniteSet(S \ {x}) /\ Cardinality(S \ {x}) = n - 1
    BY <1>2, <2>1, FS_RemoveElement
  <2>7. ahead \subseteq S \ {x}
    <3> HIDE DEF R
    <3> QED
      BY <1>1, <2>1 DEF Before
  <2>8. IsFiniteSet(rest) /\ Cardinality(rest) = (n - 1) - (k - 1)
    <3> DEFINE T == S \ {x}
    <3>1. Cardinality(T \ ahead) = Cardinality(T) - Cardinality(T \cap ahead)
      <4> HIDE DEF T, ahead
      <4> QED
        BY <2>6, FS_Difference DEF T
    <3>2. T \cap ahead = ahead
      BY <2>7
    <3>3. IsFiniteSet(T \ ahead)
      <4> HIDE DEF T, ahead
      <4> QED
        BY <2>6, FS_Difference DEF T
    <3> HIDE DEF ahead
    <3> QED
      BY <2>1, <2>6, <3>1, <3>2, <3>3
  <2>9. Cardinality(Under(n, sc, sc[x])) <= n - k
    <3>1. Cardinality(Under(n, sc, sc[x])) <= Cardinality(rest)
      <4> HIDE DEF rest
      <4> QED
        BY <2>5, <2>8, FS_Subset
    <3> HIDE DEF rest
    <3> QED
      BY <2>1, <2>8, <3>1
  <2> QED
    BY <2>4, <2>9 DEF x
<1> QED
  BY <1>4, <1>5, <1>6 DEF IsOrder, Order, order

\* The middle of some ratings is no more than one with half of them below it,
\* and no less than one with half of them above it.
LEMMA MedianIs ==
  ASSUME NEW st, NEW n \in Nat, Len(st) = n, DOMAIN st = 1..n, n >= MinRated,
         \A i \in 1..n : st[i] \in Int, NEW j \in 1..n
  PROVE  /\ FieldMedian(st) \in Int
         /\ 2 * Cardinality(Under(n, st, st[j])) >= n => FieldMedian(st) <= st[j]
         /\ 2 * Cardinality(Over(n, st, st[j])) >= n => FieldMedian(st) >= st[j]
<1> DEFINE sc == [i \in 1..n |-> -st[i]]
           order == Order(n, sc)
           s == [k \in 1..n |-> st[order[k]]]
           mid == n \div 2
<1>1. \A i \in 1..n : sc[i] \in Int /\ sc[i] = -st[i]
  OBVIOUS
<1>2. BestFirst(st, LAMBDA x : -x) = s
  <2> DEFINE RankIn(i) == Cardinality({k \in 1..n : -st[k] > -st[i] \/ (-st[k] = -st[i] /\ k < i)})
  <2>1. Cardinality(1..n) = n
    BY FS_Interval
  <2>2. \A i \in 1..n : RankIn(i) = Place(1..n, ByScore(n, sc), i)
    <3>1. \A i \in 1..n : {k \in 1..n : -st[k] > -st[i] \/ (-st[k] = -st[i] /\ k < i)}
                           = Before(1..n, ByScore(n, sc), i)
      BY <1>1 DEF Before, ByScore
    <3> QED
      BY <3>1 DEF Place
  <2> DEFINE ranks == [k \in 1..Cardinality(1..n) |-> CHOOSE i \in 1..n : RankIn(i) = k - 1]
  <2>3. BestFirst(st, LAMBDA x : -x) = [k \in 1..n |-> st[ranks[k]]]
    BY DEF BestFirst, InOrder
  <2> HIDE DEF RankIn, sc
  <2>4. ranks = order
    <3> DEFINE S == 1..n
               ByRank(k) == CHOOSE i \in S : RankIn(i) = k - 1
               ByPlace(k) == CHOOSE i \in S : Place(S, ByScore(n, sc), i) = k - 1
    <3>1. \A k : ByRank(k) = ByPlace(k)
      BY <2>2
    <3>2. ranks = [k \in 1..Cardinality(S) |-> ByRank(k)]
      OBVIOUS
    <3>3. order = [k \in 1..Cardinality(S) |-> ByPlace(k)]
      BY DEF Sorted, Order
    <3> HIDE DEF ByRank, ByPlace, S, ranks, order
    <3> QED
      BY <3>1, <3>2, <3>3
  <2> HIDE DEF ranks, order
  <2> QED
    BY <2>3, <2>4
<1> HIDE DEF sc
<1>3. /\ DOMAIN order = 1..n /\ \A k \in 1..n : order[k] \in 1..n
      /\ \A i \in 1..n : \E k \in 1..n : order[k] = i
      /\ \A k, l \in 1..n : k < l => sc[order[k]] >= sc[order[l]]
      /\ \A k \in 1..n :
           /\ Cardinality(Over(n, sc, sc[order[k]])) <= k - 1
           /\ Cardinality(Under(n, sc, sc[order[k]])) <= n - k
  <2>1. AllInt(n, sc)
    BY <1>1 DEF AllInt
  <2>2. IsOrder(order, n, sc)
    BY <2>1, OrderIs
  <2> QED
    BY <2>2 DEF IsOrder
<1> HIDE DEF order
<1>4. \A k \in 1..n : s[k] \in Int /\ sc[order[k]] = -s[k]
  BY <1>1, <1>3
<1>5. \A k, l \in 1..n : k < l => s[k] <= s[l]
  <2>1. \A k, l \in 1..n : k < l => sc[order[k]] >= sc[order[l]]
    BY <1>3
  <2> HIDE DEF s
  <2>2. ASSUME NEW k \in 1..n, NEW l \in 1..n, k < l
        PROVE  s[k] <= s[l]
    <3>1. s[k] \in Int /\ s[l] \in Int /\ -s[k] >= -s[l]
      BY <1>4, <2>1, <2>2
    <3> QED
      BY <3>1
  <2> QED
    BY <2>2
<1>6. PICK p \in 1..n : order[p] = j
  BY <1>3
<1>7. st[j] \in Int /\ s[p] = st[j] /\ Over(n, sc, sc[j]) = Under(n, st, st[j])
      /\ Under(n, sc, sc[j]) = Over(n, st, st[j])
  <2>1. \A i \in 1..n : (sc[i] > sc[j] <=> st[i] < st[j]) /\ (sc[i] < sc[j] <=> st[i] > st[j])
    BY <1>1
  <2> QED
    BY <1>6, <2>1 DEF Over, Under
<1>8. Cardinality(Under(n, st, st[j])) <= p - 1 /\ Cardinality(Over(n, st, st[j])) <= n - p
  BY <1>3, <1>6, <1>7
<1>9. Cardinality(Under(n, st, st[j])) \in Nat /\ Cardinality(Over(n, st, st[j])) \in Nat
  <2>1. IsFiniteSet(1..n)
    BY FS_Interval
  <2>2. Under(n, st, st[j]) \subseteq 1..n /\ Over(n, st, st[j]) \subseteq 1..n
    BY DEF Under, Over
  <2> QED
    BY <2>1, <2>2, FS_Subset, FS_CardinalityType
<1>10. n >= 1 /\ Len(s) = n
  BY RatingAssumption
<1>11. FieldMedian(st) = IF n % 2 = 1 THEN s[mid + 1] ELSE (s[mid] + s[mid + 1]) \div 2
  <2> DEFINE Median(t) ==
               LET half == Len(t) \div 2
               IN IF Len(t) < MinRated THEN None
                  ELSE IF Len(t) % 2 = 1 THEN t[half + 1] ELSE (t[half] + t[half + 1]) \div 2
  <2>1. FieldMedian(st) = Median(BestFirst(st, LAMBDA x : -x))
    BY DEF FieldMedian
  <2>2. FieldMedian(st) = Median(s)
    <3> HIDE DEF s, Median
    <3> QED
      BY <1>2, <2>1
  <2> HIDE DEF s
  <2>3. MinRated \in Nat /\ ~(Len(s) < MinRated)
    BY <1>10, RatingAssumption
  <2> QED
    BY <1>10, <2>2, <2>3
<1> HIDE DEF s
<1>12. CASE n % 2 = 1
  <2>1. n = 2 * mid + 1 /\ mid \in Nat /\ mid + 1 \in 1..n
    BY <1>12
  <2>2. FieldMedian(st) = s[mid + 1]
    BY <1>11, <1>12
  <2> HIDE DEF mid
  <2>3. s[mid + 1] \in Int /\ p \in Int
    BY <1>4, <2>1
  <2>4. 2 * Cardinality(Under(n, st, st[j])) >= n => s[mid + 1] <= st[j]
    <3> SUFFICES ASSUME p > mid + 1
                 PROVE  s[mid + 1] <= st[j]
      BY <1>8, <1>9, <2>1, <2>3
    <3> QED
      BY <1>5, <1>7, <2>1, <2>3
  <2>5. 2 * Cardinality(Over(n, st, st[j])) >= n => s[mid + 1] >= st[j]
    <3> SUFFICES ASSUME p < mid + 1
                 PROVE  s[mid + 1] >= st[j]
      BY <1>8, <1>9, <2>1, <2>3
    <3> QED
      BY <1>5, <1>7, <2>1, <2>3
  <2> QED
    BY <2>2, <2>3, <2>4, <2>5
<1>13. CASE n % 2 # 1
  <2>1. n = 2 * mid /\ mid \in 1..n /\ mid + 1 \in 1..n
    BY <1>10, <1>13
  <2>2. FieldMedian(st) = (s[mid] + s[mid + 1]) \div 2
    BY <1>11, <1>13
  <2> HIDE DEF mid
  <2>3. s[mid] \in Int /\ s[mid + 1] \in Int /\ s[p] \in Int /\ p \in Int
    BY <1>4, <2>1
  <2>4. 2 * Cardinality(Under(n, st, st[j])) >= n => s[mid] <= st[j] /\ s[mid + 1] <= st[j]
    <3> SUFFICES ASSUME p >= mid + 1
                 PROVE  s[mid] <= st[j] /\ s[mid + 1] <= st[j]
      BY <1>8, <1>9, <2>1, <2>3
    <3> QED
      BY <1>5, <1>7, <2>1, <2>3
  <2>5. 2 * Cardinality(Over(n, st, st[j])) >= n => s[mid] >= st[j] /\ s[mid + 1] >= st[j]
    <3> SUFFICES ASSUME p <= mid
                 PROVE  s[mid] >= st[j] /\ s[mid + 1] >= st[j]
      BY <1>8, <1>9, <2>1, <2>3
    <3> QED
      BY <1>5, <1>7, <2>1, <2>3
  <2> QED
    BY <1>7, <2>2, <2>3, <2>4, <2>5
<1> QED
  BY <1>12, <1>13

\* What a yield is rated is no less than nothing.
LEMMA RatingIs ==
  ASSUME NEW y \in Int \cup {None}
  PROVE  YieldRating(y) \in Nat
<1>1. CASE y = None \/ ~Positive(y)
  BY <1>1 DEF YieldRating
<1>2. CASE y # None /\ Positive(y)
  <2>1. y \in Int /\ y > 0 /\ YieldGood \in Int /\ YieldSatisfactory \in Int
    BY <1>2, RatingAssumption DEF Positive
  <2>2. CASE y >= YieldGood
    BY <1>2, <2>2 DEF YieldRating
  <2>3. CASE ~(y >= YieldGood) /\ y >= YieldSatisfactory
    <3> DEFINE over == 500 * (y - YieldSatisfactory)
               range == YieldGood - YieldSatisfactory
    <3>1. over \in Nat /\ range \in Nat /\ range > 0
      BY <2>1, <2>3
    <3>2. over \div range \in Nat
      <4> HIDE DEF over, range
      <4> QED
        BY <3>1
    <3>3. YieldRating(y) = 500 + over \div range
      BY <1>2, <2>3 DEF YieldRating
    <3> HIDE DEF over, range
    <3> QED
      BY <3>2, <3>3
  <2>4. CASE ~(y >= YieldGood) /\ ~(y >= YieldSatisfactory)
    <3> DEFINE over == 500 * y
    <3>1. over \in Nat /\ YieldSatisfactory \in Nat /\ YieldSatisfactory > 0
      BY <2>1, <2>4
    <3>2. over \div YieldSatisfactory \in Nat
      <4> HIDE DEF over
      <4> QED
        BY <3>1
    <3>3. YieldRating(y) = over \div YieldSatisfactory
      BY <1>2, <2>4 DEF YieldRating
    <3> QED
      BY <3>2, <3>3
  <2> QED
    BY <2>2, <2>3, <2>4
<1> QED
  BY <1>1, <1>2 DEF Positive

\* The rows that are rated, and how they are.
Rated(rows) == {i \in DOMAIN rows : rows[i].strength # None}
Strengths(rows) == Those([i \in DOMAIN rows |-> rows[i].strength], LAMBDA s : s # None)
Few(rows) == Those(rows, LAMBDA r : r.strength # None)

\* Each rated row has its strength in the list of them.
LEMMA RatedAre ==
  ASSUME NEW rows \in Scored
  PROVE  LET n == Cardinality(Rated(rows))
             st == Strengths(rows)
             few == Few(rows)
         IN /\ n \in Nat /\ Len(st) = n /\ DOMAIN st = 1..n
            /\ Len(few) = n /\ DOMAIN few = 1..n
            /\ \A k \in 1..n : st[k] \in Int /\ few[k].strength = st[k]
            /\ \A i \in Rated(rows) : \E k \in 1..n : st[k] = rows[i].strength
<1> DEFINE S == Rated(rows)
           at == Ascending(S)
           all == [i \in DOMAIN rows |-> rows[i].strength]
           n == Cardinality(S)
<1>1. /\ Len(rows) \in Nat /\ DOMAIN rows = 1..Len(rows)
      /\ \A i \in DOMAIN rows : rows[i].strength \in Int \cup {None}
  BY ScoredAssumption
<1>2. S \in SUBSET DOMAIN rows /\ \A i \in S : rows[i].strength \in Int
  BY <1>1 DEF Rated
<1>3. /\ n \in Nat /\ DOMAIN at = 1..n
      /\ \A k \in 1..n : at[k] \in S
      /\ \A i \in S : \E k \in 1..n : at[k] = i
  <2>1. S \in SUBSET Int /\ IsFiniteSet(S)
    <3>1. IsFiniteSet(1..Len(rows))
      BY <1>1, FS_Interval
    <3> HIDE DEF S
    <3> QED
      BY <1>1, <1>2, <3>1, FS_Subset
  <2> HIDE DEF S
  <2> QED
    BY <2>1, AscendingIs
<1>4. Few(rows) = [k \in DOMAIN at |-> rows[at[k]]]
  BY DEF Few, Those, Rated
<1>5. Strengths(rows) = [k \in DOMAIN at |-> all[at[k]]]
  <2> DEFINE hits == {i \in DOMAIN all : all[i] # None}
             held == Ascending(hits)
  <2>1. hits = S
    BY DEF Rated
  <2>2. Strengths(rows) = [k \in DOMAIN held |-> all[held[k]]]
    BY DEF Strengths, Those
  <2> HIDE DEF hits, all, S
  <2> QED
    BY <2>1, <2>2
<1>6. \A k \in 1..n : all[at[k]] = rows[at[k]].strength /\ rows[at[k]].strength \in Int
  BY <1>2, <1>3
<1> HIDE DEF S, at, all, n
<1>7. \A k \in 1..n : /\ Few(rows)[k] = rows[at[k]] /\ Strengths(rows)[k] = all[at[k]]
  BY <1>3, <1>4, <1>5
<1>8. /\ Len(Few(rows)) = n /\ DOMAIN Few(rows) = 1..n
      /\ Len(Strengths(rows)) = n /\ DOMAIN Strengths(rows) = 1..n
  BY <1>3, <1>4, <1>5
<1>9. \A i \in S : \E k \in 1..n : Strengths(rows)[k] = rows[i].strength
  BY <1>3, <1>6, <1>7
<1> QED
  BY <1>3, <1>6, <1>7, <1>8, <1>9 DEF S, n

\* The rated rows that are weaker and stronger than some strength.
Lower(few, s) == {k \in DOMAIN few : few[k].strength < s}
Higher(few, s) == {k \in DOMAIN few : few[k].strength > s}

\* What stands in for a rating is no more than one above the middle of the field
\* and no less than one below it.
LEMMA StandInIs ==
  ASSUME NEW rows \in Scored, Len(Few(rows)) >= MinRated, NEW i \in Rated(rows)
  PROVE  /\ StandIn(rows) \in Int
         /\ 2 * Cardinality(Lower(Few(rows), rows[i].strength)) >= Len(Few(rows))
              => StandIn(rows) <= rows[i].strength
         /\ 2 * Cardinality(Higher(Few(rows), rows[i].strength)) >= Len(Few(rows))
              => StandIn(rows) >= rows[i].strength
<1> DEFINE n == Cardinality(Rated(rows))
           st == Strengths(rows)
           few == Few(rows)
<1>1. /\ n \in Nat /\ Len(st) = n /\ DOMAIN st = 1..n
      /\ Len(few) = n /\ DOMAIN few = 1..n
      /\ \A k \in 1..n : st[k] \in Int /\ few[k].strength = st[k]
      /\ \A j \in Rated(rows) : \E k \in 1..n : st[k] = rows[j].strength
  BY RatedAre
<1>2. StandIn(rows) = FieldMedian(st)
  BY DEF StandIn, Strengths
<1> HIDE DEF n, st, few
<1>3. PICK j \in 1..n : st[j] = rows[i].strength
  BY <1>1
<1>4. n >= MinRated
  BY <1>1 DEF few
<1>5. /\ FieldMedian(st) \in Int
      /\ 2 * Cardinality(Under(n, st, st[j])) >= n => FieldMedian(st) <= st[j]
      /\ 2 * Cardinality(Over(n, st, st[j])) >= n => FieldMedian(st) >= st[j]
  BY <1>1, <1>4, MedianIs
<1>6. Lower(few, st[j]) = Under(n, st, st[j]) /\ Higher(few, st[j]) = Over(n, st, st[j])
  BY <1>1 DEF Lower, Higher, Under, Over
<1> QED
  BY <1>1, <1>2, <1>3, <1>5, <1>6 DEF few

\* What a row is ordered by.
Owned(rows, i) ==
  Blend(IF rows[i].strength # None THEN rows[i].strength ELSE StandIn(rows),
        YieldRating(rows[i].yield))
IsRanked(ranked, rows) ==
  /\ \A k \in DOMAIN ranked : \E i \in DOMAIN rows :
       /\ ranked[k].strength = rows[i].strength /\ ranked[k].yield = rows[i].yield
       /\ ranked[k].score = Owned(rows, i)
  /\ \A k, l \in DOMAIN ranked :
       k \in Int /\ ranked[k].score \in Int /\ (k < l => ranked[k].score >= ranked[l].score)

\* The table is the rows, each with its score, from the highest score.
LEMMA RankIs ==
  ASSUME NEW rows \in Scored, StandIn(rows) \in Int
  PROVE  IsRanked(Rank(rows), rows)
<1> DEFINE Strength(r) == IF r.strength # None THEN r.strength ELSE StandIn(rows)
           scored == [i \in DOMAIN rows |->
                        With(rows[i], "score", Blend(Strength(rows[i]), YieldRating(rows[i].yield)))]
           T(r) == MinScore = None \/ r.score >= MinScore * MinScore
           hits == {i \in DOMAIN scored : T(scored[i])}
           at == Ascending(hits)
           kept == [k \in DOMAIN at |-> scored[at[k]]]
           m == Cardinality(hits)
           sc == [k \in 1..m |-> kept[k].score]
           order == Order(m, sc)
<1>1. /\ Len(rows) \in Nat /\ DOMAIN rows = 1..Len(rows)
      /\ \A i \in DOMAIN rows : /\ {"strength", "yield"} \subseteq DOMAIN rows[i]
                                /\ {rows[i].strength, rows[i].yield} \subseteq Int \cup {None}
  BY ScoredAssumption
<1>2. DOMAIN scored = DOMAIN rows
  OBVIOUS
<1>3. ASSUME NEW i \in DOMAIN rows
      PROVE  /\ scored[i].strength = rows[i].strength /\ scored[i].yield = rows[i].yield
             /\ scored[i].score = Owned(rows, i) /\ Owned(rows, i) \in Int
  <2>1. scored[i] = With(rows[i], "score", Owned(rows, i))
    BY DEF Owned
  <2> HIDE DEF scored
  <2>2. /\ scored[i].strength = rows[i].strength /\ scored[i].yield = rows[i].yield
        /\ scored[i].score = Owned(rows, i)
    BY <1>1, <2>1 DEF With
  <2>3. YieldRating(rows[i].yield) \in Nat
    <3>1. rows[i].yield \in Int \cup {None}
      BY <1>1
    <3> QED
      BY <3>1, RatingIs
  <2>4. Owned(rows, i) \in Int
    <3> DEFINE s == IF rows[i].strength # None THEN rows[i].strength ELSE StandIn(rows)
               r == YieldRating(rows[i].yield)
    <3>1. s \in Int /\ s # None
      BY <1>1, NothingAssumption
    <3>2. Owned(rows, i) = s * r
      <4>1. Owned(rows, i) = Blend(s, r)
        BY DEF Owned
      <4> HIDE DEF s, r
      <4> QED
        BY <3>1, <4>1 DEF Blend
    <3>3. r \in Int
      BY <2>3
    <3> HIDE DEF s, r
    <3> QED
      BY <3>1, <3>2, <3>3
  <2> QED
    BY <2>2, <2>4
<1>4. hits \in SUBSET DOMAIN rows
  OBVIOUS
<1>5. Rank(rows) = BestFirst(kept, LAMBDA r : r.score)
  <2>1. Rank(rows) = BestFirst(Those(scored, T), LAMBDA r : r.score)
    BY DEF Rank
  <2>2. Those(scored, T) = kept
    <3> HIDE DEF scored, T
    <3> QED
      BY DEF Those
  <2> HIDE DEF scored, T, kept
  <2> QED
    BY <2>1, <2>2
<1> HIDE DEF scored, hits
<1>6. m \in Nat /\ DOMAIN at = 1..m /\ \A k \in 1..m : at[k] \in hits
  <2>1. hits \in SUBSET Int /\ IsFiniteSet(hits)
    <3>1. IsFiniteSet(1..Len(rows))
      BY <1>1, FS_Interval
    <3> QED
      BY <1>1, <1>4, <3>1, FS_Subset
  <2> QED
    BY <2>1, AscendingIs
<1>7. ASSUME NEW k \in 1..m
      PROVE  \E i \in DOMAIN rows :
               /\ kept[k].strength = rows[i].strength /\ kept[k].yield = rows[i].yield
               /\ kept[k].score = Owned(rows, i) /\ kept[k].score \in Int
  <2>1. at[k] \in DOMAIN rows /\ kept[k] = scored[at[k]]
    BY <1>4, <1>6
  <2> QED
    BY <1>3, <2>1
<1>8. DOMAIN kept = 1..m
  BY <1>6
<1> HIDE DEF at, kept, m
<1>9. \A k \in 1..m : sc[k] = kept[k].score
  OBVIOUS
<1>10. AllInt(m, sc)
  BY <1>7, <1>9 DEF AllInt
<1> HIDE DEF sc
<1>11. Rank(rows) = [k \in 1..m |-> kept[order[k]]]
  <2> DEFINE RankIn(i) == Cardinality({k \in 1..m : kept[k].score > kept[i].score
                                         \/ (kept[k].score = kept[i].score /\ k < i)})
             ranks == [k \in 1..Cardinality(1..m) |-> CHOOSE i \in 1..m : RankIn(i) = k - 1]
  <2>1. Cardinality(1..m) = m
    BY <1>6, FS_Interval
  <2>2. \A i \in 1..m : RankIn(i) = Place(1..m, ByScore(m, sc), i)
    <3>1. \A i \in 1..m : {k \in 1..m : kept[k].score > kept[i].score
                                          \/ (kept[k].score = kept[i].score /\ k < i)}
                           = Before(1..m, ByScore(m, sc), i)
      BY <1>9 DEF Before, ByScore
    <3> QED
      BY <3>1 DEF Place
  <2>3. Rank(rows) = [k \in 1..m |-> kept[ranks[k]]]
    BY <1>5, <1>8 DEF BestFirst, InOrder
  <2> HIDE DEF RankIn
  <2>4. ranks = order
    <3> DEFINE S == 1..m
               ByRank(k) == CHOOSE i \in S : RankIn(i) = k - 1
               ByPlace(k) == CHOOSE i \in S : Place(S, ByScore(m, sc), i) = k - 1
    <3>1. \A k : ByRank(k) = ByPlace(k)
      BY <2>2
    <3>2. ranks = [k \in 1..Cardinality(S) |-> ByRank(k)]
      OBVIOUS
    <3>3. order = [k \in 1..Cardinality(S) |-> ByPlace(k)]
      BY DEF Sorted, Order
    <3> HIDE DEF ByRank, ByPlace, S, ranks, order
    <3> QED
      BY <3>1, <3>2, <3>3
  <2> HIDE DEF ranks, order
  <2> QED
    BY <2>3, <2>4
<1>12. /\ \A k \in 1..m : order[k] \in 1..m
       /\ \A k, l \in 1..m : k < l => sc[order[k]] >= sc[order[l]]
  <2>1. IsOrder(order, m, sc)
    BY <1>6, <1>10, OrderIs
  <2> QED
    BY <2>1 DEF IsOrder
<1> HIDE DEF order
<1>13. ASSUME NEW k \in 1..m
       PROVE  \E i \in DOMAIN rows :
                /\ Rank(rows)[k].strength = rows[i].strength /\ Rank(rows)[k].yield = rows[i].yield
                /\ Rank(rows)[k].score = Owned(rows, i) /\ Rank(rows)[k].score \in Int
  <2>1. order[k] \in 1..m /\ Rank(rows)[k] = kept[order[k]]
    BY <1>11, <1>12
  <2> QED
    BY <1>7, <2>1
<1>14. ASSUME NEW k \in 1..m, NEW l \in 1..m, k < l
       PROVE  Rank(rows)[k].score >= Rank(rows)[l].score
  <2>1. order[k] \in 1..m /\ Rank(rows)[k] = kept[order[k]]
    BY <1>11, <1>12
  <2>2. order[l] \in 1..m /\ Rank(rows)[l] = kept[order[l]]
    BY <1>11, <1>12
  <2> QED
    BY <1>9, <1>12, <1>14, <2>1, <2>2
<1>15. DOMAIN Rank(rows) = 1..m /\ \A k \in 1..m : k \in Int
  BY <1>6, <1>11
<1> QED
  BY <1>13, <1>14, <1>15 DEF IsRanked

\* A name that cannot be rated is not paid for it, nor made to pay.
LEMMA UnratedIs ==
  ASSUME NEW rows \in Scored, Len(Few(rows)) >= MinRated,
         NEW i \in DOMAIN rows, NEW j \in DOMAIN rows, rows[i].yield = rows[j].yield,
         rows[i].strength = None, rows[j].strength # None
  PROVE  /\ StandIn(rows) \in Int /\ rows[j].strength \in Int
         /\ 2 * Cardinality(Lower(Few(rows), rows[j].strength)) >= Len(Few(rows))
              => Owned(rows, i) <= Owned(rows, j)
         /\ 2 * Cardinality(Higher(Few(rows), rows[j].strength)) >= Len(Few(rows))
              => Owned(rows, i) >= Owned(rows, j)
<1> DEFINE mid == StandIn(rows)
           s == rows[j].strength
           r == YieldRating(rows[j].yield)
           below == 2 * Cardinality(Lower(Few(rows), s)) >= Len(Few(rows))
           above == 2 * Cardinality(Higher(Few(rows), s)) >= Len(Few(rows))
<1>1. s \in Int /\ rows[j].yield \in Int \cup {None}
  BY ScoredAssumption
<1>2. j \in Rated(rows)
  BY DEF Rated
<1>3. mid \in Int /\ (below => mid <= s) /\ (above => mid >= s)
  BY <1>2, StandInIs
<1>4. r \in Nat
  BY <1>1, RatingIs
<1>5. Owned(rows, i) = mid * r /\ Owned(rows, j) = s * r
  <2>1. Owned(rows, i) = Blend(mid, r) /\ Owned(rows, j) = Blend(s, r)
    BY DEF Owned
  <2>2. mid # None /\ s # None
    BY <1>1, <1>3, NothingAssumption
  <2> HIDE DEF mid, s, r
  <2> QED
    BY <2>1, <2>2 DEF Blend
<1> HIDE DEF mid, s, r, below, above
<1>6. (mid <= s => mid * r <= s * r) /\ (mid >= s => mid * r >= s * r)
  BY <1>1, <1>3, <1>4
<1>7. /\ below => Owned(rows, i) <= Owned(rows, j)
      /\ above => Owned(rows, i) >= Owned(rows, j)
  BY <1>3, <1>5, <1>6
<1> QED
  BY <1>1, <1>3, <1>7 DEF mid, s, below, above

\* A field rated enough has a middle.
LEMMA RankableIs ==
  ASSUME NEW rows \in Scored, Len(Few(rows)) >= MinRated
  PROVE  StandIn(rows) \in Int
<1> DEFINE n == Cardinality(Rated(rows))
           st == Strengths(rows)
<1>1. /\ n \in Nat /\ Len(st) = n /\ DOMAIN st = 1..n /\ n >= MinRated
      /\ \A k \in 1..n : st[k] \in Int
  BY RatedAre
<1>2. StandIn(rows) = FieldMedian(st)
  BY DEF StandIn, Strengths
<1> HIDE DEF n, st
<1>3. 1 \in 1..n
  BY <1>1, RatingAssumption
<1>4. FieldMedian(st) \in Int
  BY <1>1, <1>3, MedianIs
<1> QED
  BY <1>2, <1>4

\* The middle of the field, as a row of a table has it.
InMiddle(of, rows) ==
  LET Above(s) == 2 * Cardinality(Lower(Few(of), s)) >= Len(Few(of))
      Below(s) == 2 * Cardinality(Higher(Few(of), s)) >= Len(Few(of))
  IN Len(Few(of)) >= MinRated =>
       \A i, j \in DOMAIN rows :
         (i < j /\ rows[i].strength # rows[j].strength /\ rows[i].yield = rows[j].yield) =>
            /\ (rows[i].strength = None /\ rows[j].score # rows[i].score) => ~Above(rows[j].strength)
            /\ (rows[j].strength = None /\ rows[j].score # rows[i].score) => ~Below(rows[i].strength)
Middling == Showing("ranking") => InMiddle(panel.of, panel.rows)

-----------------------------------------------------------------------------
(* The panels: the rolls *)

\* Prices are numbers where there are any.
Chained(chain) ==
  /\ Len(chain) \in Nat /\ DOMAIN chain = 1..Len(chain) /\ chain = [n \in DOMAIN chain |-> chain[n]]
  /\ \A i \in DOMAIN chain : /\ {chain[i].strike, chain[i].exp} \subseteq Int
                             /\ {chain[i].bid, chain[i].ask} \subseteq Int \cup {None}
Placed(p) == p.short \in BOOLEAN /\ {p.strike, p.exp, p.qty} \subseteq Int

\* The side of a chain a panel is made of.
LEMMA OwnIs ==
  ASSUME NEW board \in Board, NEW type, NEW lo, NEW hi
  PROVE  /\ Chained(InDays(board, type, lo, hi))
         /\ \A i \in DOMAIN InDays(board, type, lo, hi) : InDays(board, type, lo, hi)[i].type = type
         /\ ListsOnce(board) => ListsOnce(InDays(board, type, lo, hi))
<1> DEFINE S == {i \in DOMAIN board : board[i].type = type /\ lo <= board[i].exp /\ board[i].exp <= hi}
           at == Ascending(S)
           own == [n \in DOMAIN at |-> board[at[n]]]
           m == Cardinality(S)
<1>1. /\ Len(board) \in Nat /\ DOMAIN board = 1..Len(board)
      /\ \A i \in DOMAIN board : /\ {board[i].strike, board[i].exp} \subseteq Int
                                 /\ {board[i].bid, board[i].ask} \subseteq Int \cup {None}
  BY BoardAssumption
<1>2. InDays(board, type, lo, hi) = own
  BY DEF InDays, Those
<1>3. S \in SUBSET DOMAIN board /\ \A i \in S : board[i].type = type
  OBVIOUS
<1> HIDE DEF S
<1>4. /\ m \in Nat /\ DOMAIN at = 1..m /\ \A k \in 1..m : at[k] \in S
      /\ \A k, l \in 1..m : k < l => at[k] < at[l]
  <2>1. S \in SUBSET Int /\ IsFiniteSet(S)
    <3>1. IsFiniteSet(1..Len(board))
      BY <1>1, FS_Interval
    <3> QED
      BY <1>1, <1>3, <3>1, FS_Subset
  <2> QED
    BY <2>1, AscendingIs
<1> HIDE DEF at, m
<1>5. Len(own) = m /\ DOMAIN own = 1..m /\ \A k \in 1..m : own[k] = board[at[k]]
  BY <1>4
<1>6. own = [n \in DOMAIN own |-> own[n]]
  OBVIOUS
<1> HIDE DEF own
<1>7. ASSUME NEW k \in 1..m
      PROVE  /\ at[k] \in DOMAIN board /\ own[k] = board[at[k]] /\ own[k].type = type
             /\ {own[k].strike, own[k].exp} \subseteq Int
             /\ {own[k].bid, own[k].ask} \subseteq Int \cup {None}
  BY <1>1, <1>3, <1>4, <1>5
<1>8. Chained(own)
  BY <1>4, <1>5, <1>6, <1>7 DEF Chained
<1>9. ASSUME ListsOnce(board), NEW k \in 1..m, NEW l \in 1..m,
             own[k].type = own[l].type, own[k].strike = own[l].strike, own[k].exp = own[l].exp
      PROVE  k = l
  <2>1. at[k] = at[l]
    BY <1>7, <1>9 DEF ListsOnce
  <2>2. at[k] \in Int /\ at[l] \in Int /\ k \in Int /\ l \in Int
    BY <1>1, <1>4, <1>7
  <2> QED
    BY <1>4, <2>1, <2>2
<1>10. ListsOnce(board) => ListsOnce(own)
  BY <1>5, <1>9 DEF ListsOnce
<1> QED
  BY <1>2, <1>5, <1>7, <1>8, <1>10

\* The contracts of a chain of one type.
OfType(chain, type) == Those(chain, LAMBDA c : c.type = type)

\* All of a chain of one type are those of it of that type.
LEMMA AllOfType ==
  ASSUME NEW chain, Chained(chain), NEW type, \A i \in DOMAIN chain : chain[i].type = type
  PROVE  OfType(chain, type) = chain
<1> DEFINE n == Len(chain)
<1>1. n \in Nat /\ DOMAIN chain = 1..n /\ chain = [k \in 1..n |-> chain[k]]
  BY DEF Chained
<1> HIDE DEF n
<1>2. {i \in DOMAIN chain : chain[i].type = type} = 1..n
  BY <1>1
<1>3. Ascending(1..n) = [k \in 1..n |-> k]
  BY <1>1, AscendingOf
<1> DEFINE those == [k \in DOMAIN Ascending(1..n) |-> chain[Ascending(1..n)[k]]]
<1>4. OfType(chain, type) = those
  BY <1>2 DEF OfType, Those
<1>5. those = [k \in 1..n |-> chain[k]]
  BY <1>3
<1> HIDE DEF those
<1> QED
  BY <1>1, <1>4, <1>5

\* A contract that is matched is one of the chain.
LEMMA MatchIs ==
  ASSUME NEW chain, Chained(chain), NEW strike, NEW exp, Match(chain, strike, exp) # None
  PROVE  \E i \in DOMAIN chain : Match(chain, strike, exp) = chain[i]
<1> DEFINE hits == {i \in DOMAIN chain : chain[i].strike = strike /\ chain[i].exp = exp}
<1>1. Match(chain, strike, exp) = IF hits = {} THEN None ELSE chain[Min(hits)]
  BY DEF Match, Find
<1>2. hits \subseteq DOMAIN chain /\ hits \in SUBSET Nat
  BY DEF Chained
<1> HIDE DEF hits
<1>3. hits # {} /\ Match(chain, strike, exp) = chain[Min(hits)]
  BY <1>1
<1>4. Min(hits) \in hits
  BY <1>2, <1>3, LeastIs
<1> QED
  BY <1>2, <1>3, <1>4

\* What a new leg opens at, and the row of a roll to a contract.
OpenAt(p, c) == IF p.short THEN c.bid ELSE c.ask
RollTo(chain, p, spot, target, c) ==
  LET new == OpenAt(p, c) * p.qty
      unwind == CloseAt(p, Match(chain, p.strike, p.exp)) * p.qty
      here == Intrinsic(p.strike, spot, p.qty, p.type)
      there == Intrinsic(target, spot, p.qty, p.type)
      sign == IF p.short THEN 1 ELSE -1
      tied == Committed(p, target, spot, new)
  IN [kind |-> "roll", credit |-> sign * (new - unwind),
      extrinsic |-> sign * ((new - there) - (unwind - here)),
      days |-> c.exp - p.exp, strike |-> target, exp |-> c.exp,
      warned |-> there > here /\ p.short, collateral |-> tied,
      more |-> tied - Committed(p, p.strike, spot, unwind)]

\* What makes rows fit to be put in their order.
Rateable(r) == r.exp \in Int /\ Rate(r) \in Int \cup {None}
IsRoll(r, chain, p, spot, target) ==
  \E i \in DOMAIN chain : /\ r = RollTo(chain, p, spot, target, chain[i])
                          /\ chain[i].strike = target /\ chain[i].exp > p.exp
                          /\ OpenAt(p, chain[i]) \in Int
Closes(chain, p) ==
  /\ Match(chain, p.strike, p.exp) # None
  /\ CloseAt(p, Match(chain, p.strike, p.exp)) \in Int

\* A rate is a number, where there is one.
LEMMA RateIs ==
  ASSUME NEW r, {r.collateral, r.days, r.extrinsic} \subseteq Int
  PROVE  Rate(r) \in Int \cup {None}
<1> DEFINE a == r.extrinsic * 365000
           b == r.collateral * r.days
<1>1. CASE r.collateral <= 0 \/ r.days <= 0
  BY <1>1 DEF Rate
<1>2. CASE ~(r.collateral <= 0 \/ r.days <= 0)
  <2>1. a \in Int /\ b \in Int /\ b > 0
    BY <1>2
  <2>2. Rate(r) = a \div b
    BY <1>2 DEF Rate
  <2> HIDE DEF a, b
  <2> QED
    BY <2>1, <2>2
<1> QED
  BY <1>1, <1>2

\* What is tied up, and what of a price is not time, are numbers.
LEMMA TiedIs ==
  ASSUME NEW p, Placed(p), NEW spot \in Int \cup {None}, NEW strike \in Int, NEW own \in Int
  PROVE  Committed(p, strike, spot, own) \in Int /\ Intrinsic(strike, spot, p.qty, p.type) \in Int
<1>1. Committed(p, strike, spot, own) \in Int
  BY DEF Committed, Given, Placed
<1>2. Intrinsic(strike, spot, p.qty, p.type) \in Int
  <2>1. CASE spot = None
    BY <2>1 DEF Intrinsic
  <2>2. CASE spot # None
    <3> DEFINE gap == IF p.type = "put" THEN strike - spot ELSE spot - strike
    <3>1. gap \in Int /\ p.qty \in Int
      BY <2>2 DEF Placed
    <3>2. Intrinsic(strike, spot, p.qty, p.type) = Floor0(gap) * p.qty
      BY <2>2 DEF Intrinsic
    <3> HIDE DEF gap
    <3> QED
      BY <3>1, <3>2 DEF Floor0
  <2> QED
    BY <2>1, <2>2
<1> QED
  BY <1>1, <1>2

\* The row of the position as it is: it expires with it.
LEMMA KeepIs ==
  ASSUME NEW chain, Chained(chain), NEW p, Placed(p), NEW spot \in Int \cup {None}
  PROVE  \E r : /\ Keep(chain, p, spot, 0) \subseteq {r}
                /\ r.kind = "keep" /\ r.exp = p.exp /\ Rateable(r)
<1> DEFINE cur == Match(chain, p.strike, p.exp)
           own == CloseAt(p, cur) * p.qty
           time == own - Intrinsic(p.strike, spot, p.qty, p.type)
           earned == IF p.short THEN time ELSE -time
           tied == Committed(p, p.strike, spot, own)
           row == [kind |-> "keep", credit |-> earned, extrinsic |-> earned, days |-> p.exp - 0,
                   strike |-> p.strike, exp |-> p.exp, warned |-> FALSE, more |-> 0,
                   collateral |-> tied]
           same == [kind |-> "keep", exp |-> p.exp, collateral |-> 0, days |-> 0, extrinsic |-> 0]
<1>1. Placed(p) /\ p.exp \in Int /\ p.qty \in Int /\ p.strike \in Int
  BY DEF Placed
<1>2. CASE cur = None \/ (cur # None /\ CloseAt(p, cur) = None)
  <2>1. Keep(chain, p, spot, 0) = {}
    BY <1>2 DEF Keep
  <2>2. same.kind = "keep" /\ same.exp = p.exp /\ Rateable(same)
    BY <1>1, RateIs DEF Rateable
  <2> QED
    BY <2>1, <2>2
<1>3. CASE ~(cur = None \/ (cur # None /\ CloseAt(p, cur) = None))
  <2>1. Keep(chain, p, spot, 0) = {row}
    BY <1>3 DEF Keep
  <2>2. CloseAt(p, cur) \in Int
    <3>1. PICK i \in DOMAIN chain : cur = chain[i]
      BY <1>3, MatchIs
    <3> QED
      BY <1>3, <3>1 DEF Chained, CloseAt
  <2>3. own \in Int
    BY <1>1, <2>2
  <2> HIDE DEF own
  <2>4. tied \in Int /\ earned \in Int
    BY <1>1, <2>3, TiedIs
  <2> HIDE DEF tied, earned
  <2>5. row.kind = "keep" /\ row.exp = p.exp /\ {row.collateral, row.days, row.extrinsic} \subseteq Int
    BY <1>1, <2>4
  <2> HIDE DEF row
  <2>6. Rateable(row)
    BY <1>1, <2>5, RateIs DEF Rateable
  <2> QED
    BY <2>1, <2>5, <2>6
<1> QED
  BY <1>2, <1>3

\* The rows of the rolls: one to an expiry past the position's own.
LEMMA RollsAre ==
  ASSUME NEW chain, Chained(chain), NEW p, Placed(p), NEW spot \in Int \cup {None},
         NEW target \in Int
  PROVE  /\ IsFiniteSet(Rolls(chain, p, spot, target))
         /\ \A r \in Rolls(chain, p, spot, target) :
              /\ Rateable(r) /\ r.exp > p.exp /\ Closes(chain, p)
              /\ IsRoll(r, chain, p, spot, target)
         /\ \A a, b \in Rolls(chain, p, spot, target) : a.exp = b.exp => a = b
<1> DEFINE cur == Match(chain, p.strike, p.exp)
           later == {i \in DOMAIN chain : /\ chain[i].strike = target /\ chain[i].exp > p.exp
                                          /\ Given(OpenAt(p, chain[i])) /\ OpenAt(p, chain[i]) > 0}
           Bid(i) == IF chain[i].bid = None THEN 0 ELSE chain[i].bid
           best == {i \in later : \A j \in later : chain[j].exp = chain[i].exp
                                    => Bid(j) < Bid(i) \/ (Bid(j) = Bid(i) /\ i <= j)}
           row == [i \in DOMAIN chain |-> RollTo(chain, p, spot, target, chain[i])]
           rolls == Rolls(chain, p, spot, target)
<1>1. CASE cur = None \/ (cur # None /\ CloseAt(p, cur) = None)
  <2>1. rolls = {}
    BY <1>1 DEF Rolls
  <2> QED
    BY <2>1, FS_EmptySet
<1>2. CASE ~(cur = None \/ (cur # None /\ CloseAt(p, cur) = None))
  <2>1. rolls = {row[i] : i \in best}
    <3>1. rolls = {RollTo(chain, p, spot, target, chain[i]) : i \in best}
      BY <1>2 DEF Rolls, RollTo, OpenAt
    <3> HIDE DEF best, rolls
    <3>2. \A i \in best : row[i] = RollTo(chain, p, spot, target, chain[i])
      BY DEF best
    <3> HIDE DEF row
    <3> QED
      BY <3>1, <3>2
  <2>2. /\ \A i \in DOMAIN chain : /\ i \in Int /\ chain[i].exp \in Int
                                   /\ {chain[i].bid, chain[i].ask} \subseteq Int \cup {None}
        /\ p.exp \in Int /\ p.qty \in Int /\ p.strike \in Int
    BY DEF Chained, Placed
  <2>3. Closes(chain, p)
    <3>1. PICK i \in DOMAIN chain : cur = chain[i]
      BY <1>2, MatchIs
    <3> QED
      BY <1>2, <2>2, <3>1 DEF Closes, CloseAt
  <2>4. ASSUME NEW i \in best
        PROVE  /\ i \in DOMAIN chain /\ row[i] = RollTo(chain, p, spot, target, chain[i])
               /\ chain[i].strike = target /\ chain[i].exp > p.exp
               /\ OpenAt(p, chain[i]) \in Int
               /\ row[i].exp = chain[i].exp /\ Rateable(row[i])
    <3>1. /\ i \in DOMAIN chain /\ chain[i].strike = target /\ chain[i].exp > p.exp
          /\ Given(OpenAt(p, chain[i]))
      OBVIOUS
    <3>2. OpenAt(p, chain[i]) \in Int
      BY <2>2, <3>1 DEF OpenAt, Given
    <3> DEFINE new == OpenAt(p, chain[i]) * p.qty
               unwind == CloseAt(p, cur) * p.qty
               here == Intrinsic(p.strike, spot, p.qty, p.type)
               there == Intrinsic(target, spot, p.qty, p.type)
               sign == IF p.short THEN 1 ELSE -1
               tied == Committed(p, target, spot, new)
    <3>3. new \in Int /\ unwind \in Int
      BY <2>2, <2>3, <3>2 DEF Closes
    <3>4. /\ row[i] = RollTo(chain, p, spot, target, chain[i])
          /\ row[i].exp = chain[i].exp /\ row[i].collateral = tied
          /\ row[i].days = chain[i].exp - p.exp
          /\ row[i].extrinsic = sign * ((new - there) - (unwind - here))
      BY <3>1 DEF RollTo
    <3> HIDE DEF row, best
    <3>5. tied \in Int /\ here \in Int /\ there \in Int
      <4> HIDE DEF new, unwind
      <4> QED
        BY <2>2, <3>3, TiedIs
    <3>6. {row[i].collateral, row[i].days, row[i].extrinsic} \subseteq Int
      <4>1. sign \in Int
        OBVIOUS
      <4> HIDE DEF new, unwind, here, there, tied, sign
      <4> QED
        BY <2>2, <3>1, <3>3, <3>4, <3>5, <4>1
    <3>7. Rateable(row[i])
      <4>1. Rate(row[i]) \in Int \cup {None}
        BY <3>6, RateIs
      <4> QED
        BY <2>2, <3>1, <3>4, <4>1 DEF Rateable
    <3> QED
      BY <3>1, <3>2, <3>4, <3>7
  <2>5. ASSUME NEW i \in best, NEW j \in best, chain[i].exp = chain[j].exp
        PROVE  i = j
    <3>1. Bid(i) \in Int /\ Bid(j) \in Int /\ i \in Int /\ j \in Int
      BY <2>2
    <3>2. /\ Bid(j) < Bid(i) \/ (Bid(j) = Bid(i) /\ i <= j)
          /\ Bid(i) < Bid(j) \/ (Bid(i) = Bid(j) /\ j <= i)
      <4>1. i \in later /\ j \in later
        OBVIOUS
      <4> HIDE DEF later, Bid
      <4> QED
        BY <2>5, <4>1
    <3> HIDE DEF Bid
    <3> QED
      BY <3>1, <3>2
  <2>6. IsFiniteSet({row[i] : i \in best})
    <3>1. best \subseteq DOMAIN chain
      OBVIOUS
    <3> HIDE DEF best, row
    <3>2. DOMAIN chain = 1..Len(chain) /\ Len(chain) \in Nat
      BY DEF Chained
    <3>3. IsFiniteSet(DOMAIN chain)
      BY <3>2, FS_Interval
    <3>4. IsFiniteSet(best)
      BY <3>1, <3>3, FS_Subset
    <3> DEFINE made == {row[i] : i \in best}
    <3>5. [i \in best |-> row[i]] \in Surjection(best, made)
      BY DEF Surjection
    <3> QED
      BY <3>4, <3>5, FS_Surjection
  <2> HIDE DEF best, row, rolls
  <2>7. \A r \in rolls : /\ Rateable(r) /\ r.exp > p.exp /\ Closes(chain, p)
                         /\ IsRoll(r, chain, p, spot, target)
    BY <2>1, <2>3, <2>4 DEF IsRoll
  <2>8. \A a, b \in rolls : a.exp = b.exp => a = b
    BY <2>1, <2>4, <2>5
  <2> QED
    BY <2>1, <2>6, <2>7, <2>8 DEF rolls
<1> QED
  BY <1>1, <1>2

\* Rows, no two of one expiry, in their order.
LEMMA RankedAre ==
  ASSUME NEW S, IsFiniteSet(S), \A r \in S : Rateable(r), \A a, b \in S : a.exp = b.exp => a = b
  PROVE  \A i \in DOMAIN Ranked(S) : Ranked(S)[i] \in S
<1> DEFINE Ahead(a, b) == IF Rate(a) = Rate(b) THEN a.exp < b.exp
                          ELSE IF Rate(a) = None THEN FALSE
                          ELSE IF Rate(b) = None THEN TRUE
                          ELSE Rate(a) > Rate(b)
           R == {w \in S \X S : Ahead(w[1], w[2])}
<1>1. \A a, b \in S : <<a, b>> \in R <=> Ahead(a, b)
  OBVIOUS
<1> HIDE DEF R
<1>2. Orders(R, S)
  <2> SUFFICES ASSUME NEW x \in S, NEW y \in S, NEW z \in S
               PROVE  /\ <<x, x>> \notin R
                      /\ x # y => <<x, y>> \in R \/ <<y, x>> \in R
                      /\ <<x, y>> \in R /\ <<y, z>> \in R => <<x, z>> \in R
    BY DEF Orders
  <2>1. /\ x.exp \in Int /\ y.exp \in Int /\ z.exp \in Int
        /\ Rate(x) \in Int \cup {None} /\ Rate(y) \in Int \cup {None} /\ Rate(z) \in Int \cup {None}
        /\ x # y => x.exp # y.exp
    BY DEF Rateable
  <2>2. <<x, x>> \notin R
    BY <1>1, <2>1
  <2>3. x # y => <<x, y>> \in R \/ <<y, x>> \in R
    BY <1>1, <2>1, NothingAssumption
  <2>4. <<x, y>> \in R /\ <<y, z>> \in R => <<x, z>> \in R
    BY <1>1, <2>1, NothingAssumption
  <2> QED
    BY <2>2, <2>3, <2>4
<1>3. Ranked(S) = Sorted(S, R)
  <2> DEFINE RankIn(x) == Cardinality({y \in S : Ahead(y, x)})
  <2>1. Ranked(S) = [n \in 1..Cardinality(S) |-> CHOOSE x \in S : RankIn(x) = n - 1]
    BY DEF Ranked, InOrder
  <2>2. \A x \in S : {y \in S : Ahead(y, x)} = Before(S, R, x)
    <3> HIDE DEF Ahead
    <3> QED
      BY <1>1 DEF Before
  <2>3. \A x \in S : RankIn(x) = Place(S, R, x)
    BY <2>2 DEF Place
  <2> HIDE DEF RankIn
  <2>4. \A n : (CHOOSE x \in S : RankIn(x) = n - 1) = CHOOSE x \in S : Place(S, R, x) = n - 1
    BY <2>3
  <2> QED
    BY <2>1, <2>4 DEF Sorted
<1>4. /\ DOMAIN Sorted(S, R) = 1..Cardinality(S)
      /\ \A n \in 1..Cardinality(S) : Sorted(S, R)[n] \in S
  BY <1>2, SortedIs
<1> QED
  BY <1>3, <1>4

\* A cell of the grid is priced as the contract it is of, to what closing costs.
LEMMA CellIs ==
  ASSUME NEW chain, Chained(chain), ListsOnce(chain), NEW p, NEW spot,
         \A j \in DOMAIN chain : chain[j].type = p.type,
         Surface(chain, p, spot) # None,
         NEW i \in DOMAIN chain, chain[i].bid # None,
         <<chain[i].strike, chain[i].exp>> \in DOMAIN Surface(chain, p, spot).cells
  PROVE  Surface(chain, p, spot).cells[<<chain[i].strike, chain[i].exp>>].credit
         = chain[i].bid - Match(chain, p.strike, p.exp).ask
<1> DEFINE current == Match(chain, p.strike, p.exp)
           ahead == {chain[k].exp : k \in {j \in DOMAIN chain : chain[j].exp >= p.exp}}
           expiries == {e \in ahead : Cardinality({f \in ahead : f < e}) < ExpiryCount}
           quoted == {chain[k].strike : k \in {j \in DOMAIN chain : chain[j].exp \in expiries
                                                                  /\ Given(chain[j].bid)}}
           strikes == PickStrikes(quoted, p.strike, spot)
           inside == {k \in DOMAIN chain : chain[k].strike \in strikes /\ chain[k].exp \in expiries}
           last == {k \in inside : \A j \in inside : j > k =>
                      <<chain[j].strike, chain[j].exp>> # <<chain[k].strike, chain[k].exp>>}
           Cell(c) == [added |-> c.exp - p.exp,
                       credit |-> IF c.bid = None THEN None ELSE c.bid - current.ask,
                       perDay |-> IF c.bid = None \/ c.exp = p.exp THEN None
                                  ELSE (100 * (c.bid - current.ask)) \div (c.exp - p.exp),
                       odds |-> c.delta,
                       problem |-> IF c.exp = p.exp /\ c.strike = p.strike THEN None
                                   ELSE LiquidityProblem(c)]
           At(k, e) == {j \in last : chain[j].strike = k /\ chain[j].exp = e}
           cells == [ke \in {<<chain[k].strike, chain[k].exp>> : k \in last} |->
                       Cell(chain[CHOOSE j \in At(ke[1], ke[2]) : TRUE])]
           here == <<chain[i].strike, chain[i].exp>>
<1>2. Surface(chain, p, spot).cells = cells
  BY DEF Surface
<1>3. last \subseteq DOMAIN chain
  OBVIOUS
<1> HIDE DEF last, Cell
<1>4. here \in {<<chain[k].strike, chain[k].exp>> : k \in last}
  <2> HIDE DEF here
  <2> QED
    BY <1>2 DEF here
<1>5. PICK k \in last : <<chain[k].strike, chain[k].exp>> = here
  BY <1>4
<1> DEFINE j == CHOOSE x \in At(here[1], here[2]) : TRUE
<1>6. k \in At(here[1], here[2])
  BY <1>5
<1>7. j \in last /\ chain[j].strike = chain[i].strike /\ chain[j].exp = chain[i].exp
  BY <1>6
<1>8. j = i
  <2>1. j \in DOMAIN chain /\ chain[j].type = chain[i].type
    BY <1>3, <1>7
  <2> QED
    BY <1>7, <2>1 DEF ListsOnce
<1>9. cells[here] = Cell(chain[i])
  BY <1>4, <1>8
<1>10. Cell(chain[i]).credit = chain[i].bid - current.ask
  BY DEF Cell
<1> QED
  BY <1>2, <1>9, <1>10

-----------------------------------------------------------------------------
(* The panels: what is shown *)

\* An answer says what it answers.
LEMMA KindsApart ==
  ASSUME PanelNext
  PROVE  /\ panel'.kind = "verdict" => ShowVerdict
         /\ panel'.kind = "exits" => ShowExits
         /\ panel'.kind = "search" => ShowSearch
         /\ panel'.kind = "funnel" => ShowFunnel
         /\ panel'.kind = "ranking" => ShowRanking
<1>1. ShowVerdict => panel'.kind = "verdict"
  BY DEF ShowVerdict
<1>2. ShowExits => panel'.kind = "exits"
  BY DEF ShowExits, Exits
<1>3. ExitsFail => panel'.kind = "error"
  BY DEF ExitsFail
<1>4. ShowSearch => panel'.kind = "search"
  BY DEF ShowSearch, Search
<1>5. ShowFunnel => panel'.kind = "funnel"
  BY DEF ShowFunnel
<1>6. ShowRanking => panel'.kind = "ranking"
  BY DEF ShowRanking
<1> QED
  BY <1>1, <1>2, <1>3, <1>4, <1>5, <1>6 DEF PanelNext

\* The opinions on one row agree, at any market it was read and judged at
\* (review of core/swap.py, assess of core/assignment.py, impact of
\* core/dividends.py).
THEOREM OpinionsCorrect == PanelSpec => []RowAgrees
<1>1. PanelInit => RowAgrees
  BY DEF PanelInit, RowAgrees, Showing
<1>2. RowAgrees /\ [PanelNext]_panel => RowAgrees'
  <2> SUFFICES ASSUME RowAgrees, [PanelNext]_panel, Showing("verdict")', panel' # panel
               PROVE  RowAgrees'
    BY DEF RowAgrees, Showing
  <2>1. PanelNext
    OBVIOUS
  <2>2. ShowVerdict
    <3>1. panel'.kind = "verdict"
      BY DEF Showing
    <3> QED
      BY <2>1, <3>1, KindsApart
  <2>3. PICK k \in PanelContract, read \in PanelMarket, then \in PanelMarket :
          \E same \in FreshPuts(then, k) :
            panel' = [kind |-> "verdict", k |-> k, paid |-> read,
                      impact |-> Impact(InLife(read.dividends, k.exp), k.type, k.strike, read.spot,
                                        read.mark),
                      row |-> Judge(k, Row(k, 1, read), then, same)]
    BY <2>2 DEF ShowVerdict
  <2>4. PICK same :
            panel' = [kind |-> "verdict", k |-> k, paid |-> read,
                      impact |-> Impact(InLife(read.dividends, k.exp), k.type, k.strike, read.spot,
                                        read.mark),
                      row |-> Judge(k, Row(k, 1, read), then, same)]
    BY <2>3
  <2> DEFINE row == Judge(k, Row(k, 1, read), then, same)
             note == Impact(InLife(read.dividends, k.exp), k.type, k.strike, read.spot, read.mark)
             risk == Row(k, 1, read).risk
             v == row.verdict
  <2>5. panel'.k = k /\ panel'.paid = read /\ panel'.impact = note /\ panel'.row = row
    BY <2>4
  <2> HIDE DEF row, note
  <2>6. ASSUME Judges(v)
        PROVE  /\ ~InTheMoney(k.strike, v.spot, k.type)
               /\ \A m \in PanelMarket :
                    Assess(k.type, k.strike, v.spot, m.mark, k.exp, 0,
                           InLife(m.dividends, k.exp)).risk = "low"
    <3>1. v.spot \in Int /\ ~InTheMoney(k.strike, v.spot, k.type)
          /\ Intrinsic(k.strike, v.spot, 1, k.type) = 0
      BY <2>6, JudgedOut DEF row
    <3>2. v.spot # None
      BY <3>1, NothingAssumption
    <3> QED
      BY <3>1, <3>2, OutIsLow
  <2>7. ASSUME note # None
        PROVE  note.likely <=> (risk # None /\ risk = [risk |-> "likely", cause |-> "dividend"])
    <3> DEFINE ds == InLife(read.dividends, k.exp)
    <3>1. k.type \in {"put", "call"} /\ k.strike \in Int /\ k.exp \in Int
      BY ContractAssumption
    <3>2. read.spot \in Int \cup {None} /\ IsFiniteSet(read.dividends)
          /\ \A d \in read.dividends : d.day \in Int
      BY MarketAssumption
    <3>3. Lived(ds, k.exp)
      BY <3>1, <3>2, AheadIs
    <3>4. risk = Assess(k.type, k.strike, read.spot, read.mark, k.exp, 0, ds)
      BY DEF Row
    <3> HIDE DEF ds, risk
    <3>5. note = Impact(ds, k.type, k.strike, read.spot, read.mark)
      BY DEF note, ds
    <3>6. Impact(ds, k.type, k.strike, read.spot, read.mark) # None
      BY <2>7, <3>5
    <3>7. Impact(ds, k.type, k.strike, read.spot, read.mark).likely
            <=> ForDividend(Assess(k.type, k.strike, read.spot, read.mark, k.exp, 0, ds))
      BY <3>1, <3>2, <3>3, <3>6, NotesAgree
    <3> QED
      BY <3>4, <3>5, <3>7 DEF ForDividend
  <2> QED
    <3> HIDE DEF risk
    <3> QED
      BY <2>5, <2>6, <2>7 DEF RowAgrees, risk
<1> QED
  BY <1>1, <1>2, PTL DEF PanelSpec

\* A search of one ticker hides no expiry for a report or for a thin market, and
\* what it leaves out for want of room comes after all it shows (search_ticker and
\* select_top_contracts).
THEOREM SearchCorrect == PanelSpec => []SearchHidesNothing
<1>1. PanelInit => SearchHidesNothing
  BY DEF PanelInit, SearchHidesNothing, Showing
<1>2. SearchHidesNothing /\ [PanelNext]_panel => SearchHidesNothing'
  <2> SUFFICES ASSUME SearchHidesNothing, [PanelNext]_panel, Showing("search")', panel' # panel
               PROVE  SearchHidesNothing'
    BY DEF SearchHidesNothing, Showing
  <2>1. ShowSearch
    <3>1. PanelNext /\ panel'.kind = "search"
      BY DEF Showing
    <3> QED
      BY <3>1, KindsApart
  <2>2. PICK board, side, n, history, spots, report :
          /\ board \in Board /\ side \in {"put", "call"} /\ n \in SearchSize
          /\ panel' = Search(board, side, spots, None, history, report, n)
    BY <2>1 DEF ShowSearch
  <2> DEFINE g == SearchGuard(report)
             chosen == SelectTopContracts(board, n, side, g)
             rows == panel'.rows
  <2>3. /\ panel'.board = board /\ panel'.side = side /\ panel'.n = n
        /\ DOMAIN rows = DOMAIN chosen
        /\ \A i \in DOMAIN chosen :
             rows[i].c = chosen[i] /\ rows[i].thin = LiquidityProblem(chosen[i])
        /\ rows = [i \in DOMAIN chosen |-> rows[i]]
    <3> HIDE DEF g, chosen
    <3> DEFINE RowOf(i) ==
                 [c |-> chosen[i],
                  yield |-> ContractYield(chosen[i], Spot(spots[1], spots[2], spots[3])),
                  status |-> Status(g, Underlying, chosen[i].exp),
                  thin |-> LiquidityProblem(chosen[i]),
                  dividends |-> InLife(history, chosen[i].exp)]
    <3>1. /\ panel'.board = board /\ panel'.side = side /\ panel'.n = n
          /\ rows = [i \in DOMAIN chosen |-> RowOf(i)]
      BY <2>2 DEF Search, g, chosen
    <3>2. \A i : RowOf(i).c = chosen[i] /\ RowOf(i).thin = LiquidityProblem(chosen[i])
      OBVIOUS
    <3> HIDE DEF RowOf, rows
    <3> QED
      BY <3>1, <3>2 DEF rows
  <2>4. ASSUME NEW c, c \in Range(board), c.type = side, c.delta # None, Given(c.bid),
               Gap(c.delta, 0) <= DeltaCap, InWindow([dte |-> c.exp], Entry)
        PROVE  c \in Priced(board, side, g)
    <3>1. ~Blocks(g, Underlying, c.exp)
      BY DEF SearchGuard, Blocks
    <3> QED
      BY <2>4, <3>1 DEF Priced, Searchable
  <2>5. \A c \in Priced(board, side, g) :
          /\ c \in Range(board) /\ c.type = side /\ c.delta # None /\ Given(c.bid)
          /\ Gap(c.delta, 0) <= DeltaCap /\ InWindow([dte |-> c.exp], Entry)
    BY DEF Priced, Searchable
  <2> DEFINE From(c) == Off(c, side)
             fitting == {c \in Range(board) :
                           /\ c.type = side /\ c.delta # None /\ Given(c.bid)
                           /\ Gap(c.delta, 0) <= DeltaCap /\ InWindow([dte |-> c.exp], Entry)}
             InReach(c) == /\ LiquidityProblem(c) = None
                           /\ \A d \in fitting : d.exp = c.exp => From(c) <= From(d) + LiquidReach
  <2>6. fitting = Priced(board, side, g)
    BY <2>4, <2>5
  <2> HIDE DEF fitting, g
  <2>7. \A c : InReach(c) <=> Reachable(c, board, side, g)
    BY <2>6 DEF Reachable
  <2> HIDE DEF chosen, rows, InReach
  <2>8. /\ Len(chosen) \in Nat /\ DOMAIN chosen = 1..Len(chosen)
        /\ \A c \in fitting :
             /\ \/ \E i \in DOMAIN chosen : chosen[i].exp = c.exp
                \/ /\ Len(chosen) = n
                   /\ \A i \in DOMAIN chosen :
                        /\ InReach(c) => LiquidityProblem(chosen[i]) = None
                        /\ InReach(c) \/ LiquidityProblem(chosen[i]) # None
                             => From(chosen[i]) <= From(c)
             /\ \A i \in DOMAIN chosen :
                  (/\ chosen[i].exp = c.exp /\ LiquidityProblem(chosen[i]) # None
                   /\ LiquidityProblem(c) = None) =>
                    From(c) > From(chosen[i]) + LiquidReach
    <3>1. /\ Len(chosen) \in Nat /\ DOMAIN chosen = 1..Len(chosen)
          /\ \A c \in Priced(board, side, g) :
               /\ \/ \E i \in DOMAIN chosen : chosen[i].exp = c.exp
                  \/ /\ Len(chosen) = n
                     /\ \A i \in DOMAIN chosen :
                          /\ Reachable(c, board, side, g) => LiquidityProblem(chosen[i]) = None
                          /\ \/ Reachable(c, board, side, g)
                             \/ LiquidityProblem(chosen[i]) # None
                             => From(chosen[i]) <= From(c)
               /\ \A i \in DOMAIN chosen :
                    (/\ chosen[i].exp = c.exp /\ LiquidityProblem(chosen[i]) # None
                     /\ LiquidityProblem(c) = None) =>
                      From(c) > From(chosen[i]) + LiquidReach
      BY <2>2, ChosenAre DEF chosen
    <3> HIDE DEF From
    <3> QED
      BY <2>6, <2>7, <3>1
  <2>9. Len(rows) = Len(chosen)
    BY <2>3, <2>8
  <2>10. \A c \in fitting :
           /\ \/ \E i \in DOMAIN rows : rows[i].c.exp = c.exp
              \/ /\ Len(rows) = n
                 /\ \A i \in DOMAIN rows :
                      /\ InReach(c) => rows[i].thin = None
                      /\ InReach(c) \/ rows[i].thin # None => From(rows[i].c) <= From(c)
           /\ \A i \in DOMAIN rows :
                (rows[i].c.exp = c.exp /\ rows[i].thin # None /\ LiquidityProblem(c) = None) =>
                  From(c) > From(rows[i].c) + LiquidReach
    <3> HIDE DEF From
    <3> QED
      BY <2>3, <2>8, <2>9
  <2> QED
    BY <2>3, <2>10 DEF SearchHidesNothing, fitting, InReach, rows
<1> QED
  BY <1>1, <1>2, PTL DEF PanelSpec

\* A name the gates refuse by its cheap metrics takes no place of the deep
\* fetch (rate_and_rank).
THEOREM FunnelCorrect == PanelSpec => []GatedTakeNoSlot
<1>1. PanelInit => GatedTakeNoSlot
  BY DEF PanelInit, GatedTakeNoSlot, Showing
<1>2. GatedTakeNoSlot /\ [PanelNext]_panel => GatedTakeNoSlot'
  <2> SUFFICES ASSUME GatedTakeNoSlot, PanelNext, Showing("funnel")'
               PROVE  GatedTakeNoSlot'
    <3>1. panel' = panel => (GatedTakeNoSlot => GatedTakeNoSlot')
      BY DEF GatedTakeNoSlot, Showing, Those
    <3>2. ~Showing("funnel")' => GatedTakeNoSlot'
      BY DEF GatedTakeNoSlot
    <3> QED
      BY <3>1, <3>2
  <2>1. ShowFunnel
    <3>1. PanelNext /\ panel'.kind = "funnel"
      BY DEF Showing
    <3> QED
      BY <3>1, KindsApart
  <2>2. PICK names, bulkWorks, g :
          /\ names \in Universe /\ bulkWorks \in BOOLEAN
          /\ panel' = [kind |-> "funnel", names |-> names, bulk |-> bulkWorks, guard |-> g,
                       kept |-> RateAndRank(names, bulkWorks, g, Entry.minDte)]
    BY <2>1 DEF ShowFunnel
  <2>3. CASE bulkWorks = FALSE
    <3>1. panel'.bulk = FALSE
      BY <2>2, <2>3
    <3> QED
      BY <3>1 DEF GatedTakeNoSlot
  <2> SUFFICES ASSUME bulkWorks = TRUE
               PROVE  GatedTakeNoSlot'
    BY <2>2, <2>3
  <2>7. /\ panel'.names = names /\ panel'.guard = g
        /\ panel'.kept = RateAndRank(names, TRUE, g, Entry.minDte)
    BY <2>2
  <2>4. Prerank(CheapOf(names)) = Prerank(CheapOf(Those(names, Passing)))
    BY <2>2, SamePassers
  <2>5. RateAndRank(names, TRUE, g, Entry.minDte)
        = RateAndRank(Those(names, Passing), TRUE, g, Entry.minDte)
    <3> DEFINE keep == Prerank(CheapOf(names))
               Deep(of) == [i \in DOMAIN of |->
                              [of[i] EXCEPT !.metrics = IF of[i].deep # None THEN of[i].deep ELSE @]]
    <3>1. \A ns : RateAndRank(ns, TRUE, g, Entry.minDte)
                  = SelectTop(Deep(Prerank(CheapOf(ns))), g, Entry.minDte)
      BY DEF RateAndRank, CheapOf
    <3> HIDE DEF Deep
    <3> QED
      BY <2>4, <3>1
  <2>6. panel'.kept = RateAndRank(Those(panel'.names, Passing), TRUE, panel'.guard, Entry.minDte)
    BY <2>5, <2>7
  <2> QED
    BY <2>6 DEF GatedTakeNoSlot, Passing, Those
<1> QED
  BY <1>1, <1>2, PTL DEF PanelSpec

\* Where enough of the field is rated, a row that cannot be is neither rewarded
\* nor punished for it (core/pipeline/rank.py).
THEOREM RankingCorrect == PanelSpec => []UnratedInTheMiddle
<1>0. UnratedInTheMiddle <=> Middling
  BY DEF UnratedInTheMiddle, Middling, InMiddle, Few, Lower, Higher
<1>1. PanelInit => Middling
  BY DEF PanelInit, Middling, Showing
<1>2. Middling /\ [PanelNext]_panel => Middling'
  <2> SUFFICES ASSUME PanelNext, Showing("ranking")'
               PROVE  InMiddle(panel'.of, panel'.rows)
    BY DEF Middling, Showing
  <2>1. ShowRanking
    <3>1. PanelNext /\ panel'.kind = "ranking"
      BY DEF Showing
    <3> QED
      BY <3>1, KindsApart
  <2>2. PICK of : of \in Scored /\ panel' = [kind |-> "ranking", of |-> of, rows |-> Rank(of)]
    BY <2>1 DEF ShowRanking
  <2>3. panel'.of = of /\ panel'.rows = Rank(of)
    BY <2>2
  <2> DEFINE rows == Rank(of)
             Above(s) == 2 * Cardinality(Lower(Few(of), s)) >= Len(Few(of))
             Below(s) == 2 * Cardinality(Higher(Few(of), s)) >= Len(Few(of))
             Fair(i, j) ==
               (i < j /\ rows[i].strength # rows[j].strength /\ rows[i].yield = rows[j].yield) =>
                 /\ (rows[i].strength = None /\ rows[j].score # rows[i].score) => ~Above(rows[j].strength)
                 /\ (rows[j].strength = None /\ rows[j].score # rows[i].score) => ~Below(rows[i].strength)
  <2>4. ASSUME Len(Few(of)) >= MinRated, NEW i \in DOMAIN rows, NEW j \in DOMAIN rows
        PROVE  Fair(i, j)
    <3> SUFFICES ASSUME i < j, rows[i].strength # rows[j].strength, rows[i].yield = rows[j].yield
                 PROVE  /\ (rows[i].strength = None /\ rows[j].score # rows[i].score)
                             => ~Above(rows[j].strength)
                        /\ (rows[j].strength = None /\ rows[j].score # rows[i].score)
                             => ~Below(rows[i].strength)
      OBVIOUS
    <3>1. StandIn(of) \in Int =>
            \E a, b \in DOMAIN of :
              /\ rows[i].strength = of[a].strength /\ rows[i].yield = of[a].yield
              /\ rows[j].strength = of[b].strength /\ rows[j].yield = of[b].yield
              /\ rows[i].score = Owned(of, a) /\ rows[j].score = Owned(of, b)
              /\ Owned(of, a) \in Int /\ Owned(of, b) \in Int /\ Owned(of, a) >= Owned(of, b)
      <4> SUFFICES ASSUME StandIn(of) \in Int
                   PROVE  \E a, b \in DOMAIN of :
                            /\ rows[i].strength = of[a].strength /\ rows[i].yield = of[a].yield
                            /\ rows[j].strength = of[b].strength /\ rows[j].yield = of[b].yield
                            /\ rows[i].score = Owned(of, a) /\ rows[j].score = Owned(of, b)
                            /\ Owned(of, a) \in Int /\ Owned(of, b) \in Int
                            /\ Owned(of, a) >= Owned(of, b)
        OBVIOUS
      <4>1. IsRanked(rows, of)
        BY <2>2, RankIs
      <4> HIDE DEF rows
      <4> QED
        BY <4>1 DEF IsRanked
    <3> HIDE DEF rows
    <3>2. StandIn(of) \in Int
      BY <2>2, <2>4, RankableIs
    <3>3. PICK a \in DOMAIN of, b \in DOMAIN of :
            /\ rows[i].strength = of[a].strength /\ rows[i].yield = of[a].yield
            /\ rows[j].strength = of[b].strength /\ rows[j].yield = of[b].yield
            /\ rows[i].score = Owned(of, a) /\ rows[j].score = Owned(of, b)
            /\ Owned(of, a) \in Int /\ Owned(of, b) \in Int /\ Owned(of, a) >= Owned(of, b)
      BY <3>1, <3>2
    <3>4. ASSUME rows[i].strength = None, rows[j].score # rows[i].score
          PROVE  ~Above(rows[j].strength)
      <4>1. of[a].strength = None /\ of[b].strength # None /\ of[a].yield = of[b].yield
        BY <3>3, <3>4
      <4>2. Above(of[b].strength) => Owned(of, a) <= Owned(of, b)
        BY <2>2, <2>4, <4>1, UnratedIs
      <4> HIDE DEF Above
      <4> QED
        BY <3>3, <3>4, <4>2
    <3>5. ASSUME rows[j].strength = None, rows[j].score # rows[i].score
          PROVE  ~Below(rows[i].strength)
      <4>1. of[b].strength = None /\ of[a].strength # None /\ of[b].yield = of[a].yield
        BY <3>3, <3>5
      <4>2. Below(of[a].strength) => Owned(of, b) >= Owned(of, a)
        BY <2>2, <2>4, <4>1, UnratedIs
      <4>3. Owned(of, a) # Owned(of, b)
        BY <3>3, <3>5
      <4> HIDE DEF Below
      <4> QED
        BY <3>3, <4>2, <4>3
    <3> QED
      BY <3>4, <3>5
  <2>5. InMiddle(of, rows)
    <3> HIDE DEF rows
    <3> QED
      BY <2>4 DEF InMiddle
  <2> QED
    BY <2>3, <2>5
<1> QED
  BY <1>0, <1>1, <1>2, PTL DEF PanelSpec

\* A roll costs the same in the table of ways out and in the grid beneath it
\* (core/exits.py, rolls; core/rollgrid.py, build).
THEOREM RollsCorrect == PanelSpec => []RollsMatchGrid
<1>1. PanelInit => RollsMatchGrid
  BY DEF PanelInit, RollsMatchGrid, Showing
<1>2. RollsMatchGrid /\ [PanelNext]_panel => RollsMatchGrid'
  <2> SUFFICES ASSUME RollsMatchGrid, PanelNext, Showing("exits")'
               PROVE  RollsMatchGrid'
    <3>1. panel' = panel => (RollsMatchGrid => RollsMatchGrid')
      BY DEF RollsMatchGrid, Showing
    <3>2. ~Showing("exits")' => RollsMatchGrid'
      BY DEF RollsMatchGrid
    <3> QED
      BY <3>1, <3>2
  <2>1. ShowExits
    <3>1. PanelNext /\ panel'.kind = "exits"
      BY DEF Showing
    <3> QED
      BY <3>1, KindsApart
  <2>2. PICK p \in Held : \E board \in Board, spot \in Quote, history \in History, minDte \in {1, 40} :
          \E rollStrike \in {p.strike} \cup {board[i].strike : i \in DOMAIN board} :
            panel' = Exits(board, spot, history, p, minDte, 120, rollStrike, p.strike)
    BY <2>1 DEF ShowExits
  <2>3. PICK board \in Board : \E spot \in Quote, history \in History, minDte \in {1, 40} :
          \E rollStrike \in {p.strike} \cup {board[i].strike : i \in DOMAIN board} :
            panel' = Exits(board, spot, history, p, minDte, 120, rollStrike, p.strike)
    BY <2>2
  <2>4. PICK spot \in Quote : \E history \in History, minDte \in {1, 40} :
          \E rollStrike \in {p.strike} \cup {board[i].strike : i \in DOMAIN board} :
            panel' = Exits(board, spot, history, p, minDte, 120, rollStrike, p.strike)
    BY <2>3
  <2>5. PICK history \in History, minDte \in {1, 40} :
          \E rollStrike \in {p.strike} \cup {board[i].strike : i \in DOMAIN board} :
            panel' = Exits(board, spot, history, p, minDte, 120, rollStrike, p.strike)
    BY <2>4
  <2>6. PICK target \in {p.strike} \cup {board[i].strike : i \in DOMAIN board} :
          panel' = Exits(board, spot, history, p, minDte, 120, target, p.strike)
    BY <2>5
  <2> DEFINE lo == Max({1, Min({minDte, p.exp})})
             hi == Max({120, p.exp})
             own == InDays(board, p.type, lo, hi)
             both == Keep(own, p, spot, 0) \cup Rolls(own, p, spot, target)
             cur == Match(own, p.strike, p.exp)
  <2>7. /\ panel'.p = p /\ panel'.board = board /\ panel'.ways = Ranked(both)
        /\ panel'.grid = IF p.short THEN RollGrid(own, p, spot) ELSE None
    BY <2>6 DEF Exits, Compare
  <2>8. /\ Placed(p) /\ p.strike \in Int /\ p.exp \in Int /\ p.qty \in Int
        /\ spot \in Int \cup {None} /\ target \in Int
    <3>1. /\ p.short \in BOOLEAN /\ {p.strike, p.exp, p.qty} \subseteq Int /\ spot \in Int \cup {None}
      BY HeldAssumption
    <3>2. \A i \in DOMAIN board : board[i].strike \in Int
      BY BoardAssumption
    <3> QED
      BY <3>1, <3>2 DEF Placed
  <2> HIDE DEF lo, hi
  <2>9. /\ Chained(own) /\ \A i \in DOMAIN own : own[i].type = p.type
        /\ ListsOnce(board) => ListsOnce(own)
    BY OwnIs
  <2> HIDE DEF own
  <2>10. RollGrid(own, p, spot) = Surface(own, p, spot)
    <3>1. OfType(own, p.type) = own
      BY <2>9, AllOfType
    <3>2. RollGrid(own, p, spot) = Surface(OfType(own, p.type), p, spot)
      BY DEF RollGrid, OfType, Those
    <3> QED
      BY <3>1, <3>2
  <2>11. /\ \A i \in DOMAIN Ranked(both) : Ranked(both)[i] \in both
         /\ \A r \in both : r.kind = "roll" =>
              Closes(own, p) /\ IsRoll(r, own, p, spot, target)
    <3> DEFINE rolls == Rolls(own, p, spot, target)
    <3>1. PICK r : /\ Keep(own, p, spot, 0) \subseteq {r}
                   /\ r.kind = "keep" /\ r.exp = p.exp /\ Rateable(r)
      BY <2>8, <2>9, KeepIs
    <3>2. /\ IsFiniteSet(rolls)
          /\ \A x \in rolls : /\ Rateable(x) /\ x.exp > p.exp /\ Closes(own, p)
                              /\ IsRoll(x, own, p, spot, target)
          /\ \A a, b \in rolls : a.exp = b.exp => a = b
      BY <2>8, <2>9, RollsAre
    <3> HIDE DEF rolls
    <3>3. both \subseteq {r} \cup rolls
      BY <3>1 DEF rolls
    <3> HIDE DEF both
    <3>4. IsFiniteSet(both)
      <4>1. IsFiniteSet({r} \cup rolls)
        BY <3>2, FS_AddElement, FS_Union, FS_Singleton
      <4> QED
        BY <3>3, <4>1, FS_Subset
    <3>5. \A x \in both : Rateable(x)
      BY <3>1, <3>2, <3>3
    <3>6. \A a, b \in both : a.exp = b.exp => a = b
      <4>1. \A x \in rolls : x.exp # r.exp
        BY <2>8, <3>1, <3>2 DEF Rateable
      <4> QED
        BY <3>2, <3>3, <4>1
    <3>7. \A i \in DOMAIN Ranked(both) : Ranked(both)[i] \in both
      BY <3>4, <3>5, <3>6, RankedAre
    <3>8. \A x \in both : x.kind = "roll" => Closes(own, p) /\ IsRoll(x, own, p, spot, target)
      BY <3>1, <3>2, <3>3
    <3> QED
      BY <3>7, <3>8
  <2> HIDE DEF both
  <2> SUFFICES ASSUME panel'.grid # None, ListsOnce(board), NEW n \in DOMAIN Ranked(both),
                      Ranked(both)[n].kind = "roll",
                      <<Ranked(both)[n].strike, Ranked(both)[n].exp>> \in DOMAIN panel'.grid.cells
               PROVE  Ranked(both)[n].credit
                      = p.qty * panel'.grid.cells[<<Ranked(both)[n].strike, Ranked(both)[n].exp>>].credit
    BY <2>7 DEF RollsMatchGrid
  <2> DEFINE w == Ranked(both)[n]
  <2>12. p.short = TRUE /\ panel'.grid = Surface(own, p, spot) /\ Surface(own, p, spot) # None
    BY <2>7, <2>8, <2>10 DEF Placed
  <2>13. Closes(own, p) /\ IsRoll(w, own, p, spot, target)
    BY <2>11
  <2> HIDE DEF w
  <2>14. PICK i \in DOMAIN own :
           /\ w = RollTo(own, p, spot, target, own[i]) /\ own[i].strike = target
           /\ OpenAt(p, own[i]) \in Int
    BY <2>13 DEF IsRoll
  <2>15. cur.ask \in Int /\ own[i].bid \in Int /\ own[i].bid # None
    BY <2>12, <2>13, <2>14, NothingAssumption DEF Closes, CloseAt, OpenAt
  <2>16. /\ w.strike = own[i].strike /\ w.exp = own[i].exp
         /\ w.credit = 1 * (own[i].bid * p.qty - cur.ask * p.qty)
    BY <2>12, <2>14 DEF RollTo, OpenAt, CloseAt
  <2>17. Surface(own, p, spot).cells[<<own[i].strike, own[i].exp>>].credit = own[i].bid - cur.ask
    <3>1. <<own[i].strike, own[i].exp>> \in DOMAIN Surface(own, p, spot).cells
      BY <2>12, <2>16 DEF w
    <3> QED
      BY <2>9, <2>12, <2>15, <3>1, CellIs
  <2> HIDE DEF cur
  <2>18. own[i].bid * p.qty - cur.ask * p.qty = p.qty * (own[i].bid - cur.ask)
    BY <2>8, <2>15
  <2>19. w.credit = p.qty * (own[i].bid - cur.ask)
    BY <2>8, <2>15, <2>16, <2>18
  <2> QED
    BY <2>12, <2>16, <2>17, <2>19 DEF w
<1> QED
  BY <1>1, <1>2, PTL DEF PanelSpec
=============================================================================
