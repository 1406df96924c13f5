--------------------------- MODULE StrikeSelection ---------------------------
(***************************************************************************)
(* The put a screen sells: core/pipeline/select_strike.py.                 *)
(*                                                                         *)
(* A contract is a record: dte, its expiry; off, the distance of its delta *)
(* from the target; pays, its annualized yield; open, whether enough of it *)
(* is held; liquid, whether besides it has a bid, a delta under the cap,   *)
(* enough implied volatility and none of the liquidity issues.  A chain is *)
(* a set of contracts.                                                     *)
(***************************************************************************)
EXTENDS EarningsGuard

InWindow(k, c) ==
  /\ c.minDte - c.tolerance <= k.dte
  /\ k.dte <= c.maxDte + c.tolerance

InBand(k, c) == c.minDte <= k.dte /\ k.dte <= c.maxDte

\* Whether a contract may be sold as far as contract and window go.
Offered(chain, c) == {k \in chain : InWindow(k, c) /\ k.liquid}

EligibleContracts(chain, n, c, g) == {k \in Offered(chain, c) : ~Blocks(g, n, k.dte)}

\* The contracts nearest the target delta, in each expiry.
NearestPerExpiry(ks) == {k \in ks : \A j \in ks : j.dte = k.dte => k.off <= j.off}

\* Where two of an expiry are as near the one listed first is kept: the rest
\* does not depend on the order, so the puts that may be selected are those
\* that some order selects.
SelectPut(eligible, c) ==
  LET nearest == NearestPerExpiry(eligible)
      inBand == {k \in nearest : InBand(k, c)}
      pool == IF inBand # {} THEN inBand ELSE nearest
  IN {k \in pool : \A j \in pool : \E i \in pool : i.dte = j.dte /\ i.pays <= k.pays}
=============================================================================
