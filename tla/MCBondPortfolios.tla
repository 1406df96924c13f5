-------------------------- MODULE MCBondPortfolios --------------------------
(* A small instance of BondPortfolios for TLC. *)
EXTENDS BondPortfolios, TLC

CONSTANTS u1, u2, p1, p2, p3, main, other, isin, secid, third,
          r1, r2, r3, t1, rep1, rep2

People == {u1, u2}
Portfolios == {p1, p2, p3}
Names == {main, other}
Keys == {isin, secid, third}
Requests == {r1, r2, r3}
Reports == {rep1, rep2}
OneToken == {t1}

\* isin and secid are the two codes of one bond
TwoCodes == [k \in Keys |-> IF k = isin THEN {secid} ELSE IF k = secid THEN {isin} ELSE {}]

\* what is imported: nothing, a bond under its MOEX code, one without a quantity
Held(ks, q) == [k \in Keys |-> IF k \in ks THEN q ELSE Absent]
SomeLists == {Held({}, 0), Held({secid}, 1), Held({third}, 0)}

\* people, ids, tokens and reports are opaque to the code
Opaque == Permutations(Person) \cup Permutations(Portfolio) \cup Permutations(Request)
            \cup Permutations(Token) \cup Permutations(Report)
=============================================================================
