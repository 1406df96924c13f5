------------------------------ MODULE Optional ------------------------------
(* What is shared by the modules that compute: values that may be None, and *)
(* sequences in an order.                                                  *)
EXTENDS Integers, Sequences, FiniteSets, TLC, SequencesExt, FiniteSetsExt, Functions

CONSTANT None

\* Python's truth of a number that may be None
Given(x) == IF x = None THEN FALSE ELSE x # 0

Floor0(x) == IF x > 0 THEN x ELSE 0

Gap(a, b) == IF a < b THEN b - a ELSE a - b

\* The first of a sequence that passes a test.
Find(seq, Test(_)) ==
  LET hits == {i \in DOMAIN seq : Test(seq[i])}
  IN IF hits = {} THEN None ELSE seq[Min(hits)]

\* A finite set as a sequence, each member where as many come before it as are
\* sorted before it.
InOrder(S, Before(_, _)) ==
  [n \in 1..Cardinality(S) |->
     CHOOSE x \in S : Cardinality({y \in S : Before(y, x)}) = n - 1]

Ascending(S) == InOrder(S, LAMBDA i, j : i < j)

\* SelectSeq, said without recursion: those that pass a test, in their order.
Those(seq, Test(_)) ==
  LET at == Ascending({i \in DOMAIN seq : Test(seq[i])})
  IN [n \in DOMAIN at |-> seq[at[n]]]

\* Best first; where two are as good, in the order they had.
BestFirst(seq, Score(_)) ==
  LET order == InOrder(DOMAIN seq, LAMBDA i, j : Score(seq[i]) > Score(seq[j])
                                                 \/ (Score(seq[i]) = Score(seq[j]) /\ i < j))
  IN [i \in DOMAIN seq |-> seq[order[i]]]

\* A record with one field set.
With(r, field, value) == [x \in DOMAIN r \cup {field} |-> IF x = field THEN value ELSE r[x]]

Take(seq, n) == IF n = None THEN seq ELSE SubSeq(seq, 1, Min({n, Len(seq)}))

Total(f) == FoldFunction(+, 0, f)
=============================================================================
