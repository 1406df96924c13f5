---------------------------- MODULE LadderProofs ----------------------------
(***************************************************************************)
(* Theorems about LadderPlan, for any forms, chains, price path, values of *)
(* a call and limits.                                                      *)
(*                                                                         *)
(* What the plan is built from comes first: the least and the greatest of  *)
(* finitely many numbers, the first by a measure, the function a recursion *)
(* defines.  Naturals have a least one (Least), which is how every         *)
(* induction here goes: by the least number for which it would fail.       *)
(*                                                                         *)
(* Then the rungs (PlanRungsAre): an even split climbs strictly to the     *)
(* first strike at or above the cost, which the chain's strikes, carried   *)
(* on at their spacing, always reach.  Then the dates: what is chosen      *)
(* before the next report is over none (BeforeTheNext).                    *)
(*                                                                         *)
(* The invariant relates the call in hand to the ones lived (InHand): it   *)
(* is at a rung no lower than the highest reached, which is the last one   *)
(* lived, and a roll is to the very next.                                  *)
(*                                                                         *)
(* The lines of the plan come last: Tells says what the lines say of the   *)
(* first calls, by rung, and one call more keeps it whether it makes the   *)
(* last line longer or a line of its own (TellIs).  The sums are of whole  *)
(* numbers, which the values of calls are assumed to be.                   *)
(***************************************************************************)
EXTENDS LadderPlan, SequenceTheorems, NaturalsInduction, WellFoundedInduction,
        FiniteSetTheorems, TLAPS

-----------------------------------------------------------------------------
(* Numbers *)

Smaller == {ss \in Nat \X Nat : ss[1] < ss[2]}

\* Of some naturals one is the least.
LEMMA Least ==
  ASSUME NEW S \in SUBSET Nat, S # {}
  PROVE  \E n \in S : \A m \in S : n <= m
<1>1. IsWellFoundedOn(Smaller, Nat)
  BY NatLessThanWellFounded DEF OpToRel, Smaller
<1>2. \E n \in S : \A m \in S : ~(<<m, n>> \in Smaller)
  BY <1>1, WFMin, Zenon
<1>3. PICK n \in S : \A m \in S : ~(<<m, n>> \in Smaller)
  BY <1>2
<1>4. \A m \in S : ~(m < n)
  BY <1>3 DEF Smaller
<1> QED
  BY <1>4

\* The least of whole numbers that some number bounds.
LEMMA MinIs ==
  ASSUME NEW S \in SUBSET Int, S # {}, NEW b \in Int, \A x \in S : b <= x
  PROVE  Min(S) \in S /\ \A x \in S : Min(S) <= x
<1> DEFINE T == {x - b : x \in S}
<1>0. \A x \in S : x - b \in Nat
  OBVIOUS
<1>1. T \in SUBSET Nat /\ T # {}
  BY <1>0
<1>2. PICK n \in T : \A m \in T : n <= m
  BY <1>1, Least
<1>3. PICK x \in S : n = x - b
  BY <1>2
<1>4. \A y \in S : x <= y
  BY <1>2, <1>3
<1> QED
  BY <1>4 DEF Min

\* And the greatest.
LEMMA MaxIs ==
  ASSUME NEW S \in SUBSET Int, S # {}, NEW b \in Int, \A x \in S : x <= b
  PROVE  Max(S) \in S /\ \A x \in S : x <= Max(S)
<1> DEFINE T == {b - x : x \in S}
<1>0. \A x \in S : b - x \in Nat
  OBVIOUS
<1>1. T \in SUBSET Nat /\ T # {}
  BY <1>0
<1>2. PICK n \in T : \A m \in T : n <= m
  BY <1>1, Least
<1>3. PICK x \in S : n = b - x
  BY <1>2
<1>4. \A y \in S : x >= y
  BY <1>2, <1>3
<1>5. Max(S) \in S /\ \A y \in S : Max(S) >= y
  BY <1>4 DEF Max
<1> QED
  BY <1>5

\* Finitely many whole numbers are bounded on both sides.
LEMMA FiniteBounds ==
  ASSUME NEW S \in SUBSET Int, IsFiniteSet(S)
  PROVE  \E a, b \in Int : \A x \in S : a <= x /\ x <= b
<1>1. PICK n \in Nat : ExistsSurjection(1..n, S)
  BY FS_NatSurjection
<1>2. PICK f \in [1..n -> S] : \A x \in S : \E i \in 1..n : f[i] = x
  BY <1>1 DEF ExistsSurjection, Surjection
<1> DEFINE Bounded(m) == \E a, b \in Int : \A i \in 1..m : a <= f[i] /\ f[i] <= b
           bad == {m \in Nat : m <= n /\ ~Bounded(m)}
<1>3. \A i \in 1..n : f[i] \in Int
  BY <1>2
<1>7. Bounded(0)
  <2>1. \A i \in 1..0 : 0 <= f[i] /\ f[i] <= 0
    OBVIOUS
  <2> QED
    BY <2>1
<1>4. ASSUME NEW m \in Nat, m + 1 <= n, Bounded(m)
      PROVE  Bounded(m + 1)
  <2>1. PICK a, b \in Int : \A i \in 1..m : a <= f[i] /\ f[i] <= b
    BY <1>4
  <2>2. f[m + 1] \in Int
    BY <1>3, <1>4
  <2> DEFINE lo == IF f[m + 1] < a THEN f[m + 1] ELSE a
             hi == IF f[m + 1] > b THEN f[m + 1] ELSE b
  <2>3. lo \in Int /\ hi \in Int /\ lo <= a /\ b <= hi /\ lo <= f[m + 1] /\ f[m + 1] <= hi
    BY <2>2
  <2> HIDE DEF lo, hi
  <2>4. ASSUME NEW i \in 1..(m + 1)
        PROVE  lo <= f[i] /\ f[i] <= hi
    <3>1. f[i] \in Int
      BY <1>3, <1>4
    <3>2. i \in 1..m \/ i = m + 1
      OBVIOUS
    <3> QED
      BY <2>1, <2>3, <3>1, <3>2
  <2> QED
    BY <2>3, <2>4
<1> HIDE DEF Bounded
<1>5. bad = {}
  <2>1. SUFFICES ASSUME bad # {} PROVE FALSE
    OBVIOUS
  <2>2. PICK m \in bad : \A k \in bad : m <= k
    BY <2>1, Least
  <2>3. m # 0
    BY <2>2, <1>7
  <2>4. m - 1 \in Nat /\ (m - 1) + 1 = m /\ m - 1 \notin bad
    BY <2>2, <2>3
  <2> QED
    BY <2>2, <2>4, <1>4
<1>6. Bounded(n)
  BY <1>5
<1>8. PICK a, b \in Int : \A i \in 1..n : a <= f[i] /\ f[i] <= b
  BY <1>6 DEF Bounded
<1>9. \A x \in S : a <= x /\ x <= b
  BY <1>2, <1>8
<1> QED
  BY <1>9

\* The least and the greatest of finitely many whole numbers.
LEMMA Extremes ==
  ASSUME NEW S \in SUBSET Int, IsFiniteSet(S), S # {}
  PROVE  /\ Min(S) \in S /\ \A x \in S : Min(S) <= x
         /\ Max(S) \in S /\ \A x \in S : x <= Max(S)
<1>1. PICK a, b \in Int : \A x \in S : a <= x /\ x <= b
  BY FiniteBounds
<1> QED
  BY <1>1, MinIs, MaxIs

\* The larger and the smaller of two.
LEMMA OfTwo ==
  ASSUME NEW a \in Int, NEW b \in Int
  PROVE  /\ Max({a, b}) \in {a, b} /\ Max({a, b}) >= a /\ Max({a, b}) >= b
         /\ Min({a, b}) \in {a, b} /\ Min({a, b}) <= a /\ Min({a, b}) <= b
<1>1. IsFiniteSet({a, b})
  <2>1. IsFiniteSet({a} \cup {b})
    BY FS_Singleton, FS_AddElement, Zenon
  <2>2. {a, b} = {a} \cup {b}
    OBVIOUS
  <2> QED
    BY <2>1, <2>2
<1> QED
  BY <1>1, Extremes

\* Of whole numbers that some number bounds, the first by a measure that some
\* number bounds, the lesser of two as near.
LEMMA FirstBy ==
  ASSUME NEW S \in SUBSET Int, S # {}, NEW b \in Int, \A x \in S : b <= x,
         NEW off \in [S -> Int], NEW c \in Int, \A x \in S : c <= off[x]
  PROVE  \E x \in S : \A y \in S : off[x] < off[y] \/ (off[x] = off[y] /\ x <= y)
<1> DEFINE offs == {off[x] : x \in S}
           near == {x \in S : off[x] = Min(offs)}
<1>1. Min(offs) \in offs /\ \A o \in offs : Min(offs) <= o
  <2>1. offs \in SUBSET Int /\ offs # {} /\ \A o \in offs : c <= o
    OBVIOUS
  <2> QED
    BY <2>1, MinIs
<1>2. near \in SUBSET Int /\ near # {} /\ \A x \in near : b <= x
  BY <1>1
<1>3. Min(near) \in near /\ \A x \in near : Min(near) <= x
  BY <1>2, MinIs
<1>4. \A y \in S : Min(offs) <= off[y] /\ off[y] \in Int /\ Min(offs) \in Int
  BY <1>1
<1>5. \A y \in S : off[Min(near)] < off[y] \/ (off[Min(near)] = off[y] /\ Min(near) <= y)
  <2> TAKE y \in S
  <2>1. off[Min(near)] = Min(offs) /\ Min(near) \in S
    BY <1>3
  <2>2. CASE off[y] = Min(offs)
    BY <2>1, <2>2, <1>3
  <2>3. CASE off[y] # Min(offs)
    BY <2>1, <2>3, <1>4
  <2> QED
    BY <2>2, <2>3
<1> QED
  BY <1>3, <1>5

-----------------------------------------------------------------------------
(* Recursion *)

\* The first n turns of a recursion from a.
Turns(S, a, step, n, g) ==
  /\ g \in [0..n -> S] /\ g[0] = a
  /\ \A i \in 0..(n - 1) : g[i + 1] = step[i][g[i]]

\* There are always some.
LEMMA TurnsExist ==
  ASSUME NEW S, NEW a \in S, NEW step \in [Nat -> [S -> S]]
  PROVE  \A n \in Nat : \E g : Turns(S, a, step, n, g)
<1> DEFINE bad == {n \in Nat : ~\E g : Turns(S, a, step, n, g)}
<1>1. \E g : Turns(S, a, step, 0, g)
  <2> DEFINE g == [i \in 0..0 |-> a]
  <2>1. g \in [0..0 -> S] /\ g[0] = a /\ \A i \in 0..(0 - 1) : FALSE
    OBVIOUS
  <2> QED
    BY <2>1 DEF Turns
<1>2. ASSUME NEW n \in Nat, NEW g, Turns(S, a, step, n, g)
      PROVE  \E h : Turns(S, a, step, n + 1, h)
  <2> DEFINE h == [i \in 0..(n + 1) |-> IF i = n + 1 THEN step[n][g[n]] ELSE g[i]]
  <2>1. /\ g \in [0..n -> S] /\ g[0] = a
        /\ \A i \in 0..(n - 1) : g[i + 1] = step[i][g[i]]
    BY <1>2 DEF Turns
  <2>2. step[n][g[n]] \in S
    BY <2>1
  <2>3. \A i \in 0..(n + 1) : h[i] \in S
    <3> TAKE i \in 0..(n + 1)
    <3>1. i = n + 1 \/ i \in 0..n
      OBVIOUS
    <3> QED
      BY <2>1, <2>2, <3>1
  <2>4. h[0] = a
    BY <2>1
  <2>5. \A i \in 0..((n + 1) - 1) : h[i + 1] = step[i][h[i]]
    <3> TAKE i \in 0..((n + 1) - 1)
    <3>1. i \in 0..(n + 1) /\ i + 1 \in 0..(n + 1) /\ i # n + 1
      OBVIOUS
    <3>2. h[i] = g[i]
      BY <3>1
    <3>3. CASE i = n
      <4>1. h[i + 1] = step[n][g[n]]
        BY <3>1, <3>3
      <4> QED
        BY <3>2, <3>3, <4>1
    <3>4. CASE i # n
      <4>1. i \in 0..(n - 1) /\ i + 1 # n + 1
        BY <3>4
      <4>2. h[i + 1] = g[i + 1]
        BY <3>1, <4>1
      <4> QED
        BY <2>1, <3>2, <4>1, <4>2
    <3> QED
      BY <3>3, <3>4
  <2> HIDE DEF h
  <2>6. h \in [0..(n + 1) -> S]
    BY <2>3 DEF h
  <2> QED
    BY <2>4, <2>5, <2>6 DEF Turns
<1> SUFFICES ASSUME bad # {} PROVE FALSE
  OBVIOUS
<1>3. PICK n \in bad : \A m \in bad : n <= m
  BY Least
<1>4. n # 0
  BY <1>1, <1>3
<1>5. n - 1 \in Nat /\ (n - 1) + 1 = n /\ n - 1 \notin bad
  <2> HIDE DEF bad
  <2>1. n \in Nat
    BY <1>3 DEF bad
  <2> QED
    BY <1>3, <1>4, <2>1
<1>6. \E g : Turns(S, a, step, n - 1, g)
  BY <1>5
<1> QED
  BY <1>2, <1>3, <1>5, <1>6

\* And they agree.
LEMMA TurnsAgree ==
  ASSUME NEW S, NEW a, NEW step, NEW n \in Nat, NEW m \in Nat, n <= m,
         NEW g, Turns(S, a, step, n, g), NEW h, Turns(S, a, step, m, h)
  PROVE  \A i \in 0..n : g[i] = h[i]
<1> DEFINE bad == {i \in Nat : i <= n /\ g[i] # h[i]}
<1> SUFFICES ASSUME bad # {} PROVE FALSE
  OBVIOUS
<1>1. PICK i \in bad : \A j \in bad : i <= j
  BY Least
<1>2. i # 0
  BY <1>1 DEF Turns
<1>3. i - 1 \in 0..(n - 1) /\ i - 1 \in 0..(m - 1) /\ (i - 1) + 1 = i /\ i - 1 \notin bad
  BY <1>1, <1>2
<1>4. g[i - 1] = h[i - 1]
  BY <1>3
<1>5. g[i] = step[i - 1][g[i - 1]] /\ h[i] = step[i - 1][h[i - 1]]
  BY <1>3 DEF Turns
<1> QED
  BY <1>1, <1>4, <1>5

\* Where a recursion starts and how it goes on, and the function it defines.
Stepping(S, a, step) == a \in S /\ step \in [Nat -> [S -> S]]
Recurs(S, a, step, f) ==
  f \in [Nat -> S] /\ f[0] = a /\ \A n \in Nat : f[n + 1] = step[n][f[n]]

\* There is that function.
LEMMA Recursion ==
  \A S, a, step : Stepping(S, a, step) => \E f : Recurs(S, a, step, f)
<1> SUFFICES ASSUME NEW S, NEW a \in S, NEW step \in [Nat -> [S -> S]]
             PROVE  \E f : Recurs(S, a, step, f)
  BY DEF Stepping
<1> DEFINE to(n) == CHOOSE g : Turns(S, a, step, n, g)
           f == [n \in Nat |-> to(n)[n]]
<1>1. ASSUME NEW n \in Nat
      PROVE  Turns(S, a, step, n, to(n))
  <2>1. \E g : Turns(S, a, step, n, g)
    BY TurnsExist
  <2> QED
    BY <2>1, Zenon
<1> HIDE DEF to
<1>2. ASSUME NEW n \in Nat
      PROVE  f[n] \in S
  BY <1>1 DEF Turns
<1>3. f[0] = a
  BY <1>1 DEF Turns
<1>4. ASSUME NEW n \in Nat
      PROVE  f[n + 1] = step[n][f[n]]
  <2>1. n + 1 \in Nat /\ n \in 0..n /\ n \in 0..((n + 1) - 1)
    OBVIOUS
  <2>2. Turns(S, a, step, n, to(n)) /\ Turns(S, a, step, n + 1, to(n + 1))
    BY <1>1, <2>1
  <2>3. to(n)[n] = to(n + 1)[n]
    BY <2>1, <2>2, TurnsAgree
  <2>4. to(n + 1)[n + 1] = step[n][to(n + 1)[n]]
    BY <2>1, <2>2 DEF Turns
  <2> QED
    BY <2>1, <2>3, <2>4
<1> HIDE DEF f
<1>5. f \in [Nat -> S]
  BY <1>2 DEF f
<1> QED
  BY <1>3, <1>4, <1>5 DEF Recurs
-----------------------------------------------------------------------------
(* The rungs *)

\* Whole numbers that climb from low and stay below target.
Climbs(low, target) ==
  {q \in Seq(Int) : /\ Len(q) >= 1 /\ q[1] = low
                    /\ \A i \in 1..(Len(q) - 1) : q[i] < q[i + 1]
                    /\ \A i \in 1..Len(q) : q[i] < target}

\* The strike nearest a step is one of those there are.
LEMMA NearestIs ==
  ASSUME NEW S \in SUBSET Int, S # {}, NEW b \in Int, \A x \in S : b <= x,
         NEW low \in Int, NEW target \in Int, NEW steps \in Nat, NEW i \in Nat
  PROVE  Nearest(S, low, target, steps, i) \in S
<1> DEFINE want == low * steps + (target - low) * i
           off == [s \in S |-> Gap(s * steps, want)]
<1>1. want \in Int
  OBVIOUS
<1> HIDE DEF want
<1>2. \A s \in S : Gap(s * steps, want) \in Int /\ 0 <= Gap(s * steps, want)
  BY <1>1 DEF Gap
<1>3. off \in [S -> Int] /\ \A s \in S : 0 <= off[s]
  BY <1>2
<1>6. \A x, y \in S : off[x] = Gap(x * steps, want) /\ off[y] = Gap(y * steps, want)
  OBVIOUS
<1> HIDE DEF off
<1>4. \E x \in S : \A y \in S : off[x] < off[y] \/ (off[x] = off[y] /\ x <= y)
  BY <1>3, FirstBy
<1>5. \E x \in S : \A y \in S : \/ Gap(x * steps, want) < Gap(y * steps, want)
                                \/ Gap(x * steps, want) = Gap(y * steps, want) /\ x <= y
  BY <1>4, <1>6
<1> QED
  BY <1>5, Zenon DEF Nearest, want

\* One more rung keeps a climb one.
LEMMA OneMore ==
  ASSUME NEW low \in Int, NEW target \in Int, NEW q \in Climbs(low, target),
         NEW s \in Int, Last(q) < s, s < target
  PROVE  Append(q, s) \in Climbs(low, target)
<1>1. /\ q \in Seq(Int) /\ Len(q) \in Nat /\ Len(q) >= 1 /\ q[1] = low
      /\ \A i \in 1..(Len(q) - 1) : q[i] < q[i + 1]
      /\ \A i \in 1..Len(q) : q[i] < target
  BY DEF Climbs
<1> DEFINE p == Append(q, s)
<1>2. /\ p \in Seq(Int) /\ Len(p) = Len(q) + 1 /\ p[Len(q) + 1] = s
      /\ \A i \in 1..Len(q) : p[i] = q[i]
  BY <1>1, AppendProperties
<1> HIDE DEF p
<1>3. Len(p) >= 1 /\ p[1] = low
  BY <1>1, <1>2
<1>4. \A i \in 1..(Len(p) - 1) : p[i] < p[i + 1]
  <2> TAKE i \in 1..(Len(p) - 1)
  <2>1. CASE i = Len(q)
    BY <1>1, <1>2, <2>1 DEF Last
  <2>2. CASE i # Len(q)
    <3>1. i \in 1..(Len(q) - 1) /\ i \in 1..Len(q) /\ i + 1 \in 1..Len(q)
      BY <1>1, <1>2, <2>2
    <3> QED
      BY <1>1, <1>2, <3>1
  <2> QED
    BY <2>1, <2>2
<1>5. \A i \in 1..Len(p) : p[i] < target
  <2> TAKE i \in 1..Len(p)
  <2>1. i = Len(q) + 1 \/ i \in 1..Len(q)
    BY <1>1, <1>2
  <2> QED
    BY <1>1, <1>2, <2>1
<1>6. p \in Climbs(low, target)
  BY <1>2, <1>3, <1>4, <1>5 DEF Climbs
<1> QED
  BY <1>6 DEF p

\* Below is the function its recursion says, and each of its values climbs.
LEMMA BelowIs ==
  ASSUME NEW low \in Int, NEW target \in Int, low < target,
         NEW steps \in Nat, NEW strikes \in SUBSET Int
  PROVE  \A n \in Nat : LET r == Below(low, target, steps, strikes)
                         IN r[n] \in Climbs(low, target) /\ Len(r[n]) <= n + 1
<1> DEFINE S == Climbs(low, target)
           between(q) == {s \in strikes : Last(q) < s /\ s < target}
           next(n, q) == IF between(q) = {} THEN q
                         ELSE Append(q, Nearest(between(q), low, target, steps, n + 1))
           step == [n \in Nat |-> [q \in S |-> next(n, q)]]
<1>1. <<low>> \in S
  BY DEF Climbs
<1>2. ASSUME NEW n \in Nat, NEW q \in S
      PROVE  next(n, q) \in S /\ Len(next(n, q)) <= Len(q) + 1
  <2>1. q \in Seq(Int) /\ Len(q) \in Nat /\ Last(q) \in Int
    BY DEF Climbs, Last
  <2>2. CASE between(q) = {}
    BY <2>1, <2>2
  <2>3. CASE between(q) # {}
    <3> DEFINE s == Nearest(between(q), low, target, steps, n + 1)
    <3>0. \A x \in between(q) : x \in Int /\ Last(q) < x
      OBVIOUS
    <3>1. between(q) \in SUBSET Int /\ \A x \in between(q) : Last(q) <= x
      <4> HIDE DEF between
      <4>1. \A x \in between(q) : Last(q) <= x
        BY <2>1, <3>0
      <4> QED
        BY <3>0, <4>1
    <3>2. s \in between(q)
      <4> HIDE DEF between
      <4>1. n + 1 \in Nat
        OBVIOUS
      <4> QED
        BY <2>1, <2>3, <3>1, <4>1, NearestIs
    <3>3. s \in Int /\ Last(q) < s /\ s < target
      BY <3>2
    <3> HIDE DEF s, between
    <3>4. Append(q, s) \in S
      BY <3>3, OneMore
    <3>5. next(n, q) = Append(q, s)
      BY <2>3 DEF s
    <3>6. Len(Append(q, s)) = Len(q) + 1
      BY <2>1, <3>3, AppendProperties
    <3> HIDE DEF next, S
    <3> QED
      BY <2>1, <3>4, <3>5, <3>6
  <2> QED
    BY <2>2, <2>3
<1>12. \A q \in S : Len(q) \in Nat
  BY DEF Climbs
<1> HIDE DEF S, next
<1>3. step \in [Nat -> [S -> S]]
  BY <1>2
<1>7. \A n \in Nat, q \in S : step[n][q] = next(n, q)
  OBVIOUS
<1> HIDE DEF step
<1>4. PICK f : f \in [Nat -> S] /\ f[0] = <<low>> /\ \A n \in Nat : f[n + 1] = step[n][f[n]]
  <2>1. Stepping(S, <<low>>, step)
    BY <1>1, <1>3 DEF Stepping
  <2>2. \E f : Recurs(S, <<low>>, step, f)
    BY <2>1, Recursion
  <2> QED
    BY <2>2 DEF Recurs
<1>5. \A n \in Nat : f[n + 1] = next(n, f[n])
  BY <1>4, <1>7
<1> DEFINE Turn(g, i) ==
             LET before == IF i = 0 THEN <<low>> ELSE g[i - 1]
                 gap == {s \in strikes : Last(before) < s /\ s < target}
             IN IF i = 0 \/ gap = {} THEN before
                ELSE Append(before, Nearest(gap, low, target, steps, i))
<1>6. ASSUME NEW g, NEW i \in Nat
      PROVE  Turn(g, 0) = <<low>> /\ Turn(g, i + 1) = next(i, g[i])
  <2>1. i + 1 # 0 /\ (i + 1) - 1 = i
    OBVIOUS
  <2> QED
    BY <2>1 DEF next
<1>8. f = [i \in Nat |-> Turn(f, i)]
  <2>1. ASSUME NEW i \in Nat
        PROVE  f[i] = Turn(f, i)
    <3>1. CASE i = 0
      BY <1>4, <1>6, <3>1
    <3>2. CASE i # 0
      <4>1. i - 1 \in Nat /\ (i - 1) + 1 = i
        BY <3>2
      <4> HIDE DEF Turn
      <4>2. f[(i - 1) + 1] = next(i - 1, f[i - 1]) /\ Turn(f, (i - 1) + 1) = next(i - 1, f[i - 1])
        BY <1>5, <1>6, <4>1
      <4> QED
        BY <4>1, <4>2
    <3> QED
      BY <3>1, <3>2
  <2> HIDE DEF Turn
  <2> QED
    BY <1>4, <2>1
<1> DEFINE g == Below(low, target, steps, strikes)
<1>9. g = [i \in Nat |-> Turn(g, i)]
  BY <1>8, Zenon DEF Below
<1> HIDE DEF g, Turn
<1>10. g[0] = <<low>> /\ \A n \in Nat : g[n + 1] = next(n, g[n])
  <2>1. g[0] = Turn(g, 0)
    BY <1>9
  <2>2. ASSUME NEW n \in Nat
        PROVE  g[n + 1] = next(n, g[n])
    <3>1. n + 1 \in Nat
      OBVIOUS
    <3>2. g[n + 1] = Turn(g, n + 1)
      BY <1>9, <3>1
    <3> QED
      BY <1>6, <3>2
  <2> QED
    BY <1>6, <2>1, <2>2
<1> DEFINE bad == {n \in Nat : ~(g[n] \in S /\ Len(g[n]) <= n + 1)}
<1>11. bad = {}
  <2> SUFFICES ASSUME bad # {} PROVE FALSE
    OBVIOUS
  <2>1. PICK n \in bad : \A m \in bad : n <= m
    BY Least
  <2>2. n # 0
    <3>1. Len(<<low>>) <= 0 + 1
      OBVIOUS
    <3>2. 0 \notin bad
      BY <1>1, <1>10, <3>1
    <3> QED
      BY <2>1, <3>2
  <2>3. n - 1 \in Nat /\ (n - 1) + 1 = n /\ n - 1 \notin bad
    BY <2>1, <2>2
  <2>4. g[n - 1] \in S /\ Len(g[n - 1]) <= n
    BY <2>3
  <2>5. g[n] = next(n - 1, g[n - 1])
    BY <1>10, <2>3
  <2>6. g[n] \in S /\ Len(g[n]) <= Len(g[n - 1]) + 1
    BY <1>2, <2>3, <2>4, <2>5
  <2>7. Len(g[n]) \in Nat /\ Len(g[n - 1]) \in Nat
    BY <1>12, <2>4, <2>6
  <2> QED
    BY <2>1, <2>4, <2>6, <2>7
<1> QED
  BY <1>11 DEF S, g

\* What is planned for a holding: whole numbers that climb from low to high.
Ladder(q, low, high) ==
  /\ q \in Seq(Int) /\ Len(q) \in Nat /\ Len(q) >= 1 /\ q[1] = low /\ Last(q) = high
  /\ \A i \in 1..(Len(q) - 1) : q[i] < q[i + 1]

\* An even split is one, of so many steps at most.
LEMMA EvenIs ==
  ASSUME NEW low \in Int, NEW target \in Int, low < target,
         NEW steps \in Nat \ {0}, NEW strikes \in SUBSET Int
  PROVE  /\ Ladder(Even(low, target, steps, strikes), low, target)
         /\ Len(Even(low, target, steps, strikes)) <= steps + 1
<1> DEFINE q == Below(low, target, steps, strikes)[steps - 1]
           p == Append(q, target)
<1>1. steps - 1 \in Nat /\ steps \in Nat
  OBVIOUS
<1>2. q \in Climbs(low, target) /\ Len(q) <= steps - 1 + 1
  BY <1>1, BelowIs
<1> HIDE DEF q
<1>3. /\ q \in Seq(Int) /\ Len(q) \in Nat /\ Len(q) >= 1 /\ q[1] = low
      /\ \A i \in 1..(Len(q) - 1) : q[i] < q[i + 1]
      /\ \A i \in 1..Len(q) : q[i] < target
  BY <1>2 DEF Climbs
<1>4. /\ p \in Seq(Int) /\ Len(p) = Len(q) + 1 /\ p[Len(q) + 1] = target
      /\ \A i \in 1..Len(q) : p[i] = q[i]
  BY <1>3, AppendProperties
<1> HIDE DEF p
<1>5. Last(p) = target
  BY <1>4 DEF Last
<1>6. p[1] = low /\ Len(p) >= 1 /\ Len(p) \in Nat /\ Len(p) <= steps + 1
  BY <1>2, <1>3, <1>4
<1>7. \A i \in 1..(Len(p) - 1) : p[i] < p[i + 1]
  <2> TAKE i \in 1..(Len(p) - 1)
  <2>1. CASE i = Len(q)
    BY <1>3, <1>4, <2>1
  <2>2. CASE i # Len(q)
    <3>1. i \in 1..(Len(q) - 1) /\ i \in 1..Len(q) /\ i + 1 \in 1..Len(q)
      BY <1>3, <1>4, <2>2
    <3> QED
      BY <1>3, <1>4, <3>1
  <2> QED
    BY <2>1, <2>2
<1>8. Ladder(p, low, target)
  BY <1>4, <1>5, <1>6, <1>7 DEF Ladder
<1>9. Even(low, target, steps, strikes) = p
  BY DEF Even, p, q
<1> QED
  BY <1>6, <1>8, <1>9

\* What finitely many give is finite.
LEMMA ImageFinite ==
  ASSUME NEW D, IsFiniteSet(D), NEW f, DOMAIN f = D
  PROVE  IsFiniteSet({f[x] : x \in D})
<1> DEFINE T == {f[x] : x \in D}
           g == [x \in D |-> f[x]]
<1>1. g \in Surjection(D, T)
  BY DEF Surjection
<1> QED
  BY <1>1, FS_Surjection

\* The calls of a chain, as the chain gives them.
IsChain(calls) ==
  /\ IsFiniteSet(DOMAIN calls)
  /\ \A i \in DOMAIN calls : calls[i].strike \in Nat /\ calls[i].exp \in Nat

\* A gap of at least one, so many times, is at least as far as it is to go.
LEMMA EnoughSteps ==
  ASSUME NEW far \in Nat, NEW gap \in Nat \ {0}
  PROVE  LET n == (far + gap - 1) \div gap
         IN n \in Nat /\ n * gap >= far /\ (far >= 1 => n >= 1)
<1> DEFINE m == far + gap - 1
           n == m \div gap
           r == m % gap
<1>1. m \in Nat
  OBVIOUS
<1>2. n \in Nat /\ r \in Nat /\ r < gap /\ m = gap * n + r
  OBVIOUS
<1>3. gap * n \in Nat /\ gap * n = n * gap
  BY <1>2
<1>4. n * gap >= far
  <2> DEFINE k == gap * n
  <2>1. k \in Nat /\ m = k + r /\ m = far + gap - 1
    BY <1>2, <1>3
  <2> HIDE DEF k, m, n, r
  <2>2. k >= far
    BY <1>2, <2>1
  <2> QED
    BY <1>3, <2>2 DEF k
<1>5. far >= 1 => n >= 1
  <2>1. n = 0 => n * gap = 0
    BY <1>2
  <2> HIDE DEF n, r, m
  <2> QED
    BY <1>2, <1>4, <2>1
<1> QED
  BY <1>2, <1>4, <1>5

\* A round step is one.
LEMMA StepIs ==
  ASSUME NEW price
  PROVE  StepOf(price) \in Nat \ {0}
<1> DEFINE steps == {50, 100, 250, 500, 1000, 2500, 5000, 10000}
           fits == {s \in steps : 6 * price <= 300 * s}
<1>1. steps \in SUBSET Nat /\ 0 \notin steps
  OBVIOUS
<1>2. CASE fits = {}
  BY <1>2 DEF StepOf
<1>3. CASE fits # {}
  <2>1. fits \in SUBSET Int /\ \A s \in fits : 0 <= s
    OBVIOUS
  <2>2. Min(fits) \in fits
    BY <1>3, <2>1, MinIs
  <2>3. StepOf(price) = Min(fits)
    BY <1>3 DEF StepOf
  <2> HIDE DEF fits
  <2>4. fits \subseteq steps
    BY DEF fits
  <2> HIDE DEF steps
  <2> QED
    BY <1>1, <2>2, <2>3, <2>4
<1> QED
  BY <1>2, <1>3

\* The strikes a rung can be: finitely many, the far ones of the chain among
\* them, and carried on as far as the cost.
LEMMA StrikesAre ==
  ASSUME NEW calls, IsChain(calls), NEW top \in Int
  PROVE  LET strikes == StrikesTo(calls, top)
         IN /\ strikes \in SUBSET Int /\ IsFiniteSet(strikes)
            /\ strikes # {} => \E s \in strikes : s >= top
            /\ \A i \in DOMAIN calls : calls[i].exp >= OpenMin => calls[i].strike \in strikes
<1> DEFINE far == {i \in DOMAIN calls : calls[i].exp >= OpenMin}
           from == IF far = {} THEN DOMAIN calls ELSE far
           listed == {calls[i].strike : i \in from}
           last == Max(listed)
           gap == IF Cardinality(listed) > 1 THEN last - Max(listed \ {last}) ELSE StepOf(top)
           n == (Floor0(top - last) + gap - 1) \div gap
           on == {last + k * gap : k \in 1..n}
           strikes == StrikesTo(calls, top)
<1>1. strikes = IF listed = {} THEN {} ELSE listed \cup on
  BY DEF StrikesTo
<1>2. from \subseteq DOMAIN calls /\ IsFiniteSet(from)
  BY FS_Subset DEF IsChain
<1>3. listed \in SUBSET Int /\ IsFiniteSet(listed)
  <2>1. \A i \in from : calls[i].strike \in Int
    BY <1>2 DEF IsChain
  <2> DEFINE f == [i \in from |-> calls[i].strike]
  <2>2. IsFiniteSet({f[i] : i \in from})
    <3>1. DOMAIN f = from
      OBVIOUS
    <3> HIDE DEF f, from
    <3> QED
      BY <1>2, <3>1, ImageFinite
  <2>3. {f[i] : i \in from} = listed
    OBVIOUS
  <2> QED
    BY <2>1, <2>2, <2>3
<1>4. \A i \in DOMAIN calls : calls[i].exp >= OpenMin => calls[i].strike \in listed
  OBVIOUS
<1>5. CASE listed = {}
  BY <1>1, <1>4, <1>5, FS_EmptySet
<1>6. CASE listed # {}
  <2> HIDE DEF listed
  <2>1. last \in listed /\ last \in Int
    BY <1>3, <1>6, Extremes
  <2>2. gap \in Nat \ {0}
    <3>1. CASE Cardinality(listed) > 1
      <4> DEFINE rest == listed \ {last}
      <4>1. rest # {}
        <5>1. SUFFICES ASSUME rest = {} PROVE FALSE
          OBVIOUS
        <5>2. listed = {last}
          BY <2>1, <5>1
        <5>3. Cardinality(listed) = 1
          BY <5>2, FS_Singleton, Zenon
        <5> QED
          BY <3>1, <5>3
      <4>2. IsFiniteSet(rest)
        BY <1>3, FS_RemoveElement
      <4>3. Max(rest) \in rest
        BY <1>3, <4>1, <4>2, Extremes
      <4>4. Max(rest) \in Int /\ Max(rest) # last /\ Max(rest) <= last
        BY <1>3, <1>6, <4>3, Extremes
      <4> HIDE DEF rest, last
      <4>5. gap = last - Max(rest)
        BY <3>1 DEF rest
      <4> HIDE DEF gap
      <4> QED
        BY <2>1, <4>4, <4>5
    <3>2. CASE ~(Cardinality(listed) > 1)
      BY <3>2, StepIs
    <3> QED
      BY <3>1, <3>2
  <2> HIDE DEF last, gap
  <2>3. Floor0(top - last) \in Nat /\ Floor0(top - last) >= top - last
    BY <2>1 DEF Floor0
  <2>4. /\ n \in Nat /\ n * gap >= Floor0(top - last)
        /\ Floor0(top - last) >= 1 => n >= 1
    BY <2>2, <2>3, EnoughSteps
  <2>5. \A k \in Int : k * gap \in Int
    BY <2>2
  <2>6. on \in SUBSET Int
    BY <2>1, <2>4, <2>5
  <2>7. IsFiniteSet(on)
    <3> DEFINE f == [k \in 1..n |-> last + k * gap]
    <3>1. IsFiniteSet(1..n)
      BY <2>4, FS_Interval
    <3>2. IsFiniteSet({f[k] : k \in 1..n})
      BY <3>1, ImageFinite
    <3>3. {f[k] : k \in 1..n} = on
      OBVIOUS
    <3> QED
      BY <3>2, <3>3
  <2>8. \E s \in listed \cup on : s >= top
    <3>1. CASE last >= top
      BY <2>1, <3>1
    <3>2. CASE ~(last >= top)
      <4>1. Floor0(top - last) >= 1
        BY <2>1, <3>2 DEF Floor0
      <4>2. n \in 1..n
        BY <2>4, <4>1
      <4>3. last + n * gap \in on
        BY <4>2
      <4>4. n * gap \in Int /\ n * gap >= top - last
        BY <2>1, <2>3, <2>4, <2>5
      <4> HIDE DEF on
      <4> DEFINE far2 == n * gap
      <4> HIDE DEF far2
      <4>5. last + far2 >= top
        BY <2>1, <4>4 DEF far2
      <4> QED
        BY <4>3, <4>5 DEF far2
    <3> QED
      BY <3>1, <3>2
  <2>9. strikes = listed \cup on
    BY <1>1, <1>6
  <2> HIDE DEF on, strikes
  <2>10. IsFiniteSet(listed \cup on)
    BY <1>3, <2>7, FS_Union
  <2>11. strikes \in SUBSET Int /\ IsFiniteSet(strikes) /\ \E s \in strikes : s >= top
    BY <1>3, <2>6, <2>8, <2>9, <2>10
  <2>12. \A i \in DOMAIN calls : calls[i].exp >= OpenMin => calls[i].strike \in strikes
    BY <1>4, <2>9 DEF listed
  <2> QED
    BY <2>11, <2>12 DEF strikes
<1> QED
  BY <1>5, <1>6

\* A ladder from low to the cost, chosen among its strikes.
LEMMA StartIs ==
  ASSUME NEW p, NEW m, NEW calls, NEW iv,
         NEW above \in SUBSET Int, above # {}, IsFiniteSet(above)
  PROVE  StartOf(p, m, calls, above, iv).rung \in above
<1> DEFINE spot == m.spot
           expiries == {calls[i].exp : i \in DOMAIN calls}
           exp == OpenExpiry(expiries, 0, 0, m.report)
           days == IF exp = None THEN OpenMax ELSE exp
           quoted(k) == IF exp = None THEN None ELSE MidOf(QuoteOf(calls, k, exp))
           premium(k) == IF quoted(k) # None THEN quoted(k)
                         ELSE IF iv = None THEN 0
                         ELSE CallValue(spot, k, days, iv)
           wanted == StartDelta(spot, RealCost(p))
           Off(k) == Gap(CallDelta(spot, k, days, iv), wanted)
           aim == IF iv = None THEN Max(above)
                  ELSE CHOOSE k \in above : \A j \in above :
                         Off(k) < Off(j) \/ (Off(k) = Off(j) /\ k <= j)
           paying == {k \in above : k <= aim /\ premium(k) >= MinPremium(spot)}
           chosen == IF paying = {} THEN [rung |-> Min(above), how |-> "price"]
                     ELSE [rung |-> Max(paying),
                           how |-> IF iv # None /\ Max(paying) = aim THEN "delta" ELSE "premium"]
<1>1. StartOf(p, m, calls, above, iv) = chosen
  BY Zenon DEF StartOf
<1>2. paying \subseteq above
  OBVIOUS
<1> HIDE DEF paying, aim
<1>3. CASE paying = {}
  <2>1. Min(above) \in above
    BY Extremes
  <2> QED
    BY <1>1, <1>3, <2>1
<1>4. CASE paying # {}
  <2>1. Max(paying) \in paying
    <3>1. IsFiniteSet(paying) /\ paying \in SUBSET Int
      BY <1>2, FS_Subset
    <3> QED
      BY <1>4, <3>1, Extremes
  <2> DEFINE how == IF iv # None /\ Max(paying) = aim THEN "delta" ELSE "premium"
  <2>2. StartOf(p, m, calls, above, iv) = [rung |-> Max(paying), how |-> how]
    BY <1>1, <1>4
  <2> HIDE DEF how
  <2>3. StartOf(p, m, calls, above, iv).rung = Max(paying)
    BY <2>2
  <2> QED
    BY <1>2, <2>1, <2>3
<1> QED
  BY <1>3, <1>4

-----------------------------------------------------------------------------
(* Dates *)

\* A new call's expiry is a listed one the report allows.
LEMMA OpenExpiryIs ==
  ASSUME NEW expiries \in SUBSET Int, NEW day \in Int, NEW from, NEW report
  PROVE  LET e == OpenExpiry(expiries, day, from, report)
         IN e # None => e \in expiries /\ Allowed(e, from, report)
<1> DEFINE ok == {e \in expiries : Allowed(e, from, report)}
           window == {e \in ok : day + OpenMin <= e /\ e <= day + OpenMax}
           later == {e \in ok : e >= day + 21}
           Off(e) == IF e < day + OpenMin THEN day + OpenMin - e ELSE e - (day + OpenMax)
           nearest == CHOOSE e \in later : \A f \in later :
                        Off(e) < Off(f) \/ (Off(e) = Off(f) /\ e <= f)
           found == OpenExpiry(expiries, day, from, report)
<1>1. found = IF window # {} THEN Max(window) ELSE IF later = {} THEN None ELSE nearest
  BY DEF OpenExpiry
<1>2. ok \in SUBSET Int /\ window \subseteq ok /\ later \subseteq ok
  OBVIOUS
<1>3. OpenMin \in Int /\ OpenMax \in Int /\ OpenMin >= 0
  BY LimitsAssumption
<1>4. CASE window # {}
  <2>1. day + OpenMax \in Int /\ \A x \in window : x <= day + OpenMax
    BY <1>3
  <2> HIDE DEF window
  <2>2. Max(window) \in window
    BY <1>2, <1>4, <2>1, MaxIs
  <2>3. found = Max(window)
    BY <1>1, <1>4
  <2>4. found \in ok
    BY <1>2, <2>2, <2>3
  <2> QED
    BY <2>4
<1>5. CASE window = {} /\ later = {}
  BY <1>1, <1>5
<1>6. CASE window = {} /\ later # {}
  <2> DEFINE off == [e \in later |-> Off(e)]
    <2>0. \A e \in later : Off(e) \in Int /\ 0 - OpenMax - OpenMin <= Off(e)
    <3> TAKE e \in later
    <3>1. e \in Int /\ e >= day + 21
      BY <1>2
    <3> HIDE DEF later
    <3>2. CASE e < day + OpenMin
      BY <1>3, <3>1, <3>2, LimitsAssumption
    <3>3. CASE ~(e < day + OpenMin)
      BY <1>3, <3>1, <3>3, LimitsAssumption
    <3> QED
      BY <3>2, <3>3
  <2>1. later \in SUBSET Int /\ day + 21 \in Int /\ \A x \in later : day + 21 <= x
    BY <1>2
  <2> HIDE DEF Off, later
  <2>2. off \in [later -> Int] /\ \A x \in later : 0 - OpenMax - OpenMin <= off[x]
    BY <2>0
  <2>3. 0 - OpenMax - OpenMin \in Int
    BY <1>3
  <2>4. \A x \in later : off[x] = Off(x)
    OBVIOUS
  <2> HIDE DEF off
  <2>5. \E x \in later : \A y \in later : off[x] < off[y] \/ (off[x] = off[y] /\ x <= y)
    BY <1>6, <2>1, <2>2, <2>3, FirstBy
  <2>6. \E x \in later : \A y \in later : Off(x) < Off(y) \/ (Off(x) = Off(y) /\ x <= y)
    BY <2>4, <2>5
  <2>7. nearest \in later
    BY <2>6, Zenon
  <2>8. found = nearest
    BY <1>1, <1>6
  <2>9. found \in ok
    BY <1>2, <2>7, <2>8
  <2> QED
    BY <2>9
<1> QED
  BY <1>4, <1>5, <1>6

\* The rung to sell at is one of the plan's, no lower than the one reached.
LEMMA NextRungIs ==
  ASSUME NEW rungs \in Seq(Int), NEW price, NEW floor \in Int,
         NextRung(rungs, price, floor) # None
  PROVE  NextRung(rungs, price, floor) \in Range(rungs) /\ NextRung(rungs, price, floor) >= floor
<1> DEFINE fits == {r \in Range(rungs) : /\ r > price /\ r >= floor
                                         /\ r = Last(rungs) \/ 97 * r > 100 * price}
<1>1. NextRung(rungs, price, floor) = Min(fits) /\ fits # {}
  BY DEF NextRung
<1>2. Range(rungs) \in SUBSET Int
  BY DEF Range
<1>3. fits \in SUBSET Int /\ fits \subseteq Range(rungs) /\ \A r \in fits : floor <= r
  BY <1>2
<1> HIDE DEF fits
<1>4. Min(fits) \in fits
  BY <1>1, <1>3, MinIs
<1> QED
  BY <1>1, <1>3, <1>4

\* The wall is there, and no earlier, when an expiry is before the report.
LEMMA WallIs ==
  ASSUME NEW expiries \in SUBSET Int, NEW report \in Int, NEW e \in expiries, e < report
  PROVE  Wall(expiries, report) # None /\ e <= Wall(expiries, report)
<1> DEFINE before == {d \in expiries : report # None /\ d < report}
<1>1. report # None /\ None \notin Int
  BY NoneAssumption
<1>2. before \in SUBSET Int /\ e \in before /\ \A d \in before : d <= report
  <2>1. \A d \in before : d \in expiries /\ d < report
    OBVIOUS
  <2>2. e \in before
    BY <1>1
  <2> HIDE DEF before
  <2> QED
    BY <2>1, <2>2
<1>3. Max(before) \in Int /\ e <= Max(before)
  <2> HIDE DEF before
  <2> QED
    BY <1>2, MaxIs
<1>4. Wall(expiries, report) = Max(before)
  BY <1>2 DEF Wall
<1> QED
  BY <1>1, <1>3, <1>4

\* The page's new call expires before the report.
LEMMA NewCallIs ==
  ASSUME NEW calls, NEW expiries \in SUBSET Int, NEW strike, NEW day \in Int,
         NEW report \in Int, NEW spot, NEW iv,
         NewCall(calls, expiries, strike, day, report, spot, iv) # None
  PROVE  LET c == NewCall(calls, expiries, strike, day, report, spot, iv)
         IN c.exp \in expiries /\ c.exp < report
<1> DEFINE exp == OpenExpiry(expiries, day, 0, report)
           c == NewCall(calls, expiries, strike, day, report, spot, iv)
<1>1. exp # None /\ c.exp = exp
  BY DEF NewCall
<1>2. exp \in expiries /\ Allowed(exp, 0, report)
  BY <1>1, OpenExpiryIs
<1>3. exp < report
  BY <1>2, NoneAssumption DEF Allowed
<1> QED
  BY <1>1, <1>2, <1>3

\* And so does the call the roll order buys into, when it names one.
LEMMA RollOrderIs ==
  ASSUME NEW p, p.exp \in Int, NEW calls, NEW expiries \in SUBSET Int,
         NEW report \in Int, NEW iv, NEW quote,
         RollOrder(p, calls, expiries, report, iv, quote).exp # None
  PROVE  LET o == RollOrder(p, calls, expiries, report, iv, quote)
         IN o.exp \in expiries /\ o.exp < report
<1> DEFINE higher == {r \in Range(p.rungs) : r > p.strike}
           lo == p.exp + RollMin
           listed == {e \in expiries : lo <= e /\ e <= p.exp + RollMax /\ e <= MaxDays}
           fits == {e \in listed : Allowed(e, 0, report)}
           exp == Min(fits)
           o == RollOrder(p, calls, expiries, report, iv, quote)
<1>1. fits # {} /\ o.exp = exp
  BY DEF RollOrder
<1>2. lo \in Int /\ fits \in SUBSET Int /\ fits \subseteq expiries /\ \A e \in fits : lo <= e
  <2>1. lo \in Int
    BY LimitsAssumption
  <2>2. \A e \in fits : e \in expiries /\ lo <= e
    OBVIOUS
  <2> HIDE DEF fits, lo
  <2> QED
    BY <2>1, <2>2
<1>3. \A e \in fits : e < report
  BY NoneAssumption DEF Allowed
<1>4. exp \in fits
  <2> HIDE DEF fits, lo
  <2> QED
    BY <1>1, <1>2, MinIs
<1> QED
  BY <1>1, <1>2, <1>3, <1>4

\* What the page sells, buys into or sells next expires by the wall.
LEMMA BuildCalls ==
  ASSUME NEW p, HasCall(p) => p.exp \in Int,
         NEW m, IsChain(m.calls), m.report \in Int
  PROVE  LET v == Build(p, m)
         IN \A call \in {v.roll, v.newCall, v.nextCall} \ {None} :
              call.exp # None => v.wall # None /\ call.exp <= v.wall
<1> DEFINE calls == m.calls
           spot == m.spot
           expiries == {calls[i].exp : i \in DOMAIN calls}
           report == m.report
           quote == IF HasCall(p) THEN QuoteOf(calls, p.strike, p.exp) ELSE None
           iv == Volatility(m, quote)
           next == IF spot = None THEN p.rungs[1] ELSE NextRung(p.rungs, spot, 0)
           new == NewCall(calls, expiries, IF next = None THEN Last(p.rungs) ELSE next,
                          0, report, spot, iv)
           roll == RollOrder(p, calls, expiries, report, iv, quote)
           after == NewCall(calls, expiries, p.strike, p.exp, report, spot, iv)
           v == Build(p, m)
<1>1. /\ v.wall = Wall(expiries, report)
      /\ v.roll = None \/ (HasCall(p) /\ v.roll = roll)
      /\ v.newCall \in {None, new}
      /\ v.nextCall = None \/ (HasCall(p) /\ v.nextCall = after)
  BY DEF Build
<1>2. expiries \in SUBSET Int
  BY DEF IsChain
<1> HIDE DEF v, roll, new, after, expiries
<1>3. ASSUME NEW c, c.exp \in expiries, c.exp < report
      PROVE  v.wall # None /\ c.exp <= v.wall
  BY <1>1, <1>2, <1>3, WallIs
<1>4. roll # None /\ roll.exp # None /\ HasCall(p) => roll.exp \in expiries /\ roll.exp < report
  BY <1>2, RollOrderIs DEF roll
<1>5. new # None => new.exp \in expiries /\ new.exp < report
  <2>1. 0 \in Int
    OBVIOUS
  <2> QED
    BY <1>2, <2>1, NewCallIs DEF new
<1>6. after # None /\ HasCall(p) => after.exp \in expiries /\ after.exp < report
  BY <1>2, NewCallIs DEF after
<1> QED
  BY <1>1, <1>3, <1>4, <1>5, <1>6 DEF v

-----------------------------------------------------------------------------
(* The rungs planned *)

\* One rung is a ladder of no steps.
LEMMA OneRung ==
  ASSUME NEW r \in Int, NEW iv
  PROVE  Ladder(<<r>>, r, r) /\ Len(<<r>>) = 1 /\ AllPay(<<r>>, iv)
BY DEF Ladder, Last, AllPay

\* The rungs climb to the cost from the open call, or from out of the money
\* where the chain lists a call there, and every step pays or they are tight.
PlansRungs(p, m, made) ==
  /\ \E low, high \in Int :
       /\ Ladder(made.rungs, low, high)
       /\ high >= p.cost
       /\ HasCall(p) => low = p.strike
       /\ (~HasCall(p) /\ \E i \in DOMAIN m.calls : /\ m.calls[i].exp >= OpenMin
                                                    /\ m.calls[i].strike > m.spot)
            => low > m.spot
  /\ Len(made.rungs) <= MaxRungs
  /\ made.tight \/ AllPay(made.rungs, made.iv)

LEMMA PlanRungsAre ==
  ASSUME NEW p, p.cost \in Int, HasCall(p) => p.strike \in Int,
         NEW m, IsChain(m.calls), m.spot \in Int \cup {None},
         PlanRungs(p, m) # None, PlanRungs(p, m).iv # None
  PROVE  PlansRungs(p, m, PlanRungs(p, m))
<1> DEFINE calls == m.calls
           spot == m.spot
           strikes == StrikesTo(calls, p.cost)
           enough == {s \in strikes : s >= p.cost}
           target == Min(enough)
           quote == IF HasCall(p) THEN QuoteOf(calls, p.strike, p.exp) ELSE None
           iv == Volatility(m, quote)
           above == {s \in strikes : spot < s /\ s <= target}
           higher == {s \in strikes : s > spot}
           from == IF HasCall(p) THEN [rung |-> p.strike, how |-> "call"]
                   ELSE StartOf(p, m, calls, above, iv)
           Made(rungs, how, tight) == [rungs |-> rungs, how |-> how, iv |-> iv, tight |-> tight]
           paid == {n \in 1..(MaxRungs - 1) : AllPay(Even(from.rung, target, n, strikes), iv)}
           made == PlanRungs(p, m)
           only == IF higher = {} THEN target ELSE Min(higher)
<1>1. strikes # {} /\ (HasCall(p) \/ spot # None) /\ iv # None
  BY DEF PlanRungs
<1>2. made = IF ~HasCall(p) /\ above = {} THEN Made(<<only>>, "target", FALSE)
             ELSE IF from.rung >= target THEN Made(<<from.rung>>, from.how, FALSE)
             ELSE IF paid # {} THEN Made(Even(from.rung, target, Min(paid), strikes), from.how, FALSE)
             ELSE Made(Even(from.rung, target, MaxRungs - 1, strikes), from.how, TRUE)
  <2> HIDE DEF iv, strikes
  <2> QED
    BY <1>1 DEF PlanRungs, iv, strikes
<1>3. /\ strikes \in SUBSET Int /\ IsFiniteSet(strikes)
      /\ \E s \in strikes : s >= p.cost
      /\ \A i \in DOMAIN calls : calls[i].exp >= OpenMin => calls[i].strike \in strikes
  BY <1>1, StrikesAre
<1> HIDE DEF strikes, iv, quote
<1>4. target \in strikes /\ target \in Int /\ target >= p.cost /\ \A s \in enough : target <= s
  <2>1. enough \in SUBSET Int /\ enough # {} /\ \A s \in enough : p.cost <= s /\ s \in strikes
    BY <1>3
  <2>2. Min(enough) \in enough /\ \A s \in enough : Min(enough) <= s
    <3> HIDE DEF enough
    <3> QED
      BY <2>1, MinIs
  <2> QED
    BY <1>3, <2>1, <2>2
<1> HIDE DEF target
<1>5. above \in SUBSET Int /\ IsFiniteSet(above) /\ \A s \in above : spot < s
  <2>1. above \in SUBSET strikes
    OBVIOUS
  <2> QED
    BY <1>3, <2>1, FS_Subset
<1>6. HasCall(p) \/ above # {} =>
        /\ from.rung \in Int
        /\ HasCall(p) => from.rung = p.strike
        /\ ~HasCall(p) => spot < from.rung
  <2>1. CASE HasCall(p)
    BY <2>1
  <2>2. CASE ~HasCall(p) /\ above # {}
    <3> HIDE DEF above
    <3>1. from.rung \in above
      BY <1>5, <2>2, StartIs
    <3> QED
      BY <1>5, <2>2, <3>1
  <2> QED
    BY <2>1, <2>2
<1>7. ASSUME ~HasCall(p), above = {}
      PROVE  PlansRungs(p, m, made)
  <2>1. spot \in Int
    BY <1>1, <1>7
  <2>2. only \in Int /\ only >= p.cost /\ (higher # {} => only > spot)
    <3>1. CASE higher = {}
      BY <1>4, <3>1
    <3>2. CASE higher # {}
      <4>1. higher \in SUBSET Int /\ \A s \in higher : s \in strikes /\ s > spot /\ spot <= s
        <5>1. \A s \in higher : s \in strikes /\ s > spot
          OBVIOUS
        <5> HIDE DEF higher, spot
        <5>2. \A s \in higher : s \in Int
          BY <1>3, <5>1
        <5>3. \A s \in higher : spot <= s
          BY <2>1, <5>1, <5>2
        <5> QED
          BY <5>1, <5>2, <5>3
      <4>2. Min(higher) \in higher
        <5> HIDE DEF higher
        <5> QED
          BY <2>1, <3>2, <4>1, MinIs
      <4>3. ~(Min(higher) <= target)
        BY <1>7, <4>1, <4>2
      <4> QED
        BY <1>4, <3>2, <4>1, <4>2, <4>3
    <3> QED
      BY <3>1, <3>2
  <2>3. (\E i \in DOMAIN calls : calls[i].exp >= OpenMin /\ calls[i].strike > spot) => higher # {}
    BY <1>3
  <2>4. made.rungs = <<only>> /\ made.iv = iv
    BY <1>2, <1>7
  <2> HIDE DEF only, made, higher
  <2>5. Ladder(made.rungs, only, only) /\ Len(made.rungs) <= MaxRungs /\ AllPay(made.rungs, made.iv)
    BY <2>2, <2>4, OneRung, LimitsAssumption
  <2> QED
    BY <1>7, <2>2, <2>3, <2>5 DEF PlansRungs
<1>8. ASSUME HasCall(p) \/ above # {},
             NEW high \in Int, high >= p.cost, Ladder(made.rungs, from.rung, high),
             Len(made.rungs) <= MaxRungs, made.tight \/ AllPay(made.rungs, made.iv)
      PROVE  PlansRungs(p, m, made)
  <2> HIDE DEF made, from, above
  <2> QED
    BY <1>6, <1>8 DEF PlansRungs
<1>9. ASSUME HasCall(p) \/ above # {}, from.rung >= target
      PROVE  PlansRungs(p, m, made)
  <2> HIDE DEF made, from, above, only, paid
  <2>1. made.rungs = <<from.rung>> /\ made.iv = iv
    <3>1. made = Made(<<from.rung>>, from.how, FALSE)
      BY <1>2, <1>9
    <3> QED
      BY <3>1
  <2>2. Ladder(made.rungs, from.rung, from.rung) /\ Len(made.rungs) <= MaxRungs
        /\ AllPay(made.rungs, made.iv)
    BY <1>6, <1>9, <2>1, OneRung, LimitsAssumption
  <2>3. from.rung >= p.cost /\ from.rung \in Int
    BY <1>4, <1>6, <1>9
  <2> QED
    BY <1>8, <1>9, <2>2, <2>3
<1>10. ASSUME HasCall(p) \/ above # {}, ~(from.rung >= target), paid # {}
       PROVE  PlansRungs(p, m, made)
  <2>1. paid \in SUBSET Int /\ \A n \in paid : /\ n \in 1..(MaxRungs - 1) /\ 1 <= n
                                               /\ AllPay(Even(from.rung, target, n, strikes), iv)
    OBVIOUS
  <2>2. made.rungs = Even(from.rung, target, Min(paid), strikes) /\ made.iv = iv
    BY <1>2, <1>10
  <2> HIDE DEF paid, made, from, above
  <2>3. Min(paid) \in paid
    BY <1>10, <2>1, MinIs
  <2>4. Min(paid) \in Nat \ {0} /\ Min(paid) + 1 <= MaxRungs
    <3>1. Min(paid) \in 1..(MaxRungs - 1) /\ MaxRungs \in Nat
      BY <2>1, <2>3, LimitsAssumption
    <3> HIDE DEF target
    <3> QED
      BY <3>1
  <2>5. Ladder(made.rungs, from.rung, target) /\ Len(made.rungs) <= Min(paid) + 1
    BY <1>3, <1>4, <1>6, <1>10, <2>2, <2>4, EvenIs
  <2>6. Len(made.rungs) <= MaxRungs
    BY <2>4, <2>5, LimitsAssumption DEF Ladder
  <2>7. AllPay(made.rungs, made.iv)
    BY <2>1, <2>2, <2>3
  <2> QED
    BY <1>4, <1>8, <1>10, <2>5, <2>6, <2>7
<1>11. ASSUME HasCall(p) \/ above # {}, ~(from.rung >= target), paid = {}
       PROVE  PlansRungs(p, m, made)
  <2>1. made.rungs = Even(from.rung, target, MaxRungs - 1, strikes) /\ made.tight
    BY <1>2, <1>11
  <2> HIDE DEF paid, made, from, above
  <2>2. MaxRungs - 1 \in Nat \ {0} /\ MaxRungs - 1 + 1 = MaxRungs
    BY LimitsAssumption
  <2>3. Ladder(made.rungs, from.rung, target) /\ Len(made.rungs) <= MaxRungs - 1 + 1
    BY <1>3, <1>4, <1>6, <1>11, <2>1, <2>2, EvenIs
  <2> QED
    BY <1>4, <1>8, <1>11, <2>1, <2>2, <2>3
<1> QED
  BY <1>7, <1>9, <1>10, <1>11 DEF made

-----------------------------------------------------------------------------
(* The plan in time *)

\* No report the plan expects falls on (day, exp].
NoReportIn(report, day, exp) == \A r \in Reports(report) : ~(day < r /\ r <= exp)

\* A call lived, or about to be, at a rung of the plan.
Held(rungs, report, c) ==
  /\ {"how", "strike", "on", "exp", "outcome", "wall", "ended", "amount"} \subseteq DOMAIN c
  /\ c.strike \in Int /\ c.on \in Int /\ c.exp \in Int
  /\ c.strike \in Range(rungs)
  /\ c.how # "open" => NoReportIn(report, c.on, c.exp)

NoneBetween(rungs, low, high) == ~\E r \in Range(rungs) : low < r /\ r < high

\* Each call is no lower than the one before it, a roll at the very next rung.
Climbing(rungs, calls) ==
  \A i \in DOMAIN calls : i > 1 =>
    /\ calls[i].strike >= calls[i - 1].strike
    /\ calls[i].how = "roll" => NoneBetween(rungs, calls[i - 1].strike, calls[i].strike)

Planned ==
  phase \notin {"form", "error"} =>
    /\ IsChain(market.calls) /\ {market.spot, market.report} \subseteq Int \cup {None}
    /\ plan.cost \in Int /\ (HasCall(plan) => plan.strike \in Nat /\ plan.exp \in Int)
    /\ planned.rungs = plan.rungs
    /\ planned.iv = Volatility(market, IF HasCall(plan)
                                       THEN QuoteOf(market.calls, plan.strike, plan.exp) ELSE None)
    /\ planned.iv # None => PlansRungs(plan, market, planned)

Shown ==
  IF phase \in {"form", "error", "page"}
  THEN view = None /\ cur = None /\ lived = <<>> /\ start = 0 /\ reached = 0
  ELSE view = Build(plan, market)

Walked ==
  /\ start \in Int /\ reached \in Int
  /\ \E S : lived \in Seq(S)
  /\ \A i \in DOMAIN lived : Held(plan.rungs, market.report, lived[i])
  /\ Climbing(plan.rungs, lived)

\* The call in hand goes on from the last one lived.
InHand ==
  phase = "plan" =>
    /\ planned.iv # None
    /\ lived # <<>> => Last(lived).strike = reached
    /\ cur # None =>
         /\ Held(plan.rungs, market.report, cur)
         /\ cur.strike >= reached
         /\ cur.how = "roll" => lived # <<>> /\ NoneBetween(plan.rungs, reached, cur.strike)

LadderInv == Planned /\ Shown /\ Walked /\ InHand

LEMMA ReportsAre ==
  ASSUME NEW report \in Int \cup {None}
  PROVE  Reports(report) \in SUBSET Int
<1>1. CASE report = None
  BY <1>1 DEF Reports
<1>2. CASE report # None
  <2> DEFINE far == (Floor0(PlanDays + ReportEvery - report) + ReportEvery - 1) \div ReportEvery
  <2>1. \A n \in 0..far : n \in Int
    OBVIOUS
  <2>2. \A n \in Int : n * ReportEvery \in Int
    BY LimitsAssumption
  <2>3. Reports(report) = {report + n * ReportEvery : n \in 0..far}
    BY <1>2 DEF Reports
  <2> HIDE DEF far
  <2> QED
    BY <1>2, <2>1, <2>2, <2>3
<1> QED
  BY <1>1, <1>2

\* A call that ends before the next report is over none.
LEMMA BeforeTheNext ==
  ASSUME NEW day \in Int, NEW exp \in Int, market.report \in Int \cup {None},
         IF NextReport(day) = None THEN TRUE ELSE exp < NextReport(day)
  PROVE  NoReportIn(market.report, day, exp)
<1> DEFINE reports == Reports(market.report)
           after == {r \in reports : r > day}
<1>1. reports \in SUBSET Int
  BY ReportsAre
<1>2. NextReport(day) = IF after = {} THEN None ELSE Min(after)
  BY DEF NextReport
<1> HIDE DEF reports
<1>3. CASE after = {}
  BY <1>1, <1>3 DEF NoReportIn, reports
<1>4. CASE after # {}
  <2>1. after \in SUBSET Int /\ \A r \in after : day <= r
    <3>1. \A r \in after : r \in reports /\ r > day
      OBVIOUS
    <3> HIDE DEF after
    <3>2. after \in SUBSET Int
      BY <1>1, <3>1
    <3> QED
      BY <3>1, <3>2
  <2>2. Min(after) \in after /\ \A r \in after : Min(after) <= r
    <3> HIDE DEF after
    <3> QED
      BY <1>4, <2>1, MinIs
  <2>3. Min(after) \in Int /\ Min(after) # None
    BY <2>1, <2>2, NoneAssumption
  <2>4. exp < Min(after)
    BY <1>2, <1>4, <2>3
  <2>5. \A r \in reports : r > day => exp < r
    <3> TAKE r \in reports
    <3> HAVE r > day
    <3>1. r \in after /\ r \in Int
      BY <1>1
    <3> HIDE DEF after
    <3> QED
      BY <2>2, <2>3, <2>4, <3>1
  <2> QED
    BY <1>1, <2>5 DEF NoReportIn, reports
<1> QED
  BY <1>3, <1>4

LEMMA NextReportIs ==
  ASSUME NEW day \in Int, market.report \in Int \cup {None}, NextReport(day) # None
  PROVE  NextReport(day) \in Int
<1> DEFINE after == {r \in Reports(market.report) : r > day}
<1>1. after \in SUBSET Int /\ \A r \in after : day <= r
  <2>1. \A r \in after : r \in Reports(market.report) /\ r > day
    OBVIOUS
  <2> HIDE DEF after
  <2>2. after \in SUBSET Int
    BY <2>1, ReportsAre
  <2> QED
    BY <2>1, <2>2
<1>2. after # {} /\ NextReport(day) = Min(after)
  BY DEF NextReport
<1> HIDE DEF after
<1> QED
  BY <1>1, <1>2, MinIs

LEMMA ExpiriesAre ==
  ASSUME IsChain(market.calls)
  PROVE  Expiries \in SUBSET Int
<1> DEFINE listed == {market.calls[i].exp : i \in DOMAIN market.calls}
<1>1. listed \in SUBSET Int
  BY DEF IsChain
<1> HIDE DEF listed
<1>2. Ahead(listed) \in SUBSET Int
  <2>1. Ahead(listed) \subseteq listed \cup (Fridays \cup ThirdFridays)
    BY DEF Ahead
  <2>2. Fridays \cup ThirdFridays \subseteq Int
    BY LimitsAssumption
  <2> QED
    BY <1>1, <2>1, <2>2
<1> QED
  BY <1>2 DEF Expiries, listed

\* Where a call rolls is the very next rung, before any report.
LEMMA RollTargetIs ==
  ASSUME plan.rungs \in Seq(Int), IsChain(market.calls), market.report \in Int \cup {None},
         NEW c, c.strike \in Int, c.on \in Int, c.exp \in Int, RollTarget(c).exp # None
  PROVE  LET roll == RollTarget(c)
         IN /\ roll.exp \in Int /\ roll.to \in Int /\ NoReportIn(market.report, c.on, roll.exp)
            /\ roll.to \in Range(plan.rungs) /\ roll.to > c.strike
            /\ NoneBetween(plan.rungs, c.strike, roll.to)
<1> DEFINE higher == {r \in Range(plan.rungs) : r > c.strike}
           report == NextReport(c.on)
           lo == c.exp + RollMin
           fits == {e \in Expiries : /\ lo <= e /\ e <= c.exp + RollMax
                                     /\ IF report = None THEN TRUE ELSE e < report}
           roll == RollTarget(c)
<1>1. higher # {} /\ fits # {} /\ roll.exp = Min(fits) /\ roll.to = Min(higher)
  BY DEF RollTarget
<1>2. Range(plan.rungs) \in SUBSET Int
  BY DEF Range
<1>3. /\ higher \in SUBSET Int
      /\ \A r \in higher : r \in Range(plan.rungs) /\ r > c.strike /\ c.strike <= r
  <2>1. \A r \in higher : r \in Range(plan.rungs) /\ r > c.strike
    OBVIOUS
  <2> HIDE DEF higher
  <2>2. higher \in SUBSET Int
    BY <1>2, <2>1
  <2> QED
    BY <2>1, <2>2
<1>4. Min(higher) \in higher /\ \A r \in higher : Min(higher) <= r
  <2> HIDE DEF higher
  <2> QED
    BY <1>1, <1>3, MinIs
<1>5. NoneBetween(plan.rungs, c.strike, Min(higher))
  <2>1. ASSUME NEW r \in Range(plan.rungs), c.strike < r, r < Min(higher)
        PROVE  FALSE
    <3>1. r \in Int /\ r \in higher
      BY <1>2, <2>1
    <3>2. Min(higher) \in Int
      BY <1>3, <1>4
    <3>3. Min(higher) <= r
      BY <1>4, <3>1
    <3> HIDE DEF higher
    <3> QED
      BY <2>1, <3>1, <3>2, <3>3
  <2> QED
    BY <2>1 DEF NoneBetween
<1>6. Min(fits) \in fits
  <2>1. lo \in Int
    BY LimitsAssumption
  <2>2. \A e \in fits : e \in Expiries /\ lo <= e
    OBVIOUS
  <2> HIDE DEF fits, lo
  <2>3. fits \in SUBSET Int
    BY <2>2, ExpiriesAre
  <2> QED
    BY <1>1, <2>1, <2>2, <2>3, MinIs
<1>7. Min(fits) \in Int /\ IF report = None THEN TRUE ELSE Min(fits) < report
  <2>1. \A e \in fits : e \in Expiries /\ IF report = None THEN TRUE ELSE e < report
    OBVIOUS
  <2> HIDE DEF fits, report
  <2> QED
    BY <1>6, <2>1, ExpiriesAre
<1>8. NoReportIn(market.report, c.on, Min(fits))
  <2> HIDE DEF fits
  <2> QED
    BY <1>7, BeforeTheNext
<1> HIDE DEF higher, fits, roll
<1> QED
  BY <1>1, <1>3, <1>4, <1>5, <1>7, <1>8 DEF roll

\* A report is in no part of a time it is not in.
LEMMA NoReportLater ==
  ASSUME NEW report \in Int \cup {None}, NEW day \in Int, NEW later \in Int, NEW exp \in Int,
         day <= later, NoReportIn(report, day, exp)
  PROVE  NoReportIn(report, later, exp)
BY ReportsAre DEF NoReportIn

\* The call in hand, lived to its end, goes on from the ones before.
LEMMA LivedOn ==
  ASSUME LadderInv, phase = "plan", cur # None, UNCHANGED <<plan, planned, market, view>>,
         NEW c, c.how = cur.how, c.strike = cur.strike,
         Held(plan.rungs, market.report, c), lived' = Append(lived, c),
         reached' = Max({reached, c.strike})
  PROVE  /\ reached' \in Int /\ reached' = cur.strike
         /\ \E S : lived' \in Seq(S)
         /\ \A i \in DOMAIN lived' : Held(plan.rungs, market.report, lived'[i])
         /\ Climbing(plan.rungs, lived')
         /\ lived' # <<>> /\ Last(lived').strike = reached'
<1>1. cur.strike \in Int /\ reached \in Int /\ cur.strike >= reached
  BY DEF LadderInv, InHand, Walked, Held
<1>2. reached' = cur.strike
  <2>1. /\ Max({reached, c.strike}) \in {reached, c.strike}
        /\ Max({reached, c.strike}) >= c.strike
    BY <1>1, OfTwo
  <2> QED
    BY <1>1, <2>1
<1>3. PICK S : lived \in Seq(S)
  BY DEF LadderInv, Walked
<1> DEFINE T == S \cup {c}
           n == Len(lived)
<1>4. lived \in Seq(T) /\ c \in T /\ n \in Nat
  BY <1>3
<1>5. /\ lived' \in Seq(T) /\ Len(lived') = n + 1 /\ lived'[n + 1] = c
      /\ \A i \in 1..n : lived'[i] = lived[i]
  BY <1>4, AppendProperties
<1>6. DOMAIN lived = 1..n /\ DOMAIN lived' = 1..(n + 1)
  BY <1>4, <1>5
<1> HIDE DEF T, n
<1>7. \A i \in DOMAIN lived' : Held(plan.rungs, market.report, lived'[i])
  <2> TAKE i \in DOMAIN lived'
  <2>1. i = n + 1 \/ i \in 1..n
    BY <1>4, <1>6
  <2> QED
    BY <1>5, <1>6, <2>1 DEF LadderInv, Walked
<1>8. lived' # <<>> /\ Last(lived') = c
  BY <1>4, <1>5 DEF Last
<1>9. ASSUME n >= 1
      PROVE  /\ lived[n].strike = reached
             /\ c.how = "roll" => NoneBetween(plan.rungs, lived[n].strike, c.strike)
  <2>1. lived # <<>> /\ Last(lived) = lived[n]
    BY <1>4, <1>9 DEF Last, n
  <2> QED
    BY <2>1 DEF LadderInv, InHand
<1>10. Climbing(plan.rungs, lived')
  <2> SUFFICES ASSUME NEW i \in DOMAIN lived', i > 1
               PROVE  /\ lived'[i].strike >= lived'[i - 1].strike
                      /\ lived'[i].how = "roll" =>
                           NoneBetween(plan.rungs, lived'[i - 1].strike, lived'[i].strike)
    BY DEF Climbing
  <2>1. CASE i = n + 1
    <3>1. n >= 1 /\ i - 1 = n /\ n \in 1..n
      BY <1>4, <2>1
    <3> QED
      BY <1>1, <1>5, <1>9, <2>1, <3>1
  <2>2. CASE i # n + 1
    <3>1. i \in 1..n /\ i - 1 \in 1..n
      BY <1>4, <1>6, <2>2
    <3> QED
      BY <1>5, <1>6, <3>1 DEF LadderInv, Walked, Climbing
  <2> QED
    BY <2>1, <2>2
<1> QED
  BY <1>1, <1>2, <1>5, <1>7, <1>8, <1>10

\* The event a call is lived to is after it was sold.
LEMMA EventDayIs ==
  ASSUME NEW c, c.on \in Int, c.exp \in Int, NEW roll, EventDay(c, roll) # None
  PROVE  EventDay(c, roll) \in Int /\ c.on <= EventDay(c, roll)
<1> DEFINE days == {d \in (c.on + 1)..(c.exp - 1) : RollsOn(c, roll, d) \/ ProfitsOn(c, d)}
<1>1. days # {} /\ EventDay(c, roll) = Min(days)
  BY DEF EventDay
<1>2. c.on \in Int /\ days \in SUBSET Int /\ \A d \in days : c.on <= d
  <2>1. \A d \in days : d \in (c.on + 1)..(c.exp - 1)
    OBVIOUS
  <2> HIDE DEF days
  <2> QED
    BY <2>1
<1> HIDE DEF days
<1> QED
  BY <1>1, <1>2, MinIs

\* What a call ended is of the call.
LEMMA EndedIs ==
  ASSUME NEW rungs, NEW report, NEW c, Held(rungs, report, c), NEW roll, NEW day, NEW outcome
  PROVE  LET e == Ended(c, roll, day, outcome)
         IN e.how = c.how /\ e.strike = c.strike /\ Held(rungs, report, e)
<1> DEFINE e == Ended(c, roll, day, outcome)
<1>1. /\ DOMAIN e = DOMAIN c /\ e.how = c.how /\ e.strike = c.strike
      /\ e.on = c.on /\ e.exp = c.exp
  BY DEF Ended, Held
<1> HIDE DEF e
<1>2. Held(rungs, report, e)
  BY <1>1 DEF Held
<1> QED
  BY <1>1, <1>2 DEF e

\* And with its amount or its end set again it still is.
LEMMA SetAgain ==
  ASSUME NEW rungs, NEW report, NEW c, Held(rungs, report, c), NEW x, NEW d,
         d = [c EXCEPT !.amount = x] \/ d = [c EXCEPT !.ended = x]
  PROVE  d.how = c.how /\ d.strike = c.strike /\ Held(rungs, report, d)
<1>1. /\ DOMAIN d = DOMAIN c /\ d.how = c.how /\ d.strike = c.strike
      /\ d.on = c.on /\ d.exp = c.exp
  BY DEF Held
<1>2. Held(rungs, report, d)
  BY <1>1 DEF Held
<1> QED
  BY <1>1, <1>2

\* The rungs of a plan in time are whole numbers.
LEMMA RungsAre ==
  ASSUME LadderInv, phase \notin {"form", "error"}, planned.iv # None
  PROVE  /\ plan.rungs \in Seq(Int) /\ plan.rungs[1] \in Range(plan.rungs)
         /\ HasCall(plan) => plan.rungs[1] = plan.strike
<1>1. PlansRungs(plan, market, planned) /\ planned.rungs = plan.rungs
  BY DEF LadderInv, Planned
<1>2. PICK low, high \in Int : /\ Ladder(plan.rungs, low, high)
                               /\ HasCall(plan) => low = plan.strike
  BY <1>1 DEF PlansRungs
<1>3. /\ plan.rungs \in Seq(Int) /\ Len(plan.rungs) >= 1 /\ Len(plan.rungs) \in Nat
      /\ plan.rungs[1] = low
  BY <1>2 DEF Ladder
<1>4. 1 \in DOMAIN plan.rungs
  BY <1>3
<1> QED
  BY <1>2, <1>3, <1>4 DEF Range

\* What the chain and the fields give.
LEMMA AskedIs ==
  ASSUME NEW f \in Form, IsPlan(f), NEW m \in Pull \ {None}
  PROVE  LET p == PlanFromForm(f)
             k == LadderMarket(m)
         IN /\ IsChain(k.calls) /\ {k.spot, k.report} \subseteq Int \cup {None}
            /\ p.cost \in Int /\ (HasCall(p) => p.strike \in Nat /\ p.exp \in Int)
<1>1. /\ DOMAIN m = {"spot", "calls", "report", "dividends"}
      /\ m.spot \in Int \cup {None} /\ m.report \in Int \cup {None}
      /\ IsChain(m.calls)
  BY PullAssumption DEF IsChain
<1>2. LadderMarket(m).calls = m.calls /\ LadderMarket(m).spot = m.spot
  BY <1>1 DEF LadderMarket
<1>3. LadderMarket(m).report \in {m.report, None}
  BY <1>1 DEF LadderMarket
<1>4. /\ PlanFromForm(f).cost = f.cost /\ PlanFromForm(f).strike = f.strike
      /\ PlanFromForm(f).exp = f.exp
  BY DEF PlanFromForm
<1>5. f.cost \in Int /\ f.strike \in Int \cup {None} /\ f.exp \in Int \cup {None}
  BY FormAssumption DEF IsPlan
<1>6. f.strike # None => f.strike > 0
  BY DEF IsPlan
<1> QED
  BY <1>1, <1>2, <1>3, <1>4, <1>5, <1>6 DEF HasCall

LEMMA RefuseKeeps ==
  ASSUME LadderInv, Refuse
  PROVE  LadderInv'
<1>1. phase = "form" /\ phase' = "error"
      /\ UNCHANGED <<plan, planned, market, view, lived, cur, start, reached>>
  BY DEF Refuse
<1>2. Planned' /\ InHand'
  BY <1>1 DEF Planned, InHand
<1>3. Shown'
  BY <1>1 DEF LadderInv, Shown
<1>4. Walked'
  BY <1>1 DEF LadderInv, Walked, Climbing
<1> QED
  BY <1>2, <1>3, <1>4 DEF LadderInv

LEMMA PlanLadderKeeps ==
  ASSUME LadderInv, PlanLadder
  PROVE  LadderInv'
<1>1. PICK f \in Form, m \in Pull \ {None} :
        /\ IsPlan(f)
        /\ PlanRungs(PlanFromForm(f), LadderMarket(m)) # None
        /\ planned' = PlanRungs(PlanFromForm(f), LadderMarket(m))
        /\ plan' = [PlanFromForm(f) EXCEPT !.rungs = planned'.rungs]
        /\ market' = LadderMarket(m)
  BY DEF PlanLadder
<1>2. phase = "form" /\ phase' = "page" /\ UNCHANGED <<view, lived, cur, start, reached>>
  BY DEF PlanLadder
<1> DEFINE p == PlanFromForm(f)
<1>3. /\ IsChain(market'.calls) /\ {market'.spot, market'.report} \subseteq Int \cup {None}
      /\ p.cost \in Int /\ (HasCall(p) => p.strike \in Nat /\ p.exp \in Int)
  BY <1>1, AskedIs
<1>4. /\ plan'.cost = p.cost /\ plan'.strike = p.strike /\ plan'.exp = p.exp
      /\ plan'.rungs = planned'.rungs
  BY <1>1 DEF PlanFromForm
<1> HIDE DEF p
<1>5. HasCall(plan') = HasCall(p)
  BY <1>4 DEF HasCall
<1>6. planned'.iv # None => PlansRungs(p, market', planned')
  BY <1>1, <1>3, PlanRungsAre DEF p
<1>7. planned'.iv # None => PlansRungs(plan', market', planned')
  BY <1>4, <1>5, <1>6 DEF PlansRungs
<1>8. planned'.iv = Volatility(market', IF HasCall(p)
                                        THEN QuoteOf(market'.calls, p.strike, p.exp) ELSE None)
  <2>1. planned' = PlanRungs(p, market') /\ PlanRungs(p, market') # None
    BY <1>1 DEF p
  <2> QED
    BY <2>1 DEF PlanRungs
<1>9. Planned'
  BY <1>3, <1>4, <1>5, <1>7, <1>8 DEF Planned
<1>10. Shown' /\ InHand'
  BY <1>2 DEF LadderInv, Shown, InHand
<1>11. Walked'
  <2>1. lived' = <<>> /\ start' = 0 /\ reached' = 0
    BY <1>2 DEF LadderInv, Shown
  <2> QED
    BY <2>1 DEF Walked, Climbing
<1> QED
  BY <1>9, <1>10, <1>11 DEF LadderInv

LEMMA ShowPageKeeps ==
  ASSUME LadderInv, ShowPage
  PROVE  LadderInv'
<1>1. /\ phase = "page"
      /\ phase' = IF market.spot = None \/ planned.iv = None THEN "told" ELSE "plan"
      /\ view' = Build(plan, market)
      /\ cur' = IF HasCall(plan) /\ plan.exp >= 0
                THEN Live("open", plan.strike, 0, plan.exp, 0, plan.sold) ELSE None
      /\ UNCHANGED <<plan, planned, market, lived, start, reached>>
  BY DEF ShowPage
<1>2. lived = <<>> /\ reached = 0
  BY <1>1 DEF LadderInv, Shown
<1>3. Planned'
  BY <1>1 DEF LadderInv, Planned
<1>4. Shown'
  BY <1>1 DEF Shown
<1>5. Walked'
  BY <1>1, <1>2 DEF LadderInv, Walked, Climbing
<1>6. InHand'
  <2> SUFFICES ASSUME phase' = "plan"
               PROVE  /\ planned.iv # None
                      /\ cur' # None =>
                           /\ Held(plan.rungs, market.report, cur')
                           /\ cur'.strike >= 0
                           /\ cur'.how # "roll"
    BY <1>1, <1>2 DEF InHand
  <2>1. planned.iv # None
    BY <1>1
  <2>2. ASSUME cur' # None
        PROVE  Held(plan.rungs, market.report, cur') /\ cur'.strike >= 0 /\ cur'.how = "open"
    <3>1. HasCall(plan) /\ cur' = Live("open", plan.strike, 0, plan.exp, 0, plan.sold)
      BY <1>1, <2>2
    <3>2. plan.strike \in Nat /\ plan.exp \in Int /\ plan.strike \in Range(plan.rungs)
      BY <1>1, <2>1, <3>1, RungsAre DEF LadderInv, Planned
    <3>3. plan.strike \in Int /\ 0 \in Int /\ plan.strike >= 0
      BY <3>2
    <3> DEFINE c == Live("open", plan.strike, 0, plan.exp, 0, plan.sold)
    <3>4. c.how = "open" /\ c.strike = plan.strike /\ Held(plan.rungs, market.report, c)
      BY <3>2, <3>3 DEF Live, Held
    <3> HIDE DEF c
    <3> QED
      BY <3>1, <3>3, <3>4 DEF c
  <2> QED
    BY <2>1, <2>2
<1> QED
  BY <1>3, <1>4, <1>5, <1>6 DEF LadderInv

\* A step of the plan that lives no call and leaves the one in hand.
LEMMA WaitKeeps ==
  ASSUME LadderInv, phase = "plan", phase' \in {"plan", "told"},
         UNCHANGED <<plan, planned, market, view, lived, reached>>,
         start' \in Int, cur' = cur
  PROVE  LadderInv'
<1>1. Planned'
  BY DEF LadderInv, Planned
<1>2. Shown'
  BY DEF LadderInv, Shown
<1>3. Walked'
  BY DEF LadderInv, Walked
<1>4. InHand'
  BY DEF LadderInv, InHand
<1> QED
  BY <1>1, <1>2, <1>3, <1>4 DEF LadderInv

LEMMA SellKeeps ==
  ASSUME LadderInv, Sell
  PROVE  LadderInv'
<1>1. /\ phase = "plan" /\ NextStrike # None /\ SaleExpiry # None
      /\ cur' = [Live("sell", NextStrike, start, SaleExpiry, Premium, Premium) EXCEPT
                   !.reports = waited, !.skipped = skipped]
      /\ UNCHANGED <<phase, plan, planned, market, view, lived, start, reached>>
  BY DEF Sell, Ready, Selling
<1>2. /\ plan.rungs \in Seq(Int) /\ start \in Int /\ reached \in Int /\ planned.iv # None
      /\ IsChain(market.calls) /\ market.report \in Int \cup {None}
  BY <1>1, RungsAre DEF LadderInv, Planned, Walked, InHand
<1>3. NextStrike \in Range(plan.rungs) /\ NextStrike >= reached
  BY <1>1, <1>2, NextRungIs DEF NextStrike
<1>4. NextStrike \in Int
  BY <1>2, <1>3 DEF Range
<1>5. SaleExpiry \in Expiries /\ Allowed(SaleExpiry, start, NextReport(start))
  BY <1>1, <1>2, ExpiriesAre, OpenExpiryIs DEF SaleExpiry
<1>6. SaleExpiry \in Int /\ NoReportIn(market.report, start, SaleExpiry)
  BY <1>2, <1>5, ExpiriesAre, BeforeTheNext DEF Allowed
<1> HIDE DEF NextStrike, SaleExpiry, Premium
<1>7. /\ Held(plan.rungs, market.report, cur') /\ cur'.strike = NextStrike /\ cur'.how = "sell"
  BY <1>1, <1>2, <1>3, <1>4, <1>6 DEF Live, Held
<1>8. Planned'
  BY <1>1 DEF LadderInv, Planned
<1>9. Shown'
  BY <1>1 DEF LadderInv, Shown
<1>10. Walked'
  BY <1>1 DEF LadderInv, Walked
<1>11. InHand'
  BY <1>1, <1>3, <1>7 DEF LadderInv, InHand
<1> QED
  BY <1>8, <1>9, <1>10, <1>11 DEF LadderInv

LEMMA LiveCallKeeps ==
  ASSUME LadderInv, LiveCall
  PROVE  LadderInv'
<1> DEFINE roll == RollTarget(cur)
           day == EventDay(cur, roll)
           Note(c) == lived' = Append(lived, c) /\ Raise(c)
           Sum == Ended(cur, roll, day, "profit").amount - Value(day, cur.strike, cur.exp)
<1>1. phase = "plan" /\ cur # None /\ UNCHANGED <<plan, planned, market, view>>
  BY DEF LiveCall
<1>2. \/ /\ day # None /\ RollsOn(cur, roll, day)
         /\ Note(Ended(cur, roll, day, "rolled"))
         /\ cur' = Live("roll", roll.to, day, roll.exp, Credit(cur, roll, day),
                        Value(day, roll.to, roll.exp))
         /\ UNCHANGED <<phase, start>>
      \/ /\ day # None
         /\ Note([Ended(cur, roll, day, "profit") EXCEPT !.amount = Sum])
         /\ start' = day /\ cur' = None /\ UNCHANGED phase
      \/ /\ Note([Ended(cur, roll, day, "open") EXCEPT !.ended = None])
         /\ phase' = "told" /\ cur' = None /\ UNCHANGED start
      \/ /\ Note(Ended(cur, roll, day, "called"))
         /\ phase' = "told" /\ cur' = None /\ UNCHANGED start
      \/ /\ Note(Ended(cur, roll, day, "expired"))
         /\ start' = cur.exp /\ cur' = None /\ UNCHANGED phase
  BY DEF LiveCall
<1>3. /\ plan.rungs \in Seq(Int) /\ start \in Int /\ planned.iv # None
      /\ IsChain(market.calls) /\ market.report \in Int \cup {None}
      /\ Held(plan.rungs, market.report, cur)
      /\ cur.strike \in Int /\ cur.on \in Int /\ cur.exp \in Int
  BY <1>1, RungsAre DEF LadderInv, Planned, Walked, InHand, Held
<1>4. ASSUME NEW c, c.how = cur.how, c.strike = cur.strike,
             Held(plan.rungs, market.report, c), Note(c)
      PROVE  /\ reached' \in Int /\ reached' = cur.strike
             /\ \E S : lived' \in Seq(S)
             /\ \A i \in DOMAIN lived' : Held(plan.rungs, market.report, lived'[i])
             /\ Climbing(plan.rungs, lived')
             /\ lived' # <<>> /\ Last(lived').strike = reached'
  BY <1>1, <1>4, LivedOn DEF Raise
<1> DEFINE Went == /\ reached' \in Int /\ reached' = cur.strike
                   /\ \E S : lived' \in Seq(S)
                   /\ \A i \in DOMAIN lived' : Held(plan.rungs, market.report, lived'[i])
                   /\ Climbing(plan.rungs, lived')
                   /\ lived' # <<>> /\ Last(lived').strike = reached'
<1>5. \A outcome : LET e == Ended(cur, roll, day, outcome)
                   IN e.how = cur.how /\ e.strike = cur.strike /\ Held(plan.rungs, market.report, e)
  BY <1>3, EndedIs
<1>6. ASSUME Went, start' \in Int, phase' \in {"plan", "told"}, 
             \/ cur' = None
             \/ /\ Held(plan.rungs, market.report, cur') /\ cur'.strike >= cur.strike
                /\ NoneBetween(plan.rungs, cur.strike, cur'.strike)
      PROVE  LadderInv'
  <2>1. Planned'
    BY <1>1, <1>6 DEF LadderInv, Planned
  <2>2. Shown'
    BY <1>1, <1>6 DEF LadderInv, Shown
  <2>3. Walked'
    BY <1>1, <1>6 DEF LadderInv, Walked
  <2>4. InHand'
    BY <1>1, <1>3, <1>6 DEF InHand
  <2> QED
    BY <2>1, <2>2, <2>3, <2>4 DEF LadderInv
<1>7. day # None => day \in Int /\ cur.on <= day
  BY <1>3, EventDayIs
<1> HIDE DEF day, Sum
<1>8. CASE /\ day # None /\ RollsOn(cur, roll, day)
           /\ Note(Ended(cur, roll, day, "rolled"))
           /\ cur' = Live("roll", roll.to, day, roll.exp, Credit(cur, roll, day),
                          Value(day, roll.to, roll.exp))
           /\ UNCHANGED <<phase, start>>
  <2>1. Went
    BY <1>4, <1>5, <1>8
  <2>2. roll.exp # None
    BY <1>8 DEF RollsOn
  <2>3. /\ roll.exp \in Int /\ roll.to \in Int /\ NoReportIn(market.report, cur.on, roll.exp)
        /\ roll.to \in Range(plan.rungs) /\ roll.to > cur.strike
        /\ NoneBetween(plan.rungs, cur.strike, roll.to)
    BY <1>3, <2>2, RollTargetIs
  <2>4. NoReportIn(market.report, day, roll.exp)
    BY <1>3, <1>7, <1>8, <2>3, NoReportLater
  <2> HIDE DEF roll, Went
  <2> DEFINE credit == Credit(cur, roll, day)
             worth == Value(day, roll.to, roll.exp)
             c == Live("roll", roll.to, day, roll.exp, credit, worth)
  <2>5. c.strike = roll.to /\ Held(plan.rungs, market.report, c)
    <3> HIDE DEF credit, worth
    <3> QED
      BY <1>7, <1>8, <2>3, <2>4 DEF Live, Held
  <2>6. cur' = c
    BY <1>8
  <2> HIDE DEF c
  <2>7. /\ Held(plan.rungs, market.report, cur') /\ cur'.strike >= cur.strike
        /\ NoneBetween(plan.rungs, cur.strike, cur'.strike)
    BY <1>3, <2>3, <2>5, <2>6
  <2> QED
    BY <1>1, <1>3, <1>6, <1>8, <2>1, <2>7
<1>9. CASE /\ day # None
           /\ Note([Ended(cur, roll, day, "profit") EXCEPT !.amount = Sum])
           /\ start' = day /\ cur' = None /\ UNCHANGED phase
  <2> DEFINE e == Ended(cur, roll, day, "profit")
  <2>1. e.how = cur.how /\ e.strike = cur.strike /\ Held(plan.rungs, market.report, e)
    BY <1>5
  <2> HIDE DEF e
  <2> DEFINE c == [e EXCEPT !.amount = Sum]
  <2>2. c = [e EXCEPT !.amount = Sum] /\ Note(c)
    BY <1>9 DEF e
  <2> HIDE DEF c
  <2>3. Went
    <3>1. c.how = e.how /\ c.strike = e.strike /\ Held(plan.rungs, market.report, c)
      BY <2>1, <2>2, SetAgain
    <3> QED
      BY <1>4, <2>1, <2>2, <3>1
  <2> QED
    BY <1>1, <1>6, <1>7, <1>9, <2>3
<1>10. CASE /\ Note([Ended(cur, roll, day, "open") EXCEPT !.ended = None])
            /\ phase' = "told" /\ cur' = None /\ UNCHANGED start
  <2> DEFINE e == Ended(cur, roll, day, "open")
  <2>1. e.how = cur.how /\ e.strike = cur.strike /\ Held(plan.rungs, market.report, e)
    BY <1>5
  <2> HIDE DEF e
  <2> DEFINE c == [e EXCEPT !.ended = None]
  <2>2. c = [e EXCEPT !.ended = None] /\ Note(c)
    BY <1>10 DEF e
  <2> HIDE DEF c
  <2>3. Went
    <3>1. c.how = e.how /\ c.strike = e.strike /\ Held(plan.rungs, market.report, c)
      <4>1. c = [e EXCEPT !.amount = None] \/ c = [e EXCEPT !.ended = None]
        BY <2>2
      <4> QED
        BY <2>1, <4>1, SetAgain
    <3> QED
      BY <1>4, <2>1, <2>2, <3>1
  <2> QED
    BY <1>3, <1>6, <1>10, <2>3
<1>11. CASE /\ Note(Ended(cur, roll, day, "called"))
            /\ phase' = "told" /\ cur' = None /\ UNCHANGED start
  <2>1. Went
    BY <1>4, <1>5, <1>11
  <2> QED
    BY <1>3, <1>6, <1>11, <2>1
<1>12. CASE /\ Note(Ended(cur, roll, day, "expired"))
            /\ start' = cur.exp /\ cur' = None /\ UNCHANGED phase
  <2>1. Went
    BY <1>4, <1>5, <1>12
  <2> QED
    BY <1>1, <1>3, <1>6, <1>12, <2>1
<1> QED
  BY <1>2, <1>8, <1>9, <1>10, <1>11, <1>12 DEF day, Sum

\* Every step keeps the invariant.
LEMMA LadderInvariant == LadderSpec => []LadderInv
<1>1. LadderInit => LadderInv
  <2> SUFFICES ASSUME LadderInit PROVE LadderInv
    OBVIOUS
  <2>1. Planned /\ Shown /\ InHand
    BY DEF LadderInit, Planned, Shown, InHand
  <2>2. Walked
    <3>1. lived = <<>> /\ start = 0 /\ reached = 0
      BY DEF LadderInit
    <3>2. lived \in Seq({0}) /\ DOMAIN lived = {}
      BY <3>1
    <3>3. \E S : lived \in Seq(S)
      BY <3>2
    <3> QED
      BY <3>1, <3>2, <3>3 DEF Walked, Climbing
  <2> QED
    BY <2>1, <2>2 DEF LadderInv
<1>2. LadderInv /\ [LadderNext]_ladderVars => LadderInv'
  <2> SUFFICES ASSUME LadderInv, [LadderNext]_ladderVars PROVE LadderInv'
    OBVIOUS
  <2>1. CASE Refuse
    BY <2>1, RefuseKeeps
  <2>2. CASE PlanLadder
    BY <2>2, PlanLadderKeeps
  <2>3. CASE ShowPage
    BY <2>3, ShowPageKeeps
  <2>4. CASE StopSelling \/ Full
    <3>1. phase = "plan" /\ phase' = "told"
          /\ UNCHANGED <<plan, planned, market, view, lived, reached, start, cur>>
      BY <2>4 DEF StopSelling, Full, Selling, Told
    <3>2. start' \in Int
      BY <3>1 DEF LadderInv, Walked
    <3> QED
      BY <3>1, <3>2, WaitKeeps
  <2>5. CASE WaitOutReport
    <3>1. /\ phase = "plan" /\ phase' = "plan" /\ start' = NextReport(start) + 1
          /\ NextReport(start) # None
          /\ UNCHANGED <<plan, planned, market, view, lived, reached, cur>>
      BY <2>5 DEF WaitOutReport, Ready, Selling
    <3>2. start \in Int /\ market.report \in Int \cup {None}
      BY <3>1 DEF LadderInv, Walked, Planned
    <3>3. start' \in Int
      BY <3>1, <3>2, NextReportIs
    <3> QED
      BY <3>1, <3>3, WaitKeeps
  <2>6. CASE SkipWeek
    <3>1. /\ phase = "plan" /\ phase' = "plan" /\ start' = start + 7
          /\ UNCHANGED <<plan, planned, market, view, lived, reached, cur>>
      BY <2>6 DEF SkipWeek, Ready, Selling
    <3>2. start' \in Int
      BY <3>1 DEF LadderInv, Walked
    <3> QED
      BY <3>1, <3>2, WaitKeeps
  <2>7. CASE Sell
    BY <2>7, SellKeeps
  <2>8. CASE LiveCall
    BY <2>8, LiveCallKeeps
  <2>9. CASE UNCHANGED ladderVars
    BY <2>9 DEF ladderVars, LadderInv, Planned, Shown, Walked, InHand, Climbing
  <2> QED
    BY <2>1, <2>2, <2>3, <2>4, <2>5, <2>6, <2>7, <2>8, <2>9 DEF LadderNext
<1> QED
  BY <1>1, <1>2, PTL DEF LadderSpec

\* No call of the plan or of the page is held over an earnings report.
THEOREM ReportsCorrect == LadderSpec => []NoCallSpansAReport
<1>1. LadderInv => NoCallSpansAReport
  <2> SUFFICES ASSUME LadderInv PROVE NoCallSpansAReport
    OBVIOUS
  <2>1. ASSUME NEW i \in DOMAIN lived, lived[i].how # "open",
               NEW r \in Reports(market.report)
        PROVE  ~(lived[i].on < r /\ r <= lived[i].exp)
    BY <2>1 DEF LadderInv, Walked, Held, NoReportIn
  <2>2. ASSUME view # None, market.report # None
        PROVE  \A call \in {view.roll, view.newCall, view.nextCall} \ {None} :
                 call.exp # None => view.wall # None /\ call.exp <= view.wall
    <3>1. view = Build(plan, market) /\ phase \notin {"form", "error"}
      BY <2>2 DEF LadderInv, Shown
    <3>2. IsChain(market.calls) /\ market.report \in Int /\ (HasCall(plan) => plan.exp \in Int)
      BY <2>2, <3>1 DEF LadderInv, Planned
    <3> QED
      BY <3>1, <3>2, BuildCalls
  <2> QED
    BY <2>1, <2>2 DEF NoCallSpansAReport
<1> QED
  BY <1>1, LadderInvariant, PTL

\* The ladder only climbs, a roll to the very next rung.
THEOREM ClimbsCorrect == LadderSpec => []ClimbsOnly
<1>1. LadderInv => ClimbsOnly
  <2> SUFFICES ASSUME LadderInv, NEW i \in DOMAIN lived
               PROVE  /\ lived[i].strike \in Range(plan.rungs)
                      /\ i > 1 =>
                           /\ lived[i].strike >= lived[i - 1].strike
                           /\ lived[i].how = "roll" =>
                                ~\E r \in Range(plan.rungs) : lived[i - 1].strike < r /\ r < lived[i].strike
    BY DEF ClimbsOnly
  <2>1. lived[i].strike \in Range(plan.rungs)
    BY DEF LadderInv, Walked, Held
  <2> QED
    BY <2>1 DEF LadderInv, Walked, Climbing, NoneBetween
<1> QED
  BY <1>1, LadderInvariant, PTL

\* The rungs planned climb to the cost, out of the money, and pay.
THEOREM RungsCorrect == LadderSpec => []PlannedRungs
<1>1. LadderInv => PlannedRungs
  <2> SUFFICES ASSUME LadderInv, view # None, planned.iv # None
               PROVE  LET rungs == plan.rungs
                      IN /\ Last(rungs) >= plan.cost
                         /\ Len(rungs) <= MaxRungs
                         /\ \A i \in 1..(Len(rungs) - 1) :
                              rungs[i] < rungs[i + 1] /\ (planned.tight \/ view.rungs[i].pays)
                         /\ (~HasCall(plan) /\ \E c \in Range(market.calls) :
                                                 c.exp >= OpenMin /\ c.strike > market.spot)
                              => rungs[1] > market.spot
    BY DEF PlannedRungs
  <2>1. view = Build(plan, market) /\ phase \notin {"form", "error"}
    BY DEF LadderInv, Shown
  <2> DEFINE iv == Volatility(market, IF HasCall(plan)
                                      THEN QuoteOf(market.calls, plan.strike, plan.exp) ELSE None)
             rungs == plan.rungs
  <2>2. PlansRungs(plan, market, planned) /\ planned.rungs = rungs /\ planned.iv = iv
    BY <2>1 DEF LadderInv, Planned
  <2>3. PICK low, high \in Int :
          /\ Ladder(rungs, low, high)
          /\ high >= plan.cost
          /\ (~HasCall(plan) /\ \E i \in DOMAIN market.calls : /\ market.calls[i].exp >= OpenMin
                                                               /\ market.calls[i].strike > market.spot)
               => low > market.spot
    BY <2>2 DEF PlansRungs
  <2>4. view.rungs = [i \in DOMAIN rungs |-> RungRow(plan, iv, i)]
    BY <2>1 DEF Build
  <2> HIDE DEF iv, rungs
  <2>5. ASSUME NEW i \in 1..(Len(rungs) - 1), ~planned.tight
        PROVE  view.rungs[i].pays
    <3>1. rungs \in Seq(Int) /\ Len(rungs) \in Nat
      BY <2>3 DEF Ladder
    <3>2. i \in DOMAIN rungs /\ i # Len(rungs) /\ i + 1 \in 1..Len(rungs)
      BY <3>1
    <3>3. rungs[i + 1] # None
      BY <3>1, <3>2, NoneAssumption
    <3>4. Pays(rungs[i], rungs[i + 1], iv)
      BY <2>2, <2>5 DEF PlansRungs, AllPay
    <3>5. RungRow(plan, iv, i).pays = Pays(rungs[i], rungs[i + 1], iv)
      BY <2>2, <3>2, <3>3 DEF RungRow, rungs
    <3> QED
      BY <2>4, <3>2, <3>4, <3>5
  <2>6. Len(rungs) <= MaxRungs
    BY <2>2 DEF PlansRungs
  <2>7. (\E c \in Range(market.calls) : c.exp >= OpenMin /\ c.strike > market.spot)
          => \E i \in DOMAIN market.calls : /\ market.calls[i].exp >= OpenMin
                                            /\ market.calls[i].strike > market.spot
    BY DEF Range
  <2> QED
    BY <2>3, <2>5, <2>6, <2>7 DEF Ladder, rungs
<1> QED
  BY <1>1, LadderInvariant, PTL

-----------------------------------------------------------------------------
(* Sums *)

\* Whole numbers in a row.
WholeSeq(s) == Len(s) \in Nat /\ DOMAIN s = 1..Len(s) /\ \A i \in DOMAIN s : s[i] \in Int

\* A sum starts at nothing and goes on by each.
LEMMA SumsAre ==
  ASSUME NEW s, WholeSeq(s)
  PROVE  /\ SumTo(s, 0) = 0
         /\ \A n \in Nat : SumTo(s, n) \in Int
         /\ \A n \in DOMAIN s : SumTo(s, n) = SumTo(s, n - 1) + s[n]
<1> DEFINE next(n, x) == IF n + 1 \in DOMAIN s THEN x + s[n + 1] ELSE 0
           step == [n \in Nat |-> [x \in Int |-> next(n, x)]]
           Turn(g, i) == IF i \in DOMAIN s THEN g[i - 1] + s[i] ELSE 0
<1>1. DOMAIN s \subseteq Nat /\ 0 \notin DOMAIN s /\ \A i \in DOMAIN s : s[i] \in Int
  BY DEF WholeSeq
<1>2. \A n \in Nat, x \in Int : next(n, x) \in Int
  BY <1>1
<1> HIDE DEF next
<1>3. step \in [Nat -> [Int -> Int]] /\ \A n \in Nat, x \in Int : step[n][x] = next(n, x)
  BY <1>2
<1> HIDE DEF step
<1>4. PICK f : Recurs(Int, 0, step, f)
  <2>1. Stepping(Int, 0, step)
    BY <1>3 DEF Stepping
  <2> QED
    BY <2>1, Recursion
<1>5. /\ f \in [Nat -> Int] /\ f[0] = 0
      /\ \A n \in Nat : f[n] \in Int /\ f[n + 1] = next(n, f[n])
  BY <1>3, <1>4 DEF Recurs
<1>6. f = [i \in Nat |-> Turn(f, i)]
  <2>1. ASSUME NEW i \in Nat
        PROVE  f[i] = Turn(f, i)
    <3>1. CASE i = 0
      BY <1>1, <1>5, <3>1
    <3>2. CASE i # 0
      <4>1. i - 1 \in Nat /\ (i - 1) + 1 = i
        BY <3>2
      <4>2. f[(i - 1) + 1] = next(i - 1, f[i - 1])
        BY <1>5, <4>1
      <4> QED
        BY <4>1, <4>2 DEF next
    <3> QED
      BY <3>1, <3>2
  <2> HIDE DEF Turn
  <2> QED
    BY <1>5, <2>1
<1> DEFINE g == CHOOSE to : to = [i \in Nat |-> IF i \in DOMAIN s THEN to[i - 1] + s[i] ELSE 0]
<1>7. g = [i \in Nat |-> Turn(g, i)]
  BY <1>6, Zenon
<1>8. \A n : SumTo(s, n) = g[n]
  BY DEF SumTo
<1> HIDE DEF g
<1>9. g[0] = 0 /\ \A n \in Nat : g[n] = Turn(g, n)
  <2>1. \A n \in Nat : g[n] = Turn(g, n)
    <3> HIDE DEF Turn
    <3> QED
      BY <1>7
  <2>2. Turn(g, 0) = 0
    BY <1>1
  <2> QED
    BY <2>1, <2>2
<1> DEFINE bad == {n \in Nat : g[n] \notin Int}
<1>10. bad = {}
  <2> SUFFICES ASSUME bad # {} PROVE FALSE
    OBVIOUS
  <2>1. PICK n \in bad : \A m \in bad : n <= m
    BY Least
  <2>2. n # 0
    BY <1>9, <2>1
  <2>3. n - 1 \in Nat /\ n - 1 \notin bad
    BY <2>1, <2>2
  <2>4. g[n - 1] \in Int /\ g[n] = Turn(g, n)
    BY <1>9, <2>1, <2>3
  <2>5. g[n] \in Int
    BY <1>1, <2>4
  <2> QED
    BY <2>1, <2>5
<1>11. \A n \in DOMAIN s : g[n] = g[n - 1] + s[n]
  BY <1>1, <1>9
<1> HIDE DEF Turn
<1> QED
  BY <1>8, <1>9, <1>10, <1>11

\* Numbers that agree as far as n have the same sum as far.
LEMMA SumsAgree ==
  ASSUME NEW s, WholeSeq(s), NEW t, WholeSeq(t), NEW n \in Nat, n <= Len(s), n <= Len(t),
         \A i \in 1..n : s[i] = t[i]
  PROVE  SumTo(s, n) = SumTo(t, n)
<1> DEFINE bad == {i \in Nat : i <= n /\ SumTo(s, i) # SumTo(t, i)}
<1> SUFFICES ASSUME bad # {} PROVE FALSE
  OBVIOUS
<1>1. PICK i \in bad : \A j \in bad : i <= j
  BY Least
<1>2. i # 0
  BY <1>1, SumsAre
<1>3. i - 1 \in Nat /\ i - 1 \notin bad /\ i \in 1..n
  BY <1>1, <1>2
<1>4. SumTo(s, i - 1) = SumTo(t, i - 1)
  BY <1>3
<1>5. i \in DOMAIN s /\ i \in DOMAIN t
  BY <1>3 DEF WholeSeq
<1>6. SumTo(s, i) = SumTo(s, i - 1) + s[i] /\ SumTo(t, i) = SumTo(t, i - 1) + t[i]
  BY <1>5, SumsAre
<1> QED
  BY <1>1, <1>3, <1>4, <1>6

\* One number more.
LEMMA OneMoreSum ==
  ASSUME NEW s, WholeSeq(s), NEW t, WholeSeq(t), Len(t) = Len(s) + 1,
         \A i \in DOMAIN s : t[i] = s[i]
  PROVE  Summed(s) \in Int /\ Summed(t) = Summed(s) + t[Len(t)]
<1>1. Len(s) \in Nat /\ Len(t) \in DOMAIN t /\ Len(t) - 1 = Len(s) /\ DOMAIN s = 1..Len(s)
  BY DEF WholeSeq
<1>2. SumTo(t, Len(t)) = SumTo(t, Len(s)) + t[Len(t)]
  BY <1>1, SumsAre
<1>3. SumTo(t, Len(s)) = SumTo(s, Len(s))
  BY <1>1, SumsAgree
<1>4. SumTo(s, Len(s)) \in Int
  BY <1>1, SumsAre
<1> QED
  BY <1>2, <1>3, <1>4 DEF Summed

\* The last number in place of another.
LEMMA LastSum ==
  ASSUME NEW s, WholeSeq(s), NEW t, WholeSeq(t), Len(t) = Len(s), Len(s) # 0,
         \A i \in DOMAIN s : i # Len(s) => t[i] = s[i]
  PROVE  Summed(s) \in Int /\ Summed(t) = Summed(s) + (t[Len(s)] - s[Len(s)])
<1> DEFINE n == Len(s)
<1>1. n \in Nat /\ n - 1 \in Nat /\ DOMAIN s = 1..n /\ DOMAIN t = 1..n /\ n \in DOMAIN s
  BY DEF WholeSeq
<1>2. SumTo(s, n) = SumTo(s, n - 1) + s[n] /\ SumTo(t, n) = SumTo(t, n - 1) + t[n]
  BY <1>1, SumsAre
<1>3. SumTo(t, n - 1) = SumTo(s, n - 1)
  <2>1. \A i \in 1..(n - 1) : s[i] = t[i]
    BY <1>1
  <2>2. n - 1 <= Len(s) /\ n - 1 <= Len(t)
    BY <1>1
  <2> QED
    BY <1>1, <2>1, <2>2, SumsAgree
<1>4. SumTo(s, n - 1) \in Int /\ SumTo(s, n) \in Int /\ s[n] \in Int /\ t[n] \in Int
  BY <1>1, SumsAre DEF WholeSeq
<1> HIDE DEF n
<1>5. SumTo(t, n) = SumTo(s, n) + (t[n] - s[n])
  BY <1>2, <1>3, <1>4
<1> QED
  BY <1>4, <1>5 DEF Summed, n

-----------------------------------------------------------------------------
(* The lines of the plan *)

(* The lines of the plan *)

\* The calls told one by one, of which the first n.
Turned(rows, i) == IF i \in DOMAIN lived THEN Tell(rows, i) ELSE <<>>
Tellings(n, g) ==
  /\ g = [i \in 0..n |-> g[i]] /\ g[0] = <<>>
  /\ \A i \in 0..(n - 1) : g[i + 1] = Turned(g[i], i + 1)

\* They can be told.
LEMMA TellingsExist == \A n \in Nat : \E g : Tellings(n, g)
<1> DEFINE bad == {n \in Nat : ~\E g : Tellings(n, g)}
<1>1. \E g : Tellings(0, g)
  <2> DEFINE g == [i \in 0..0 |-> <<>>]
  <2>1. g = [i \in 0..0 |-> g[i]] /\ g[0] = <<>> /\ \A i \in 0..(0 - 1) : FALSE
    OBVIOUS
  <2> QED
    BY <2>1 DEF Tellings
<1>2. ASSUME NEW n \in Nat, NEW g, Tellings(n, g)
      PROVE  \E h : Tellings(n + 1, h)
  <2> DEFINE h == [i \in 0..(n + 1) |-> IF i = n + 1 THEN Turned(g[n], n + 1) ELSE g[i]]
  <2>1. g[0] = <<>> /\ \A i \in 0..(n - 1) : g[i + 1] = Turned(g[i], i + 1)
    BY <1>2 DEF Tellings
  <2>2. h[n + 1] = Turned(g[n], n + 1) /\ \A i \in 0..n : h[i] = g[i]
    OBVIOUS
  <2>3. h = [i \in 0..(n + 1) |-> h[i]]
    OBVIOUS
  <2> HIDE DEF h
  <2>4. \A i \in 0..((n + 1) - 1) : h[i + 1] = Turned(h[i], i + 1)
    <3> TAKE i \in 0..((n + 1) - 1)
    <3>1. h[i] = g[i]
      BY <2>2
    <3>2. CASE i = n
      BY <2>2, <3>1, <3>2
    <3>3. CASE i # n
      <4>1. i \in 0..(n - 1) /\ i + 1 \in 0..n
        BY <3>3
      <4> QED
        BY <2>1, <2>2, <3>1, <4>1
    <3> QED
      BY <3>2, <3>3
  <2>5. h[0] = <<>>
    BY <2>1, <2>2
  <2> QED
    BY <2>3, <2>4, <2>5 DEF Tellings
<1> SUFFICES ASSUME bad # {} PROVE FALSE
  OBVIOUS
<1>3. PICK n \in bad : \A m \in bad : n <= m
  BY Least
<1>4. n # 0
  BY <1>1, <1>3
<1>5. n - 1 \in Nat /\ (n - 1) + 1 = n /\ n - 1 \notin bad
  BY <1>3, <1>4
<1>6. \E g : Tellings(n - 1, g)
  BY <1>5
<1> QED
  BY <1>2, <1>3, <1>5, <1>6

\* In one way.
LEMMA TellingsAgree ==
  ASSUME NEW n \in Nat, NEW m \in Nat, n <= m, NEW g, Tellings(n, g), NEW h, Tellings(m, h)
  PROVE  \A i \in 0..n : g[i] = h[i]
<1> DEFINE bad == {i \in Nat : i <= n /\ g[i] # h[i]}
<1> SUFFICES ASSUME bad # {} PROVE FALSE
  OBVIOUS
<1>1. PICK i \in bad : \A j \in bad : i <= j
  BY Least
<1>2. i # 0
  BY <1>1 DEF Tellings
<1>3. i - 1 \in 0..(n - 1) /\ i - 1 \in 0..(m - 1) /\ (i - 1) + 1 = i /\ i - 1 \notin bad
  BY <1>1, <1>2
<1>4. g[i - 1] = h[i - 1]
  BY <1>3
<1>5. g[i] = Turned(g[i - 1], i) /\ h[i] = Turned(h[i - 1], i)
  BY <1>3 DEF Tellings
<1> QED
  BY <1>1, <1>4, <1>5

\* The lines are what comes of it.
LEMMA StretchesAre ==
  ASSUME Len(lived) \in Nat, DOMAIN lived = 1..Len(lived)
  PROVE  \E f : /\ Stretches = f[Len(lived)] /\ f[0] = <<>>
                /\ \A n \in DOMAIN lived : f[n] = Tell(f[n - 1], n)
<1> DEFINE to(n) == CHOOSE g : Tellings(n, g)
           f == [n \in Nat |-> to(n)[n]]
           Turn(g, n) == IF n \in DOMAIN lived THEN Tell(g[n - 1], n) ELSE <<>>
<1>1. ASSUME NEW n \in Nat
      PROVE  Tellings(n, to(n))
  <2>1. \E g : Tellings(n, g)
    BY TellingsExist
  <2> QED
    BY <2>1, Zenon
<1> HIDE DEF to
<1>2. ASSUME NEW n \in Nat
      PROVE  f[n] = Turn(f, n)
  <2>1. CASE n = 0
    <3>1. f[0] = <<>>
      BY <1>1 DEF Tellings
    <3> QED
      BY <2>1, <3>1
  <2>2. CASE n # 0
    <3>1. n - 1 \in Nat /\ n - 1 \in 0..(n - 1) /\ (n - 1) + 1 = n
      BY <2>2
    <3>2. Tellings(n - 1, to(n - 1)) /\ Tellings(n, to(n))
      BY <1>1, <3>1
    <3>3. to(n - 1)[n - 1] = to(n)[n - 1]
      BY <3>1, <3>2, TellingsAgree
    <3>4. to(n)[n] = Turned(to(n)[n - 1], n)
      BY <3>1, <3>2 DEF Tellings
    <3>5. f[n] = Turned(f[n - 1], n)
      BY <3>1, <3>3, <3>4
    <3> HIDE DEF f
    <3> QED
      BY <3>5 DEF Turned
  <2> QED
    BY <2>1, <2>2
<1>3. f = [n \in Nat |-> Turn(f, n)]
  <2>1. f = [n \in Nat |-> f[n]]
    OBVIOUS
  <2> HIDE DEF f, Turn
  <2> QED
    BY <1>2, <2>1
<1> DEFINE told == CHOOSE g : g = [n \in Nat |-> IF n \in DOMAIN lived THEN Tell(g[n - 1], n) ELSE <<>>]
<1>4. told = [n \in Nat |-> Turn(told, n)]
  BY <1>3, Zenon
<1>5. Stretches = told[Len(lived)]
  BY DEF Stretches
<1> HIDE DEF told
<1>6. \A n \in Nat : told[n] = Turn(told, n)
  <2> HIDE DEF Turn
  <2> QED
    BY <1>4
<1>7. told[0] = <<>> /\ \A n \in DOMAIN lived : told[n] = Tell(told[n - 1], n)
  <2>1. 0 \notin DOMAIN lived /\ DOMAIN lived \subseteq Nat
    OBVIOUS
  <2> QED
    BY <1>6, <2>1
<1> QED
  BY <1>5, <1>7

\* What the lines say of the first n calls.
Lines(rows) ==
  /\ Len(rows) \in Nat /\ DOMAIN rows = 1..Len(rows) /\ \E S : rows \in Seq(S)
  /\ \A i \in DOMAIN rows :
       /\ {"strike", "how", "calls", "amount", "realCost"} \subseteq DOMAIN rows[i]
       /\ rows[i].calls \in Int /\ rows[i].amount \in Int
CountTo(n, r) == Cardinality({i \in 1..n : lived[i].strike = r})
AtRung(rows, r) == [i \in DOMAIN rows |-> IF rows[i].strike = r THEN rows[i].amount ELSE 0]
CallsOf(rows, r) == [i \in DOMAIN rows |-> IF rows[i].strike = r THEN rows[i].calls ELSE 0]
Tells(rows, n) ==
  /\ Lines(rows)
  /\ \A r : /\ Summed(CallsOf(rows, r)) = CountTo(n, r)
            /\ Summed(AtRung(rows, r)) = SumTo(AtRung(lived, r), n)
  /\ n # 0 => /\ rows # <<>>
              /\ Last(rows).realCost = RealCost(plan) - SumTo(Amounts(lived), n)
LivedWhole ==
  /\ Len(lived) \in Nat /\ DOMAIN lived = 1..Len(lived)
  /\ \A i \in DOMAIN lived : lived[i].amount \in Int

\* The calls and the money of a rung's lines are whole numbers, one a line.
LEMMA AtRungIs ==
  ASSUME NEW rows, Lines(rows), NEW r
  PROVE  /\ WholeSeq(CallsOf(rows, r)) /\ WholeSeq(AtRung(rows, r))
         /\ Len(CallsOf(rows, r)) = Len(rows) /\ Len(AtRung(rows, r)) = Len(rows)
  BY DEF Lines, WholeSeq, CallsOf, AtRung

\* One more call at its rung.
LEMMA CountIs ==
  ASSUME NEW n \in Nat, n # 0, NEW r
  PROVE  /\ CountTo(n - 1, r) \in Nat
         /\ CountTo(n, r) = CountTo(n - 1, r) + (IF lived[n].strike = r THEN 1 ELSE 0)
<1> DEFINE S == {i \in 1..(n - 1) : lived[i].strike = r}
<1>1. IsFiniteSet(S) /\ n \notin S /\ Cardinality(S) \in Nat
  <2>1. IsFiniteSet(1..(n - 1)) /\ S \subseteq 1..(n - 1)
    BY FS_Interval
  <2>2. n \notin S
    OBVIOUS
  <2> HIDE DEF S
  <2> QED
    BY <2>1, <2>2, FS_Subset, FS_CardinalityType
<1>2. CASE lived[n].strike = r
  <2>1. {i \in 1..n : lived[i].strike = r} = S \cup {n}
    BY <1>2
  <2> HIDE DEF S
  <2>2. Cardinality(S \cup {n}) = Cardinality(S) + 1
    BY <1>1, FS_AddElement
  <2> QED
    BY <1>1, <1>2, <2>1, <2>2 DEF CountTo, S
<1>3. CASE lived[n].strike # r
  <2>1. {i \in 1..n : lived[i].strike = r} = S
    <3>1. \A i \in 1..n : lived[i].strike = r => i \in 1..(n - 1)
      BY <1>3
    <3> QED
      BY <3>1
  <2> QED
    BY <1>1, <1>3, <2>1 DEF CountTo
<1> QED
  BY <1>2, <1>3

\* One more call brings in its amount at its rung, and nothing at another.
LEMMA LivedSums ==
  ASSUME LivedWhole, NEW n \in DOMAIN lived, NEW r
  PROVE  /\ SumTo(AtRung(lived, r), n - 1) \in Int
         /\ SumTo(AtRung(lived, r), n) = SumTo(AtRung(lived, r), n - 1)
                                         + (IF lived[n].strike = r THEN lived[n].amount ELSE 0)
<1> DEFINE s == AtRung(lived, r)
<1>1. WholeSeq(s) /\ n - 1 \in Nat /\ n \in DOMAIN s
      /\ s[n] = IF lived[n].strike = r THEN lived[n].amount ELSE 0
  BY DEF LivedWhole, WholeSeq, AtRung
<1> HIDE DEF s
<1>2. SumTo(s, n) = SumTo(s, n - 1) + s[n] /\ SumTo(s, n - 1) \in Int
  BY <1>1, SumsAre
<1> QED
  BY <1>1, <1>2 DEF s

\* A line of its own, or the last one longer.
LEMMA TellIs ==
  ASSUME LivedWhole, NEW n \in DOMAIN lived, NEW rows, Tells(rows, n - 1)
  PROVE  Tells(Tell(rows, n), n)
<1> DEFINE c == lived[n]
           line == Line(n)
           rc == RealCost(plan) - SumTo(Amounts(lived), n)
<1>1. /\ Lines(rows)
      /\ \A r : /\ Summed(CallsOf(rows, r)) = CountTo(n - 1, r)
                /\ Summed(AtRung(rows, r)) = SumTo(AtRung(lived, r), n - 1)
  BY DEF Tells
<1>2. n \in Nat /\ n # 0 /\ c.amount \in Int
  BY DEF LivedWhole
<1>3. /\ {"strike", "how", "calls", "amount", "realCost"} \subseteq DOMAIN line
      /\ line.strike = c.strike /\ line.calls = 1 /\ line.amount = c.amount /\ line.realCost = rc
  BY DEF Line
<1> HIDE DEF line, rc, c
<1>4. CASE rows # <<>> /\ Merges(Last(rows), c)
  <2> DEFINE last == Last(rows)
             long == Extend(last, line)
             m == Len(rows)
             t == [i \in 1..m |-> IF i = m THEN long ELSE rows[i]]
  <2>1. Tell(rows, n) = t
    BY <1>4 DEF Tell, ReplaceAt, c, line
  <2>2. m \in Nat /\ m # 0 /\ m \in DOMAIN rows /\ last = rows[m] /\ DOMAIN rows = 1..m
    BY <1>1, <1>4 DEF Lines, Last
  <2>3. last.strike = c.strike
    BY <1>4 DEF Merges
  <2>4. /\ {"strike", "how", "calls", "amount", "realCost"} \subseteq DOMAIN last
        /\ last.calls \in Int /\ last.amount \in Int
    BY <1>1, <2>2 DEF Lines
  <2> HIDE DEF last, m
  <2>5. /\ {"strike", "how", "calls", "amount", "realCost"} \subseteq DOMAIN long
        /\ long.strike = c.strike /\ long.calls = last.calls + 1
        /\ long.amount = last.amount + c.amount /\ long.realCost = rc
    BY <1>3, <2>3, <2>4 DEF Extend
  <2> HIDE DEF long
  <2>6. /\ Len(t) = m /\ DOMAIN t = 1..m /\ t[m] = long
        /\ \A i \in DOMAIN rows : i # m => t[i] = rows[i]
    BY <2>2
  <2>7. \E S : t \in Seq(S)
    <3> DEFINE T == {t[i] : i \in 1..m}
    <3>1. t \in [1..m -> T]
      OBVIOUS
    <3> HIDE DEF t, T
    <3>2. t \in Seq(T)
      BY <2>2, <3>1
    <3> QED
      BY <3>2
  <2> HIDE DEF t
  <2>8. Lines(t)
    <3>1. ASSUME NEW i \in 1..m
          PROVE  /\ {"strike", "how", "calls", "amount", "realCost"} \subseteq DOMAIN t[i]
                 /\ t[i].calls \in Int /\ t[i].amount \in Int
      <4>1. CASE i = m
        BY <1>2, <2>4, <2>5, <2>6, <4>1
      <4>2. CASE i # m
        BY <1>1, <2>2, <2>6, <4>2 DEF Lines
      <4> QED
        BY <4>1, <4>2
    <3> QED
      BY <2>2, <2>6, <2>7, <3>1 DEF Lines
  <2>9. ASSUME NEW r
        PROVE  /\ Summed(CallsOf(t, r)) = CountTo(n, r)
               /\ Summed(AtRung(t, r)) = SumTo(AtRung(lived, r), n)
    <3>1. /\ WholeSeq(CallsOf(rows, r)) /\ WholeSeq(AtRung(rows, r))
          /\ WholeSeq(CallsOf(t, r)) /\ WholeSeq(AtRung(t, r))
          /\ Len(CallsOf(rows, r)) = m /\ Len(AtRung(rows, r)) = m
          /\ Len(CallsOf(t, r)) = m /\ Len(AtRung(t, r)) = m
      BY <1>1, <2>6, <2>8, AtRungIs DEF m
    <3>2. /\ \A i \in 1..m : i # m => /\ CallsOf(t, r)[i] = CallsOf(rows, r)[i]
                                      /\ AtRung(t, r)[i] = AtRung(rows, r)[i]
          /\ CallsOf(t, r)[m] = IF c.strike = r THEN last.calls + 1 ELSE 0
          /\ AtRung(t, r)[m] = IF c.strike = r THEN last.amount + c.amount ELSE 0
          /\ CallsOf(rows, r)[m] = IF c.strike = r THEN last.calls ELSE 0
          /\ AtRung(rows, r)[m] = IF c.strike = r THEN last.amount ELSE 0
      BY <2>2, <2>3, <2>5, <2>6 DEF CallsOf, AtRung
    <3>3. /\ DOMAIN CallsOf(rows, r) = 1..m /\ DOMAIN AtRung(rows, r) = 1..m
      BY <2>2 DEF CallsOf, AtRung
    <3>4. /\ Summed(CallsOf(rows, r)) \in Int
          /\ Summed(CallsOf(t, r)) = Summed(CallsOf(rows, r))
                                     + (CallsOf(t, r)[m] - CallsOf(rows, r)[m])
      BY <2>2, <3>1, <3>2, <3>3, LastSum
    <3>5. /\ Summed(AtRung(rows, r)) \in Int
          /\ Summed(AtRung(t, r)) = Summed(AtRung(rows, r))
                                    + (AtRung(t, r)[m] - AtRung(rows, r)[m])
      BY <2>2, <3>1, <3>2, <3>3, LastSum
    <3>6. /\ CountTo(n - 1, r) \in Nat
          /\ CountTo(n, r) = CountTo(n - 1, r) + (IF c.strike = r THEN 1 ELSE 0)
      BY <1>2, CountIs DEF c
    <3>7. /\ SumTo(AtRung(lived, r), n - 1) \in Int
          /\ SumTo(AtRung(lived, r), n) = SumTo(AtRung(lived, r), n - 1)
                                          + (IF c.strike = r THEN c.amount ELSE 0)
      BY LivedSums DEF c
    <3>8. /\ Summed(CallsOf(rows, r)) = CountTo(n - 1, r)
          /\ Summed(AtRung(rows, r)) = SumTo(AtRung(lived, r), n - 1)
      BY <1>1
    <3>9. Summed(CallsOf(t, r)) = CountTo(n, r)
      BY <2>4, <3>2, <3>4, <3>6, <3>8
    <3>10. Summed(AtRung(t, r)) = SumTo(AtRung(lived, r), n)
      BY <1>2, <2>4, <3>2, <3>5, <3>7, <3>8
    <3> QED
      BY <3>9, <3>10
  <2>10. t # <<>> /\ Last(t).realCost = rc
    BY <2>2, <2>5, <2>6 DEF Last
  <2>11. Tells(t, n)
    BY <2>8, <2>9, <2>10 DEF Tells, rc
  <2> QED
    BY <2>1, <2>11
<1>5. CASE ~(rows # <<>> /\ Merges(Last(rows), c))
  <2> DEFINE t == Append(rows, line)
             m == Len(rows)
  <2>1. Tell(rows, n) = t
    BY <1>5 DEF Tell, c, line
  <2>2. m \in Nat /\ DOMAIN rows = 1..m
    BY <1>1 DEF Lines
  <2>3. PICK S : rows \in Seq(S)
    BY <1>1 DEF Lines
  <2>4. rows \in Seq(S \cup {line}) /\ line \in S \cup {line}
    BY <2>3
  <2>5. /\ t \in Seq(S \cup {line}) /\ Len(t) = m + 1 /\ t[m + 1] = line
        /\ \A i \in 1..m : t[i] = rows[i]
    BY <2>4, AppendProperties
  <2> HIDE DEF t, m
  <2>6. DOMAIN t = 1..(m + 1)
    BY <2>2, <2>5
  <2>7. Lines(t)
    <3>1. ASSUME NEW i \in 1..(m + 1)
          PROVE  /\ {"strike", "how", "calls", "amount", "realCost"} \subseteq DOMAIN t[i]
                 /\ t[i].calls \in Int /\ t[i].amount \in Int
      <4>1. CASE i = m + 1
        BY <1>2, <1>3, <2>5, <4>1
      <4>2. CASE i # m + 1
        <5>1. i \in 1..m
          BY <2>2, <4>2
        <5> QED
          BY <1>1, <2>2, <2>5, <5>1 DEF Lines
      <4> QED
        BY <4>1, <4>2
    <3> QED
      BY <2>2, <2>5, <2>6, <3>1 DEF Lines
  <2>8. ASSUME NEW r
        PROVE  /\ Summed(CallsOf(t, r)) = CountTo(n, r)
               /\ Summed(AtRung(t, r)) = SumTo(AtRung(lived, r), n)
    <3>1. /\ WholeSeq(CallsOf(rows, r)) /\ WholeSeq(AtRung(rows, r))
          /\ WholeSeq(CallsOf(t, r)) /\ WholeSeq(AtRung(t, r))
          /\ Len(CallsOf(rows, r)) = m /\ Len(AtRung(rows, r)) = m
          /\ Len(CallsOf(t, r)) = m + 1 /\ Len(AtRung(t, r)) = m + 1
      BY <1>1, <2>5, <2>7, AtRungIs DEF m
    <3>2. /\ DOMAIN CallsOf(rows, r) = 1..m /\ DOMAIN AtRung(rows, r) = 1..m
          /\ \A i \in 1..m : /\ CallsOf(t, r)[i] = CallsOf(rows, r)[i]
                             /\ AtRung(t, r)[i] = AtRung(rows, r)[i]
      <4>1. \A i \in 1..m : i \in DOMAIN t /\ i \in DOMAIN rows
        BY <2>2, <2>6
      <4> QED
        BY <2>2, <2>5, <4>1 DEF CallsOf, AtRung
    <3>3. /\ CallsOf(t, r)[m + 1] = IF c.strike = r THEN 1 ELSE 0
          /\ AtRung(t, r)[m + 1] = IF c.strike = r THEN c.amount ELSE 0
      <4>1. m + 1 \in DOMAIN t
        BY <2>2, <2>6
      <4> QED
        BY <1>3, <2>5, <4>1 DEF CallsOf, AtRung
    <3>4. /\ Summed(CallsOf(rows, r)) \in Int
          /\ Summed(CallsOf(t, r)) = Summed(CallsOf(rows, r)) + CallsOf(t, r)[m + 1]
      BY <3>1, <3>2, OneMoreSum
    <3>5. /\ Summed(AtRung(rows, r)) \in Int
          /\ Summed(AtRung(t, r)) = Summed(AtRung(rows, r)) + AtRung(t, r)[m + 1]
      BY <3>1, <3>2, OneMoreSum
    <3>6. /\ CountTo(n - 1, r) \in Nat
          /\ CountTo(n, r) = CountTo(n - 1, r) + (IF c.strike = r THEN 1 ELSE 0)
      BY <1>2, CountIs DEF c
    <3>7. /\ SumTo(AtRung(lived, r), n - 1) \in Int
          /\ SumTo(AtRung(lived, r), n) = SumTo(AtRung(lived, r), n - 1)
                                          + (IF c.strike = r THEN c.amount ELSE 0)
      BY LivedSums DEF c
    <3>8. /\ Summed(CallsOf(rows, r)) = CountTo(n - 1, r)
          /\ Summed(AtRung(rows, r)) = SumTo(AtRung(lived, r), n - 1)
      BY <1>1
    <3> QED
      BY <3>3, <3>4, <3>5, <3>6, <3>7, <3>8
  <2>9. t # <<>> /\ Last(t).realCost = rc
    BY <1>3, <2>2, <2>5, <2>6 DEF Last
  <2>10. Tells(t, n)
    BY <2>7, <2>8, <2>9 DEF Tells, rc
  <2> QED
    BY <2>1, <2>10
<1> QED
  BY <1>4, <1>5

\* No line tells of no call.
LEMMA NothingTold ==
  ASSUME LivedWhole
  PROVE  Tells(<<>>, 0)
<1>1. Lines(<<>>)
  <2>1. <<>> \in Seq({0}) /\ Len(<<>>) = 0 /\ DOMAIN <<>> = 1..0
    OBVIOUS
  <2> QED
    BY <2>1 DEF Lines
<1>2. ASSUME NEW r
      PROVE  /\ Summed(CallsOf(<<>>, r)) = CountTo(0, r)
             /\ Summed(AtRung(<<>>, r)) = SumTo(AtRung(lived, r), 0)
  <2>1. /\ WholeSeq(CallsOf(<<>>, r)) /\ WholeSeq(AtRung(<<>>, r))
        /\ Len(CallsOf(<<>>, r)) = 0 /\ Len(AtRung(<<>>, r)) = 0
    BY <1>1, AtRungIs
  <2>2. WholeSeq(AtRung(lived, r))
    BY DEF LivedWhole, WholeSeq, AtRung
  <2>3. Summed(CallsOf(<<>>, r)) = 0 /\ Summed(AtRung(<<>>, r)) = 0
    BY <2>1, SumsAre DEF Summed
  <2>4. SumTo(AtRung(lived, r), 0) = 0
    BY <2>2, SumsAre
  <2>5. CountTo(0, r) = 0
    <3>1. {i \in 1..0 : lived[i].strike = r} = {}
      OBVIOUS
    <3> QED
      BY <3>1, FS_EmptySet DEF CountTo
  <2> QED
    BY <2>3, <2>4, <2>5
<1> QED
  BY <1>1, <1>2 DEF Tells

\* After each call the lines tell the calls lived so far.
LEMMA StretchesTell ==
  ASSUME LivedWhole
  PROVE  Tells(Stretches, Len(lived))
<1>1. PICK f : /\ Stretches = f[Len(lived)] /\ f[0] = <<>>
               /\ \A n \in DOMAIN lived : f[n] = Tell(f[n - 1], n)
  BY StretchesAre DEF LivedWhole
<1> DEFINE Wrong == {n \in 0..Len(lived) : ~Tells(f[n], n)}
<1>2. Wrong = {}
  <2> SUFFICES ASSUME Wrong # {} PROVE FALSE
    OBVIOUS
  <2>1. Wrong \in SUBSET Nat
    BY DEF LivedWhole
  <2> HIDE DEF Wrong
  <2>2. PICK n \in Wrong : \A m \in Wrong : n <= m
    BY <2>1, Least
  <2>3. n \in 0..Len(lived) /\ ~Tells(f[n], n)
    BY <2>2 DEF Wrong
  <2>4. CASE n = 0
    BY <1>1, <2>3, <2>4, NothingTold
  <2>5. CASE n # 0
    <3>1. n \in DOMAIN lived /\ n - 1 \in 0..Len(lived) /\ ~(n <= n - 1)
      BY <2>3, <2>5 DEF LivedWhole
    <3>2. Tells(f[n - 1], n - 1)
      BY <2>2, <3>1 DEF Wrong
    <3>3. Tells(Tell(f[n - 1], n), n)
      BY <3>1, <3>2, TellIs
    <3> QED
      BY <1>1, <2>3, <3>1, <3>3
  <2> QED
    BY <2>4, <2>5
<1>3. Len(lived) \in 0..Len(lived)
  BY DEF LivedWhole
<1> QED
  BY <1>1, <1>2, <1>3

\* What was brought in is a whole number, for the calls lived and the one in hand.
Paid(c) == "amount" \in DOMAIN c /\ c.amount \in Int
AllPaid ==
  /\ \A i \in DOMAIN lived : Paid(lived[i])
  /\ cur # None => Paid(cur)

\* The amounts lived can be summed.
LEMMA LivedIsWhole ==
  ASSUME LadderInv, AllPaid
  PROVE  LivedWhole
<1>1. PICK S : lived \in Seq(S)
  BY DEF LadderInv, Walked
<1> QED
  BY <1>1 DEF AllPaid, Paid, LivedWhole

\* How a call ended is not what it brought in.
LEMMA EndedPays ==
  ASSUME NEW c, Paid(c), NEW roll, NEW day, NEW outcome
  PROVE  LET e == Ended(c, roll, day, outcome) IN Paid(e)
<1> DEFINE wall == WallDay(c, roll, day)
           ended == IF day = None THEN c.exp ELSE day
<1>1. Ended(c, roll, day, outcome) = [c EXCEPT !.outcome = outcome, !.wall = wall, !.ended = ended]
  BY DEF Ended
<1> HIDE DEF wall, ended
<1> QED
  BY <1>1 DEF Paid

\* One more call lived that brought in a whole number.
LEMMA PaidTooIs ==
  ASSUME LadderInv, AllPaid, NEW c, Paid(c), lived' = Append(lived, c)
  PROVE  \A i \in DOMAIN lived' : Paid(lived'[i])
<1>1. PICK S : lived \in Seq(S)
  BY DEF LadderInv, Walked
<1>2. lived \in Seq(S \cup {c}) /\ c \in S \cup {c}
  BY <1>1
<1> HIDE DEF Paid
<1> QED
  BY <1>2, AppendProperties DEF AllPaid

\* The values of calls are whole numbers here, whatever they are asked of.
WholeValues == \A spot, strike, days, iv : CallValue(spot, strike, days, iv) \in Int

\* A call taken up for a whole amount.
LEMMA LivePays ==
  ASSUME NEW how, NEW strike, NEW on, NEW exp, NEW amount \in Int, NEW sold
  PROVE  Paid(Live(how, strike, on, exp, amount, sold))
  BY DEF Live, Paid

\* What a roll and a profit leave is the difference of two values.
LEMMA LiveCallPays ==
  ASSUME WholeValues, LadderInv, AllPaid, LiveCall
  PROVE  AllPaid'
<1> DEFINE roll == RollTarget(cur)
           day == EventDay(cur, roll)
           value == Value(day, cur.strike, cur.exp)
           worth == Value(day, roll.to, roll.exp)
           Note(c) == lived' = Append(lived, c)
<1>1. \/ /\ Note(Ended(cur, roll, day, "rolled"))
         /\ cur' = Live("roll", roll.to, day, roll.exp, worth - value, worth)
      \/ /\ Note([Ended(cur, roll, day, "profit") EXCEPT !.amount = @ - value])
         /\ cur' = None
      \/ /\ Note([Ended(cur, roll, day, "open") EXCEPT !.ended = None])
         /\ cur' = None
      \/ Note(Ended(cur, roll, day, "called")) /\ cur' = None
      \/ Note(Ended(cur, roll, day, "expired")) /\ cur' = None
  BY DEF LiveCall, Credit
<1>2. value \in Int /\ worth \in Int
  BY DEF WholeValues, Value
<1>3. Paid(cur)
  BY DEF LiveCall, AllPaid
<1> HIDE DEF roll, day, value, worth
<1> DEFINE E(outcome) == Ended(cur, roll, day, outcome)
<1>4. \A outcome : Paid(E(outcome))
  BY <1>3, EndedPays
<1> HIDE DEF E
<1>5. Paid([E("profit") EXCEPT !.amount = @ - value]) /\ Paid([E("open") EXCEPT !.ended = None])
  BY <1>2, <1>4 DEF Paid
<1>6. worth - value \in Int
  BY <1>2
<1>7. Paid(Live("roll", roll.to, day, roll.exp, worth - value, worth))
  BY <1>6, LivePays
<1>8. \A i \in DOMAIN lived' : Paid(lived'[i])
  <2>1. \E c : Paid(c) /\ lived' = Append(lived, c)
    BY <1>1, <1>4, <1>5 DEF E
  <2> QED
    BY <2>1, PaidTooIs
<1>9. cur' # None => Paid(cur')
  BY <1>1, <1>7
<1> QED
  BY <1>8, <1>9 DEF AllPaid

\* Every step keeps the amounts whole.
LEMMA PaidInvariant == ASSUME WholeValues PROVE LadderSpec => []AllPaid
<1>1. LadderInit => AllPaid
  <2> SUFFICES ASSUME LadderInit PROVE AllPaid
    OBVIOUS
  <2>1. lived = <<>> /\ cur = None
    BY DEF LadderInit
  <2>2. DOMAIN lived = {}
    BY <2>1
  <2> QED
    BY <2>1, <2>2 DEF AllPaid
<1>2. LadderInv /\ AllPaid /\ [LadderNext]_ladderVars => AllPaid'
  <2> SUFFICES ASSUME LadderInv, AllPaid, [LadderNext]_ladderVars PROVE AllPaid'
    OBVIOUS
  <2>1. CASE UNCHANGED <<lived, cur>>
    BY <2>1 DEF AllPaid
  <2>2. CASE ShowPage
    <3>1. /\ UNCHANGED lived
          /\ cur' = None \/ cur' = Live("open", plan.strike, 0, plan.exp, 0, plan.sold)
      BY <2>2 DEF ShowPage
    <3>2. Paid(Live("open", plan.strike, 0, plan.exp, 0, plan.sold))
      BY LivePays
    <3> QED
      BY <3>1, <3>2 DEF AllPaid
  <2>3. CASE Sell
    <3> DEFINE c == Live("sell", NextStrike, start, SaleExpiry, Premium, Premium)
    <3>1. UNCHANGED lived /\ cur' = [c EXCEPT !.reports = waited, !.skipped = skipped]
      BY <2>3 DEF Sell
    <3>2. Premium \in Int
      BY DEF WholeValues, Premium, Value
    <3>3. Paid(c)
      BY <3>2, LivePays
    <3> HIDE DEF c
    <3>4. Paid([c EXCEPT !.reports = waited, !.skipped = skipped])
      BY <3>3 DEF Paid
    <3> QED
      BY <3>1, <3>4 DEF AllPaid
  <2>4. CASE LiveCall
    BY <2>4, LiveCallPays
  <2> QED
    BY <2>1, <2>2, <2>3, <2>4
       DEF LadderNext, Refuse, PlanLadder, StopSelling, WaitOutReport, SkipWeek, Full, Told, ladderVars
<1> QED
  BY <1>1, <1>2, LadderInvariant, PTL DEF LadderSpec

\* The lines the plan is told in are its calls: as many at each rung and as much
\* money brought in as were lived there, and the last real cost is what is left.
THEOREM LinesCorrect ==
  ASSUME \A spot, strike, days, iv : CallValue(spot, strike, days, iv) \in Int
  PROVE  LadderSpec => []LinesTellTheCalls
<1>1. LadderInv /\ AllPaid => LinesTellTheCalls
  <2> SUFFICES ASSUME LadderInv, AllPaid, lived # <<>>
               PROVE  /\ \A r \in Range(plan.rungs) :
                           /\ CallsAt(Stretches, r) = Cardinality({i \in DOMAIN lived : lived[i].strike = r})
                           /\ MoneyAt(Stretches, r) = MoneyAt(lived, r)
                      /\ Last(Stretches).realCost = RealCost(plan) - Summed(Amounts(lived))
    BY DEF LinesTellTheCalls
  <2>1. LivedWhole
    BY LivedIsWhole
  <2> DEFINE n == Len(lived)
  <2>2. Tells(Stretches, n)
    BY <2>1, StretchesTell
  <2>3. DOMAIN lived = 1..n /\ n # 0
    <3>1. PICK S : lived \in Seq(S)
      BY DEF LadderInv, Walked
    <3> QED
      BY <3>1
  <2>4. \A r : Len(AtRung(lived, r)) = n
    BY <2>1 DEF LivedWhole, AtRung
  <2>5. Len(Amounts(lived)) = n
    BY <2>1 DEF LivedWhole, Amounts
  <2>6. \A r : /\ Summed(AtRung(lived, r)) = SumTo(AtRung(lived, r), n)
               /\ MoneyAt(lived, r) = Summed(AtRung(lived, r))
               /\ MoneyAt(Stretches, r) = Summed(AtRung(Stretches, r))
               /\ CallsAt(Stretches, r) = Summed(CallsOf(Stretches, r))
    BY <2>4 DEF Summed, MoneyAt, CallsAt, AtRung, CallsOf
  <2>7. \A r : CountTo(n, r) = Cardinality({i \in DOMAIN lived : lived[i].strike = r})
    BY <2>3 DEF CountTo
  <2>8. Summed(Amounts(lived)) = SumTo(Amounts(lived), n)
    BY <2>5 DEF Summed
  <2> HIDE DEF n
  <2>9. /\ \A r : /\ Summed(CallsOf(Stretches, r)) = CountTo(n, r)
                  /\ Summed(AtRung(Stretches, r)) = SumTo(AtRung(lived, r), n)
        /\ Last(Stretches).realCost = RealCost(plan) - SumTo(Amounts(lived), n)
    BY <2>2, <2>3 DEF Tells
  <2>10. ASSUME NEW r
         PROVE  /\ CallsAt(Stretches, r) = Cardinality({i \in DOMAIN lived : lived[i].strike = r})
                /\ MoneyAt(Stretches, r) = MoneyAt(lived, r)
    BY <2>6, <2>7, <2>9
  <2> QED
    BY <2>8, <2>9, <2>10
<1>2. WholeValues
  BY DEF WholeValues
<1>3. LadderSpec => []AllPaid
  BY <1>2, PaidInvariant
<1> QED
  BY <1>1, <1>3, LadderInvariant, PTL
=============================================================================
