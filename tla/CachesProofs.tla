----------------------------- MODULE CachesProofs -----------------------------
(***************************************************************************)
(* Theorems about what is kept in memory: UserCache and RateLimits, for    *)
(* any users, keys, addresses, callers and limits, BondSearch, for any     *)
(* searchers, queries and lists of the exchange, and the builds of         *)
(* BondCalendar, for any holdings, periods and versions of the exchange.   *)
(*                                                                         *)
(* The cache names each user and each key once (OnceEach), keeps its users *)
(* in the order they were last used in (ByUse), and stores an entry where  *)
(* the orders name one (Entered): what it trims off the front was used     *)
(* before all that stays, and each step is one of a cache that forgets at  *)
(* will.                                                                   *)
(*                                                                         *)
(* What a limiter remembers is the end of all it let through, and what it  *)
(* forgot has left the window (EndOf): two calls PerWindow apart are a     *)
(* window apart (History), and whoever waits met a full one.               *)
(*                                                                         *)
(* What the directory remembers of its last attempt to fetch the list is   *)
(* what the history says of it (Fetching, Settled), so that the next is    *)
(* made in its time, and one that came leaves a list for good.             *)
(*                                                                         *)
(* A calendar is kept under the bonds and the first day it was built from  *)
(* (KeptRight), so who finds it there asked for the same.                  *)
(***************************************************************************)
EXTENDS UserCache, RateLimits, BondSearch, BondCalendar, FiniteSetTheorems,
        SequenceTheorems, WellFoundedInduction, TLAPS

-----------------------------------------------------------------------------
(* The cache of each user *)

\* Nothing is in the sequence at two places.
NoTwice(seq) == \A i, j \in DOMAIN seq : seq[i] = seq[j] => i = j

\* Taking x out takes it from one place it is at, and the rest close up.
LEMMA WithoutAt ==
  ASSUME NEW S, NEW seq \in Seq(S), NEW x, In(x, seq)
  PROVE  \E p \in 1 .. Len(seq) :
           /\ seq[p] = x /\ Without(seq, x) \in Seq(S) /\ Len(Without(seq, x)) = Len(seq) - 1
           /\ \A i \in 1 .. Len(seq) - 1 : Without(seq, x)[i] = seq[IF i < p THEN i ELSE i + 1]
<1> DEFINE p == CHOOSE i \in DOMAIN seq : seq[i] = x
           before == SubSeq(seq, 1, p - 1)
           after == SubSeq(seq, p + 1, Len(seq))
<1>1. p \in 1 .. Len(seq) /\ seq[p] = x
  BY DEF In
<1>2. Without(seq, x) = before \o after
  BY DEF Without, RemoveAt
<1> HIDE DEF p
<1>3. Len(seq) \in Nat
  BY LenProperties
<1>4. /\ before \in Seq(S) /\ Len(before) = p - 1
      /\ \A i \in 1 .. p - 1 : before[i] = seq[i]
  <2>1. CASE p - 1 \in 1 .. Len(seq)
    BY <1>1, <1>3, <2>1, SubSeqProperties
  <2>2. CASE p = 1
    BY <1>1, <1>3, <2>2, SubSeqProperties
  <2> QED
    BY <1>1, <1>3, <2>1, <2>2
<1>5. /\ after \in Seq(S) /\ Len(after) = Len(seq) - p
      /\ \A i \in 1 .. Len(seq) - p : after[i] = seq[p + i]
  BY <1>1, <1>3, SubSeqProperties
<1> HIDE DEF before, after
<1>6. /\ before \o after \in Seq(S) /\ Len(before \o after) = Len(seq) - 1
      /\ \A i \in 1 .. Len(seq) - 1 :
           (before \o after)[i] = IF i <= Len(before) THEN before[i] ELSE after[i - Len(before)]
  <2>1. Len(before) + Len(after) = Len(seq) - 1
    BY <1>1, <1>3, <1>4, <1>5
  <2> QED
    BY <1>4, <1>5, <2>1, ConcatProperties
<1>7. \A i \in 1 .. Len(seq) - 1 : (before \o after)[i] = seq[IF i < p THEN i ELSE i + 1]
  BY <1>1, <1>3, <1>4, <1>5, <1>6
<1> QED
  BY <1>1, <1>2, <1>6, <1>7

\* What is left is what was there but x, in the order it had.
LEMMA WithoutIs ==
  ASSUME NEW S, NEW seq \in Seq(S), NoTwice(seq), NEW x
  PROVE  /\ Without(seq, x) \in Seq(S) /\ NoTwice(Without(seq, x))
         /\ \A y : In(y, Without(seq, x)) <=> In(y, seq) /\ y # x
         /\ \A i, j \in DOMAIN Without(seq, x) : i < j =>
              \E a, b \in DOMAIN seq :
                a < b /\ Without(seq, x)[i] = seq[a] /\ Without(seq, x)[j] = seq[b]
<1>1. CASE ~In(x, seq)
  BY <1>1 DEF Without, In
<1>2. CASE In(x, seq)
  <2> DEFINE rest == Without(seq, x)
  <2>1. PICK p \in 1 .. Len(seq) :
          /\ seq[p] = x /\ rest \in Seq(S) /\ Len(rest) = Len(seq) - 1
          /\ \A i \in 1 .. Len(seq) - 1 : rest[i] = seq[IF i < p THEN i ELSE i + 1]
    BY <1>2, WithoutAt
  <2> HIDE DEF rest
  <2>2. Len(seq) \in Nat /\ DOMAIN seq = 1 .. Len(seq) /\ DOMAIN rest = 1 .. Len(seq) - 1
    BY <2>1
  <2> DEFINE from(i) == IF i < p THEN i ELSE i + 1
  <2>3. \A i \in 1 .. Len(seq) - 1 : from(i) \in 1 .. Len(seq) /\ from(i) # p /\ rest[i] = seq[from(i)]
    BY <2>1, <2>2
  <2>4. \A i, j \in 1 .. Len(seq) - 1 : (i < j => from(i) < from(j)) /\ (from(i) = from(j) => i = j)
    BY <2>1, <2>2
  <2>5. \A a \in 1 .. Len(seq) : a # p => \E i \in 1 .. Len(seq) - 1 : from(i) = a
    <3> TAKE a \in 1 .. Len(seq)
    <3>1. CASE a < p
      <4>1. a \in 1 .. Len(seq) - 1 /\ from(a) = a
        BY <2>1, <2>2, <3>1
      <4> QED
        BY <4>1
    <3>2. CASE a > p
      <4>1. a - 1 \in 1 .. Len(seq) - 1 /\ from(a - 1) = a
        BY <2>1, <2>2, <3>2
      <4> QED
        BY <4>1
    <3> QED
      BY <2>1, <2>2, <3>1, <3>2
  <2> HIDE DEF from
  <2>6. NoTwice(rest)
    BY <2>2, <2>3, <2>4 DEF NoTwice
  <2>7. ASSUME NEW y
        PROVE  In(y, rest) <=> In(y, seq) /\ y # x
    <3>1. ASSUME NEW i \in 1 .. Len(seq) - 1, rest[i] = y
          PROVE  In(y, seq) /\ y # x
      BY <2>1, <2>2, <2>3, <3>1 DEF In, NoTwice
    <3>2. ASSUME NEW a \in 1 .. Len(seq), seq[a] = y, y # x
          PROVE  In(y, rest)
      <4>1. PICK i \in 1 .. Len(seq) - 1 : from(i) = a
        BY <2>1, <2>5, <3>2
      <4> QED
        BY <2>2, <2>3, <3>2, <4>1 DEF In
    <3> QED
      BY <2>2, <3>1, <3>2 DEF In
  <2>8. ASSUME NEW i \in DOMAIN rest, NEW j \in DOMAIN rest, i < j
        PROVE  \E a, b \in DOMAIN seq : a < b /\ rest[i] = seq[a] /\ rest[j] = seq[b]
    BY <2>2, <2>3, <2>4, <2>8
  <2> QED
    BY <2>1, <2>6, <2>7, <2>8 DEF rest
<1> QED
  BY <1>1, <1>2

\* Moved to the end, x comes after all the others, and they stay in order.
LEMMA ToEndIs ==
  ASSUME NEW S, NEW seq \in Seq(S), NoTwice(seq), NEW x \in S
  PROVE  LET to == ToEnd(seq, x) IN
         /\ to \in Seq(S) /\ NoTwice(to) /\ Len(to) >= 1 /\ to[Len(to)] = x
         /\ \A y : In(y, to) <=> In(y, seq) \/ y = x
         /\ \A i, j \in DOMAIN to : i < j =>
              /\ to[i] # x
              /\ \/ to[j] = x
                 \/ \E a, b \in DOMAIN seq : a < b /\ to[i] = seq[a] /\ to[j] = seq[b]
<1> DEFINE rest == Without(seq, x)
           to == Append(rest, x)
<1>1. /\ rest \in Seq(S) /\ NoTwice(rest)
      /\ \A y : In(y, rest) <=> In(y, seq) /\ y # x
      /\ \A i, j \in DOMAIN rest : i < j =>
           \E a, b \in DOMAIN seq : a < b /\ rest[i] = seq[a] /\ rest[j] = seq[b]
  BY WithoutIs
<1> HIDE DEF rest
<1>2. /\ to \in Seq(S) /\ Len(to) = Len(rest) + 1 /\ to[Len(to)] = x /\ Len(rest) \in Nat
      /\ DOMAIN to = 1 .. Len(rest) + 1 /\ DOMAIN rest = 1 .. Len(rest)
      /\ \A i \in 1 .. Len(rest) : to[i] = rest[i]
  BY <1>1
<1> HIDE DEF to
<1>3. \A i \in 1 .. Len(rest) : to[i] # x
  BY <1>1, <1>2 DEF In
<1>4. NoTwice(to)
  BY <1>1, <1>2, <1>3 DEF NoTwice
<1>5. ASSUME NEW y
      PROVE  In(y, to) <=> In(y, seq) \/ y = x
  <2>1. In(y, to) <=> In(y, rest) \/ y = x
    BY <1>2 DEF In
  <2> QED
    BY <1>1, <2>1
<1>6. ASSUME NEW i \in DOMAIN to, NEW j \in DOMAIN to, i < j
      PROVE  /\ to[i] # x
             /\ \/ to[j] = x
                \/ \E a, b \in DOMAIN seq : a < b /\ to[i] = seq[a] /\ to[j] = seq[b]
  <2>1. i \in 1 .. Len(rest) /\ (j \in 1 .. Len(rest) \/ j = Len(to))
    BY <1>2, <1>6
  <2>2. CASE j \in 1 .. Len(rest)
    BY <1>1, <1>2, <1>3, <1>6, <2>1, <2>2
  <2>3. CASE j = Len(to)
    BY <1>2, <1>3, <2>1, <2>3
  <2> QED
    BY <2>1, <2>2, <2>3
<1>7. Len(to) >= 1
  BY <1>2
<1> QED
  BY <1>2, <1>4, <1>5, <1>6, <1>7 DEF ToEnd, to, rest

\* Trimmed from the front, a sequence keeps its last element, and what goes came
\* before all that stays.
LEMMA TrimIs ==
  ASSUME NEW S, NEW seq \in Seq(S), NoTwice(seq), NEW max \in Nat \ {0}
  PROVE  LET kept == Trim(seq, max) IN
         /\ kept \in Seq(S) /\ NoTwice(kept)
         /\ \A y : In(y, kept) => In(y, seq)
         /\ Len(seq) >= 1 => In(seq[Len(seq)], kept)
         /\ \A i, j \in DOMAIN kept : i < j =>
              \E a, b \in DOMAIN seq : a < b /\ kept[i] = seq[a] /\ kept[j] = seq[b]
         /\ \A i \in DOMAIN seq, j \in DOMAIN kept :
              ~In(seq[i], kept) => \E b \in DOMAIN seq : i < b /\ kept[j] = seq[b]
<1>1. CASE ~(Len(seq) > max)
  BY <1>1 DEF Trim, In
<1>2. CASE Len(seq) > max
  <2> DEFINE cut == Len(seq) - max
             kept == SubSeq(seq, cut + 1, Len(seq))
  <2>1. Len(seq) \in Nat /\ max \in Nat /\ max >= 1 /\ cut \in Nat /\ cut >= 1 /\ cut + max = Len(seq)
        /\ DOMAIN seq = 1 .. Len(seq)
    BY <1>2
  <2>2. Trim(seq, max) = kept
    BY <1>2 DEF Trim
  <2> HIDE DEF cut
  <2>3. /\ kept \in Seq(S) /\ Len(kept) = max
        /\ \A i \in 1 .. max : kept[i] = seq[cut + i]
    BY <2>1, SubSeqProperties
  <2> HIDE DEF kept
  <2>4. DOMAIN kept = 1 .. max
    BY <2>3
  <2>5. \A i \in 1 .. max : cut + i \in 1 .. Len(seq)
    BY <2>1
  <2>6. NoTwice(kept)
    <3> SUFFICES ASSUME NEW i \in 1 .. max, NEW j \in 1 .. max, kept[i] = kept[j]
                 PROVE  i = j
      BY <2>4 DEF NoTwice
    <3>1. cut + i = cut + j
      BY <2>1, <2>3, <2>5 DEF NoTwice
    <3> QED
      BY <2>1, <3>1
  <2>7. \A y : In(y, kept) => In(y, seq)
    BY <2>1, <2>3, <2>4, <2>5 DEF In
  <2>8. In(seq[Len(seq)], kept)
    <3>1. max \in 1 .. max /\ kept[max] = seq[Len(seq)]
      BY <2>1, <2>3
    <3> QED
      BY <2>4, <3>1 DEF In
  <2>9. ASSUME NEW i \in DOMAIN kept, NEW j \in DOMAIN kept, i < j
        PROVE  \E a, b \in DOMAIN seq : a < b /\ kept[i] = seq[a] /\ kept[j] = seq[b]
    <3>1. cut + i < cut + j
      BY <2>1, <2>4, <2>9
    <3> QED
      BY <2>1, <2>3, <2>4, <2>5, <3>1
  <2>10. ASSUME NEW i \in DOMAIN seq, NEW j \in DOMAIN kept, ~In(seq[i], kept)
         PROVE  \E b \in DOMAIN seq : i < b /\ kept[j] = seq[b]
    <3>1. i <= cut
      <4> SUFFICES ASSUME i > cut
                   PROVE  FALSE
        BY <2>1
      <4>1. i - cut \in 1 .. max /\ kept[i - cut] = seq[i]
        <5>1. i - cut \in 1 .. max /\ cut + (i - cut) = i
          BY <2>1
        <5> QED
          BY <2>3, <5>1
      <4> QED
        BY <2>4, <2>10, <4>1 DEF In
    <3>2. i < cut + j
      BY <2>1, <2>4, <3>1
    <3> QED
      BY <2>1, <2>3, <2>4, <2>5, <3>2
  <2> QED
    BY <2>2, <2>3, <2>6, <2>7, <2>8, <2>9, <2>10
<1> QED
  BY <1>1, <1>2

\* What is stored, and for whom.
CacheTypes ==
  /\ order \in Seq(User) /\ keys \in [User -> Seq(Key)] /\ clock \in Nat
  /\ stored \in [User -> [Key -> {Nothing} \cup [value : Value, since : 0 .. clock]]]

\* A user has one partition, and a key one entry in it.
OnceEach == NoTwice(order) /\ \A u \in User : NoTwice(keys[u])

\* The partitions are in the order they were used in.
ByUse(seq, later) == \A i, j \in DOMAIN seq : i < j => <<seq[j], seq[i]>> \in later

\* The entries are those the orders name.
Entered ==
  /\ \A u \in User, k \in Key : stored[u][k] # Nothing <=> In(k, keys[u])
  /\ \A u \in User : keys[u] # <<>> => In(u, order)

\* The inductive invariant of the cache.
CacheInv == CacheTypes /\ OnceEach /\ ByUse(order, newer) /\ Entered

\* A use makes a user the latest, and changes nothing between the others.
LEMMA ToEndByUse ==
  ASSUME CacheInv, NEW u \in User, Touch(u)
  PROVE  ByUse(ToEnd(order, u), newer')
<1> DEFINE to == ToEnd(order, u)
<1>1. /\ to \in Seq(User) /\ NoTwice(to)
      /\ \A i, j \in DOMAIN to : i < j =>
           /\ to[i] # u
           /\ \/ to[j] = u
              \/ \E a, b \in DOMAIN order : a < b /\ to[i] = order[a] /\ to[j] = order[b]
  BY ToEndIs DEF CacheInv, CacheTypes, OnceEach
<1> HIDE DEF to
<1>2. ASSUME NEW i \in DOMAIN to, NEW j \in DOMAIN to, i < j
      PROVE  <<to[j], to[i]>> \in newer'
  <2>1. to[i] # u /\ to[i] \in User
    BY <1>1, <1>2
  <2>2. CASE to[j] = u
    BY <2>1, <2>2 DEF Touch
  <2>3. CASE \E a, b \in DOMAIN order : a < b /\ to[i] = order[a] /\ to[j] = order[b]
    <3>1. <<to[j], to[i]>> \in newer
      BY <2>3 DEF CacheInv, ByUse
    <3> QED
      BY <2>1, <3>1 DEF Touch
  <2> QED
    BY <1>1, <1>2, <2>2, <2>3
<1> QED
  BY <1>2 DEF ByUse, to

\* The cache begins empty.
LEMMA InitCache == Init => CacheInv
<1> SUFFICES ASSUME Init
             PROVE  CacheInv
  OBVIOUS
<1> USE DEF Init
<1>1. CacheTypes
  BY DEF CacheTypes
<1>2. OnceEach /\ ByUse(order, newer) /\ Entered
  BY DEF OnceEach, NoTwice, ByUse, Entered, In
<1> QED
  BY <1>1, <1>2 DEF CacheInv

\* An entry found expired leaves its partition, and nobody was used.
LEMMA ExpiresStep ==
  ASSUME CacheInv, NEW u \in User, NEW k \in Key, Expires(u, k)
  PROVE  CacheInv'
<1> USE DEF CacheInv
<1>1. /\ keys' = [keys EXCEPT ![u] = Without(keys[u], k)]
      /\ stored' = [stored EXCEPT ![u][k] = Nothing] /\ UNCHANGED <<order, clock, newer>>
  BY DEF Expires
<1>2. /\ Without(keys[u], k) \in Seq(Key) /\ NoTwice(Without(keys[u], k))
      /\ \A y : In(y, Without(keys[u], k)) <=> In(y, keys[u]) /\ y # k
  BY WithoutIs DEF CacheTypes, OnceEach
<1>3. /\ keys' \in [User -> Seq(Key)] /\ keys'[u] = Without(keys[u], k)
      /\ \A w \in User : w # u => keys'[w] = keys[w]
  BY <1>1, <1>2 DEF CacheTypes
<1>4. \A w \in User, j \in Key :
        stored'[w][j] = IF w = u /\ j = k THEN Nothing ELSE stored[w][j]
  BY <1>1 DEF CacheTypes
<1>5. CacheTypes'
  BY <1>1, <1>3 DEF CacheTypes
<1>6. OnceEach' /\ ByUse(order, newer)'
  BY <1>1, <1>2, <1>3 DEF OnceEach, ByUse
<1>7. Entered'
  <2>0. \A w \in User : keys'[w] # <<>> => In(w, order)
    BY <1>3 DEF Expires, Entered
  <2> SUFFICES ASSUME NEW w \in User, NEW j \in Key
               PROVE  stored'[w][j] # Nothing <=> In(j, keys'[w])
    BY <1>1, <2>0 DEF Entered
  <2>1. CASE w = u
    BY <1>2, <1>3, <1>4, <2>1 DEF Entered
  <2>2. CASE w # u
    BY <1>3, <1>4, <2>2 DEF Entered
  <2> QED
    BY <2>1, <2>2
<1> QED
  BY <1>5, <1>6, <1>7

\* A hit moves its key and its user to the end, and stores nothing.
LEMMA HitStep ==
  ASSUME CacheInv, NEW u \in User, NEW k \in Key, Hit(u, k)
  PROVE  CacheInv'
<1> USE DEF CacheInv
<1>1. /\ order' = ToEnd(order, u) /\ keys' = [keys EXCEPT ![u] = ToEnd(keys[u], k)]
      /\ Touch(u) /\ UNCHANGED <<stored, clock>> /\ In(u, order) /\ In(k, keys[u])
  BY DEF Hit
<1>2. /\ order' \in Seq(User) /\ NoTwice(order') /\ \A y : In(y, order') <=> In(y, order)
  <2>1. /\ ToEnd(order, u) \in Seq(User) /\ NoTwice(ToEnd(order, u))
        /\ \A y : In(y, ToEnd(order, u)) <=> In(y, order) \/ y = u
    BY ToEndIs DEF CacheTypes, OnceEach
  <2> QED
    BY <1>1, <2>1
<1>3. /\ ToEnd(keys[u], k) \in Seq(Key) /\ NoTwice(ToEnd(keys[u], k))
      /\ \A y : In(y, ToEnd(keys[u], k)) <=> In(y, keys[u])
  <2>1. /\ ToEnd(keys[u], k) \in Seq(Key) /\ NoTwice(ToEnd(keys[u], k))
        /\ \A y : In(y, ToEnd(keys[u], k)) <=> In(y, keys[u]) \/ y = k
    BY ToEndIs DEF CacheTypes, OnceEach
  <2> QED
    BY <1>1, <2>1
<1>4. /\ keys' \in [User -> Seq(Key)] /\ keys'[u] = ToEnd(keys[u], k)
      /\ \A w \in User : w # u => keys'[w] = keys[w]
  BY <1>1, <1>3 DEF CacheTypes
<1>5. CacheTypes' /\ OnceEach'
  BY <1>1, <1>2, <1>3, <1>4 DEF CacheTypes, OnceEach
<1>6. ByUse(order, newer)'
  BY <1>1, ToEndByUse
<1>7. Entered'
  <2>1. \A w \in User, j \in Key : In(j, keys'[w]) <=> In(j, keys[w])
    BY <1>3, <1>4
  <2>2. \A w \in User : keys'[w] # <<>> => In(w, order')
    BY <1>1, <1>2, <1>4 DEF Entered
  <2> QED
    BY <1>1, <2>1, <2>2 DEF Entered
<1> QED
  BY <1>5, <1>6, <1>7

\* A put adds its key and its user at the end, and trims what no order names.
LEMMA PutStep ==
  ASSUME CacheInv, NEW u \in User, NEW k \in Key, NEW v \in Value, Put(u, k, v)
  PROVE  CacheInv'
<1> USE DEF CacheInv
<1> DEFINE to == ToEnd(order, u)
           kept == Trim(to, MaxUsers)
           moved == ToEnd(keys[u], k)
           mine == Trim(moved, MaxEntries)
           new == [value |-> v, since |-> clock]
<1>1. /\ order' = kept
      /\ keys' = [w \in User |-> IF ~In(w, kept) THEN <<>> ELSE IF w = u THEN mine ELSE keys[w]]
      /\ stored' = [w \in User |-> [j \in Key |->
                      IF ~In(w, kept) \/ (w = u /\ ~In(j, mine)) THEN Nothing
                      ELSE IF <<w, j>> = <<u, k>> THEN new
                      ELSE stored[w][j]]]
      /\ Touch(u) /\ clock' = clock
  BY DEF Put
<1>2. /\ to \in Seq(User) /\ NoTwice(to) /\ Len(to) >= 1 /\ to[Len(to)] = u
      /\ \A y : In(y, to) <=> In(y, order) \/ y = u
  BY ToEndIs DEF CacheTypes, OnceEach
<1>3. ByUse(to, newer')
  BY <1>1, ToEndByUse
<1>4. /\ moved \in Seq(Key) /\ NoTwice(moved) /\ Len(moved) >= 1 /\ moved[Len(moved)] = k
      /\ \A y : In(y, moved) <=> In(y, keys[u]) \/ y = k
  BY ToEndIs DEF CacheTypes, OnceEach
<1> HIDE DEF to, moved, new
<1>5. /\ kept \in Seq(User) /\ NoTwice(kept) /\ In(u, kept) /\ \A y : In(y, kept) => In(y, to)
      /\ \A i, j \in DOMAIN kept : i < j =>
           \E a, b \in DOMAIN to : a < b /\ kept[i] = to[a] /\ kept[j] = to[b]
  <2>0. MaxUsers \in Nat \ {0} /\ to \in Seq(User) /\ NoTwice(to) /\ Len(to) >= 1
    BY <1>2, LimitsAssumption
  <2>1. kept \in Seq(User) /\ NoTwice(kept) /\ \A y : In(y, kept) => In(y, to)
    BY <2>0, TrimIs
  <2>2. In(to[Len(to)], kept)
    BY <2>0, TrimIs
  <2>3. \A i, j \in DOMAIN kept : i < j =>
          \E a, b \in DOMAIN to : a < b /\ kept[i] = to[a] /\ kept[j] = to[b]
    BY <2>0, TrimIs
  <2> QED
    BY <1>2, <2>1, <2>2, <2>3
<1>6. /\ mine \in Seq(Key) /\ NoTwice(mine) /\ In(k, mine) /\ \A y : In(y, mine) => In(y, moved)
  BY <1>4, LimitsAssumption, TrimIs
<1> HIDE DEF kept, mine
<1>7. new \in [value : Value, since : 0 .. clock] /\ new # Nothing
  BY NothingAssumption DEF CacheTypes, new
<1>8. CacheTypes'
  <2>1. keys' \in [User -> Seq(Key)]
    BY <1>1, <1>6 DEF CacheTypes
  <2>2. stored' \in [User -> [Key -> {Nothing} \cup [value : Value, since : 0 .. clock]]]
    <3> SUFFICES ASSUME NEW w \in User, NEW j \in Key
                 PROVE  stored'[w][j] \in {Nothing} \cup [value : Value, since : 0 .. clock]
      BY <1>1
    <3>1. stored'[w][j] \in {Nothing, new, stored[w][j]}
      BY <1>1
    <3>2. stored[w][j] \in {Nothing} \cup [value : Value, since : 0 .. clock]
      BY DEF CacheTypes
    <3> QED
      BY <1>7, <3>1, <3>2
  <2> QED
    BY <1>1, <1>5, <2>1, <2>2 DEF CacheTypes
<1>9. OnceEach'
  <2>1. NoTwice(<<>>)
    BY DEF NoTwice
  <2> QED
    BY <1>1, <1>5, <1>6, <2>1 DEF OnceEach
<1>10. ByUse(order, newer)'
  BY <1>1, <1>3, <1>5 DEF ByUse
<1>11. Entered'
  <2>0. \A w \in User : keys'[w] # <<>> => In(w, order')
    BY <1>1
  <2> SUFFICES ASSUME NEW w \in User, NEW j \in Key
               PROVE  stored'[w][j] # Nothing <=> In(j, keys'[w])
    BY <2>0 DEF Entered
  <2>1. CASE ~In(w, kept)
    BY <1>1, <2>1 DEF In
  <2>2. CASE In(w, kept) /\ w # u
    <3>1. keys'[w] = keys[w] /\ stored'[w][j] = stored[w][j]
      BY <1>1, <2>2
    <3> QED
      BY <3>1 DEF Entered
  <2>3. CASE In(w, kept) /\ w = u
    <3>1. keys'[w] = mine
      BY <1>1, <2>3
    <3>2. CASE ~In(j, mine)
      BY <1>1, <2>3, <3>1, <3>2
    <3>3. CASE In(j, mine) /\ j = k
      BY <1>1, <1>7, <2>3, <3>1, <3>3
    <3>4. CASE In(j, mine) /\ j # k
      <4>1. stored'[w][j] = stored[w][j] /\ In(j, keys[w])
        BY <1>1, <1>4, <1>6, <2>3, <3>4
      <4>2. stored[w][j] # Nothing
        BY <2>3, <4>1 DEF Entered
      <4> QED
        BY <2>3, <3>1, <3>4, <4>1, <4>2
    <3> QED
      BY <3>2, <3>3, <3>4
  <2> QED
    BY <2>1, <2>2, <2>3
<1> QED
  BY <1>8, <1>9, <1>10, <1>11

\* A clear takes one user out of the order, with all entries.
LEMMA ClearStep ==
  ASSUME CacheInv, NEW u \in User, Clear(u)
  PROVE  CacheInv'
<1> USE DEF CacheInv
<1>1. /\ order' = Without(order, u) /\ keys' = [keys EXCEPT ![u] = <<>>]
      /\ stored' = [stored EXCEPT ![u] = [k \in Key |-> Nothing]]
      /\ UNCHANGED <<clock, newer>>
  BY DEF Clear
<1>2. /\ order' \in Seq(User) /\ NoTwice(order')
      /\ \A y : In(y, order') <=> In(y, order) /\ y # u
      /\ \A i, j \in DOMAIN order' : i < j =>
           \E a, b \in DOMAIN order : a < b /\ order'[i] = order[a] /\ order'[j] = order[b]
  BY <1>1, WithoutIs DEF CacheTypes, OnceEach
<1>3. /\ keys' \in [User -> Seq(Key)] /\ keys'[u] = <<>>
      /\ \A w \in User : w # u => keys'[w] = keys[w]
  BY <1>1 DEF CacheTypes
<1>4. CacheTypes'
  BY <1>1, <1>2, <1>3 DEF CacheTypes
<1>5. OnceEach'
  <2>1. NoTwice(<<>>)
    BY DEF NoTwice
  <2> QED
    BY <1>2, <1>3, <2>1 DEF OnceEach
<1>6. ByUse(order, newer)'
  BY <1>1, <1>2 DEF ByUse
<1>7. Entered'
  <2>1. \A w \in User : keys'[w] # <<>> => In(w, order')
    BY <1>2, <1>3 DEF Entered
  <2>2. \A w \in User, k \in Key :
          stored'[w][k] = IF w = u THEN Nothing ELSE stored[w][k]
    BY <1>1 DEF CacheTypes
  <2>3. \A k : ~In(k, <<>>)
    BY DEF In
  <2> QED
    BY <1>3, <2>1, <2>2, <2>3 DEF Entered
<1> QED
  BY <1>4, <1>5, <1>6, <1>7

\* Every step keeps the invariant.
LEMMA StepCache ==
  ASSUME CacheInv, [Next]_vars
  PROVE  CacheInv'
<1>1. ASSUME UNCHANGED <<order, keys, stored, clock, newer>>
      PROVE  CacheInv'
  BY <1>1 DEF CacheInv, CacheTypes, OnceEach, ByUse, Entered
<1>2. ASSUME NEW u \in User, NEW k \in Key, Miss(u, k)
      PROVE  CacheInv'
  BY <1>1, <1>2 DEF Miss
<1>3. CASE Tick
  <2>1. clock' = clock + 1 /\ UNCHANGED <<order, keys, stored, newer>>
    BY <1>3 DEF Tick
  <2>2. clock \in Nat /\ clock' \in Nat /\ 0 .. clock \subseteq 0 .. clock'
    BY <2>1 DEF CacheInv, CacheTypes
  <2>3. \A u \in User, k \in Key : stored'[u][k] \in {Nothing} \cup [value : Value, since : 0 .. clock']
    BY <2>1, <2>2 DEF CacheInv, CacheTypes
  <2>4. CacheTypes'
    BY <2>1, <2>2, <2>3 DEF CacheInv, CacheTypes
  <2> QED
    BY <2>1, <2>4 DEF CacheInv, OnceEach, ByUse, Entered
<1>4. CASE UNCHANGED vars
  BY <1>1, <1>4 DEF vars
<1> QED
  BY <1>2, <1>3, <1>4, ExpiresStep, HitStep, PutStep, ClearStep DEF Next

\* The inductive invariant of the cache.
THEOREM CacheInvariant == Spec => []CacheInv
BY InitCache, StepCache, PTL DEF Spec

\* What a step evicts was used before all that stays.
EvictedEarlier(u, w) ==
  In(u, order) /\ ~In(u, order') /\ In(w, order') /\ order' # Without(order, u) =>
    <<w, u>> \in newer'

\* Trimming takes from the front of the order, a clear only who asked for it.
LEMMA EvictsEarlier ==
  ASSUME CacheInv, Next, NEW u \in User, NEW w \in User
  PROVE  EvictedEarlier(u, w)
<1> USE DEF CacheInv
<1>1. ASSUME NEW x \in User, NEW k \in Key, NEW v \in Value, Put(x, k, v)
      PROVE  EvictedEarlier(u, w)
  <2> DEFINE to == ToEnd(order, x)
             kept == Trim(to, MaxUsers)
  <2>1. order' = kept /\ Touch(x)
    BY <1>1 DEF Put
  <2>2. to \in Seq(User) /\ NoTwice(to) /\ \A y : In(y, to) <=> In(y, order) \/ y = x
    BY ToEndIs DEF CacheTypes, OnceEach
  <2>3. ByUse(to, newer')
    BY <2>1, ToEndByUse
  <2> HIDE DEF to
  <2>4. \A i \in DOMAIN to, j \in DOMAIN kept :
          ~In(to[i], kept) => \E b \in DOMAIN to : i < b /\ kept[j] = to[b]
    BY <2>2, LimitsAssumption, TrimIs
  <2> HIDE DEF kept
  <2>5. ASSUME In(u, order), ~In(u, kept), In(w, kept)
        PROVE  <<w, u>> \in newer'
    <3>1. PICK i \in DOMAIN to : to[i] = u
      BY <2>2, <2>5 DEF In
    <3>2. PICK j \in DOMAIN kept : kept[j] = w
      BY <2>5 DEF In
    <3>3. PICK b \in DOMAIN to : i < b /\ w = to[b]
      BY <2>4, <2>5, <3>1, <3>2
    <3> QED
      BY <2>3, <3>1, <3>3 DEF ByUse
  <2> QED
    BY <2>1, <2>5 DEF EvictedEarlier
<1>2. ASSUME NEW x \in User, NEW k \in Key, Hit(x, k)
      PROVE  EvictedEarlier(u, w)
  <2>1. order' = ToEnd(order, x)
    BY <1>2 DEF Hit
  <2>2. \A y : In(y, ToEnd(order, x)) <=> In(y, order) \/ y = x
    BY ToEndIs DEF CacheTypes, OnceEach
  <2> QED
    BY <2>1, <2>2 DEF EvictedEarlier
<1>3. ASSUME NEW x \in User, Clear(x)
      PROVE  EvictedEarlier(u, w)
  <2>1. order' = Without(order, x)
    BY <1>3 DEF Clear
  <2>2. \A y : In(y, Without(order, x)) <=> In(y, order) /\ y # x
    BY WithoutIs DEF CacheTypes, OnceEach
  <2> QED
    BY <2>1, <2>2 DEF EvictedEarlier
<1>4. ASSUME order' = order
      PROVE  EvictedEarlier(u, w)
  BY <1>4 DEF EvictedEarlier
<1>5. (\E x \in User, k \in Key : Miss(x, k) \/ Expires(x, k)) \/ Tick => order' = order
  BY DEF Miss, Expires, Tick
<1> QED
  BY <1>1, <1>2, <1>3, <1>4, <1>5 DEF Next

\* Trimmed off the front of the order are those used longest ago (PerUserCache.put).
THEOREM EvictionCorrect == Spec => EvictsLeastRecent
<1>1. CacheInv /\ [Next]_vars =>
        [\A u, w \in User :
           In(u, order) /\ ~In(u, order') /\ In(w, order') /\ order' # Without(order, u) =>
             <<w, u>> \in newer']_vars
  BY EvictsEarlier DEF EvictedEarlier
<1> QED
  BY <1>1, CacheInvariant, PTL DEF Spec, EvictsLeastRecent

\* The initial states are those of the forgetful cache.
LEMMA InitForgets == Init => Map!Init
BY DEF Init, Map!Init, Map!Empty

\* Every step is one of the forgetful cache's, or none.
LEMMA StepForgets ==
  ASSUME CacheInv, [Next]_vars
  PROVE  [Map!Next]_Map!vars
<1> USE DEF CacheInv
<1>0. \A u \in User, k \in Key :
        /\ stored[u][k] # Nothing <=> In(k, keys[u])
        /\ In(k, keys[u]) => In(u, order)
  BY DEF Entered, In
<1>1. ASSUME NEW u \in User, NEW k \in Key, Miss(u, k)
      PROVE  Map!Get(u, k)
  <2>1. stored[u][k] = Nothing
    BY <1>0, <1>1 DEF Miss
  <2>2. ~Map!Fresh(u, k)
    BY <2>1 DEF Map!Fresh
  <2>3. [stored EXCEPT ![u][k] = Nothing] = stored
    BY <2>1 DEF CacheTypes
  <2> QED
    BY <1>1, <2>2, <2>3 DEF Miss, Map!Get
<1>2. ASSUME NEW u \in User, NEW k \in Key, Expires(u, k)
      PROVE  Map!Get(u, k)
  <2>1. ~Map!Fresh(u, k)
    <3>1. SUFFICES ASSUME stored[u][k] # Nothing
                   PROVE  ~(clock - stored[u][k].since < TTL)
      BY DEF Map!Fresh
    <3>2. clock \in Nat /\ stored[u][k].since \in Nat /\ TTL \in Nat
      BY <3>1, LimitsAssumption DEF CacheTypes
    <3> QED
      BY <1>2, <3>2 DEF Expires, Expired
  <2> QED
    BY <1>2, <2>1 DEF Expires, Map!Get
<1>3. ASSUME NEW u \in User, NEW k \in Key, Hit(u, k)
      PROVE  Map!Get(u, k)
  <2>1. Map!Fresh(u, k)
    <3>1. stored[u][k] # Nothing
      BY <1>0, <1>3 DEF Hit
    <3>2. clock \in Nat /\ stored[u][k].since \in Nat /\ TTL \in Nat
      BY <3>1, LimitsAssumption DEF CacheTypes
    <3> QED
      BY <1>3, <3>1, <3>2 DEF Hit, Expired, Map!Fresh
  <2> QED
    BY <1>3, <2>1 DEF Hit, Map!Get
<1>4. ASSUME NEW u \in User, NEW k \in Key, NEW v \in Value, Put(u, k, v)
      PROVE  Map!Put(u, k, v)
  <2> DEFINE kept == Trim(ToEnd(order, u), MaxUsers)
             mine == Trim(ToEnd(keys[u], k), MaxEntries)
             new == [value |-> v, since |-> clock]
  <2>1. /\ stored' = [w \in User |-> [j \in Key |->
                        IF ~In(w, kept) \/ (w = u /\ ~In(j, mine)) THEN Nothing
                        ELSE IF <<w, j>> = <<u, k>> THEN new
                        ELSE stored[w][j]]]
        /\ clock' = clock /\ answer' = Nothing
    BY <1>4 DEF Put
  <2>2. In(u, kept) /\ In(k, mine)
    <3>1. /\ ToEnd(order, u) \in Seq(User) /\ NoTwice(ToEnd(order, u)) /\ Len(ToEnd(order, u)) >= 1
          /\ ToEnd(order, u)[Len(ToEnd(order, u))] = u
      BY ToEndIs DEF CacheTypes, OnceEach
    <3>2. /\ ToEnd(keys[u], k) \in Seq(Key) /\ NoTwice(ToEnd(keys[u], k)) /\ Len(ToEnd(keys[u], k)) >= 1
          /\ ToEnd(keys[u], k)[Len(ToEnd(keys[u], k))] = k
      BY ToEndIs DEF CacheTypes, OnceEach
    <3>3. In(ToEnd(order, u)[Len(ToEnd(order, u))], kept)
      BY <3>1, LimitsAssumption, TrimIs
    <3>4. In(ToEnd(keys[u], k)[Len(ToEnd(keys[u], k))], mine)
      BY <3>2, LimitsAssumption, TrimIs
    <3> QED
      BY <3>1, <3>2, <3>3, <3>4
  <2> HIDE DEF kept, mine
  <2>3. stored'[u][k] = new
    BY <2>1, <2>2
  <2> HIDE DEF new
  <2>4. \A w \in User, j \in Key : <<w, j>> # <<u, k>> => stored'[w][j] \in {stored[w][j], Nothing}
    BY <2>1
  <2>5. stored' \in [User -> [Key -> {Nothing} \cup [value : Value, since : 0 .. clock]]]
    BY <1>4, PutStep, <2>1 DEF CacheTypes
  <2> QED
    BY <2>1, <2>3, <2>4, <2>5 DEF Map!Put, new
<1>5. ASSUME NEW u \in User, Clear(u)
      PROVE  Map!Clear(u)
  BY <1>5 DEF Clear, Map!Clear, Map!Empty
<1>6. ASSUME Tick
      PROVE  Map!Passes
  BY <1>6 DEF Tick, Map!Passes
<1>7. CASE UNCHANGED vars
  BY <1>7 DEF vars, Map!vars
<1> HIDE DEF CacheInv
<1>8. CASE Next
  BY <1>1, <1>2, <1>3, <1>4, <1>5, <1>6, <1>8 DEF Next, Map!Next
<1> QED
  BY <1>7, <1>8

\* PerUserCache is a cache that forgets at will, and answers with what was last put
\* and is young enough, for each user apart: none of its evictions breaks that.
THEOREM CacheForgets == Spec => IsForgetfulCache
BY InitForgets, StepForgets, CacheInvariant, PTL DEF Spec, IsForgetfulCache, Map!Spec

-----------------------------------------------------------------------------
(* The two sliding windows *)

\* The times of what was let through up to now, PerWindow to a window.
History(all, t) ==
  /\ all \in Seq(Nat)
  /\ \A i \in DOMAIN all : all[i] <= t
  /\ \A i, j \in DOMAIN all : i <= j => all[i] <= all[j]
  /\ \A i, j \in DOMAIN all : i + PerWindow <= j => all[i] + Window <= all[j]

\* What a limiter remembers of them: the last ones, and what it forgot has left.
EndOf(kept, all, t) ==
  /\ kept \in Seq(Nat) /\ Len(kept) <= Len(all) /\ Len(kept) <= PerWindow
  /\ \A i \in 1 .. Len(kept) : kept[i] = all[Len(all) - Len(kept) + i]
  /\ \A i \in 1 .. Len(all) - Len(kept) : all[i] + Window <= t

\* A set of numbers that is not empty has a least one.
LEMMA LeastOf ==
  ASSUME NEW T \in SUBSET Nat, T # {}
  PROVE  \E m \in T : \A x \in T : m <= x
<1>1. PICK m \in T : \A x \in T : ~(<<x, m>> \in OpToRel(<, Nat))
  BY NatLessThanWellFounded, WFMin, Zenon
<1>2. \A x \in T : <<x, m>> \in Nat \X Nat
  OBVIOUS
<1>3. \A x \in T : ~(x < m)
  BY <1>1, <1>2 DEF OpToRel
<1> QED
  BY <1>3

\* A later time has not left a window that the earlier one is in.
LEMMA NotLeft ==
  ASSUME NEW x \in Nat, NEW y \in Nat, NEW w \in Nat, NEW t \in Nat, x <= y, ~(t >= x + w)
  PROVE  y + w > t
OBVIOUS

\* There is a first time inside the window, or all have left it.
LEMMA FirstIs ==
  ASSUME NEW times \in Seq(Nat), now \in Nat
  PROVE  /\ FirstInside(times) \in 1 .. Len(times) + 1
         /\ \A j \in 1 .. FirstInside(times) - 1 : times[j] + Window <= now
         /\ FirstInside(times) <= Len(times) => times[FirstInside(times)] + Window > now
<1> DEFINE T == {i \in 1 .. Len(times) + 1 : i <= Len(times) => times[i] + Window > now}
           P(i) == /\ \A j \in 1 .. i - 1 : times[j] + Window <= now
                   /\ i <= Len(times) => times[i] + Window > now
<1>1. Len(times) \in Nat /\ Window \in Nat /\ \A i \in 1 .. Len(times) : times[i] \in Nat
  BY RateAssumption
<1>2. T \in SUBSET Nat /\ Len(times) + 1 \in T
  BY <1>1
<1>3. PICK m \in T : \A x \in T : m <= x
  <2> HIDE DEF T
  <2> QED
    BY <1>2, LeastOf
<1>4. \A j \in 1 .. m - 1 : times[j] + Window <= now
  <2> SUFFICES ASSUME NEW j \in 1 .. m - 1, ~(times[j] + Window <= now)
               PROVE  FALSE
    OBVIOUS
  <2>1. j \in 1 .. Len(times) /\ j < m
    BY <1>1, <1>3
  <2>2. times[j] + Window > now
    BY <1>1, <2>1
  <2>3. j \in T
    BY <1>1, <2>1, <2>2
  <2> QED
    BY <1>1, <1>3, <2>1, <2>3
<1>5. m \in 1 .. Len(times) + 1 /\ P(m)
  BY <1>3, <1>4
<1>6. FirstInside(times) = CHOOSE i \in 1 .. Len(times) + 1 : P(i)
  BY DEF FirstInside
<1> HIDE DEF P
<1>7. FirstInside(times) \in 1 .. Len(times) + 1 /\ P(FirstInside(times))
  BY <1>5, <1>6
<1> QED
  BY <1>7 DEF P

\* Evicting keeps what has not left, which is the end of it all still.
LEMMA InsideIs ==
  ASSUME NEW kept, NEW all, now \in Nat, History(all, now), EndOf(kept, all, now)
  PROVE  /\ EndOf(Inside(kept), all, now)
         /\ \A i \in 1 .. Len(Inside(kept)) : Inside(kept)[i] + Window > now
<1> DEFINE f == FirstInside(kept)
           in == SubSeq(kept, f, Len(kept))
           n == Len(all)
           k == Len(kept)
<1>1. /\ kept \in Seq(Nat) /\ all \in Seq(Nat) /\ n \in Nat /\ k \in Nat /\ k <= n /\ k <= PerWindow
      /\ Window \in Nat /\ PerWindow \in Nat
  BY RateAssumption DEF History, EndOf
<1>2. /\ f \in 1 .. k + 1 /\ (\A j \in 1 .. f - 1 : kept[j] + Window <= now)
      /\ f <= k => kept[f] + Window > now
  BY <1>1, FirstIs
<1>3. Inside(kept) = in
  BY DEF Inside
<1> HIDE DEF f
<1>4. in \in Seq(Nat) /\ Len(in) = k - f + 1 /\ \A i \in 1 .. k - f + 1 : in[i] = kept[f + i - 1]
  <2>1. f \in 1 .. Len(kept) + 1 /\ Len(kept) \in f - 1 .. Len(kept) /\ f \in Nat
    BY <1>1, <1>2
  <2>2. in \in Seq(Nat) /\ Len(in) = Len(kept) - f + 1
    BY <1>1, <2>1, SubSeqProperties
  <2>3. \A i \in 1 .. Len(kept) - f + 1 : in[i] = kept[f + i - 1]
    BY <1>1, <2>1, SubSeqProperties
  <2> QED
    BY <2>2, <2>3
<1>5. /\ \A i \in 1 .. k : kept[i] = all[n - k + i]
      /\ \A i \in 1 .. n - k : all[i] + Window <= now
      /\ \A i, j \in 1 .. n : i <= j => all[i] <= all[j]
      /\ \A i \in 1 .. n : all[i] \in Nat
  BY <1>1 DEF EndOf, History
<1> HIDE DEF in, n, k
<1>6. \A i \in 1 .. Len(in) : in[i] = all[n - Len(in) + i]
  <2> TAKE i \in 1 .. Len(in)
  <2>1. f + i - 1 \in 1 .. k /\ n - k + (f + i - 1) = n - Len(in) + i
    BY <1>1, <1>2, <1>4
  <2>2. in[i] = kept[f + i - 1]
    BY <1>4
  <2> QED
    BY <1>5, <2>1, <2>2
<1>7. \A i \in 1 .. n - Len(in) : all[i] + Window <= now
  <2> TAKE i \in 1 .. n - Len(in)
  <2>1. CASE i <= n - k
    <3>1. i \in 1 .. n - k
      BY <1>1, <1>4, <2>1
    <3> QED
      BY <1>5, <3>1
  <2>2. CASE i > n - k
    <3>1. /\ i - (n - k) \in 1 .. f - 1 /\ i - (n - k) \in 1 .. k
          /\ n - k + (i - (n - k)) = i
      BY <1>1, <1>2, <1>4, <2>2
    <3>2. kept[i - (n - k)] + Window <= now /\ kept[i - (n - k)] = all[n - k + (i - (n - k))]
      BY <1>2, <1>5, <3>1
    <3> QED
      BY <3>1, <3>2
  <2> QED
    BY <1>1, <1>4, <2>1, <2>2
<1>8. \A i \in 1 .. Len(in) : in[i] + Window > now
  <2> TAKE i \in 1 .. Len(in)
  <2>1. /\ f \in 1 .. k /\ f + i - 1 \in 1 .. k /\ f <= k
        /\ n - k + f \in 1 .. n /\ n - k + (f + i - 1) \in 1 .. n /\ n - k + f <= n - k + (f + i - 1)
    BY <1>1, <1>2, <1>4
  <2>2. all[n - k + f] <= all[n - k + (f + i - 1)] /\ all[n - k + f] \in Nat
        /\ all[n - k + (f + i - 1)] \in Nat
    BY <1>5, <2>1
  <2>3. kept[f] = all[n - k + f] /\ in[i] = all[n - k + (f + i - 1)] /\ kept[f] + Window > now
    BY <1>2, <1>4, <1>5, <2>1
  <2>4. kept[f] <= in[i] /\ kept[f] \in Nat /\ in[i] \in Nat
    BY <2>2, <2>3
  <2>5. kept[f] + Window > now
    BY <2>3
  <2> QED
    BY <1>1, <2>4, <2>5
<1>9. Len(in) <= n /\ Len(in) <= PerWindow
  BY <1>1, <1>2, <1>4
<1> QED
  BY <1>3, <1>4, <1>6, <1>7, <1>8, <1>9 DEF EndOf, n

\* One more is let through while fewer than PerWindow are remembered.
LEMMA OneMore ==
  ASSUME NEW kept, NEW all, now \in Nat, History(all, now), EndOf(kept, all, now),
         Len(kept) < PerWindow
  PROVE  /\ History(Append(all, now), now)
         /\ EndOf(Append(kept, now), Append(all, now), now)
<1> DEFINE n == Len(all)
           k == Len(kept)
           more == Append(all, now)
           mine == Append(kept, now)
<1>1. /\ kept \in Seq(Nat) /\ all \in Seq(Nat) /\ n \in Nat /\ k \in Nat /\ k <= n /\ k < PerWindow
      /\ Window \in Nat /\ PerWindow \in Nat /\ now \in Nat
  BY RateAssumption DEF History, EndOf
<1>2. /\ more \in Seq(Nat) /\ Len(more) = n + 1 /\ DOMAIN more = 1 .. n + 1
      /\ more[n + 1] = now /\ \A i \in 1 .. n : more[i] = all[i]
  BY <1>1
<1>3. /\ mine \in Seq(Nat) /\ Len(mine) = k + 1 /\ mine[k + 1] = now
      /\ \A i \in 1 .. k : mine[i] = kept[i]
  BY <1>1
<1>4. /\ \A i \in 1 .. k : kept[i] = all[n - k + i]
      /\ \A i \in 1 .. n - k : all[i] + Window <= now
      /\ \A i \in 1 .. n : all[i] <= now
      /\ \A i, j \in 1 .. n : i <= j => all[i] <= all[j]
      /\ \A i, j \in 1 .. n : i + PerWindow <= j => all[i] + Window <= all[j]
  <2>1. /\ \A i \in 1 .. k : kept[i] = all[n - k + i]
        /\ \A i \in 1 .. n - k : all[i] + Window <= now
    BY DEF EndOf
  <2>2. DOMAIN all = 1 .. n
    BY <1>1
  <2>3. /\ \A i \in DOMAIN all : all[i] <= now
        /\ \A i, j \in DOMAIN all : i <= j => all[i] <= all[j]
        /\ \A i, j \in DOMAIN all : i + PerWindow <= j => all[i] + Window <= all[j]
    BY DEF History
  <2> HIDE DEF n, k
  <2> QED
    BY <2>1, <2>2, <2>3
<1> HIDE DEF more, mine, n, k
<1>5. ASSUME NEW i \in 1 .. n + 1
      PROVE  more[i] <= now
  <2>1. CASE i = n + 1
    BY <1>1, <1>2, <2>1
  <2>2. CASE i # n + 1
    <3>1. i \in 1 .. n
      BY <1>1, <2>2
    <3> QED
      BY <1>2, <1>4, <3>1
  <2> QED
    BY <2>1, <2>2
<1>6. ASSUME NEW i \in 1 .. n + 1, NEW j \in 1 .. n + 1, i <= j
      PROVE  more[i] <= more[j]
  <2>1. CASE j = n + 1
    BY <1>2, <1>5, <2>1
  <2>2. CASE j # n + 1
    <3>1. i \in 1 .. n /\ j \in 1 .. n
      BY <1>1, <1>6, <2>2
    <3> QED
      BY <1>2, <1>4, <1>6, <3>1
  <2> QED
    BY <2>1, <2>2
<1>7. ASSUME NEW i \in 1 .. n + 1, NEW j \in 1 .. n + 1, i + PerWindow <= j
      PROVE  more[i] + Window <= more[j]
  <2>1. CASE j = n + 1
    <3>1. i \in 1 .. n - k /\ i \in 1 .. n
      BY <1>1, <1>7, <2>1
    <3> QED
      BY <1>2, <1>4, <2>1, <3>1
  <2>2. CASE j # n + 1
    <3>1. i \in 1 .. n /\ j \in 1 .. n
      BY <1>1, <1>7, <2>2
    <3> QED
      BY <1>2, <1>4, <1>7, <3>1
  <2> QED
    BY <2>1, <2>2
<1>8. \A i \in 1 .. k + 1 : mine[i] = more[(n + 1) - (k + 1) + i]
  <2> TAKE i \in 1 .. k + 1
  <2>1. CASE i = k + 1
    <3>1. (n + 1) - (k + 1) + i = n + 1
      BY <1>1, <2>1
    <3> QED
      BY <1>2, <1>3, <2>1, <3>1
  <2>2. CASE i # k + 1
    <3>1. i \in 1 .. k /\ (n + 1) - (k + 1) + i = n - k + i /\ n - k + i \in 1 .. n
      BY <1>1, <2>2
    <3> QED
      BY <1>2, <1>3, <1>4, <3>1
  <2> QED
    BY <2>1, <2>2
<1>9. \A i \in 1 .. (n + 1) - (k + 1) : more[i] + Window <= now
  <2> TAKE i \in 1 .. (n + 1) - (k + 1)
  <2>1. i \in 1 .. n - k /\ i \in 1 .. n
    BY <1>1
  <2> QED
    BY <1>2, <1>4, <2>1
<1>10. History(more, now)
  BY <1>2, <1>5, <1>6, <1>7 DEF History
<1>11. EndOf(mine, more, now)
  <2>1. k + 1 <= n + 1 /\ k + 1 <= PerWindow
    BY <1>1
  <2> QED
    BY <1>2, <1>3, <1>8, <1>9, <2>1 DEF EndOf
<1> QED
  BY <1>10, <1>11 DEF more, mine

\* No window holds more than PerWindow: its first time and the one PerWindow later
\* are not both in it.
LEMMA AtMost ==
  ASSUME NEW all, NEW t \in Nat, History(all, t), NEW end \in Nat
  PROVE  /\ InWindow(all, end) \in Nat /\ InWindow(all, end) <= PerWindow
         /\ IsFiniteSet({i \in DOMAIN all : end - Window < all[i] /\ all[i] <= end})
<1> DEFINE S == {i \in DOMAIN all : end - Window < all[i] /\ all[i] <= end}
<1>1. /\ all \in Seq(Nat) /\ Len(all) \in Nat /\ DOMAIN all = 1 .. Len(all)
      /\ Window \in Nat /\ PerWindow \in Nat /\ PerWindow >= 1
      /\ \A i \in DOMAIN all : all[i] \in Nat
  BY RateAssumption DEF History
<1>2. S \subseteq 1 .. Len(all) /\ S \in SUBSET Nat
  BY <1>1
<1>3. CASE S = {}
  <2>1. Cardinality(S) = 0 /\ IsFiniteSet(S)
    BY <1>3, FS_EmptySet
  <2> QED
    BY <1>1, <2>1 DEF InWindow
<1>4. CASE S # {}
  <2>1. PICK m \in S : \A x \in S : m <= x
    <3> HIDE DEF S
    <3> QED
      BY <1>2, <1>4, LeastOf
  <2>2. m \in Nat /\ m \in 1 .. Len(all) /\ all[m] \in Nat /\ end - Window < all[m]
    BY <1>1, <1>2, <2>1
  <2>3. S \subseteq m .. m + PerWindow - 1
    <3> SUFFICES ASSUME NEW i \in S, ~(i <= m + PerWindow - 1)
                 PROVE  FALSE
      BY <1>1, <1>2, <2>1, <2>2
    <3>1. i \in 1 .. Len(all) /\ all[i] \in Nat /\ all[i] <= end /\ m + PerWindow <= i
      BY <1>1, <1>2, <2>2
    <3>2. all[m] + Window <= all[i]
      BY <1>1, <2>2, <3>1 DEF History
    <3> QED
      BY <1>1, <2>2, <3>1, <3>2
  <2> HIDE DEF S
  <2>4. /\ IsFiniteSet(m .. m + PerWindow - 1)
        /\ Cardinality(m .. m + PerWindow - 1) = PerWindow
    <3>1. m + PerWindow - 1 \in Int /\ m \in Int /\ m <= m + PerWindow - 1
          /\ (m + PerWindow - 1) - m + 1 = PerWindow
      BY <1>1, <2>2
    <3> QED
      BY <3>1, FS_Interval
  <2>5. IsFiniteSet(S) /\ Cardinality(S) <= PerWindow
    BY <2>3, <2>4, FS_Subset
  <2>6. Cardinality(S) \in Nat
    BY <2>5, FS_CardinalityType
  <2> QED
    BY <2>5, <2>6 DEF InWindow, S
<1> QED
  BY <1>3, <1>4

\* Where PerWindow are remembered and none has left, the window is full.
LEMMA IsFull ==
  ASSUME NEW kept, NEW all, NEW t \in Nat, History(all, t), EndOf(kept, all, t),
         Len(kept) >= PerWindow, \A i \in 1 .. Len(kept) : kept[i] + Window > t
  PROVE  InWindow(all, t) = PerWindow
<1> DEFINE S == {i \in DOMAIN all : t - Window < all[i] /\ all[i] <= t}
           n == Len(all)
           k == Len(kept)
<1>1. /\ kept \in Seq(Nat) /\ all \in Seq(Nat) /\ n \in Nat /\ k \in Nat /\ k <= n /\ k = PerWindow
      /\ Window \in Nat /\ PerWindow \in Nat /\ PerWindow >= 1 /\ DOMAIN all = 1 .. n
      /\ \A i \in 1 .. n : all[i] \in Nat
  BY RateAssumption DEF History, EndOf
<1>2. \A i \in 1 .. k : kept[i] = all[n - k + i]
  BY DEF EndOf
<1>3. \A i \in 1 .. n : all[i] <= t
  BY <1>1 DEF History
<1>4. \A i \in 1 .. k : kept[i] + Window > t
  OBVIOUS
<1> HIDE DEF n, k
<1>5. n - k + 1 .. n \subseteq S
  <2> SUFFICES ASSUME NEW i \in n - k + 1 .. n
               PROVE  i \in 1 .. n /\ t - Window < all[i] /\ all[i] <= t
    BY <1>1
  <2>1. i \in 1 .. n /\ i - (n - k) \in 1 .. k /\ n - k + (i - (n - k)) = i
    BY <1>1
  <2>2. all[i] + Window > t /\ all[i] \in Nat
    BY <1>1, <1>2, <1>4, <2>1
  <2> QED
    BY <1>1, <1>3, <2>1, <2>2
<1> HIDE DEF S
<1>6. IsFiniteSet(n - k + 1 .. n) /\ Cardinality(n - k + 1 .. n) = PerWindow
  <2>1. n - k + 1 \in Int /\ n \in Int /\ n - k + 1 <= n /\ n - (n - k + 1) + 1 = PerWindow
    BY <1>1
  <2> QED
    BY <2>1, FS_Interval
<1>7. Cardinality(S) \in Nat /\ Cardinality(S) <= PerWindow /\ IsFiniteSet(S)
  BY AtMost DEF InWindow, S
<1>8. PerWindow <= Cardinality(S)
  BY <1>5, <1>6, <1>7, FS_Subset
<1>9. Cardinality(S) = PerWindow
  BY <1>1, <1>7, <1>8
<1> QED
  BY <1>9 DEF InWindow, S

\* What the limiter remembers of address a.
Recent(a) == IF a \in DOMAIN hits THEN hits[a] ELSE <<>>

\* What each limiter let through, and what it remembers of that.
Remembers ==
  /\ now \in Nat /\ passed \in [Address -> Seq(Nat)] /\ DOMAIN hits \subseteq Address
  /\ \A a \in Address : History(passed[a], now) /\ EndOf(Recent(a), passed[a], now)
  /\ History(made, now) /\ EndOf(calls, made, now)

\* A sleeper waits for the oldest of a full window to leave.
SleepsRightly == asleep # None => Len(calls) >= PerWindow /\ asleep.until = calls[1] + Window

\* Whoever was refused met a full window.
RefusesRightly ==
  answered # None =>
    answered.who \in Address /\ (answered.ok \/ InWindow(passed[answered.who], now) = PerWindow)

\* The inductive invariant of the limiters.
RateInv == Remembers /\ SleepsRightly /\ RefusesRightly

\* What was let through stays so, and what has left the window has left it.
LEMMA LaterToo ==
  ASSUME NEW t \in Nat, NEW kept, NEW all, History(all, t)
  PROVE  History(all, t + 1) /\ (EndOf(kept, all, t) => EndOf(kept, all, t + 1))
<1>1. /\ all \in Seq(Nat) /\ Window \in Nat
      /\ \A i \in 1 .. Len(all) : all[i] \in Nat /\ all[i] <= t
      /\ DOMAIN all = 1 .. Len(all) /\ Len(all) \in Nat
  BY RateAssumption DEF History
<1>2. \A i \in 1 .. Len(all) : all[i] <= t + 1
  BY <1>1
<1>3. History(all, t + 1)
  BY <1>1, <1>2 DEF History
<1>4. ASSUME EndOf(kept, all, t)
      PROVE  EndOf(kept, all, t + 1)
  <2>1. \A i \in 1 .. Len(all) - Len(kept) : all[i] + Window <= t + 1
    <3> TAKE i \in 1 .. Len(all) - Len(kept)
    <3>1. i \in 1 .. Len(all) /\ all[i] + Window <= t
      BY <1>1, <1>4 DEF EndOf
    <3> QED
      BY <1>1, <3>1
  <2> QED
    BY <1>4, <2>1 DEF EndOf
<1> QED
  BY <1>3, <1>4

\* The sweep forgets those of whom all has left the window.
LEMMA SweepForgets ==
  ASSUME Remembers, NEW a \in Address
  PROVE  EndOf(IF a \in DOMAIN Swept THEN Swept[a] ELSE <<>>, passed[a], now)
<1>1. CASE a \in DOMAIN Swept
  <2>1. a \in DOMAIN hits /\ Swept[a] = hits[a]
    BY <1>1 DEF Swept, Restrict
  <2> QED
    BY <1>1, <2>1 DEF Remembers, Recent
<1>2. CASE a \notin DOMAIN hits
  <2>1. a \notin DOMAIN Swept
    BY <1>2 DEF Swept, Restrict
  <2> QED
    BY <1>2, <2>1 DEF Remembers, Recent
<1>3. CASE a \in DOMAIN hits /\ a \notin DOMAIN Swept
  <2> DEFINE kept == hits[a]
             all == passed[a]
             n == Len(all)
             k == Len(kept)
  <2>1. EndOf(kept, all, now) /\ History(all, now) /\ Idle(a) /\ now \in Nat
    BY <1>3 DEF Remembers, Recent, Swept, Restrict
  <2>2. kept = <<>> \/ Last(kept) + Window <= now
    BY <2>1 DEF Idle
  <2> HIDE DEF kept, all
  <2>3. /\ kept \in Seq(Nat) /\ all \in Seq(Nat) /\ n \in Nat /\ k \in Nat /\ k <= n
        /\ Window \in Nat /\ PerWindow \in Nat /\ DOMAIN all = 1 .. n
        /\ \A i \in 1 .. n : all[i] \in Nat
    BY <2>1, RateAssumption DEF EndOf, History
  <2>4. /\ \A i \in 1 .. k : kept[i] = all[n - k + i]
        /\ \A i \in 1 .. n - k : all[i] + Window <= now
        /\ \A i, j \in DOMAIN all : i <= j => all[i] <= all[j]
    BY <2>1 DEF EndOf, History
  <2>5. CASE kept = <<>>
    BY <1>3, <2>1, <2>5 DEF kept, all
  <2>6. CASE kept # <<>>
    <3>1. k >= 1 /\ Last(kept) = kept[k]
      BY <2>3, <2>6 DEF Last
    <3> HIDE DEF n, k
    <3>2. Last(kept) = all[n]
      <4>1. k \in 1 .. k /\ n - k + k = n
        BY <2>3, <3>1
      <4>2. kept[k] = all[n - k + k]
        BY <2>4, <4>1
      <4> QED
        BY <3>1, <4>1, <4>2
    <3>3. \A i \in 1 .. n : all[i] + Window <= now
      <4> TAKE i \in 1 .. n
      <4>1. all[n] + Window <= now /\ n \in 1 .. n /\ i <= n
        BY <2>2, <2>3, <2>6, <3>2
      <4>2. all[i] <= all[n] /\ all[i] \in Nat /\ all[n] \in Nat
        BY <2>3, <2>4, <4>1
      <4> QED
        BY <2>1, <2>3, <4>1, <4>2
    <3>4. EndOf(<<>>, all, now)
      BY <2>3, <3>3 DEF EndOf, n
    <3> QED
      BY <1>3, <3>4 DEF all
  <2> QED
    BY <2>5, <2>6
<1> QED
  BY <1>1, <1>2, <1>3

\* Nothing was let through yet.
LEMMA InitRate == RateInit => RateInv
<1> SUFFICES ASSUME RateInit
             PROVE  RateInv
  OBVIOUS
<1> USE DEF RateInit
<1>1. History(<<>>, 0) /\ EndOf(<<>>, <<>>, 0)
  BY RateAssumption DEF History, EndOf
<1>2. Remembers
  BY <1>1 DEF Remembers, Recent
<1>3. SleepsRightly /\ RefusesRightly
  BY DEF SleepsRightly, RefusesRightly
<1> QED
  BY <1>2, <1>3 DEF RateInv

\* A request is let through, or refused because the window is full.
LEMMA GateStep ==
  ASSUME RateInv, NEW r \in Incoming, Gate(r), UNCHANGED <<now, outward>>
  PROVE  RateInv'
<1> USE DEF RateInv
<1> DEFINE a == AddressOf(r)
           mine == IF a \in DOMAIN Swept THEN Inside(Swept[a]) ELSE <<>>
           ok == Len(mine) < PerWindow
<1>1. a \in Address /\ now \in Nat
  BY DEF Address, Remembers
<1>2. SleepsRightly'
  BY DEF SleepsRightly, outward
<1>3. CASE ~Expensive(r)
  <2>1. answered' = None /\ UNCHANGED <<hits, passed>>
    BY <1>3 DEF Gate
  <2>2. Remembers'
    BY <2>1 DEF Remembers, Recent, outward
  <2>3. RefusesRightly'
    BY <2>1 DEF RefusesRightly
  <2> QED
    BY <1>2, <2>2, <2>3
<1>4. CASE Expensive(r)
  <2>1. /\ hits' = [b \in DOMAIN Swept \cup {a} |->
                      IF b # a THEN Swept[b] ELSE IF ok THEN Append(mine, now) ELSE mine]
        /\ passed' = IF ok THEN [passed EXCEPT ![a] = Append(@, now)] ELSE passed
        /\ answered' = [who |-> a, ok |-> ok]
    BY <1>4 DEF Gate
  <2>2. History(passed[a], now) /\ passed \in [Address -> Seq(Nat)]
    BY <1>1 DEF Remembers
  <2>3. EndOf(mine, passed[a], now) /\ \A i \in 1 .. Len(mine) : mine[i] + Window > now
    <3>1. EndOf(IF a \in DOMAIN Swept THEN Swept[a] ELSE <<>>, passed[a], now)
      BY <1>1, SweepForgets
    <3>2. CASE a \in DOMAIN Swept
      BY <1>1, <2>2, <3>1, <3>2, InsideIs
    <3>3. CASE a \notin DOMAIN Swept
      BY <3>1, <3>3
    <3> QED
      BY <3>2, <3>3
  <2>4. DOMAIN Swept \subseteq DOMAIN hits
    BY DEF Swept, Restrict
  <2> HIDE DEF mine, a
  <2>5. /\ DOMAIN hits' \subseteq Address
        /\ hits'[a] = IF ok THEN Append(mine, now) ELSE mine
        /\ a \in DOMAIN hits'
        /\ \A b \in Address \ {a} : Recent(b)' = IF b \in DOMAIN Swept THEN Swept[b] ELSE <<>>
    BY <1>1, <2>1, <2>4 DEF Remembers, Recent
  <2>6. \A b \in Address \ {a} : EndOf(Recent(b)', passed[b], now)
    BY <2>5, SweepForgets
  <2>7. CASE ok
    <3>1. History(Append(passed[a], now), now) /\ EndOf(Append(mine, now), Append(passed[a], now), now)
      BY <1>1, <2>2, <2>3, <2>7, OneMore
    <3>2. /\ passed' \in [Address -> Seq(Nat)] /\ passed'[a] = Append(passed[a], now)
          /\ \A b \in Address \ {a} : passed'[b] = passed[b]
      <4>1. passed' = [passed EXCEPT ![a] = Append(passed[a], now)]
        BY <2>1, <2>7
      <4>2. Append(passed[a], now) \in Seq(Nat)
        BY <3>1 DEF History
      <4> QED
        BY <1>1, <2>2, <4>1, <4>2
    <3>3. Recent(a)' = Append(mine, now)
      BY <2>5, <2>7 DEF Recent
    <3>4. \A b \in Address : History(passed'[b], now) /\ EndOf(Recent(b)', passed'[b], now)
      <4> TAKE b \in Address
      <4>1. CASE b = a
        BY <3>1, <3>2, <3>3, <4>1
      <4>2. CASE b # a
        BY <2>6, <3>2, <4>2 DEF Remembers
      <4> QED
        BY <4>1, <4>2
    <3>5. Remembers'
      BY <1>1, <2>5, <3>2, <3>4 DEF Remembers, outward
    <3>6. RefusesRightly'
      BY <1>1, <2>1, <2>7 DEF RefusesRightly
    <3> QED
      BY <1>2, <3>5, <3>6
  <2>8. CASE ~ok
    <3>1. passed' = passed /\ Recent(a)' = mine
      BY <2>1, <2>5, <2>8 DEF Recent
    <3>2. \A b \in Address : History(passed[b], now) /\ EndOf(Recent(b)', passed[b], now)
      BY <2>3, <2>6, <3>1 DEF Remembers
    <3>3. Remembers'
      BY <1>1, <2>5, <3>1, <3>2 DEF Remembers, outward
    <3>4. Len(mine) >= PerWindow
      <4>1. Len(mine) \in Nat /\ PerWindow \in Nat
        BY <2>3, RateAssumption DEF EndOf
      <4> QED
        BY <2>8, <4>1
    <3>5. InWindow(passed[a], now) = PerWindow
      BY <1>1, <2>2, <2>3, <3>4, IsFull
    <3>6. RefusesRightly'
      <4>1. answered'.who = a
        BY <2>1
      <4> QED
        BY <1>1, <3>1, <3>5, <4>1 DEF RefusesRightly
    <3> QED
      BY <1>2, <3>3, <3>6
  <2> QED
    BY <2>7, <2>8
<1> QED
  BY <1>3, <1>4

\* The gate is as it was: what it remembers, and what it answered last.
LEMMA GateStays ==
  ASSUME RateInv, UNCHANGED <<now, gate>>, History(made', now), EndOf(calls', made', now)
  PROVE  Remembers' /\ RefusesRightly'
BY DEF RateInv, Remembers, Recent, RefusesRightly, gate

\* Whoever acquires calls at once, or sleeps for a full window's oldest call.
LEMMA AcquireStep ==
  ASSUME RateInv, NEW c \in Caller, Acquire(c)
  PROVE  RateInv'
<1> USE DEF RateInv
<1> DEFINE kept == Inside(calls)
<1>1. /\ asleep = None /\ UNCHANGED <<now, gate>>
      /\ IF Len(kept) >= PerWindow
         THEN /\ asleep' = [who |-> c, until |-> Head(kept) + Window]
              /\ calls' = kept /\ UNCHANGED made
         ELSE Call(kept)
  BY DEF Acquire
<1>2. /\ EndOf(kept, made, now) /\ History(made, now) /\ now \in Nat
  BY InsideIs DEF Remembers
<1> HIDE DEF kept
<1>3. Len(kept) \in Nat /\ PerWindow \in Nat /\ PerWindow >= 1 /\ kept \in Seq(Nat)
  BY <1>2, RateAssumption DEF EndOf
<1>4. CASE Len(kept) >= PerWindow
  <2>1. asleep' = [who |-> c, until |-> Head(kept) + Window] /\ calls' = kept /\ made' = made
    BY <1>1, <1>4
  <2>2. Head(kept) = kept[1]
    BY <1>3, <1>4
  <2>3. SleepsRightly'
    BY <1>4, <2>1, <2>2 DEF SleepsRightly
  <2> QED
    BY <1>1, <1>2, <2>1, <2>3, GateStays
<1>5. CASE ~(Len(kept) >= PerWindow)
  <2>1. calls' = Append(kept, now) /\ made' = Append(made, now) /\ asleep' = None
    BY <1>1, <1>5 DEF Call
  <2>2. Len(kept) < PerWindow
    BY <1>3, <1>5
  <2>3. History(Append(made, now), now) /\ EndOf(Append(kept, now), Append(made, now), now)
    BY <1>2, <2>2, OneMore
  <2>4. SleepsRightly'
    BY <2>1 DEF SleepsRightly
  <2> QED
    BY <1>1, <2>1, <2>3, <2>4, GateStays
<1> QED
  BY <1>4, <1>5

\* By the time the sleeper wakes the oldest has left: there is room for one.
LEMMA WakeStep ==
  ASSUME RateInv, Wake
  PROVE  RateInv'
<1> USE DEF RateInv
<1> DEFINE kept == Inside(calls)
<1>1. /\ asleep # None /\ now >= asleep.until /\ UNCHANGED <<now, gate>>
      /\ calls' = Append(kept, now) /\ made' = Append(made, now) /\ asleep' = None
  BY DEF Wake, Call
<1>2. /\ EndOf(kept, made, now) /\ History(made, now) /\ now \in Nat
      /\ EndOf(calls, made, now) /\ \A i \in 1 .. Len(kept) : kept[i] + Window > now
  BY InsideIs DEF Remembers
<1>3. Len(calls) >= PerWindow /\ now >= calls[1] + Window
  BY <1>1 DEF SleepsRightly
<1>4. Len(kept) < PerWindow
  <2>1. /\ calls \in Seq(Nat) /\ made \in Seq(Nat) /\ kept \in Seq(Nat)
        /\ Len(calls) \in Nat /\ Len(made) \in Nat /\ Len(kept) \in Nat
        /\ PerWindow \in Nat /\ PerWindow >= 1 /\ Window \in Nat /\ Len(calls) = PerWindow
        /\ Len(calls) <= Len(made) /\ Len(kept) <= PerWindow /\ calls[1] \in Nat
    <3> HIDE DEF kept
    <3>1. /\ calls \in Seq(Nat) /\ Len(calls) <= Len(made) /\ Len(calls) <= PerWindow
      BY <1>2 DEF EndOf
    <3>2. /\ kept \in Seq(Nat) /\ Len(kept) <= PerWindow /\ made \in Seq(Nat)
      BY <1>2 DEF EndOf, History
    <3>3. Len(calls) \in Nat /\ Len(made) \in Nat /\ Len(kept) \in Nat
      BY <3>1, <3>2
    <3>4. PerWindow \in Nat /\ PerWindow >= 1 /\ Window \in Nat
      BY RateAssumption
    <3>5. Len(calls) = PerWindow
      BY <1>3, <3>1, <3>3, <3>4
    <3>6. 1 \in 1 .. Len(calls)
      BY <3>3, <3>4, <3>5
    <3>7. calls[1] \in Nat
      BY <3>1, <3>6
    <3> QED
      BY <3>1, <3>2, <3>3, <3>4, <3>5, <3>7
  <2>2. calls[1] = made[Len(made) - Len(calls) + 1]
    <3>1. 1 \in 1 .. Len(calls)
      BY <2>1
    <3> QED
      BY <1>2, <3>1 DEF EndOf
  <2>3. ASSUME Len(kept) = PerWindow
        PROVE  FALSE
    <3> HIDE DEF kept
    <3>1. 1 \in 1 .. Len(kept) /\ Len(made) - Len(kept) + 1 = Len(made) - Len(calls) + 1
      BY <2>1, <2>3
    <3>2. kept[1] = made[Len(made) - Len(kept) + 1] /\ kept[1] + Window > now
      BY <1>2, <3>1 DEF EndOf
    <3>3. kept[1] = calls[1]
      BY <2>2, <3>1, <3>2
    <3> QED
      BY <1>2, <1>3, <2>1, <3>2, <3>3
  <2> HIDE DEF kept
  <2> QED
    BY <2>1, <2>3
<1> HIDE DEF kept
<1>5. History(Append(made, now), now) /\ EndOf(Append(kept, now), Append(made, now), now)
  BY <1>2, <1>4, OneMore
<1>6. SleepsRightly'
  BY <1>1 DEF SleepsRightly
<1> QED
  BY <1>1, <1>5, <1>6, GateStays

\* Time passes: what has left stays out, and no answer is pending.
LEMMA TickStep ==
  ASSUME RateInv, RateTick
  PROVE  RateInv'
<1> USE DEF RateInv
<1>1. /\ now' = now + 1 /\ now \in Nat /\ answered' = None
      /\ UNCHANGED <<hits, passed, calls, asleep, made>>
  BY DEF RateTick, outward, Remembers
<1>2. /\ \A a \in Address : Recent(a)' = Recent(a)
  BY <1>1 DEF Recent
<1>3. \A a \in Address : History(passed[a], now + 1) /\ EndOf(Recent(a), passed[a], now + 1)
  BY <1>1, LaterToo DEF Remembers
<1>4. History(made, now + 1) /\ EndOf(calls, made, now + 1)
  BY <1>1, LaterToo DEF Remembers
<1>5. Remembers'
  BY <1>1, <1>2, <1>3, <1>4 DEF Remembers
<1>6. SleepsRightly' /\ RefusesRightly'
  BY <1>1 DEF SleepsRightly, RefusesRightly
<1> QED
  BY <1>5, <1>6

\* Every step of either limiter keeps the invariant.
LEMMA StepRate ==
  ASSUME RateInv, [InwardNext \/ OutwardNext]_rateVars
  PROVE  RateInv'
<1>1. CASE Asks
  BY <1>1, GateStep DEF Asks
<1>2. CASE RateTick
  BY <1>2, TickStep
<1>3. CASE Wake
  BY <1>3, WakeStep
<1>4. CASE \E c \in Caller : Acquire(c)
  BY <1>4, AcquireStep
<1>5. CASE UNCHANGED rateVars
  BY <1>5 DEF rateVars, RateInv, Remembers, Recent, SleepsRightly, RefusesRightly
<1> QED
  BY <1>1, <1>2, <1>3, <1>4, <1>5 DEF InwardNext, OutwardNext

\* The inductive invariant of the limiters.
THEOREM RateInvariant == RateSpec => []RateInv
BY InitRate, StepRate, PTL DEF RateSpec

\* SlidingWindowLimiter and RateLimiter let PerWindow through in every rolling
\* window and hold nobody up without need.
THEOREM WindowsCorrect == RateSpec => []WindowsAreExact
<1>1. RateInv => WindowsAreExact
  <2> SUFFICES ASSUME RateInv
               PROVE  WindowsAreExact
    OBVIOUS
  <2> USE DEF RateInv
  <2>1. ASSUME NEW end \in 0 .. now
        PROVE  /\ InWindow(made, end) <= PerWindow
               /\ \A a \in Address : InWindow(passed[a], end) <= PerWindow
    <3>1. now \in Nat /\ end \in Nat /\ History(made, now)
      BY DEF Remembers
    <3>2. InWindow(made, end) <= PerWindow
      BY <3>1, AtMost
    <3>3. ASSUME NEW a \in Address
          PROVE  InWindow(passed[a], end) <= PerWindow
      <4>1. History(passed[a], now)
        BY DEF Remembers
      <4> QED
        BY <3>1, <4>1, AtMost
    <3> QED
      BY <3>2, <3>3
  <2>2. answered # None => (answered.ok \/ InWindow(passed[answered.who], now) = PerWindow)
    BY DEF RefusesRightly
  <2>3. ASSUME asleep # None, ~(now >= asleep.until)
        PROVE  InWindow(made, now) = PerWindow
    <3>1. /\ Len(calls) >= PerWindow /\ ~(now >= calls[1] + Window)
          /\ EndOf(calls, made, now) /\ History(made, now) /\ now \in Nat
      BY <2>3 DEF SleepsRightly, Remembers
    <3>2. /\ calls \in Seq(Nat) /\ made \in Seq(Nat) /\ Len(calls) \in Nat /\ Len(made) \in Nat
          /\ Len(calls) <= Len(made) /\ DOMAIN made = 1 .. Len(made)
          /\ PerWindow \in Nat /\ PerWindow >= 1 /\ Window \in Nat
      BY <3>1, RateAssumption DEF EndOf, History
    <3>3. \A i \in 1 .. Len(calls) : calls[i] + Window > now
      <4> TAKE i \in 1 .. Len(calls)
      <4>1. /\ 1 \in 1 .. Len(calls) /\ i \in 1 .. Len(calls)
            /\ Len(made) - Len(calls) + 1 \in DOMAIN made /\ Len(made) - Len(calls) + i \in DOMAIN made
            /\ Len(made) - Len(calls) + 1 <= Len(made) - Len(calls) + i
        BY <3>1, <3>2
      <4>2. made[Len(made) - Len(calls) + 1] <= made[Len(made) - Len(calls) + i]
        BY <3>1, <4>1 DEF History
      <4>3. /\ calls[1] = made[Len(made) - Len(calls) + 1]
            /\ calls[i] = made[Len(made) - Len(calls) + i]
        BY <3>1, <4>1 DEF EndOf
      <4>4. calls[1] \in Nat /\ calls[i] \in Nat /\ calls[1] <= calls[i]
        BY <3>2, <4>1, <4>2, <4>3
      <4>5. now \in Nat /\ Window \in Nat /\ ~(now >= calls[1] + Window)
        BY <3>1, <3>2
      <4> QED
        BY <4>4, <4>5, NotLeft, Zenon
    <3> QED
      BY <3>1, <3>3, IsFull
  <2> QED
    BY <2>1, <2>2, <2>3 DEF WindowsAreExact
<1> QED
  BY <1>1, RateInvariant, PTL

-----------------------------------------------------------------------------
(* The exchange's list of bonds *)

\* The attempts to fetch the list.
Tries == [time : Nat, came : BOOLEAN]

\* The directory's fields keep their types.
SearchTypes ==
  /\ second \in Nat /\ edition \in Nat /\ loadedAt \in Nat
  /\ held \in Nat \cup {None} /\ failedAt \in Nat \cup {None}
  /\ loading \in Loads \cup {None}
  /\ tries \in Seq(Tries)
  /\ DOMAIN doing = Searcher

\* The last attempt is the one that runs.
Fetching ==
  loading # None =>
    tries # <<>> /\ Last(tries).time = loading.since /\ Last(tries).came

\* What the directory remembers of the last attempt, when none runs.
Settled ==
  loading = None /\ tries # <<>> =>
    IF Last(tries).came THEN failedAt = None /\ held # None /\ loadedAt = Last(tries).time
    ELSE failedAt = Last(tries).time

\* Before the first attempt it remembers nothing.
Unasked == tries = <<>> => failedAt = None

\* Attempts keep their distance.
Spaced ==
  \A i \in 2 .. Len(tries) :
    tries[i].time - tries[i - 1].time
      >= (IF tries[i - 1].came THEN ListTTL ELSE ListRetry)

\* A list that came is kept.
KeptOnce ==
  (\E i \in DOMAIN tries : tries[i].came /\ (loading = None \/ i < Len(tries))) => held # None

\* The inductive invariant of the directory.
SearchInv == SearchTypes /\ Fetching /\ Settled /\ Unasked /\ Spaced /\ KeptOnce

\* No attempt was made yet.
LEMMA InitSearch == SearchInit => SearchInv
BY DEF SearchInit, SearchInv, SearchTypes, Fetching, Settled, Unasked, Spaced, KeptOnce

\* The part of the state the invariant reads.

\* Answering ends a search or sends it to the exchange; whatever it is told, the
\* word "unavailable" is only for want of a list.
LEMMA FromListAnswers ==
  ASSUME DOMAIN doing = Searcher, NEW s \in Searcher, NEW list \in Nat \cup {None}, FromList(s, list)
  PROVE  /\ DOMAIN doing' = Searcher
         /\ \A t \in Searcher : t # s => doing'[t] = doing[t]
         /\ \A t \in Searcher : reply' = [who |-> t, what |-> "unavailable"] => list = None
<1>1. CASE GoesTo(s, "elsewhere")
  <2>1. \A t \in Searcher : [who |-> t, what |-> "unavailable"] \in Replies
    BY DEF Replies
  <2> QED
    BY <1>1, <2>1, NoneSearchAssumption DEF GoesTo
<1>2. ASSUME NEW what, Answer(s, what), what = "unavailable" => list = None
      PROVE  /\ DOMAIN doing' = Searcher
             /\ \A t \in Searcher : t # s => doing'[t] = doing[t]
             /\ \A t \in Searcher : reply' = [who |-> t, what |-> "unavailable"] => list = None
  <2>1. ASSUME NEW t \in Searcher, reply' = [who |-> t, what |-> "unavailable"]
        PROVE  what = "unavailable"
    BY <1>2, <2>1 DEF Answer
  <2> QED
    BY <1>2, <2>1 DEF Answer
<1>3. \/ GoesTo(s, "elsewhere") \/ Answer(s, "from list") \/ Answer(s, "nothing")
      \/ Answer(s, "unavailable") /\ list = None
  BY DEF FromList
<1> QED
  BY <1>1, <1>2, <1>3

\* The attempt that begins keeps its distance from the one before.
LEMMA BeginLoadStep ==
  ASSUME SearchInv, NEW s \in Searcher, BeginLoad(s)
  PROVE  SearchInv'
<1> DEFINE try == [time |-> second, came |-> TRUE]
<1> USE DEF SearchInv
<1>1. /\ loading = None /\ ~Young /\ MayAsk /\ reply' = None
      /\ loading' = [who |-> s, since |-> second] /\ tries' = Append(tries, try)
      /\ UNCHANGED <<second, edition, held, loadedAt, failedAt, doing>>
  BY DEF BeginLoad
<1>2. try \in Tries /\ try.time = second /\ try.came = TRUE
  BY DEF Tries, SearchTypes
<1> HIDE DEF try
<1>3. tries \in Seq(Tries) /\ Len(tries) \in Nat /\ DOMAIN tries = 1 .. Len(tries)
  BY DEF SearchTypes
<1>4. /\ tries' \in Seq(Tries) /\ Len(tries') = Len(tries) + 1 /\ DOMAIN tries' = 1 .. Len(tries) + 1
      /\ tries'[Len(tries) + 1] = try /\ \A i \in 1 .. Len(tries) : tries'[i] = tries[i]
  BY <1>1, <1>2, <1>3
<1>5. SearchTypes'
  BY <1>1, <1>4 DEF SearchTypes, Loads
<1>6. loading' # None /\ loading'.since = second
  BY <1>1, NoneSearchAssumption DEF Loads, SearchTypes
<1>7. Fetching' /\ Settled' /\ Unasked'
  BY <1>2, <1>3, <1>4, <1>6 DEF Fetching, Settled, Unasked, Last
<1>8. tries # <<>> => second - Last(tries).time >= (IF Last(tries).came THEN ListTTL ELSE ListRetry)
  <2> SUFFICES ASSUME tries # <<>>
               PROVE  second - Last(tries).time >= (IF Last(tries).came THEN ListTTL ELSE ListRetry)
    OBVIOUS
  <2>0. Last(tries) \in Tries
    <3>1. Len(tries) \in 1 .. Len(tries)
      BY <1>3
    <3> QED
      BY <1>3, <3>1 DEF Last
  <2>1. Last(tries).time \in Nat /\ second \in Nat /\ loadedAt \in Nat
        /\ ListTTL \in Nat /\ ListRetry \in Nat
    BY <2>0, SearchAssumption DEF Tries, SearchTypes
  <2>2. CASE Last(tries).came
    <3>1. held # None /\ loadedAt = Last(tries).time
      BY <1>1, <2>2 DEF Settled
    <3>2. ~(second - loadedAt < ListTTL)
      BY <1>1, <3>1 DEF Young
    <3> QED
      BY <2>1, <2>2, <3>1, <3>2
  <2>3. CASE ~Last(tries).came
    <3>1. failedAt = Last(tries).time
      BY <1>1, <2>3 DEF Settled
    <3>2. second - failedAt >= ListRetry
      BY <1>1, <2>1, <3>1, NoneSearchAssumption DEF MayAsk
    <3> QED
      BY <2>1, <2>3, <3>1, <3>2
  <2> QED
    BY <2>2, <2>3
<1>9. Spaced'
  <2> SUFFICES ASSUME NEW i \in 2 .. Len(tries) + 1
               PROVE  tries'[i].time - tries'[i - 1].time
                        >= (IF tries'[i - 1].came THEN ListTTL ELSE ListRetry)
    BY <1>4 DEF Spaced
  <2>1. CASE i <= Len(tries)
    BY <1>3, <1>4, <2>1 DEF Spaced
  <2>2. CASE i = Len(tries) + 1
    <3>1. tries # <<>> /\ tries'[i - 1] = Last(tries) /\ tries'[i] = try
      BY <1>3, <1>4, <2>2 DEF Last
    <3> QED
      BY <1>2, <1>8, <3>1
  <2> QED
    BY <1>3, <2>1, <2>2
<1>10. KeptOnce'
  <2> SUFFICES ASSUME NEW i \in 1 .. Len(tries) + 1, tries'[i].came, i < Len(tries) + 1
               PROVE  held # None
    BY <1>1, <1>4, <1>6 DEF KeptOnce
  <2>1. i \in DOMAIN tries /\ tries[i].came
    BY <1>3, <1>4
  <2> QED
    BY <1>1, <2>1 DEF KeptOnce
<1> QED
  BY <1>5, <1>7, <1>9, <1>10

\* An attempt that succeeds leaves a list, and its time.
LEMMA LoadedStep ==
  ASSUME SearchInv, NEW s \in Searcher, Loaded(s)
  PROVE  SearchInv'
<1> USE DEF SearchInv
<1>1. /\ loading # None /\ held' = edition /\ loadedAt' = loading.since /\ failedAt' = None
      /\ loading' = None /\ FromList(s, edition) /\ UNCHANGED <<second, edition, tries>>
  BY DEF Loaded
<1>2. loading \in Loads /\ loading.since \in Nat /\ edition \in Nat /\ edition # None
  BY <1>1, NoneSearchAssumption DEF SearchTypes, Loads
<1>3. DOMAIN doing' = Searcher
  BY <1>1, <1>2, FromListAnswers DEF SearchTypes
<1>4. SearchTypes'
  BY <1>1, <1>2, <1>3 DEF SearchTypes
<1>5. Fetching' /\ Settled' /\ Unasked'
  BY <1>1, <1>2 DEF Fetching, Settled, Unasked
<1>6. Spaced' /\ KeptOnce'
  BY <1>1, <1>2 DEF Spaced, KeptOnce
<1> QED
  BY <1>4, <1>5, <1>6

\* One that fails leaves its time, and the list there was.
LEMMA LoadFailsStep ==
  ASSUME SearchInv, NEW s \in Searcher, LoadFails(s)
  PROVE  SearchInv'
<1> USE DEF SearchInv
<1>1. /\ loading # None /\ failedAt' = loading.since
      /\ tries' = [tries EXCEPT ![Len(tries)].came = FALSE]
      /\ loading' = None /\ FromList(s, held) /\ UNCHANGED <<second, edition, held, loadedAt>>
  BY DEF LoadFails
<1>2. loading \in Loads /\ loading.since \in Nat
  BY <1>1, NoneSearchAssumption DEF SearchTypes, Loads
<1>3. DOMAIN doing' = Searcher
  BY <1>1, <1>2, FromListAnswers DEF SearchTypes
<1>4. /\ tries # <<>> /\ tries \in Seq(Tries) /\ Len(tries) \in Nat \ {0}
      /\ Last(tries) = tries[Len(tries)] /\ Last(tries).time = loading.since
  BY <1>1 DEF SearchTypes, Fetching, Last
<1> DEFINE failed == [tries[Len(tries)] EXCEPT !.came = FALSE]
<1>0. tries[Len(tries)] \in Tries
  BY <1>4
<1>5. failed \in Tries /\ failed.came = FALSE /\ failed.time = tries[Len(tries)].time
  BY <1>0 DEF Tries
<1>6. tries' = [tries EXCEPT ![Len(tries)] = failed]
  BY <1>1
<1> HIDE DEF failed
<1>7. /\ tries' \in Seq(Tries) /\ Len(tries') = Len(tries) /\ DOMAIN tries' = DOMAIN tries
      /\ tries'[Len(tries)] = failed
      /\ \A i \in 1 .. Len(tries) : i # Len(tries) => tries'[i] = tries[i]
  BY <1>4, <1>5, <1>6
<1>8. SearchTypes'
  BY <1>1, <1>2, <1>3, <1>7 DEF SearchTypes
<1>9. Fetching' /\ Settled' /\ Unasked'
  BY <1>1, <1>2, <1>4, <1>5, <1>7 DEF Fetching, Settled, Unasked, Last
<1>10. Spaced'
  <2> SUFFICES ASSUME NEW i \in 2 .. Len(tries)
               PROVE  tries'[i].time - tries'[i - 1].time
                        >= (IF tries'[i - 1].came THEN ListTTL ELSE ListRetry)
    BY <1>7 DEF Spaced
  <2>1. tries'[i - 1] = tries[i - 1] /\ tries'[i].time = tries[i].time
    <3>1. i \in 1 .. Len(tries) /\ i - 1 \in 1 .. Len(tries) /\ i - 1 # Len(tries)
      BY <1>4
    <3>2. tries'[i - 1] = tries[i - 1]
      BY <1>7, <3>1
    <3>3. CASE i = Len(tries)
      BY <1>5, <1>7, <3>2, <3>3
    <3>4. CASE i # Len(tries)
      BY <1>7, <3>1, <3>2, <3>4
    <3> QED
      BY <3>3, <3>4
  <2> QED
    BY <2>1 DEF Spaced
<1>11. KeptOnce'
  <2> SUFFICES ASSUME NEW i \in 1 .. Len(tries), tries'[i].came
               PROVE  held # None
    BY <1>1, <1>4, <1>7 DEF KeptOnce
  <2>1. i # Len(tries)
    BY <1>5, <1>7
  <2>2. i \in DOMAIN tries /\ i < Len(tries)
    BY <1>4, <2>1
  <2>3. tries[i].came
    BY <1>7, <2>1
  <2> QED
    BY <2>2, <2>3 DEF KeptOnce
<1> QED
  BY <1>8, <1>9, <1>10, <1>11

\* Every step keeps the invariant: the others leave alone what it is about.
LEMMA StepSearch ==
  ASSUME SearchInv, [SearchNext]_searchVars
  PROVE  SearchInv'
<1>1. ASSUME UNCHANGED <<held, loadedAt, failedAt, loading, tries>>,
             second' \in Nat, edition' \in Nat, DOMAIN doing' = Searcher
      PROVE  SearchInv'
  BY <1>1 DEF SearchInv, SearchTypes, Fetching, Settled, Unasked, Spaced, KeptOnce
<1>2. second \in Nat /\ edition \in Nat /\ held \in Nat \cup {None} /\ DOMAIN doing = Searcher
  BY DEF SearchInv, SearchTypes
<1>3. ASSUME NEW s \in Searcher, NEW q \in Query, Search(s, q)
      PROVE  SearchInv'
  BY <1>1, <1>2, <1>3 DEF Search
<1>4. ASSUME NEW s \in Searcher, UseList(s)
      PROVE  SearchInv'
  BY <1>1, <1>2, <1>4, FromListAnswers DEF UseList
<1>5. ASSUME NEW s \in Searcher, Recall(s) \/ AskElsewhere(s) \/ Answered(s) \/ SearchFails(s)
      PROVE  SearchInv'
  BY <1>1, <1>2, <1>5 DEF Recall, AskElsewhere, Answered, SearchFails, Answer, GoesTo
<1>6. CASE NewIssues \/ SecondPasses
  BY <1>1, <1>2, <1>6 DEF NewIssues, SecondPasses
<1>7. CASE UNCHANGED searchVars
  BY <1>1, <1>2, <1>7 DEF searchVars
<1> QED
  BY <1>3, <1>4, <1>5, <1>6, <1>7, BeginLoadStep, LoadedStep, LoadFailsStep DEF SearchNext

\* The inductive invariant of the directory.
THEOREM SearchInvariant == SearchSpec => []SearchInv
BY InitSearch, StepSearch, PTL DEF SearchSpec

\* What a search is told of the list is so.
Told(s) ==
  /\ reply' = [who |-> s, what |-> "unavailable"] /\ doing[s] # "asking"
       => held = None
  /\ doing[s] = "list" /\ doing'[s] # "list" /\ ~Young /\ loading = None =>
       /\ tries # <<>> /\ ~Last(tries).came
       /\ second - Last(tries).time < ListRetry

\* A search that ends on a list ends on the one held; the others say nothing of it.
LEMMA ToldRight ==
  ASSUME SearchInv, SearchNext, NEW s \in Searcher
  PROVE  Told(s)
<1>1. held \in Nat \cup {None} /\ DOMAIN doing = Searcher /\ edition \in Nat
  BY DEF SearchInv, SearchTypes
<1>n. ASSUME reply' = None
      PROVE  reply' # [who |-> s, what |-> "unavailable"]
  <2>1. [who |-> s, what |-> "unavailable"] \in Replies
    BY DEF Replies
  <2> QED
    BY <1>n, <2>1, NoneSearchAssumption
<1>2. ASSUME NEW t \in Searcher, NEW q \in Query, Search(t, q)
      PROVE  Told(s)
  <2>1. doing[s] = "list" => doing'[s] = "list"
    BY <1>1, <1>2 DEF Search
  <2> QED
    BY <1>2, <1>n, <2>1 DEF Told, Search
<1>3. ASSUME NEW t \in Searcher, UseList(t)
      PROVE  Told(s)
  <2>1. loading = None /\ (Young \/ ~MayAsk) /\ FromList(t, held)
    BY <1>3 DEF UseList
  <2>2. ASSUME ~Young
        PROVE  tries # <<>> /\ ~Last(tries).came /\ second - Last(tries).time < ListRetry
    <3>1. failedAt # None /\ ~(second - failedAt >= ListRetry)
      BY <2>1, <2>2 DEF MayAsk
    <3>2. tries # <<>> /\ ~Last(tries).came /\ failedAt = Last(tries).time
      BY <2>1, <3>1 DEF SearchInv, Settled, Unasked
    <3>3. failedAt \in Nat /\ second \in Nat /\ ListRetry \in Nat
      BY <3>1, SearchAssumption DEF SearchInv, SearchTypes
    <3> QED
      BY <3>1, <3>2, <3>3
  <2>3. reply' = [who |-> s, what |-> "unavailable"] => held = None
    BY <1>1, <2>1, FromListAnswers
  <2> QED
    BY <2>2, <2>3 DEF Told
<1>4. ASSUME NEW t \in Searcher, BeginLoad(t)
      PROVE  Told(s)
  BY <1>4, <1>n DEF Told, BeginLoad
<1>5. ASSUME NEW t \in Searcher, Loaded(t)
      PROVE  Told(s)
  <2>1. loading # None /\ FromList(t, edition) /\ edition # None
    BY <1>1, <1>5, NoneSearchAssumption DEF Loaded
  <2> QED
    BY <1>1, <2>1, FromListAnswers DEF Told
<1>6. ASSUME NEW t \in Searcher, LoadFails(t)
      PROVE  Told(s)
  <2>1. loading # None /\ FromList(t, held)
    BY <1>6 DEF LoadFails
  <2> QED
    BY <1>1, <2>1, FromListAnswers DEF Told
<1>7. ASSUME NEW t \in Searcher, Recall(t) \/ Answered(t)
      PROVE  Told(s)
  <2>1. /\ reply' = [who |-> t, what |-> FromExchange(query[t])]
        /\ doing' = [doing EXCEPT ![t] = "idle"] /\ doing[t] # "list"
    BY <1>7 DEF Recall, Answered, Answer
  <2>2. doing[s] = "list" => doing'[s] = "list"
    BY <1>1, <2>1
  <2>3. FromExchange(query[t]) # "unavailable"
    BY DEF FromExchange
  <2>4. reply' # [who |-> s, what |-> "unavailable"]
    BY <2>1, <2>3
  <2> QED
    BY <2>2, <2>4 DEF Told
<1>8. ASSUME NEW t \in Searcher, AskElsewhere(t)
      PROVE  Told(s)
  <2>1. reply' = None /\ doing[t] # "list" /\ doing' = [doing EXCEPT ![t] = "asking"]
    BY <1>8 DEF AskElsewhere, GoesTo
  <2>2. doing[s] = "list" => doing'[s] = "list"
    BY <1>1, <2>1
  <2> QED
    BY <2>1, <2>2, <1>n DEF Told
<1>9. ASSUME NEW t \in Searcher, SearchFails(t)
      PROVE  Told(s)
  <2>1. /\ reply' = [who |-> t, what |-> "unavailable"] /\ doing[t] = "asking"
        /\ doing' = [doing EXCEPT ![t] = "idle"]
    BY <1>9 DEF SearchFails, Answer
  <2>2. doing[s] = "list" => doing'[s] = "list"
    BY <1>1, <2>1
  <2>3. reply' = [who |-> s, what |-> "unavailable"] => s = t
    BY <2>1
  <2> QED
    BY <2>1, <2>2, <2>3 DEF Told
<1>10. CASE NewIssues \/ SecondPasses
  BY <1>10, <1>n DEF Told, NewIssues, SecondPasses
<1> QED
  BY <1>2, <1>3, <1>4, <1>5, <1>6, <1>7, <1>8, <1>9, <1>10 DEF SearchNext

\* The exchange is asked for its list sparingly, and what BondDirectory._traded
\* answers from, or that it has nothing to answer from, is as it should be.
THEOREM ListCorrect == SearchSpec => ListIsLookedAfter
<1> DEFINE Distant ==
             /\ \A i \in 2 .. Len(tries) :
                  tries[i].time - tries[i - 1].time
                    >= (IF tries[i - 1].came THEN ListTTL ELSE ListRetry)
             /\ (\E i \in DOMAIN tries : tries[i].came /\ (loading = None \/ i < Len(tries)))
                  => held # None
           AllTold ==
             \A s \in Searcher :
               /\ reply' = [who |-> s, what |-> "unavailable"] /\ doing[s] # "asking"
                    => held = None
               /\ doing[s] = "list" /\ doing'[s] # "list" /\ ~Young /\ loading = None =>
                    /\ tries # <<>> /\ ~Last(tries).came
                    /\ second - Last(tries).time < ListRetry
<1>1. SearchInv => Distant
  BY DEF SearchInv, Spaced, KeptOnce
<1>2. SearchInv /\ [SearchNext]_searchVars => [AllTold]_searchVars
  BY ToldRight DEF Told
<1>3. []Distant /\ [][AllTold]_searchVars => ListIsLookedAfter
  BY DEF ListIsLookedAfter
<1> HIDE DEF Distant, AllTold
<1> QED
  BY <1>1, <1>2, <1>3, SearchInvariant, PTL DEF SearchSpec

-----------------------------------------------------------------------------
(* The builds of the bond calendar *)

\* A request was made by now.
Asking == \A r \in Reader : asked[r] # None => asked[r].at \in Nat /\ asked[r].at <= hour

\* So was the one that is built for.
Building == builder \in Reader => asked[builder].at \in Nat /\ asked[builder].at <= hour

\* What is kept under a list and a first day was built of them, by now.
KeptRight ==
  \A k \in DOMAIN builds :
    /\ builds[k].at \in Nat /\ builds[k].at <= hour
    /\ k = <<Range(builds[k].bonds), k[2]>>
    /\ builds[k].run = Build(Exchange[builds[k].version], builds[k].bonds, k[2], builds[k].down)

\* The inductive invariant of the calendar's builds.
CalendarInv == hour \in Nat /\ DOMAIN asked = Reader /\ Asking /\ Building /\ KeptRight /\ AnswersAreCurrent

\* A lifetime is a time.
LEMMA TtlIs ==
  ASSUME NEW run
  PROVE  TtlOf(run) \in Nat
<1>1. Min({BuildTTL, ProblemTTL}) \in {BuildTTL, ProblemTTL}
  <2>1. \E x \in {BuildTTL, ProblemTTL} : \A y \in {BuildTTL, ProblemTTL} : x <= y
    BY LifetimesAssumption
  <2> QED
    BY <2>1 DEF Min
<1> QED
  BY <1>1, LifetimesAssumption DEF TtlOf

\* A build found under one's own list and first day is of them, and young enough.
LEMMA ReuseStep ==
  ASSUME CalendarInv, NEW r \in Reader, Reuse(r)
  PROVE  CalendarInv'
<1> DEFINE q == asked[r]
           k == BuildKey(q)
           b == builds[k]
<1>1. /\ q # None /\ ~Stale(q) /\ UNCHANGED <<builds, hour>>
      /\ page'.q = q /\ page'.built = b /\ page'.now = hour
      /\ asked' = [asked EXCEPT ![r] = None]
  BY DEF Reuse, Serve
<1>2. ~q.refresh /\ k \in DOMAIN builds /\ ~(hour - b.at > TtlOf(b.run))
  BY <1>1 DEF Stale
<1>3. /\ b.at \in Nat /\ b.at <= hour /\ k = <<Range(b.bonds), k[2]>>
      /\ b.run = Build(Exchange[b.version], b.bonds, k[2], b.down)
  BY <1>2 DEF CalendarInv, KeptRight
<1>4. k[1] = Range(q.bonds) /\ k[2] = q.period.from
  BY DEF BuildKey
<1>5. hour - b.at <= TtlOf(b.run)
  BY <1>2, <1>3, TtlIs DEF CalendarInv
<1>6. Range(b.bonds) = Range(q.bonds)
  BY <1>3, <1>4
<1>7. AnswersAreCurrent'
  <2> HIDE DEF q, k, b
  <2> QED
    BY <1>1, <1>2, <1>3, <1>4, <1>5, <1>6 DEF AnswersAreCurrent, TtlOf
<1>8. Asking'
  BY <1>1 DEF CalendarInv, Asking
<1>9. KeptRight'
  BY <1>1 DEF CalendarInv, KeptRight
<1>10. Building'
  BY NoReaderAssumption DEF Reuse, Building
<1>11. DOMAIN asked' = Reader
  BY <1>1 DEF CalendarInv
<1> QED
  BY <1>1, <1>7, <1>8, <1>9, <1>10, <1>11 DEF CalendarInv

\* A build just made is of what its reader asked for, and no hour old.
LEMMA EndBuildStep ==
  ASSUME CalendarInv, NEW r \in Reader, NEW down, EndBuild(r, down)
  PROVE  CalendarInv'
<1> DEFINE q == asked[r]
           k == BuildKey(q)
           run == Build(Exchange[version], q.bonds, q.period.from, down)
           built == [at |-> hour, run |-> run, bonds |-> q.bonds, version |-> version, down |-> down]
<1>1. /\ UNCHANGED hour
      /\ \A j \in DOMAIN builds' : IF j = k THEN builds'[j] = built
                                   ELSE j \in DOMAIN builds /\ builds'[j] = builds[j]
      /\ page'.q = q /\ page'.built = built /\ page'.now = hour
      /\ asked' = [asked EXCEPT ![r] = None]
  BY DEF EndBuild, Serve
<1>2. hour \in Nat /\ q.at \in Nat /\ q.at <= hour
  BY DEF EndBuild, CalendarInv, Building
<1>3. k = <<Range(q.bonds), q.period.from>> /\ k[2] = q.period.from
  BY DEF BuildKey
<1> HIDE DEF q, k
<1>4. /\ built.at = hour /\ built.bonds = q.bonds /\ built.version = version
      /\ built.down = down /\ built.run = Build(Exchange[version], q.bonds, q.period.from, down)
  OBVIOUS
<1> HIDE DEF run, built
<1>5. KeptRight'
  <2>1. ASSUME NEW j \in DOMAIN builds'
        PROVE  /\ builds'[j].at \in Nat /\ builds'[j].at <= hour
               /\ j = <<Range(builds'[j].bonds), j[2]>>
               /\ builds'[j].run = Build(Exchange[builds'[j].version], builds'[j].bonds, j[2],
                                         builds'[j].down)
    <3>1. CASE j = k
      BY <1>1, <1>2, <1>3, <1>4, <3>1
    <3>2. CASE j # k
      BY <1>1, <3>2 DEF CalendarInv, KeptRight
    <3> QED
      BY <3>1, <3>2
  <2> QED
    BY <1>1, <2>1 DEF KeptRight
<1>6. Building' /\ DOMAIN asked' = Reader
  BY <1>1, NoReaderAssumption DEF EndBuild, Building, CalendarInv
<1>7. AnswersAreCurrent'
  <2>1. hour - built.at <= TtlOf(built.run)
    BY <1>2, <1>4, TtlIs
  <2> QED
    BY <1>1, <1>2, <1>4, <2>1 DEF AnswersAreCurrent, TtlOf
<1>8. Asking'
  BY <1>1 DEF CalendarInv, Asking
<1> QED
  BY <1>1, <1>2, <1>5, <1>6, <1>7, <1>8 DEF CalendarInv

\* No answer is given in any other step, and what is kept stays.
LEMMA CalendarStep ==
  ASSUME CalendarInv, [BondNext]_bondVars
  PROVE  CalendarInv'
<1>1. ASSUME NEW r \in Reader, NEW p, NEW f, NEW period, NEW again, Ask(r, p, f, period, again)
      PROVE  CalendarInv'
  <2> DEFINE q == asked'[r]
  <2>1. q.at = hour /\ asked' = [asked EXCEPT ![r] = q] /\ page' = None
    BY <1>1 DEF Ask, CalendarInv
  <2>2. UNCHANGED <<builder, builds, hour>>
    BY <1>1 DEF Ask
  <2> HIDE DEF q
  <2>3. Asking' /\ Building' /\ DOMAIN asked' = Reader
    BY <2>1, <2>2 DEF CalendarInv, Asking, Building
  <2>4. KeptRight' /\ AnswersAreCurrent'
    BY <2>1, <2>2 DEF CalendarInv, KeptRight, AnswersAreCurrent
  <2> QED
    BY <2>2, <2>3, <2>4 DEF CalendarInv
<1>2. ASSUME NEW r \in Reader, BeginBuild(r)
      PROVE  CalendarInv'
  <2>1. /\ asked[r] # None /\ builder' = r /\ page' = None
        /\ UNCHANGED <<asked, builds, hour>>
    BY <1>2 DEF BeginBuild
  <2>2. Building' /\ Asking'
    BY <2>1 DEF CalendarInv, Asking, Building
  <2> QED
    BY <2>1, <2>2 DEF CalendarInv, KeptRight, AnswersAreCurrent
<1>3. ASSUME hour' \in Nat, hour <= hour', page' = None, UNCHANGED <<asked, builder, builds>>
      PROVE  CalendarInv'
  <2>1. hour \in Nat
    BY DEF CalendarInv
  <2>2. Asking' /\ Building'
    BY <1>3, <2>1 DEF CalendarInv, Asking, Building
  <2>3. KeptRight'
    BY <1>3, <2>1 DEF CalendarInv, KeptRight
  <2> QED
    BY <1>3, <2>2, <2>3 DEF CalendarInv, AnswersAreCurrent
<1>4. CASE UNCHANGED bondVars
  BY <1>4 DEF bondVars, CalendarInv, Asking, Building, KeptRight, AnswersAreCurrent
<1>5. CASE Announce \/ HourPasses
  <2>1. hour' \in Nat /\ hour <= hour' /\ page' = None /\ UNCHANGED <<asked, builder, builds>>
    BY <1>5 DEF Announce, HourPasses, CalendarInv
  <2> QED
    BY <1>3, <2>1
<1>6. ASSUME NEW p, NEW f, NEW rows, NEW listDown, ImportFile(p, f, rows, listDown)
      PROVE  CalendarInv'
  <2>1. hour' = hour /\ page' = None /\ UNCHANGED <<asked, builder, builds>>
    BY <1>6 DEF ImportFile
  <2>2. hour' \in Nat /\ hour <= hour'
    BY <2>1 DEF CalendarInv
  <2> QED
    BY <1>3, <2>1, <2>2
<1> QED
  BY <1>1, <1>2, <1>4, <1>5, <1>6, ReuseStep, EndBuildStep DEF BondNext

\* Nothing was asked yet.
LEMMA InitCalendar == BondInit => CalendarInv
<1> SUFFICES ASSUME BondInit PROVE CalendarInv
  OBVIOUS
<1>1. /\ hour = 0 /\ asked = [r \in Reader |-> None] /\ builder = None /\ page = None
      /\ DOMAIN builds = {}
  BY DEF BondInit
<1> QED
  BY <1>1, NoReaderAssumption DEF CalendarInv, Asking, Building, KeptRight, AnswersAreCurrent

\* An answer is of a current build of its own bonds and first day.
THEOREM AnswersCorrect == BondSpec => []AnswersAreCurrent
<1>1. CalendarInv => AnswersAreCurrent
  BY DEF CalendarInv
<1> QED
  BY <1>1, InitCalendar, CalendarStep, PTL DEF BondSpec
===============================================================================
