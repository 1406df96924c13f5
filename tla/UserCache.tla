------------------------------ MODULE UserCache ------------------------------
(***************************************************************************)
(* PerUserCache of api/usercache.py: {user: {key: (stored_at, value)}} in  *)
(* ordered dictionaries, the least recently used first, bounded at both    *)
(* levels.  Every method holds the lock throughout, so each is one action. *)
(* A user of None has no partition: get, put and clear return at once.     *)
(***************************************************************************)
EXTENDS Integers, Sequences, SequencesExt

CONSTANTS User, Key, Value,
          TTL,         \* _ttl, in ticks
          MaxUsers,    \* _max_users
          MaxEntries,  \* _max_entries
          MaxClock,    \* bound: the clock ticks only below this
          Nothing      \* None

ASSUME NothingAssumption == Nothing \notin Value /\ Nothing \notin [value : Value, since : Nat]
ASSUME LimitsAssumption ==
  /\ MaxUsers \in Nat \ {0} /\ MaxEntries \in Nat \ {0}
  /\ TTL \in Nat /\ MaxClock \in Nat

VARIABLES
  order,   \* the keys of _users, least recently used first
  keys,    \* the keys of each user's partition, least recently used first
  stored,  \* stored_at and value of each of those
  answer,  \* what the last call returned
  clock,   \* _clock()
  newer    \* <<u, v>>: user u was last put for or hit after v (history)

vars == <<order, keys, stored, answer, clock, newer>>

In(x, seq) == \E i \in DOMAIN seq : seq[i] = x

\* A key is there once at most.
Without(seq, x) ==
  IF In(x, seq) THEN RemoveAt(seq, CHOOSE i \in DOMAIN seq : seq[i] = x) ELSE seq

\* OrderedDict.move_to_end, and the insertion of a new key
ToEnd(seq, x) == Append(Without(seq, x), x)

\* popitem(last=False) while there are more than max
Trim(seq, max) ==
  IF Len(seq) > max THEN SubSeq(seq, Len(seq) - max + 1, Len(seq)) ELSE seq

Init ==
  /\ order = <<>> /\ keys = [u \in User |-> <<>>]
  /\ stored = [u \in User |-> [k \in Key |-> Nothing]]
  /\ answer = Nothing /\ clock = 0 /\ newer = {}

Touch(u) ==
  newer' = {p \in newer : p[2] # u} \cup {<<u, v>> : v \in User \ {u}}

\* Variant: an entry lives through the tick its TTL ends at.
ExpiredLate(u, k) == clock - stored[u][k].since > TTL

Expired(u, k) == clock - stored[u][k].since >= TTL

\* get, of a key that is not there...
Miss(u, k) ==
  /\ ~(In(u, order) /\ In(k, keys[u]))
  /\ answer' = Nothing
  /\ UNCHANGED <<order, keys, stored, clock, newer>>

\* ...that has expired: dropped on sight, the partition kept...
Expires(u, k) ==
  /\ In(u, order) /\ In(k, keys[u]) /\ Expired(u, k)
  /\ keys' = [keys EXCEPT ![u] = Without(@, k)]
  /\ stored' = [stored EXCEPT ![u][k] = Nothing]
  /\ answer' = Nothing
  /\ UNCHANGED <<order, clock, newer>>

\* Variant: a hit moves the entry and forgets to move its user.
HitStays(u, k) ==
  /\ In(u, order) /\ In(k, keys[u]) /\ ~Expired(u, k)
  /\ keys' = [keys EXCEPT ![u] = ToEnd(@, k)]
  /\ answer' = stored[u][k].value
  /\ Touch(u)
  /\ UNCHANGED <<order, stored, clock>>

\* ...or that is live: it and its user become the most recently used
Hit(u, k) ==
  /\ In(u, order) /\ In(k, keys[u]) /\ ~Expired(u, k)
  /\ order' = ToEnd(order, u)
  /\ keys' = [keys EXCEPT ![u] = ToEnd(@, k)]
  /\ answer' = stored[u][k].value
  /\ Touch(u)
  /\ UNCHANGED <<stored, clock>>

\* put: stored last in its partition, the partition last of all, and both
\* levels trimmed from the front; a trimmed user's partition goes whole
Put(u, k, v) ==
  LET kept == Trim(ToEnd(order, u), MaxUsers)
      mine == Trim(ToEnd(keys[u], k), MaxEntries) IN
  /\ order' = kept
  /\ keys' = [w \in User |-> IF ~In(w, kept) THEN <<>> ELSE IF w = u THEN mine ELSE keys[w]]
  /\ stored' = [w \in User |-> [j \in Key |->
                  IF ~In(w, kept) \/ (w = u /\ ~In(j, mine)) THEN Nothing
                  ELSE IF <<w, j>> = <<u, k>> THEN [value |-> v, since |-> clock]
                  ELSE stored[w][j]]]
  /\ answer' = Nothing
  /\ Touch(u)
  /\ UNCHANGED clock

Clear(u) ==
  /\ order' = Without(order, u)
  /\ keys' = [keys EXCEPT ![u] = <<>>]
  /\ stored' = [stored EXCEPT ![u] = [k \in Key |-> Nothing]]
  /\ answer' = Nothing
  /\ UNCHANGED <<clock, newer>>

Tick ==
  /\ clock < MaxClock /\ clock' = clock + 1
  /\ answer' = Nothing
  /\ UNCHANGED <<order, keys, stored, newer>>

Next ==
  \/ \E u \in User, k \in Key :
       \/ Miss(u, k) \/ Expires(u, k) \/ Hit(u, k)
       \/ \E v \in Value : Put(u, k, v)
  \/ \E u \in User : Clear(u)
  \/ Tick

Spec == Init /\ [][Next]_vars
-----------------------------------------------------------------------------
\* A put that evicts a partition evicts the one used longest ago: one person's
\* traffic never costs a more recently served person their entries.
EvictsLeastRecent ==
  [][\A u, w \in User :
       In(u, order) /\ ~In(u, order') /\ In(w, order') /\ order' # Without(order, u) =>
         <<w, u>> \in newer']_vars

\* What a caller may rely on.
Map == INSTANCE ForgetfulCache WITH held <- stored

\* The bounded least-recently-used cache keeps the forgetful cache's promise.
IsForgetfulCache == Map!Spec
=============================================================================
