--------------------------- MODULE ForgetfulCache ---------------------------
(***************************************************************************)
(* What a caller of a per-user cache may rely on, however it decides what  *)
(* to forget.  A get answers with the value last put for that user and     *)
(* key, and only while it is younger than the TTL; a put keeps what it     *)
(* puts and may cost others their entries; a clear takes one user's        *)
(* entries, all of them, and nobody else's.                                *)
(***************************************************************************)
EXTENDS Integers

CONSTANTS User, Key, Value, TTL, Nothing

VARIABLES held,    \* value and time of each user's key, or Nothing
          answer,  \* of the last call, Nothing if it has none
          clock

vars == <<held, answer, clock>>

Empty == [k \in Key |-> Nothing]

Init == held = [u \in User |-> Empty] /\ answer = Nothing /\ clock = 0

Fresh(u, k) == held[u][k] # Nothing /\ clock - held[u][k].since < TTL

Get(u, k) ==
  /\ answer' = IF Fresh(u, k) THEN held[u][k].value ELSE Nothing
  /\ held' = IF Fresh(u, k) THEN held ELSE [held EXCEPT ![u][k] = Nothing]
  /\ UNCHANGED clock

Put(u, k, v) ==
  /\ held'[u][k] = [value |-> v, since |-> clock]
  /\ held' \in [User -> [Key -> {Nothing} \cup [value : Value, since : 0 .. clock]]]
  /\ \A w \in User, j \in Key :
       <<w, j>> # <<u, k>> => held'[w][j] \in {held[w][j], Nothing}
  /\ answer' = Nothing
  /\ UNCHANGED clock

Clear(u) ==
  /\ held' = [held EXCEPT ![u] = Empty]
  /\ answer' = Nothing
  /\ UNCHANGED clock

Passes == clock' = clock + 1 /\ answer' = Nothing /\ UNCHANGED held

Next ==
  \/ \E u \in User, k \in Key : Get(u, k) \/ \E v \in Value : Put(u, k, v)
  \/ \E u \in User : Clear(u)
  \/ Passes

Spec == Init /\ [][Next]_vars
=============================================================================
