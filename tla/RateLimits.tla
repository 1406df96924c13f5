----------------------------- MODULE RateLimits -----------------------------
(***************************************************************************)
(* The two sliding windows.  Incoming: the SlidingWindowLimiter of         *)
(* api/ratelimit.py, asked by the web gate for each expensive request of   *)
(* an address, with a sweep of idle addresses above MaxAddresses.          *)
(* Outgoing: the RateLimiter of adapters/http.py, which sleeps holding its *)
(* lock until the oldest call leaves the window, so that every other       *)
(* caller queues behind it.  A path is the sequence of its segments.       *)
(***************************************************************************)
EXTENDS Optional

CONSTANTS Incoming,      \* requests: the method, path, forwarded hops and peer
          Caller,        \* threads that call a provider
          PerWindow, Window, MaxAddresses,
          LastTick       \* bound: the clock ticks only below this

ASSUME RateAssumption ==
  PerWindow \in Nat \ {0} /\ Window \in Nat \ {0} /\ MaxAddresses \in Nat /\ LastTick \in Nat

VARIABLES
  now,
  hits,      \* _hits: the times of each address the limiter remembers
  passed,    \* the times of each address's requests it let through (history)
  answered,  \* the last request gated: its address and whether it passed; or None
  calls,     \* _calls
  asleep,    \* who sleeps holding the lock, and until when; or None
  made       \* the times of all calls (history)

rateVars == <<now, hits, passed, answered, calls, asleep, made>>
gate == <<hits, passed, answered>>
outward == <<calls, asleep, made>>

\* client_ip: the last hop is the proxy's word, the earlier ones the client's own
AddressOf(r) ==
  IF r.hops # <<>> THEN Last(r.hops) ELSE IF r.peer = "" THEN "unknown" ELSE r.peer

Starts == {<<"runs">>, <<"screen">>, <<"search">>, <<"fundamentals">>,
           <<"portfolio", "brokerages", "link">>, <<"portfolio", "brokerages", "reconnect">>,
           <<"blocklist">>, <<"blocklist", "remove">>, <<"portfolio", "swaps", "refresh">>,
           <<"bonds", "feed">>}
Downloads == {<<"search", "export.csv">>, <<"bonds", "events">>, <<"bonds", "export.csv">>,
              <<"bonds", "export.xlsx">>, <<"bonds", "grouped_export.xlsx">>,
              <<"bonds", "calendar.ics">>}

Under(path, prefix) == Len(path) > Len(prefix) /\ SubSeq(path, 1, Len(prefix)) = prefix

\* is_expensive: what reaches a provider, writes, or could be guessed at
Expensive(r) ==
  \/ Under(r.path, <<"invite">>) \/ Under(r.path, <<"feeds", "bonds">>)
  \/ /\ r.method = "POST"
     /\ \/ r.path \in Starts \/ Under(r.path, <<"auth">>)
        \/ /\ Under(r.path, <<"bonds", "portfolios">>) /\ Len(r.path) > 3
           /\ Last(r.path) \in {"add", "import"}
  \/ r.method = "GET" /\ r.path \in Downloads

Address == {AddressOf(r) : r \in Incoming}

RateInit ==
  /\ now = 0
  /\ hits = [a \in {} |-> <<>>] /\ passed = [a \in Address |-> <<>>] /\ answered = None
  /\ calls = <<>> /\ asleep = None /\ made = <<>>

\* The first time that has not left the window; past the end if all have.
FirstInside(times) ==
  CHOOSE i \in 1 .. Len(times) + 1 :
    /\ \A j \in 1 .. i - 1 : times[j] + Window <= now
    /\ i <= Len(times) => times[i] + Window > now

\* popleft while the oldest time has left
Inside(times) == SubSeq(times, FirstInside(times), Len(times))

\* Variant: an address is idle once its oldest hit has left the window.
IdleFirst(a) == hits[a] = <<>> \/ Head(hits[a]) + Window <= now

\* _sweep drops an address whose newest hit has left the window
Idle(a) == hits[a] = <<>> \/ Last(hits[a]) + Window <= now

Swept ==
  IF Cardinality(DOMAIN hits) > MaxAddresses
  THEN Restrict(hits, {a \in DOMAIN hits : ~Idle(a)})
  ELSE hits

\* _rate_limit_gate and allow, one request at a time
Gate(r) ==
  LET a == AddressOf(r)
      mine == IF a \in DOMAIN Swept THEN Inside(Swept[a]) ELSE <<>>
      ok == Len(mine) < PerWindow IN
  IF ~Expensive(r)
  THEN answered' = None /\ UNCHANGED <<hits, passed>>
  ELSE /\ hits' = [b \in DOMAIN Swept \cup {a} |->
                     IF b # a THEN Swept[b] ELSE IF ok THEN Append(mine, now) ELSE mine]
       /\ passed' = IF ok THEN [passed EXCEPT ![a] = Append(@, now)] ELSE passed
       /\ answered' = [who |-> a, ok |-> ok]

Asks == \E r \in Incoming : Gate(r) /\ UNCHANGED <<now, outward>>

Call(kept) ==
  /\ calls' = Append(kept, now) /\ made' = Append(made, now)
  /\ asleep' = None

\* acquire, by whoever gets the free lock: at once, or asleep with the lock held
Acquire(c) ==
  LET kept == Inside(calls) IN
  /\ asleep = None
  /\ IF Len(kept) >= PerWindow
     THEN /\ asleep' = [who |-> c, until |-> Head(kept) + Window]
          /\ calls' = kept /\ UNCHANGED made
     ELSE Call(kept)
  /\ UNCHANGED <<now, gate>>

\* The sleeper wakes, at its time or later: the call is recorded and made
Wake ==
  /\ asleep # None /\ now >= asleep.until
  /\ Call(Inside(calls))
  /\ UNCHANGED <<now, gate>>

RateTick ==
  /\ now < LastTick /\ now' = now + 1 /\ answered' = None
  /\ UNCHANGED <<hits, passed, outward>>

InwardNext == Asks \/ RateTick
OutwardNext == (\E c \in Caller : Acquire(c)) \/ Wake \/ RateTick

RateSpec == RateInit /\ [][InwardNext \/ OutwardNext]_rateVars

-----------------------------------------------------------------------------
InWindow(times, end) ==
  Cardinality({i \in DOMAIN times : end - Window < times[i] /\ times[i] <= end})

\* Neither limiter lets more than PerWindow through in any rolling window, whatever
\* its sweep and its evictions forgot; and neither holds anyone up without need: a
\* request is refused, and a caller still sleeps with the lock in its hand, only
\* while the window that ends now is full.
WindowsAreExact ==
  /\ \A end \in 0 .. now :
       /\ InWindow(made, end) <= PerWindow
       /\ \A a \in Address : InWindow(passed[a], end) <= PerWindow
  /\ answered # None => (answered.ok \/ InWindow(passed[answered.who], now) = PerWindow)
  /\ (asleep # None) => (now >= asleep.until \/ InWindow(made, now) = PerWindow)
=============================================================================
