---------------------------- MODULE EarningsGuard ----------------------------
(***************************************************************************)
(* The earnings guard: core/earnings.py and the loading of its calendar in *)
(* core/service.py.  Days are counted from today; a contract lives from    *)
(* today to its expiry, and its dte is that expiry.                        *)
(*                                                                         *)
(* Of the criteria c of a screen the guard uses the furthest expiry        *)
(* (maxDte, tolerance), the days an announced date may drift (buffer) and  *)
(* the policy.                                                             *)
(***************************************************************************)
EXTENDS Integers

NoDate == -1   \* None

Policies == {"exclude", "flag", "off"}

\* The last day that can matter to a contract of this screen.
WindowEnd(c) == c.maxDte + c.tolerance + c.buffer

\* What a calendar verified complete from today to end says of reports.
Calendar(reports, end) ==
  [n \in DOMAIN reports |-> IF reports[n] \in 0 .. end THEN reports[n] ELSE NoDate]

\* A guard that knows nothing and blocks nothing.
Blind(names) ==
  [dates |-> [n \in names |-> NoDate], buffer |-> 0, policy |-> "off",
   excludeUnknown |-> FALSE, covers |-> NoDate]

BuildGuard(reports, c) ==
  IF c.policy = "off" THEN Blind(DOMAIN reports)
  ELSE [dates |-> Calendar(reports, WindowEnd(c)), buffer |-> c.buffer, policy |-> c.policy,
        excludeUnknown |-> c.excludeUnknown, covers |-> WindowEnd(c)]

\* Variant: the announced date taken as certain.
DeadlineCertain(g, expiry) == expiry

\* The last day on which a report would fall inside a contract's life.
Deadline(g, expiry) == expiry + g.buffer

\* A report that is known spans or not; its absence is an answer only as far
\* as the calendar is vouched for.
Status(g, n, expiry) ==
  CASE g.dates[n] # NoDate ->
         IF g.dates[n] <= Deadline(g, expiry) THEN "spans" ELSE "clean"
    [] g.dates[n] = NoDate ->
         IF g.covers # NoDate /\ Deadline(g, expiry) <= g.covers THEN "clean" ELSE "unknown"

Blocks(g, n, expiry) ==
  /\ g.policy = "exclude"
  /\ \/ Status(g, n, expiry) = "spans"
     \/ Status(g, n, expiry) = "unknown" /\ g.excludeUnknown

\* No contract from earliest on can be clean.
BlocksEveryExpiry(g, n, earliest) ==
  /\ g.policy = "exclude"
  /\ g.dates[n] # NoDate
  /\ g.dates[n] <= Deadline(g, earliest)
=============================================================================
