---------------------------- MODULE MCScreening ----------------------------
(* Small instances of Screening for TLC: expiries from 2 to 3, a day of drift. *)
EXTENDS Screening

CONSTANTS a, f  \* a stock and a fund

Names == {a, f}
OneFund == {f}

Put(dte, off, pays) == [dte |-> dte, off |-> off, pays |-> pays,
                        open |-> TRUE, liquid |-> TRUE]
near == Put(2, 0, 1)
wide == Put(2, 1, 2)    \* pays more, further from the target
rich == Put(3, 0, 3)    \* expires later, pays most
beyond == Put(4, 0, 4)  \* within a tolerance of 1 only
thin == [near EXCEPT !.liquid = FALSE]
Puts4 == {near, wide, rich, beyond, thin}

Of(chain, report) == [chain |-> chain, report |-> report, sound |-> TRUE, far |-> FALSE]
SomeMarkets ==
  {Of({near, wide, rich}, NoDate),  \* nothing in the way
   Of({near, rich}, 4),        \* reports just behind the later expiry
   Of({rich, beyond}, 5),      \* reports behind the window, inside its tolerance
   [Of({near, thin}, NoDate) EXCEPT !.far = TRUE],
   [Of({near}, 3) EXCEPT !.sound = FALSE]}
QuotedMarkets == {Of({near, rich}, NoDate), Of({near}, NoDate)}

Asked(t, policy, blocked) ==
  [minDte |-> 2, maxDte |-> 3, tolerance |-> t, buffer |-> 1, policy |-> policy,
   excludeUnknown |-> TRUE, blocked |-> blocked]
SomeCriteria ==
  {Asked(0, "exclude", {}), Asked(0, "exclude", {f}), Asked(1, "exclude", {}),
   Asked(0, "flag", {a}), Asked(0, "off", {})}
PlainCriteria == {Asked(0, "exclude", {})}
=============================================================================
