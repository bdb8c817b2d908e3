----------------------------- MODULE MCRecurrence -----------------------------
(* A calendar of months of 3 and 2 days, days of 2 minutes, minutes of 2     *)
(* seconds: two months last 20 seconds, and the properties look at four.     *)
EXTENDS Recurrence

\* The last day of a long month, and that of the short one after it in the
\* middle of a minute.
MCStarts == {10, 19}

Pattern(unit, freq, days) == [unit |-> unit, freq |-> freq, days |-> days]

\* Among them: a day that every second month lacks (monthly on the 3rd), a
\* rule that never occurs when it starts in a short month, and gaps.
MCPatterns == {Pattern("minutely", 3, {}), Pattern("minutely", 2, {1}),
               Pattern("daily", 2, {}), Pattern("monthly", 1, {}),
               Pattern("monthly", 2, {3})}

MCExPatterns == {Pattern("daily", 3, {}), Pattern("monthly", 1, {})}

MCDurations == {-1, 2}

MCInstants == {16, 22}

\* Between two minutes: a sub-daily rule with days, and UNTIL at the very
\* beginning of a minute, may miss the occurrence at its end.
MCUntils == {13, 22}

\* An occurrence of some of them.
MCClock == {16}

MCAsked == {2, 9, 12, 15, 23, 30}

\* For the run about RDATEs: a rule that leaves days for one, and no end.
MCDaily == {Pattern("daily", 2, {})}

MCForEver == {-1}
=============================================================================
