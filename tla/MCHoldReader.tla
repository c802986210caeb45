---------------------------- MODULE MCHoldReader ----------------------------
\* A profile of two modes: holding "b" goes to the second, releasing a key goes
\* back; "a" has a hold_once rule in the first and a hold rule in the second.
EXTENDS HoldReader
Rule(k, on, ms, to) == [key |-> k, on |-> on, ms |-> ms, to |-> to]
TwoModes ==
  <<  <<Rule("a", "once", 2, None), Rule("b", "once", 1, 2)>>,
      <<Rule("b", "release", 0, 1), Rule("a", "hold", 1, None), Rule("a", "release", 0, 1)>> >>
=============================================================================
