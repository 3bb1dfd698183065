----------------------------- MODULE MCSession -----------------------------
(* Session on small instances.                                              *)
EXTENDS Session

CONSTANTS a, b

Race(key) == [kind |-> "race", key |-> key, raw |-> a]
Lap(time, form) ==
  [kind |-> "laps", session |-> a, no |-> 5,
   laps |-> <<[lap |-> 1, time |-> time, form |-> form]>>]
Best(value) ==
  [kind |-> "statistics", leading |-> a,
   sectors |-> <<[no |-> 5, sector |-> 1, value |-> value]>>]

(* A message that corrects another, one heard again, one that raises.       *)
MCScripts ==
  {<<Lap(2, "good"), Lap(1, "good")>>,
   <<Race(a), Race(a)>>,
   <<Race(a), Lap(1, "overflows")>>,
   <<Lap(1, "overflows"), Best(1)>>}

MCMessages == UNION {{s[i] : i \in DOMAIN s} : s \in MCScripts}
=============================================================================
