------------------------------- MODULE GameCall -------------------------------
(* What HWClient.call, as GameCallContract bounds it, makes of the game's state *)
(* for a command: Do(g) is the game after one execution of the call in g.       *)
(* Stateless; one execution that nobody heard of before the last attempt stands *)
(* for any number of them.                                                      *)
EXTENDS Naturals

CONSTANTS MaxRetries,  \* budget of calls that name none
          Flaky        \* may requests and replies be lost?

\* The states the last attempt, the one that is answered, can find.
Arrivals(Do(_), g) == {g} \union IF Flaky /\ MaxRetries > 0 THEN {Do(g)} ELSE {}

\* The states an unanswered call can leave.
Losses(Do(_), g) == IF Flaky THEN Arrivals(Do, g) \union {Do(h) : h \in Arrivals(Do, g)} ELSE {}

\* The same for a call with max_retries=0.
LossesOfOne(Do(_), g) == IF Flaky THEN {g, Do(g)} ELSE {}
===============================================================================
