--------------------------- MODULE GameCallContract ---------------------------
(* What a caller of HWClient.call may rely on, without HTTP: how often the     *)
(* server may have carried the call out, given what the caller is told.        *)
EXTENDS Naturals

CONSTANT NoAnswer

VARIABLES budget,    \* retries the caller allows
          executed,  \* times the server has carried the call out
          answer     \* what the caller is told

Told == {"success", "error", "unexpected", "auth"}

Init == /\ budget \in Nat
        /\ executed = 0
        /\ answer = NoAnswer

\* A refusal is about the last attempt: earlier ones may have been carried out.
Attempt == /\ answer = NoAnswer
           /\ executed' \in {executed, executed + 1}
           /\ answer' \in Told \union {NoAnswer}
           /\ executed' <= budget + 1
           /\ answer' = "success" => executed' >= 1
           /\ answer' \in {"error", "auth"} => executed' <= budget
           /\ UNCHANGED budget

Spec == Init /\ [][Attempt]_<<budget, executed, answer>>
===============================================================================
