---------------------------- MODULE AtomicUpdates ----------------------------
(* What update_config_merged promises the threads of a process, without lock,    *)
(* attempts and Ctrl+C: each update is merged into the value at one moment, by    *)
(* its own writer and before the writer is told how it ended, and takes nothing   *)
(* away. Only another process drops updates, and a merge under way may bring      *)
(* back what it has just dropped.                                                 *)

CONSTANT Writers

VARIABLES value,   \* the updates the configuration shows
          lost,    \* the updates another process has dropped
          outcome  \* what each writer is told

Init == /\ value = {}
        /\ lost = {}
        /\ outcome = [t \in Writers |-> "running"]

Done(t) == t \in value \union lost

\* A failure may be reported although the update was made.
Work(t) == /\ outcome[t] = "running"
           /\ \/ UNCHANGED value
              \/ \E back \in SUBSET lost : value' = value \union back \union {t}
           /\ \E end \in {"running", "ok", "failed"} :
                /\ outcome' = [outcome EXCEPT ![t] = end]
                /\ end = "ok" => Done(t)'
           /\ UNCHANGED lost

Intrude == /\ \E kept \in SUBSET value : value' = kept /\ lost' = lost \union (value \ kept)
           /\ UNCHANGED outcome

Next == Intrude \/ \E t \in Writers : Work(t)

updateVars == <<value, lost, outcome>>

Spec == Init /\ [][Next]_updateVars
===============================================================================
