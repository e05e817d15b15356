-------------------------------- MODULE HWClient --------------------------------
(* One HWClient.call (core/client.py): attempts over a lossy network, each with *)
(* a request id of its own, so that the server cannot know a retry from a new   *)
(* call.                                                                        *)
EXTENDS Naturals

CONSTANTS MaxRetries,  \* MAX_RETRIES, the budget of a call that names none
          NoAnswer

VARIABLES pc, budget, attempt, executed, answer

vars == <<pc, budget, attempt, executed, answer>>

Init == /\ pc = "post"
        /\ budget \in {0, MaxRetries}
        /\ attempt = 0
        /\ executed = 0
        /\ answer = NoAnswer

Post(did) == /\ pc = "post"
             /\ executed' = IF did THEN executed + 1 ELSE executed
             /\ UNCHANGED budget

Return(told) == /\ pc' = "done"
                /\ answer' = told
                /\ UNCHANGED attempt

TransientOnceMore == \E did \in BOOLEAN :
                       /\ Post(did)
                       /\ attempt' = attempt + 1
                       /\ IF attempt' > budget + 1
                          THEN pc' = "done" /\ answer' = "unexpected"
                          ELSE pc' = "backoff" /\ UNCHANGED answer

\* A timeout, a broken connection, 429 or 5xx: nobody knows whether it was carried out.
Transient == \E did \in BOOLEAN :
               /\ Post(did)
               /\ attempt' = attempt + 1
               /\ IF attempt' > budget
                  THEN pc' = "done" /\ answer' = "unexpected"
                  ELSE pc' = "backoff" /\ UNCHANGED answer

Backoff == /\ pc = "backoff"
           /\ pc' = "post"
           /\ UNCHANGED <<budget, attempt, executed, answer>>

\* HTTP 401, or an error name of AUTH_ERROR_NAMES: HWAuthError.
Unauthorized == Post(FALSE) /\ Return("auth")

\* Any other error the game names.
Refused == Post(FALSE) /\ Return("error")

Fulfilled == Post(TRUE) /\ Return("success")

\* Another 4xx, a body that is no JSON, no results, a result of unknown form.
Unreadable == \E did \in BOOLEAN : Post(did) /\ Return("unexpected")

Next == \/ Transient \/ Backoff \/ Unauthorized \/ Refused \/ Fulfilled \/ Unreadable

Spec == Init /\ [][Next]_vars

-------------------------------------------------------------------------------
ClientTypeOK == /\ pc \in {"post", "backoff", "done"}
                /\ budget \in Nat
                /\ attempt \in Nat
                /\ executed \in Nat
                /\ answer \in {NoAnswer, "success", "error", "unexpected", "auth"}

Contract == INSTANCE GameCallContract

\* However the network behaves, what the caller is told bounds how often the server
\* has carried the call out (call with its retries refines GameCallContract).
CallContract == Contract!Spec
===============================================================================
