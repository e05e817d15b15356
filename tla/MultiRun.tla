------------------------------- MODULE MultiRun -------------------------------
(* `multi`: one routine for many accounts in a pool of threads (run_all_accounts *)
(* of runner.py under cmd_multi of main.py), the first and second Ctrl+C at any   *)
(* moment, the summary, the exit code and the record of the run.                  *)
EXTENDS FiniteSetsExt, Naturals

CONSTANTS Size,      \* accounts with session headers: 1..Size in order of registration
          Ceilings,  \* values of HW_MAX_PARALLEL; 0 for no limit
          Presses,   \* how often Ctrl+C may be pressed
          LoadFails  \* may an account's headers become unreadable after the preflight?

VARIABLES main,    \* the main thread
          worker,  \* the futures
          report   \* results and run log

vars == <<main, worker, report>>

Accounts == 1..Size

SlotsAsSet(ceiling) == Min({ceiling, Max({Size, 1})})

\* resolve_max_parallel
Slots(ceiling) == IF ceiling = 0 THEN Max({Size, 1}) ELSE Min({ceiling, Max({Size, 1})})

NoResults == [a \in Accounts |-> "none"]

\* coop: is the routine toe's, which polls the cancel flag? next: the account at hand.
\* missing: has the preflight failed an account that has no headers?
Init == /\ \E coop, missing \in BOOLEAN, c \in Ceilings :
             main = [at |-> "submit", next |-> 1, coop |-> coop, missing |-> missing,
                     slots |-> Slots(c), presses |-> 0, cancelled |-> FALSE, code |-> 0]
        /\ worker = [a \in Accounts |-> [state |-> "none", outcome |-> "none"]]
        /\ report = [result |-> NoResults, log |-> "none", logged |-> NoResults]

-------------------------------------------------------------------------------
(* The pool *)

In(state) == {a \in Accounts : worker[a].state = state}

Becomes(a, state, outcome) ==
    worker' = [worker EXCEPT ![a] = [state |-> state, outcome |-> outcome]]

\* Threads outlive the main thread: what is queued then is still carried out.
Start(a) == /\ a \in In("queued") /\ \A b \in In("queued") : a <= b
            /\ Cardinality(In("running")) < main.slots
            /\ Becomes(a, "running", "none")
            /\ UNCHANGED <<main, report>>

\* partial: the summary of a routine that saw the cancel flag. raised: run_for_account
\* reads the headers again, outside its try.
End(a) == /\ a \in In("running")
          /\ \E outcome \in {"ok", "failed"} \union (IF main.cancelled /\ main.coop THEN {"partial"} ELSE {})
                            \union (IF LoadFails THEN {"raised"} ELSE {}) :
               Becomes(a, "done", outcome)
          /\ UNCHANGED <<main, report>>

-------------------------------------------------------------------------------
(* run_all_accounts *)

At(phase) == main.at = phase

Goto(phase) == main' = [main EXCEPT !.at = phase, !.next = 1]

Submit == /\ At("submit") /\ main.next <= Size
          /\ Becomes(main.next, "queued", "none")
          /\ main' = [main EXCEPT !.next = @ + 1]
          /\ UNCHANGED report

Submitted == /\ At("submit") /\ main.next > Size
             /\ Goto("gather")
             /\ UNCHANGED <<worker, report>>

Store(a, result) == report' = [report EXCEPT !.result[a] = result]

Gather(a) == /\ At("gather") /\ report.result[a] = "none"
             /\ worker[a].state = "done" /\ worker[a].outcome # "raised"
             /\ Store(a, worker[a].outcome)
             /\ UNCHANGED <<main, worker>>

\* as_completed hands the exception on; no result reaches cmd_multi.
GatherRaises(a) == /\ At("gather") /\ report.result[a] = "none"
                   /\ worker[a].outcome = "raised"
                   /\ main' = [main EXCEPT !.at = "failRecord", !.code = 1]
                   /\ report' = [report EXCEPT !.result = NoResults]
                   /\ UNCHANGED worker

Gathered == /\ At("gather") /\ \A a \in Accounts : report.result[a] # "none"
            /\ Goto("summarize")
            /\ UNCHANGED <<worker, report>>

CancelFlagOnly == /\ At("cancel") /\ main.next <= Size
                  /\ main' = [main EXCEPT !.next = @ + 1]
                  /\ UNCHANGED <<worker, report>>

\* The first Ctrl+C while gathering: what is queued is cancelled, one future at a time.
Cancel == /\ At("cancel") /\ main.next <= Size
          /\ IF main.next \in In("queued") THEN Becomes(main.next, "cancelled", "none")
                                           ELSE UNCHANGED worker
          /\ main' = [main EXCEPT !.next = @ + 1]
          /\ UNCHANGED report

Cancelled == /\ At("cancel") /\ main.next > Size
             /\ Goto("collect")
             /\ UNCHANGED <<worker, report>>

CollectUnfinished == /\ At("collect") /\ main.next <= Size
                     /\ LET a == main.next IN
                        \/ report.result[a] # "none" /\ UNCHANGED report
                        \/ /\ report.result[a] = "none"
                           /\ Store(a, IF worker[a].state # "done" THEN "interrupted"
                                       ELSE IF worker[a].outcome = "raised" THEN "failed"
                                       ELSE worker[a].outcome)
                     /\ main' = [main EXCEPT !.next = @ + 1]
                     /\ UNCHANGED worker

CollectDoneOnly == /\ At("collect") /\ main.next <= Size
                   /\ LET a == main.next IN
                      \/ report.result[a] # "none" /\ UNCHANGED report
                      \/ /\ report.result[a] = "none" /\ worker[a].state = "done"
                         /\ Store(a, IF worker[a].outcome = "raised" THEN "failed"
                                     ELSE worker[a].outcome)
                   /\ main' = [main EXCEPT !.next = @ + 1]
                   /\ UNCHANGED worker

\* A running worker is waited for only if its routine polls the flag.
Collect == /\ At("collect") /\ main.next <= Size
           /\ LET a == main.next IN
              \/ report.result[a] # "none" /\ UNCHANGED report
              \/ /\ report.result[a] = "none" /\ worker[a].state = "done"
                 /\ Store(a, IF worker[a].outcome = "raised" THEN "failed" ELSE worker[a].outcome)
              \/ /\ report.result[a] = "none"
                 /\ worker[a].state = "cancelled" \/ (worker[a].state = "running" /\ ~main.coop)
                 /\ Store(a, "interrupted")
           /\ main' = [main EXCEPT !.next = @ + 1]
           /\ UNCHANGED worker

Collected == /\ At("collect") /\ main.next > Size
             /\ Goto("summarize")
             /\ UNCHANGED <<worker, report>>

-------------------------------------------------------------------------------
(* cmd_multi *)

FailuresOfWorkers == {a \in Accounts : report.result[a] = "failed"}

\* Failures of the run: interrupts are toe's own way to end, and no other mode's.
Failures == {a \in Accounts : report.result[a] \in {"failed"} \union
                                IF main.coop THEN {} ELSE {"interrupted"}}

Summarize == /\ At("summarize")
             /\ main' = [main EXCEPT !.at = "record",
                                     !.code = IF ~main.missing /\ Failures = {} THEN 0 ELSE 1]
             /\ UNCHANGED <<worker, report>>

Status == IF main.code = 0 THEN "ok" ELSE "failed"

\* record_run_log gives up on a database that fails.
Recorded(status) == \/ report' = [report EXCEPT !.log = status, !.logged = report.result]
                    \/ UNCHANGED report

Record == /\ At("record")
          /\ Recorded(Status)
          /\ Goto("exit")
          /\ UNCHANGED worker

FailRecord == /\ At("failRecord")
              /\ Recorded("failed")
              /\ Goto("exit")
              /\ UNCHANGED worker

\* The first Ctrl+C raises KeyboardInterrupt, the second SystemExit(130). Either ends
\* run_all_accounts without results, except for the first one while gathering.
Interrupted(phase, code) == main' = [main EXCEPT !.at = phase, !.next = 1, !.code = code,
                                                !.presses = @ + 1, !.cancelled = TRUE]

Press ==
    /\ main.presses < Presses
    /\ \/ At("gather") /\ Interrupted("cancel", 0) /\ UNCHANGED report
       \/ /\ main.at \in {"submit", "cancel", "collect"}
          /\ Interrupted("failRecord", 130)
          /\ report' = [report EXCEPT !.result = NoResults]
       \/ At("summarize") /\ Interrupted("failRecord", 130) /\ UNCHANGED report
       \* main's own handler is gone; the record may or may not have been committed
       \/ At("record") /\ Interrupted("exit", 130) /\ Recorded(Status)
       \* what is on its way keeps its exit code
       \/ At("failRecord") /\ Interrupted("exit", main.code) /\ Recorded("failed")
    /\ UNCHANGED worker

PoolStep == \E a \in Accounts : Start(a) \/ End(a)

MainStep == \/ Submit \/ Submitted \/ Gathered \/ Cancel \/ Cancelled \/ Collect \/ Collected
            \/ Summarize \/ Record \/ FailRecord
            \/ \E a \in Accounts : Gather(a) \/ GatherRaises(a)

Next == MainStep \/ PoolStep \/ Press

Spec == Init /\ [][Next]_vars

-------------------------------------------------------------------------------
Outcomes == {"none", "ok", "failed", "partial", "raised"}
Results == {"none", "ok", "failed", "partial", "interrupted"}

MultiTypeOK ==
    /\ main \in [at : {"submit", "gather", "cancel", "collect", "summarize", "record",
                       "failRecord", "exit"},
                 next : 1..(Size + 1), coop : BOOLEAN, missing : BOOLEAN, slots : Nat \ {0},
                 presses : 0..Presses, cancelled : BOOLEAN, code : {0, 1, 130}]
    /\ worker \in [Accounts -> [state : {"none", "queued", "running", "done", "cancelled"},
                                outcome : Outcomes]]
    /\ report \in [result : [Accounts -> Results], log : {"none", "ok", "failed"},
                   logged : [Accounts -> Results]]

\* The one Ctrl+C that is handled keeps what running workers have done: where they poll the
\* flag, an account is reported as interrupted only if it never began, and every other
\* account with what its worker returned (cooperative_wait).
NothingDoneIsLost ==
    \A a \in Accounts :
        /\ main.coop /\ report.result[a] = "interrupted" => worker[a].state = "cancelled"
        /\ report.result[a] \in {"ok", "partial"} => worker[a].outcome = report.result[a]

\* Once an account is reported as interrupted, no account is still going to begin.
StoppedMeansStopped ==
    (\E a \in Accounts : report.result[a] = "interrupted") => In("queued") = {}

\* Exit code 0 and a record "ok" mean that every account was run and succeeded, or, in toe
\* mode, was stopped by the user; the record that says so names all of them.
ExitZeroIsComplete ==
    At("exit") /\ main.code = 0 =>
        /\ ~main.missing
        /\ \A a \in Accounts :
              \/ worker[a].outcome = "ok"
              \/ /\ main.coop /\ main.cancelled
                 /\ worker[a].outcome = "partial" \/ worker[a].state = "cancelled"
        /\ report.log # "none" =>
              report.log = "ok" /\ \A a \in Accounts : report.logged[a] # "none"

\* Whoever the main thread waits for is in the pool: while it gathers, no account without a
\* result was left out or cancelled, and what it collects is at work or over.
WaitsForThePool ==
    /\ At("gather") => \A a \in Accounts : report.result[a] = "none" =>
                           worker[a].state \in {"queued", "running", "done"}
    /\ At("collect") => \A a \in Accounts : report.result[a] = "none" =>
                            worker[a].state \in {"running", "done", "cancelled"}

\* However often Ctrl+C is pressed, the command ends, and so does every account that began.
AllEnded == At("exit") /\ In("running") = {} /\ In("queued") = {}
===============================================================================
