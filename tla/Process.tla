-------------------------------- MODULE Process --------------------------------
(* What the commands and the auth server stand on: one call of the game's API      *)
(* (HWClient), a run over many accounts (MultiRun), an account's stored            *)
(* configuration (ConfigStore) and the userscript in the page that supplies the    *)
(* session (PageScript). They meet in what Commands and AuthHandshake assume of    *)
(* them and share no variable: a behaviour is one of them, picked at the start.    *)
EXTENDS FiniteSets, Integers, Sequences

CONSTANTS MaxRetries, NoAnswer,                                              \* HWClient
          Size, Ceilings, Presses, LoadFails,                                \* MultiRun
          Writers, Main, Attempts, Opens, Others, Nobody,                    \* ConfigStore
          Requests, Cooldown, Window, MaxReloads, Horizon, Mishaps, Wraps    \* PageScript

ASSUME ClientAssumption == /\ MaxRetries \in Nat
                           /\ NoAnswer \notin {"success", "error", "unexpected", "auth"}

ASSUME StoreAssumption == /\ IsFiniteSet(Writers) /\ Main \in Writers /\ Nobody \notin Writers
                          /\ Attempts \in Nat \ {0} /\ Opens \in Nat \ {0} /\ Others \in Nat

ASSUME MultiAssumption == Size \in Nat /\ Ceilings \subseteq Nat /\ Presses \in Nat

ASSUME PageAssumption == /\ MaxReloads \in Nat \ {0} /\ Window \in Nat /\ Cooldown \in 1..Window
                         /\ MaxReloads * Cooldown > Window /\ Mishaps \in Nat

VARIABLES part,                                   \* the component at work
          pc, budget, attempt, executed, answer,  \* HWClient
          main, worker, report,                   \* MultiRun
          thread, store, sigint, live,            \* ConfigStore
          page, tab, xhr                          \* PageScript

clientVars == <<pc, budget, attempt, executed, answer>>
multiVars == <<main, worker, report>>
storeVars == <<thread, store, sigint, live>>
pageVars == <<page, tab, xhr>>
vars == <<part, clientVars, multiVars, storeVars, pageVars>>

Client == INSTANCE HWClient
Multi == INSTANCE MultiRun
Store == INSTANCE ConfigStore
Page == INSTANCE PageScript

\* A component that is not at work; the client is as before a call without retries.
NoCall  == pc = "post" /\ budget = 0 /\ attempt = 0 /\ executed = 0 /\ answer = NoAnswer
NoRun   == main = "out" /\ worker = "out" /\ report = "out"
NoStore == thread = "out" /\ store = "out" /\ sigint = "out" /\ live = "out"
NoPage  == page = "out" /\ tab = "out" /\ xhr = "out"

Init == \/ part = "client" /\ Client!Init /\ NoRun /\ NoStore /\ NoPage
        \/ part = "multi" /\ NoCall /\ Multi!Init /\ NoStore /\ NoPage
        \/ part = "store" /\ NoCall /\ NoRun /\ Store!Init /\ NoPage
        \/ part = "page" /\ NoCall /\ NoRun /\ NoStore /\ Page!Init

ClientStep == part = "client" /\ Client!Next
MainStep == part = "multi" /\ Multi!MainStep
PoolStep == part = "multi" /\ Multi!PoolStep
WriterStep(t) == part = "store" /\ Store!Step(t)

Next == /\ \/ ClientStep
           \/ MainStep \/ PoolStep \/ (part = "multi" /\ Multi!Press)
           \/ (\E t \in Writers : WriterStep(t))
           \/ part = "store" /\ (Store!Sigint \/ Store!Intrude \/ Store!Pool)
           \/ part = "page" /\ Page!Next
        /\ part # "client" => UNCHANGED clientVars
        /\ part # "multi" => UNCHANGED multiVars
        /\ part # "store" => UNCHANGED storeVars
        /\ part # "page" => UNCHANGED pageVars
        /\ UNCHANGED part

Spec == Init /\ [][Next]_vars

\* Threads are scheduled, attempts and every routine's loops are bounded, requests time out:
\* the main thread, the pool and each started writer go on. Nobody has to press Ctrl+C, or
\* to start a thread.
Fairness == /\ WF_multiVars(MainStep) /\ WF_multiVars(PoolStep)
            /\ \A t \in Writers : WF_storeVars(WriterStep(t))

FairSpec == Spec /\ Fairness

-------------------------------------------------------------------------------
\* The types of whichever component is at work.
TypeOK == CASE part = "client" -> Client!ClientTypeOK
            [] part = "multi" -> Multi!MultiTypeOK
            [] part = "store" -> Store!StoreTypeOK
            [] part = "page" -> Page!PageTypeOK

\* However the network behaves, what the caller of HWClient.call is told bounds how often the
\* server has carried the call out: the retries refine GameCallContract.
CallContract == Client!CallContract

\* The one Ctrl+C that is handled keeps what running workers have done: in toe mode an
\* account is reported as interrupted only if it never began, and what is reported is what
\* its worker returned (run_all_accounts, cooperative_wait).
NothingDoneIsLost == part = "multi" => Multi!NothingDoneIsLost

\* Once an account of `multi` is reported as interrupted, no account is still going to begin.
StoppedMeansStopped == part = "multi" => Multi!StoppedMeansStopped

\* Exit code 0 of `multi` and a record "ok" mean that every account was run and succeeded or,
\* in toe mode, was stopped by the user; a record that says so names all of them.
ExitZeroIsComplete == part = "multi" => Multi!ExitZeroIsComplete

\* The main thread of `multi` never waits for an account that no thread of the pool is going
\* to finish, whenever Ctrl+C turns gathering into cancelling and collecting.
WaitsForThePool == part = "multi" => Multi!WaitsForThePool

\* However often Ctrl+C is pressed, `multi` ends, and so does every account that began, in
\* whatever number of slots HW_MAX_PARALLEL leaves.
MultiEnds == <>(IF part = "multi" THEN Multi!AllEnded ELSE TRUE)

\* A configuration update that was reported as done is there until another process drops
\* it: threads of one process never lose each other's, whatever is retried
\* (update_config_merged under the WAL lock).
UpdatesSurvive == part = "store" => Store!UpdatesSurvive

Updates == INSTANCE AtomicUpdates WITH
             value <- IF part = "store" THEN store.value ELSE {},
             lost <- IF part = "store" THEN store.lost ELSE {},
             outcome <- [t \in Writers |-> IF part = "store" THEN Store!Outcome(t) ELSE "running"]

\* Under retries, contention and Ctrl+C an update of the configuration is made at one moment
\* and before its writer is told how it ended, never behind the back of one that has been
\* told, and drops nobody else's: ConfigStore refines AtomicUpdates.
UpdateContract == Updates!Spec

\* A thread that waits for the WAL lock waits for one that is at work in it, and never for
\* one that has ended, was interrupted or sleeps between two attempts.
NobodyWaitsForTheDead == part = "store" => Store!NobodyWaitsForTheDead

\* Ctrl+C makes the native driver panic only in a process that has had another thread
\* started, which may take the signal the main thread has masked, and whoever it ends leaves
\* the lock (defer_sigint).
CleanInterrupt == part = "store" => Store!CleanInterrupt

\* A deferred Ctrl+C never outlasts the attempt it was deferred for, and the main thread is
\* interrupted by a Ctrl+C and by nothing else (defer_sigint, which lifts the mask however
\* the attempt ends).
DeferredIsHeld == part = "store" => Store!DeferredIsHeld

\* A Ctrl+C that was deferred is delivered when the attempt ends, however it ends.
DeferredIsDelivered == (IF part = "store" THEN Store!Deferred ELSE FALSE)
                          ~> (IF part = "store" THEN Store!Delivered ELSE FALSE)

\* Every update comes to an end: attempts are bounded and nobody keeps the lock.
WritersEnd == <>[](IF part = "store" THEN Store!AllEnded ELSE TRUE)

\* While storage is kept and the clock runs forward, the page reloads itself no more than
\* MaxReloads times in any Window and never twice within Cooldown, however many answers say
\* that the session has expired and across every reload (evaluateReload).
ReloadBudget == part = "page" => Page!ReloadBudget

\* Whatever a request object was opened for before and whoever has wrapped it since, its
\* headers are captured and its answers heard exactly while it is opened for the API
\* (installXhrInterceptor).
ApiRequestsAreSeen == part = "page" => Page!ApiRequestsAreSeen

\* A comment at connect says of both its retries: the lock is taken per attempt, so that
\* backoff sleeps do not block other threads (core/database.py).
SleepersHoldNoLock == part = "store" => Store!SleepersHoldNoLock
===============================================================================
