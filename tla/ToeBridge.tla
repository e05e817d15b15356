----------------------------- MODULE ToeBridge -----------------------------
(***************************************************************************)
(* The ToE bridge end to end: Python workers that queue battles and poll   *)
(* for their results (battle/engine.py, JsBridgeBattleEngine.calc_batch),  *)
(* the auth server's job store between them (ToeJobStore) and the browser  *)
(* tabs that claim, simulate and answer (userscripts/toe-bridge.ts).       *)
(*                                                                         *)
(* Requests and replies may be lost, tabs may be reloaded and the server   *)
(* restarted at any moment. One unit of time is long against a poll: a     *)
(* worker that is posting or polling completes a round of polling at least *)
(* once in each unit (due) and no round straddles two; nothing is assumed  *)
(* of a tab.                                                               *)
(***************************************************************************)
EXTENDS ToeJobStore, FiniteSets

CONSTANTS
  Clients,       \* engine instances: one per account worker of a CLI process
  ClientAccount, \* the user_id each engine posts its jobs under
  Tabs,          \* browser frames running the userscript with an engine
  TabAccount,    \* the player id each tab can read from its game
  Payloads,      \* what each tab may compute for a battle, dummy loss included
  MaxBatch,      \* bound: battles in one calc_batch call
  Timeout,       \* the engine's timeout
  JobsPerTick    \* JOBS_PER_TICK: jobs a tab drains before it rests

ASSUME BridgeAssumption ==
  /\ ClientAccount \in [Clients -> Accounts]
  /\ TabAccount \in [Tabs -> Players]
  /\ MaxBatch \in Nat \ {0}
  /\ JobsPerTick \in Nat \ {0}
  /\ Timeout \in 1 .. ReclaimAge - 1    \* 30 s against 60 s
  /\ Payloads \in [Tabs -> SUBSET Results]

VARIABLES
  posted,        \* ids handed out so far
  budget,        \* posts not yet promised to a batch (bounds the run)
  phase,         \* where each worker is in calc_batch
  todo,          \* battles of its batch still to post
  pending,       \* its pending dict: jobs without an outcome
  sweep,         \* jobs still to fetch in the current round of polling
  seen,          \* claimed_seen
  quiet,         \* now - last_progress_at
  due,           \* the worker still has to act in this unit of time
  outcome,       \* results[index], by the job of the battle
  estimate,      \* the payload a "result" outcome was made from
  pc,            \* where each tab is in its drain
  who,           \* the account the tab polls with
  job,           \* the job it works on
  calc,          \* what it computed for that job
  drained,       \* jobs handled in this drain
  answer         \* history: the payload the server accepted for each job

clientVars == <<posted, budget, phase, todo, pending, sweep, seen, quiet, due,
                outcome, estimate>>
tabVars    == <<pc, who, job, calc, drained>>
vars       == <<jobs, clientVars, tabVars, answer>>

Failures == {"error", "timeout", "stalled", "cancelled"}
NoJob    == 0

TypeOK ==
  /\ StoreTypeOK
  /\ posted \in 0 .. MaxJobs
  /\ budget \in 0 .. MaxJobs
  /\ phase \in [Clients -> {"idle", "posting", "sleeping", "sweeping"}]
  /\ todo \in [Clients -> 0 .. MaxBatch]
  /\ pending \in [Clients -> SUBSET JobIds]
  /\ sweep \in [Clients -> SUBSET JobIds]
  /\ seen \in [Clients -> SUBSET JobIds]
  /\ quiet \in [Clients -> 0 .. Timeout]
  /\ due \in [Clients -> BOOLEAN]
  /\ outcome \in [JobIds -> {"none", "result"} \cup Failures]
  /\ estimate \in [JobIds -> Results \cup {NoResult}]
  /\ pc \in [Tabs -> {"idle", "polling", "fallback", "computing",
                      "submitting", "retrying"}]
  /\ who \in [Tabs -> Players \cup {NoAccount}]
  /\ job \in [Tabs -> JobIds \cup {NoJob}]
  /\ calc \in [Tabs -> Results \cup {NoResult}]
  /\ drained \in [Tabs -> 0 .. JobsPerTick - 1]
  /\ answer \in [JobIds -> Results \cup {NoResult}]

Init ==
  /\ StoreInit
  /\ posted = 0
  /\ budget = MaxJobs
  /\ phase = [c \in Clients |-> "idle"]
  /\ todo = [c \in Clients |-> 0]
  /\ pending = [c \in Clients |-> {}]
  /\ sweep = [c \in Clients |-> {}]
  /\ seen = [c \in Clients |-> {}]
  /\ quiet = [c \in Clients |-> 0]
  /\ due = [c \in Clients |-> FALSE]
  /\ outcome = [j \in JobIds |-> "none"]
  /\ estimate = [j \in JobIds |-> NoResult]
  /\ pc = [t \in Tabs |-> "idle"]
  /\ who = [t \in Tabs |-> NoAccount]
  /\ job = [t \in Tabs |-> NoJob]
  /\ calc = [t \in Tabs |-> NoResult]
  /\ drained = [t \in Tabs |-> 0]
  /\ answer = [j \in JobIds |-> NoResult]

-----------------------------------------------------------------------------
(* Workers: calc_batch.                                                    *)

(* A call with a non-empty batch. The posts it may need are set aside, so  *)
(* that the bound on job ids (the guard posted < MaxJobs) never cuts a     *)
(* batch short.                                                            *)
StartBatch(c, n) ==
  /\ phase[c] = "idle" /\ n <= budget
  /\ phase' = [phase EXCEPT ![c] = "posting"]
  /\ todo' = [todo EXCEPT ![c] = n]
  /\ budget' = budget - n
  /\ UNCHANGED <<jobs, posted, pending, sweep, seen, quiet, due, outcome,
                 estimate, tabVars, answer>>

(* One iteration of the posting loop is over; after the last one the       *)
(* watchdog starts, and an empty pending dict returns at once.             *)
AfterPost(c) ==
  /\ todo' = [todo EXCEPT ![c] = @ - 1]
  /\ IF todo[c] > 1
     THEN UNCHANGED <<phase, quiet, due>>
     ELSE /\ quiet' = [quiet EXCEPT ![c] = 0]
          /\ phase' = [phase EXCEPT ![c] =
                         IF pending'[c] = {} THEN "idle" ELSE "sleeping"]
          /\ due' = [due EXCEPT ![c] = @ /\ pending'[c] # {}]

PostJob(c) ==
  /\ phase[c] = "posting" /\ posted < MaxJobs
  /\ posted' = posted + 1
  /\ Add(posted', ClientAccount[c])
  /\ pending' = [pending EXCEPT ![c] = @ \cup {posted'}]
  /\ AfterPost(c)
  /\ UNCHANGED <<budget, sweep, seen, outcome, estimate, tabVars, answer>>

(* The request never arrives: this battle's slot becomes a BridgeError.    *)
PostLost(c) ==
  /\ phase[c] = "posting"
  /\ UNCHANGED <<jobs, pending>>
  /\ AfterPost(c)
  /\ UNCHANGED <<posted, budget, sweep, seen, outcome, estimate, tabVars,
                 answer>>

(* The job is queued but the reply is lost: a BridgeError all the same,    *)
(* and a job nobody will ever ask for.                                     *)
PostOrphaned(c) ==
  /\ phase[c] = "posting" /\ posted < MaxJobs
  /\ posted' = posted + 1
  /\ Add(posted', ClientAccount[c])
  /\ outcome' = [outcome EXCEPT ![posted'] = "error"]
  /\ UNCHANGED pending
  /\ AfterPost(c)
  /\ UNCHANGED <<budget, sweep, seen, estimate, tabVars, answer>>

(* The slot of job j is filled; finishing a job is progress.               *)
Settle(c, j, o) ==
  /\ outcome' = [outcome EXCEPT ![j] = o]
  /\ pending' = [pending EXCEPT ![c] = @ \ {j}]
  /\ seen' = [seen EXCEPT ![c] = @ \ {j}]
  /\ quiet' = [quiet EXCEPT ![c] = 0]

BeginSweep(c) ==
  /\ phase[c] = "sleeping"
  /\ phase' = [phase EXCEPT ![c] = "sweeping"]
  /\ sweep' = [sweep EXCEPT ![c] = pending[c]]
  /\ UNCHANGED <<jobs, posted, budget, todo, pending, seen, quiet, due,
                 outcome, estimate, tabVars, answer>>

(* The pending dict is walked in the order of posting.                     *)
Fetching(c, j) ==
  /\ phase[c] = "sweeping"
  /\ IsOldest(j, sweep[c])
  /\ sweep' = [sweep EXCEPT ![c] = @ \ {j}]
  /\ UNCHANGED <<jobs, posted, budget, phase, todo, due, tabVars, answer>>

FetchDone(c, j) ==
  /\ Fetching(c, j)
  /\ Visible(j, ClientAccount[c]) /\ jobs[j].status = "done"
  /\ estimate' = [estimate EXCEPT ![j] = jobs[j].result]
  /\ Settle(c, j, "result")

FetchQueuedRewinds(c, j) ==      \* fault: being queued counts as progress
  /\ Fetching(c, j)
  /\ Visible(j, ClientAccount[c]) /\ jobs[j].status = "pending"
  /\ quiet' = [quiet EXCEPT ![c] = 0]
  /\ UNCHANGED <<pending, seen, outcome, estimate>>

FetchQueued(c, j) ==
  /\ Fetching(c, j)
  /\ Visible(j, ClientAccount[c]) /\ jobs[j].status = "pending"
  /\ UNCHANGED <<pending, seen, quiet, outcome, estimate>>

FetchClaimedNoDeadline(c, j) ==  \* fault: only the watchdog bounds a claim
  /\ Fetching(c, j)
  /\ Visible(j, ClientAccount[c]) /\ jobs[j].status = "in_flight"
  /\ seen' = [seen EXCEPT ![c] = @ \cup {j}]
  /\ quiet' = IF j \in seen[c] THEN quiet ELSE [quiet EXCEPT ![c] = 0]
  /\ UNCHANGED <<pending, outcome, estimate>>

(* A claimed job has its own deadline; the first sight of a claim counts   *)
(* as progress of the queue.                                               *)
FetchClaimed(c, j) ==
  /\ Fetching(c, j)
  /\ Visible(j, ClientAccount[c]) /\ jobs[j].status = "in_flight"
  /\ UNCHANGED estimate
  /\ IF jobs[j].claim_age >= Timeout
     THEN Settle(c, j, "timeout")
     ELSE /\ seen' = [seen EXCEPT ![c] = @ \cup {j}]
          /\ quiet' = IF j \in seen[c] THEN quiet
                      ELSE [quiet EXCEPT ![c] = 0]
          /\ UNCHANGED <<pending, outcome>>

(* A lost request, a lost or malformed reply, or a 404 for a job that a    *)
(* restart or the TTL has dropped: this job's BridgeError only.            *)
FetchFails(c, j) ==
  /\ Fetching(c, j)
  /\ UNCHANGED estimate
  /\ Settle(c, j, "error")

EndSweepNoWatchdog(c) ==         \* fault: the stall check is missing
  /\ phase[c] = "sweeping" /\ sweep[c] = {}
  /\ due' = [due EXCEPT ![c] = FALSE]
  /\ phase' = [phase EXCEPT ![c] =
                 IF pending[c] = {} THEN "idle" ELSE "sleeping"]
  /\ UNCHANGED <<jobs, posted, budget, todo, pending, sweep, seen, quiet,
                 outcome, estimate, tabVars, answer>>

(* After the sweep: return, give the whole queue up as stalled, or sleep.  *)
EndSweep(c) ==
  LET stalled == pending[c] # {} /\ quiet[c] >= Timeout
  IN  /\ phase[c] = "sweeping" /\ sweep[c] = {}
      /\ due' = [due EXCEPT ![c] = FALSE]
      /\ outcome' = [j \in JobIds |-> IF stalled /\ j \in pending[c]
                                      THEN "stalled" ELSE outcome[j]]
      /\ pending' = [pending EXCEPT ![c] = IF stalled THEN {} ELSE @]
      /\ seen' = [seen EXCEPT ![c] = IF stalled THEN {} ELSE @]
      /\ phase' = [phase EXCEPT ![c] =
                     IF pending'[c] = {} THEN "idle" ELSE "sleeping"]
      /\ UNCHANGED <<jobs, posted, budget, todo, sweep, quiet, estimate,
                     tabVars, answer>>

(* Ctrl+C: InterruptedError or KeyboardInterrupt leaves calc_batch; what   *)
(* was queued stays queued.                                                *)
Cancel(c) ==
  /\ phase[c] # "idle"
  /\ phase' = [phase EXCEPT ![c] = "idle"]
  /\ todo' = [todo EXCEPT ![c] = 0]
  /\ outcome' = [j \in JobIds |-> IF j \in pending[c] THEN "cancelled"
                                  ELSE outcome[j]]
  /\ pending' = [pending EXCEPT ![c] = {}]
  /\ sweep' = [sweep EXCEPT ![c] = {}]
  /\ seen' = [seen EXCEPT ![c] = {}]
  /\ due' = [due EXCEPT ![c] = FALSE]
  /\ UNCHANGED <<jobs, posted, budget, quiet, estimate, tabVars, answer>>

-----------------------------------------------------------------------------
(* Tabs: installToeBridge's loop, tick and pollNextJob.                    *)

(* loop(): the account is read again before a drain until it is known.     *)
ReadAccount(t) ==
  /\ pc[t] = "idle" /\ who[t] = NoAccount
  /\ who' = [who EXCEPT ![t] = TabAccount[t]]
  /\ UNCHANGED <<jobs, clientVars, pc, job, calc, drained, answer>>

AboutToPoll(t) == pc[t] \in {"idle", "polling"}

(* pollNextJob got nothing: tick returns and the drain is over.            *)
Rest(t) ==
  /\ pc' = [pc EXCEPT ![t] = "idle"]
  /\ drained' = [drained EXCEPT ![t] = 0]
  /\ UNCHANGED <<clientVars, who, job, calc, answer>>

(* The account a request of pollNextJob carries: the tab's own, then none. *)
PollsAs(t, account) ==
  \/ AboutToPoll(t) /\ account = who[t]
  \/ pc[t] = "fallback" /\ account = NoAccount

PollClaims(t, account, j) ==
  /\ PollsAs(t, account)
  /\ Claim(account, j)
  /\ pc' = [pc EXCEPT ![t] = "computing"]
  /\ job' = [job EXCEPT ![t] = j]
  /\ UNCHANGED <<clientVars, who, calc, drained, answer>>

(* The server hands the job out and the tab never hears of it.             *)
PollReplyLost(t, account, j) ==
  /\ PollsAs(t, account)
  /\ Claim(account, j)
  /\ Rest(t)

(* 204: an account's poll falls back to an account-less one.               *)
PollEmpty(t, account) ==
  /\ PollsAs(t, account)
  /\ Claimable(account) = {}
  /\ IF account # NoAccount
     THEN /\ pc' = [pc EXCEPT ![t] = "fallback"]
          /\ UNCHANGED <<clientVars, who, job, calc, drained, answer>>
     ELSE Rest(t)
  /\ UNCHANGED jobs

PollUnreachable(t) ==
  /\ pc[t] \in {"polling", "fallback"}
  /\ Rest(t)
  /\ UNCHANGED jobs

(* computeBattle: the engine's result, or after an error or its ten        *)
(* seconds the dummy loss that tick puts in its place.                     *)
Compute(t, r) ==
  /\ pc[t] = "computing"
  /\ pc' = [pc EXCEPT ![t] = "submitting"]
  /\ calc' = [calc EXCEPT ![t] = r]
  /\ UNCHANGED <<jobs, clientVars, who, job, drained, answer>>

AfterSubmitOneTooMany(t, ok) ==  \* fault: the drain limit is off by one
  /\ job' = [job EXCEPT ![t] = NoJob]
  /\ calc' = [calc EXCEPT ![t] = NoResult]
  /\ IF drained[t] < JobsPerTick
     THEN /\ pc' = [pc EXCEPT ![t] = "polling"]
          /\ drained' = [drained EXCEPT ![t] = @ + 1]
     ELSE /\ pc' = [pc EXCEPT ![t] = "idle"]
          /\ drained' = [drained EXCEPT ![t] = 0]

(* submitWithRetry retries once, then tick goes on to its next job.        *)
AfterSubmit(t, ok) ==
  IF ok \/ pc[t] = "retrying"
  THEN /\ job' = [job EXCEPT ![t] = NoJob]
       /\ calc' = [calc EXCEPT ![t] = NoResult]
       /\ IF drained[t] + 1 < JobsPerTick
          THEN /\ pc' = [pc EXCEPT ![t] = "polling"]
               /\ drained' = [drained EXCEPT ![t] = @ + 1]
          ELSE /\ pc' = [pc EXCEPT ![t] = "idle"]
               /\ drained' = [drained EXCEPT ![t] = 0]
  ELSE /\ pc' = [pc EXCEPT ![t] = "retrying"]
       /\ UNCHANGED <<job, calc, drained>>

Submitting(t) ==
  /\ pc[t] \in {"submitting", "retrying"}
  /\ UNCHANGED <<clientVars, who>>

(* The server takes the answer; its reply may be lost.                     *)
SubmitAccepted(t, heard) ==
  /\ Submitting(t)
  /\ Accepts(job[t], who[t])
  /\ Submit(job[t], calc[t])
  /\ answer' = [answer EXCEPT ![job[t]] = calc[t]]
  /\ AfterSubmit(t, heard)

(* 404 for a late, foreign or forgotten job.                               *)
SubmitRejected(t) ==
  /\ Submitting(t)
  /\ ~Accepts(job[t], who[t])
  /\ AfterSubmit(t, FALSE)
  /\ UNCHANGED <<jobs, answer>>

SubmitLost(t) ==
  /\ Submitting(t)
  /\ AfterSubmit(t, FALSE)
  /\ UNCHANGED <<jobs, answer>>

(* The page is closed, crashes or is reloaded in the middle of anything.   *)
Reload(t) ==
  /\ pc[t] # "idle" \/ who[t] # NoAccount
  /\ pc' = [pc EXCEPT ![t] = "idle"]
  /\ who' = [who EXCEPT ![t] = NoAccount]
  /\ job' = [job EXCEPT ![t] = NoJob]
  /\ calc' = [calc EXCEPT ![t] = NoResult]
  /\ drained' = [drained EXCEPT ![t] = 0]
  /\ UNCHANGED <<jobs, clientVars, answer>>

-----------------------------------------------------------------------------
(* The environment: the server process dies with its queue; time passes.   *)
Restart ==
  /\ ForgetJobs
  /\ UNCHANGED <<clientVars, tabVars, answer>>

Tick ==
  /\ \A c \in Clients : ~due[c] /\ phase[c] # "sweeping"
  /\ AgeJobs
  /\ quiet' = [c \in Clients |-> IF phase[c] \in {"sleeping", "sweeping"}
                                 THEN Capped(quiet[c] + 1, Timeout)
                                 ELSE quiet[c]]
  /\ due' = [c \in Clients |-> phase[c] # "idle"]
  /\ UNCHANGED <<posted, budget, phase, todo, pending, sweep, seen, outcome,
                 estimate, tabVars, answer>>

-----------------------------------------------------------------------------
FetchStep(c) ==
  \E j \in sweep[c] : \/ FetchDone(c, j) \/ FetchQueued(c, j)
                      \/ FetchClaimed(c, j) \/ FetchFails(c, j)

ClientStep(c) ==
  \/ PostJob(c) \/ PostLost(c) \/ PostOrphaned(c)
  \/ BeginSweep(c) \/ FetchStep(c) \/ EndSweep(c)

PollStep(t) ==
  \/ \E account \in {who[t], NoAccount} :
       \/ \E j \in JobIds : \/ PollClaims(t, account, j)
                            \/ PollReplyLost(t, account, j)
       \/ PollEmpty(t, account)
  \/ PollUnreachable(t)

SubmitStep(t) ==
  \/ \E heard \in BOOLEAN : SubmitAccepted(t, heard)
  \/ SubmitRejected(t) \/ SubmitLost(t)

TabStep(t) ==
  \/ ReadAccount(t) \/ PollStep(t)
  \/ \E r \in Payloads[t] : Compute(t, r)
  \/ SubmitStep(t)

Next ==
  \/ \E c \in Clients : \/ \E n \in 1 .. MaxBatch : StartBatch(c, n)
                        \/ ClientStep(c) \/ Cancel(c)
  \/ \E t \in Tabs : TabStep(t) \/ Reload(t)
  \/ Restart \/ Tick

Spec == Init /\ [][Next]_vars

(* A worker's thread keeps running and time keeps passing (strongly: a     *)
(* round of polling only delays the next unit); nothing is asked of tabs,  *)
(* network or server.                                                      *)
FairSpec == Spec /\ SF_vars(Tick) /\ \A c \in Clients : WF_vars(ClientStep(c))

(* Tabs keep polling and computing, and the network lets a     *)
(* poll and an answer through again and again.                             *)
PollSucceeds(t) ==
  \E account \in {who[t], NoAccount}, j \in JobIds : PollClaims(t, account, j)

LiveTabs ==
  /\ \A t \in Tabs : /\ WF_vars(\E account \in {who[t], NoAccount} :
                                     PollEmpty(t, account))
                     /\ SF_vars(PollSucceeds(t))
                     /\ WF_vars(\E r \in Payloads[t] : Compute(t, r))
                     /\ SF_vars(SubmitAccepted(t, TRUE))
                     /\ WF_vars(SubmitStep(t))

-----------------------------------------------------------------------------
(* Properties.                                                             *)

Awaited(j) == \E c \in Clients : j \in pending[c]

(* The bridge implements the contract calc_batch has with its caller: an   *)
(* answer is accepted once per job and never replaced, whatever reclaims,  *)
(* retries and late tabs do, and a worker reports that answer, once, or a  *)
(* failure (calc_batch, ToeJobStore.submit).                               *)
Oracle == INSTANCE BattleOracle WITH
            Battles <- JobIds, Answers <- Results, NoAnswer <- NoResult,
            Faults <- Failures, answered <- answer, slot <- outcome,
            reported <- estimate

OracleSpec == Oracle!OracleSpec

(* The reclaim timeout and the engine's timeout agree: a job is handed out *)
(* a second time only when no worker waits for it any more, so no awaited  *)
(* battle is ever simulated by two tabs (ToeJobStore.claim against         *)
(* calc_batch's claimed_at deadline).                                      *)
AwaitedClaimStands ==
  \A j \in JobIds : Awaited(j) => ~Reclaimable(j)

(* The TTL sweep never drops a job from under a worker that waits for it,  *)
(* as long as the batch is small enough for its own watchdog to end it     *)
(* first: every claim and every finish may rewind the watchdog, so a batch *)
(* of n waits up to 2n timeouts (ToeJobStore.cleanup against calc_batch's  *)
(* last_progress_at).                                                      *)
LongestBatch == 2 * MaxBatch * Timeout

AwaitedJobOutlivesTTL ==
  LongestBatch <= TTL => \A j \in JobIds : Awaited(j) => ~Expired(j)

(* Once the owner's own tab has reclaimed a job, the late answer of the    *)
(* foreign tab that held it before is refused: a job whose last claim      *)
(* named its account holds a payload of a tab of that account              *)
(* (ToeJobStore.claim and submit).                                         *)
OwnersClaimShutsOthersOut ==
  \A j \in JobIds :
    jobs[j].status = "done" /\ jobs[j].claimed_by = jobs[j].account
      => \E t \in Tabs : /\ TabAccount[t] = jobs[j].account
                         /\ jobs[j].result \in Payloads[t]

(* A batch always returns, whether or not any tab ever answers             *)
(* (calc_batch's watchdog and per-claim deadline).                         *)
BatchReturns ==
  \A c \in Clients : phase[c] # "idle" ~> phase[c] = "idle"

(* A job claimed and lost never wedges the queue: while some tab stays up, *)
(* every queued job is eventually done, or gone (claim's reclaim rule).    *)
QueueDrains ==
  LiveTabs /\ <>[][~ \E t \in Tabs : Reload(t)]_vars =>
    \A j \in JobIds :
      jobs[j].status \in {"pending", "in_flight"}
        ~> jobs[j].status \in {"done", "absent"}

(* A worker reports the job queue as stalled only when the bridge is dead, *)
(* not merely slow: not while a tab simulates a battle of another worker,  *)
(* claimed since this worker's watchdog was last rewound and before its    *)
(* last round of polling (the comment in calc_batch).                      *)
StalledQueueIsIdle ==
  [][\A c \in Clients :
       (\E j \in pending[c] : outcome'[j] = "stalled")
         => \A d \in Clients \ {c} : \A j \in pending[d] :
              jobs[j].status = "in_flight"
                => jobs[j].claim_age \notin 1 .. Timeout - 1
    ]_vars
=============================================================================
