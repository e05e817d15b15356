-------------------------- MODULE ToeBridgeProofs --------------------------
(***************************************************************************)
(* Proofs about the ToE bridge, for every set of workers, tabs and         *)
(* accounts and every value of the timeouts and bounds.                    *)
(***************************************************************************)
EXTENDS ToeBridge, FiniteSetTheorems, TLAPS

(* A tab carries a job id from its claim to its last submission, what it   *)
(* submits is what it may compute, and it polls as itself or as nobody.    *)
TabsHoldJobs ==
  \A t \in Tabs :
    /\ pc[t] \in {"computing", "submitting", "retrying"} => job[t] \in JobIds
    /\ pc[t] \in {"submitting", "retrying"} => calc[t] \in Payloads[t]
    /\ who[t] \in {NoAccount, TabAccount[t]}

(* A worker in its posting loop still has a battle to post.                *)
PostersHaveWork ==
  \A c \in Clients : phase[c] = "posting" => todo[c] > 0

TypeInv == TypeOK /\ TabsHoldJobs /\ PostersHaveWork

-----------------------------------------------------------------------------
(* The store keeps its type under each of its operations.                  *)

LEMMA AbsentType == Absent \in Job
  BY StoreAssumption DEF Absent, Job, Status

LEMMA AddType ==
  ASSUME StoreTypeOK, NEW j \in JobIds, NEW a \in Accounts, Add(j, a)
  PROVE  StoreTypeOK'
<1>1. NewJob(a) \in Job
  BY AbsentType DEF NewJob, Job, Status
<1>. QED  BY <1>1, AbsentType DEF Add, StoreTypeOK

LEMMA ClaimType ==
  ASSUME StoreTypeOK, NEW a \in Players \cup {NoAccount}, NEW j \in JobIds,
         Claim(a, j)
  PROVE  StoreTypeOK'
<1>1. jobs' = [jobs EXCEPT ![j] = [jobs[j] EXCEPT !.status = "in_flight",
                                                  !.claim_age = 0,
                                                  !.claimed_by = a]]
  BY DEF Claim, StoreTypeOK, Job
<1>2. [jobs[j] EXCEPT !.status = "in_flight", !.claim_age = 0,
                      !.claimed_by = a] \in Job
  <2>1. jobs[j] \in Job  BY DEF StoreTypeOK
  <2>2. 0 \in 0 .. ReclaimAge  BY StoreAssumption
  <2>3. "in_flight" \in Status  BY DEF Status
  <2>. QED  BY <2>1, <2>2, <2>3 DEF Job
<1>. QED  BY <1>1, <1>2 DEF StoreTypeOK

LEMMA SubmitType ==
  ASSUME StoreTypeOK, NEW j \in JobIds, NEW r \in Results, Submit(j, r)
  PROVE  StoreTypeOK'
<1>1. jobs' = [jobs EXCEPT ![j] = [jobs[j] EXCEPT !.status = "done",
                                                  !.claim_age = 0,
                                                  !.result = r]]
  BY DEF Submit, StoreTypeOK, Job
<1>2. [jobs[j] EXCEPT !.status = "done", !.claim_age = 0, !.result = r] \in Job
  <2>1. jobs[j] \in Job  BY DEF StoreTypeOK
  <2>2. 0 \in 0 .. ReclaimAge  BY StoreAssumption
  <2>3. "done" \in Status  BY DEF Status
  <2>. QED  BY <2>1, <2>2, <2>3 DEF Job
<1>. QED  BY <1>1, <1>2 DEF StoreTypeOK

LEMMA AgeType ==
  ASSUME StoreTypeOK, AgeJobs
  PROVE  StoreTypeOK'
<1>1. ASSUME NEW r \in Job PROVE Aged(r) \in Job
  <2>1. Capped(r.age + 1, TTL + 1) \in 0 .. TTL + 1
    BY StoreAssumption DEF Capped, Job
  <2>2. Capped(r.claim_age + 1, ReclaimAge) \in 0 .. ReclaimAge
    BY StoreAssumption DEF Capped, Job
  <2>. QED  BY <2>1, <2>2 DEF Aged, Job
<1>. QED  BY <1>1 DEF AgeJobs, StoreTypeOK

LEMMA ForgetType ==
  ASSUME ForgetJobs
  PROVE  StoreTypeOK'
  BY AbsentType DEF ForgetJobs, StoreTypeOK

-----------------------------------------------------------------------------
(* The steps of a worker keep every type.                                  *)

LEMMA StartBatchType ==
  ASSUME TypeInv, NEW c \in Clients, NEW n \in 1 .. MaxBatch, StartBatch(c, n)
  PROVE  TypeInv'
  BY StoreAssumption, BridgeAssumption
     DEF TypeInv, TypeOK, TabsHoldJobs, PostersHaveWork, StartBatch,
         StoreTypeOK, tabVars

LEMMA AfterPostType ==
  ASSUME TypeOK, PostersHaveWork,
         NEW c \in Clients, phase[c] = "posting", AfterPost(c)
  PROVE  /\ phase' \in [Clients -> {"idle", "posting", "sleeping", "sweeping"}]
         /\ todo' \in [Clients -> 0 .. MaxBatch]
         /\ quiet' \in [Clients -> 0 .. Timeout]
         /\ due' \in [Clients -> BOOLEAN]
         /\ PostersHaveWork'
<1>. USE StoreAssumption, BridgeAssumption DEF TypeOK, PostersHaveWork, AfterPost
<1>1. todo[c] \in 1 .. MaxBatch /\ todo' = [todo EXCEPT ![c] = todo[c] - 1]
  OBVIOUS
<1>2. CASE todo[c] > 1
  <2>1. phase' = phase /\ quiet' = quiet /\ due' = due
    BY <1>2
  <2>. QED  BY <1>1, <1>2, <2>1
<1>3. CASE ~(todo[c] > 1)
  <2>1. quiet' = [quiet EXCEPT ![c] = 0]
    BY <1>3
  <2>2. phase' = [phase EXCEPT ![c] = IF pending'[c] = {} THEN "idle"
                                      ELSE "sleeping"]
    BY <1>3
  <2>3. due' \in [Clients -> BOOLEAN]
    <3>1. due' = [due EXCEPT ![c] = @ /\ pending'[c] # {}]
      BY <1>3
    <3>. HIDE DEF AfterPost
    <3>. QED  BY <3>1, Zenon
  <2>. QED  BY <1>1, <2>1, <2>2, <2>3
<1>. QED  BY <1>2, <1>3

LEMMA PostType ==
  ASSUME TypeInv, NEW c \in Clients,
         PostJob(c) \/ PostLost(c) \/ PostOrphaned(c)
  PROVE  TypeInv'
<1>. USE StoreAssumption, BridgeAssumption DEF TypeInv
<1>0. /\ phase' \in [Clients -> {"idle", "posting", "sleeping", "sweeping"}]
      /\ todo' \in [Clients -> 0 .. MaxBatch]
      /\ quiet' \in [Clients -> 0 .. Timeout]
      /\ due' \in [Clients -> BOOLEAN]
      /\ PostersHaveWork'
  BY AfterPostType DEF PostJob, PostLost, PostOrphaned
<1>t. /\ TabsHoldJobs'
      /\ UNCHANGED <<budget, sweep, seen, estimate, tabVars, answer>>
  BY DEF PostJob, PostLost, PostOrphaned, TabsHoldJobs, tabVars
<1>1. CASE PostJob(c)
  <2>1. posted' \in JobIds
    BY <1>1 DEF PostJob, TypeOK, JobIds
  <2>2. StoreTypeOK'
    BY <1>1, <2>1, AddType DEF PostJob, TypeOK
  <2>3. posted' \in 0 .. MaxJobs
    BY <2>1 DEF JobIds
  <2>4. pending' \in [Clients -> SUBSET JobIds]
    BY <1>1, <2>1 DEF PostJob, TypeOK
  <2>5. UNCHANGED outcome
    BY <1>1 DEF PostJob
  <2>. QED
    BY <1>0, <1>t, <2>2, <2>3, <2>4, <2>5 DEF TypeOK, tabVars
<1>2. CASE PostLost(c)
  <2>1. UNCHANGED <<jobs, pending, posted, outcome>>
    BY <1>2 DEF PostLost
  <2>. QED
    BY <1>0, <1>t, <2>1 DEF TypeOK, tabVars, StoreTypeOK
<1>3. CASE PostOrphaned(c)
  <2>1. posted' \in JobIds
    BY <1>3 DEF PostOrphaned, TypeOK, JobIds
  <2>2. StoreTypeOK'
    BY <1>3, <2>1, AddType DEF PostOrphaned, TypeOK
  <2>3. outcome' \in [JobIds -> {"none", "result"} \cup Failures]
    BY <1>3 DEF PostOrphaned, TypeOK, Failures
  <2>4. posted' \in 0 .. MaxJobs
    BY <2>1 DEF JobIds
  <2>5. UNCHANGED pending
    BY <1>3 DEF PostOrphaned
  <2>. QED
    BY <1>0, <1>t, <2>2, <2>3, <2>4, <2>5 DEF TypeOK, tabVars
<1>. QED  BY <1>1, <1>2, <1>3

LEMMA SettleType ==
  ASSUME TypeOK, NEW c \in Clients, NEW j \in JobIds,
         NEW o \in {"result"} \cup Failures, Settle(c, j, o)
  PROVE  /\ outcome' \in [JobIds -> {"none", "result"} \cup Failures]
         /\ pending' \in [Clients -> SUBSET JobIds]
         /\ seen' \in [Clients -> SUBSET JobIds]
         /\ quiet' \in [Clients -> 0 .. Timeout]
  BY StoreAssumption, BridgeAssumption DEF TypeOK, Settle, Failures

LEMMA FetchType ==
  ASSUME TypeInv, NEW c \in Clients, NEW j \in sweep[c],
         \/ FetchDone(c, j) \/ FetchQueued(c, j)
         \/ FetchClaimed(c, j) \/ FetchFails(c, j)
  PROVE  TypeInv'
<1>. USE StoreAssumption, BridgeAssumption DEF TypeInv
<1>1. j \in JobIds
  BY DEF TypeOK
<1>2. /\ sweep' \in [Clients -> SUBSET JobIds]
      /\ UNCHANGED <<jobs, posted, budget, phase, todo, due, tabVars, answer>>
  BY DEF TypeOK, Fetching, FetchDone, FetchQueued, FetchClaimed, FetchFails
<1>3. /\ TabsHoldJobs' /\ PostersHaveWork'
  BY <1>2 DEF TabsHoldJobs, PostersHaveWork, tabVars
<1>4. CASE FetchDone(c, j)
  <2>1. estimate' \in [JobIds -> Results \cup {NoResult}]
    BY <1>1, <1>4 DEF FetchDone, TypeOK, StoreTypeOK, Job
  <2>2. Settle(c, j, "result") /\ "result" \in {"result"} \cup Failures
    BY <1>4 DEF FetchDone
  <2>3. /\ outcome' \in [JobIds -> {"none", "result"} \cup Failures]
        /\ pending' \in [Clients -> SUBSET JobIds]
        /\ seen' \in [Clients -> SUBSET JobIds]
        /\ quiet' \in [Clients -> 0 .. Timeout]
    BY <1>1, <2>2, SettleType
  <2>. QED
    BY <1>2, <1>3, <2>1, <2>3 DEF TypeOK, StoreTypeOK, tabVars
<1>5. CASE FetchQueued(c, j)
  BY <1>2, <1>3, <1>5 DEF FetchQueued, TypeOK, StoreTypeOK, tabVars
<1>6. CASE FetchClaimed(c, j)
  <2>1. CASE jobs[j].claim_age >= Timeout
    BY <1>1, <1>2, <1>3, <1>6, <2>1, SettleType
    DEF FetchClaimed, TypeOK, StoreTypeOK, tabVars, Failures
  <2>2. CASE ~(jobs[j].claim_age >= Timeout)
    <3>1. /\ seen' = [seen EXCEPT ![c] = @ \cup {j}]
          /\ quiet' = IF j \in seen[c] THEN quiet
                      ELSE [quiet EXCEPT ![c] = 0]
          /\ UNCHANGED <<pending, outcome, estimate>>
      BY <1>6, <2>2 DEF FetchClaimed
    <3>2. /\ seen' \in [Clients -> SUBSET JobIds]
          /\ quiet' \in [Clients -> 0 .. Timeout]
      BY <1>1, <3>1 DEF TypeOK
    <3>. QED
      BY <1>2, <1>3, <3>1, <3>2 DEF TypeOK, StoreTypeOK, tabVars
  <2>. QED  BY <2>1, <2>2
<1>7. CASE FetchFails(c, j)
  BY <1>1, <1>2, <1>3, <1>7, SettleType
  DEF FetchFails, TypeOK, StoreTypeOK, tabVars, Failures
<1>. QED  BY <1>4, <1>5, <1>6, <1>7

LEMMA SweepType ==
  ASSUME TypeInv, NEW c \in Clients,
         BeginSweep(c) \/ EndSweep(c) \/ Cancel(c)
  PROVE  TypeInv'
<1>. USE StoreAssumption, BridgeAssumption DEF TypeInv
<1>1. CASE BeginSweep(c)
  BY <1>1 DEF BeginSweep, TypeOK, TabsHoldJobs, PostersHaveWork, tabVars,
              StoreTypeOK
<1>2. CASE EndSweep(c)
  BY <1>2 DEF EndSweep, TypeOK, TabsHoldJobs, PostersHaveWork, tabVars,
              StoreTypeOK, Failures
<1>3. CASE Cancel(c)
  BY <1>3 DEF Cancel, TypeOK, TabsHoldJobs, PostersHaveWork, tabVars,
              StoreTypeOK, Failures
<1>. QED  BY <1>1, <1>2, <1>3

-----------------------------------------------------------------------------
(* The steps of a tab and of the environment keep every type.              *)

LEMMA PollType ==
  ASSUME TypeInv, NEW t \in Tabs, PollStep(t)
  PROVE  TypeInv'
<1>. USE StoreAssumption, BridgeAssumption DEF TypeInv
<1>1. PostersHaveWork'
  BY DEF PollStep, PollClaims, PollReplyLost, PollEmpty, PollUnreachable,
         Rest, clientVars, PostersHaveWork
<1>2. ASSUME NEW a \in {who[t], NoAccount}, NEW j \in JobIds,
             PollClaims(t, a, j)
      PROVE  TypeInv'
  <2>1. a \in Players \cup {NoAccount}
    BY DEF TypeOK
  <2>2. StoreTypeOK'
    BY <1>2, <2>1, ClaimType DEF PollClaims, TypeOK
  <2>. QED
    BY <1>1, <1>2, <2>2 DEF PollClaims, TypeOK, TabsHoldJobs, clientVars
<1>3. ASSUME NEW a \in {who[t], NoAccount}, NEW j \in JobIds,
             PollReplyLost(t, a, j)
      PROVE  TypeInv'
  <2>1. a \in Players \cup {NoAccount}
    BY DEF TypeOK
  <2>2. StoreTypeOK'
    BY <1>3, <2>1, ClaimType DEF PollReplyLost, TypeOK
  <2>. QED
    BY <1>1, <1>3, <2>2
    DEF PollReplyLost, Rest, TypeOK, TabsHoldJobs, clientVars
<1>4. ASSUME NEW a \in {who[t], NoAccount}, PollEmpty(t, a)
      PROVE  TypeInv'
  <2>1. jobs' = jobs
    BY <1>4 DEF PollEmpty
  <2>2. StoreTypeOK'
    BY <1>1, <2>1 DEF TypeOK, StoreTypeOK
  <2>3. CASE a # NoAccount
    BY <1>1, <1>4, <2>2, <2>3 DEF PollEmpty, TypeOK, TabsHoldJobs, clientVars
  <2>4. CASE a = NoAccount
    BY <1>1, <1>4, <2>2, <2>4 DEF PollEmpty, Rest, TypeOK, TabsHoldJobs, clientVars
  <2>. QED  BY <2>3, <2>4
<1>5. CASE PollUnreachable(t)
  BY <1>1, <1>5
  DEF PollUnreachable, Rest, TypeOK, TabsHoldJobs, clientVars, StoreTypeOK
<1>. QED  BY <1>2, <1>3, <1>4, <1>5 DEF PollStep

LEMMA AfterSubmitType ==
  ASSUME TypeOK, TabsHoldJobs, NEW t \in Tabs, NEW ok \in BOOLEAN,
         pc[t] \in {"submitting", "retrying"}, UNCHANGED who,
         AfterSubmit(t, ok)
  PROVE  /\ pc' \in [Tabs -> {"idle", "polling", "fallback", "computing",
                              "submitting", "retrying"}]
         /\ job' \in [Tabs -> JobIds \cup {NoJob}]
         /\ calc' \in [Tabs -> Results \cup {NoResult}]
         /\ drained' \in [Tabs -> 0 .. JobsPerTick - 1]
         /\ TabsHoldJobs'
<1>0. /\ pc \in [Tabs -> {"idle", "polling", "fallback", "computing",
                          "submitting", "retrying"}]
      /\ job \in [Tabs -> JobIds \cup {NoJob}]
      /\ calc \in [Tabs -> Results \cup {NoResult}]
      /\ drained \in [Tabs -> 0 .. JobsPerTick - 1]
      /\ JobsPerTick \in Nat \ {0}
  BY BridgeAssumption DEF TypeOK
<1>1. CASE ok \/ pc[t] = "retrying"
  <2>1. /\ job' = [job EXCEPT ![t] = NoJob]
        /\ calc' = [calc EXCEPT ![t] = NoResult]
    BY <1>1 DEF AfterSubmit
  <2>2. PICK p \in {"polling", "idle"} : pc' = [pc EXCEPT ![t] = p]
    BY <1>1 DEF AfterSubmit
  <2>3. drained' \in [Tabs -> 0 .. JobsPerTick - 1]
    <3>1. CASE drained[t] + 1 < JobsPerTick
      <4>1. drained' = [drained EXCEPT ![t] = drained[t] + 1]
        BY <1>1, <3>1 DEF AfterSubmit
      <4>2. drained[t] + 1 \in 0 .. JobsPerTick - 1
        BY <1>0, <3>1
      <4>. QED  BY <1>0, <4>1, <4>2
    <3>2. CASE ~(drained[t] + 1 < JobsPerTick)
      <4>1. drained' = [drained EXCEPT ![t] = 0]
        BY <1>1, <3>2 DEF AfterSubmit
      <4>. QED  BY <1>0, <4>1
    <3>. QED  BY <3>1, <3>2
  <2>4. /\ job' \in [Tabs -> JobIds \cup {NoJob}]
        /\ calc' \in [Tabs -> Results \cup {NoResult}]
    BY <1>0, <2>1
  <2>5. pc' \in [Tabs -> {"idle", "polling", "fallback", "computing",
                         "submitting", "retrying"}]
    BY <1>0, <2>2
  <2>6. TabsHoldJobs'
    BY <1>0, <2>1, <2>2 DEF TabsHoldJobs
  <2>. QED  BY <2>3, <2>4, <2>5, <2>6
<1>2. CASE ~(ok \/ pc[t] = "retrying")
  <2>1. /\ pc' = [pc EXCEPT ![t] = "retrying"]
        /\ UNCHANGED <<job, calc, drained>>
    BY <1>2 DEF AfterSubmit
  <2>2. TabsHoldJobs'
    BY <1>0, <2>1 DEF TabsHoldJobs
  <2>. QED  BY <1>0, <2>1, <2>2
<1>. QED  BY <1>1, <1>2

LEMMA SubmitStepType ==
  ASSUME TypeInv, NEW t \in Tabs, SubmitStep(t)
  PROVE  TypeInv'
<1>. USE StoreAssumption, BridgeAssumption DEF TypeInv
<1>1. /\ job[t] \in JobIds /\ calc[t] \in Results
      /\ pc[t] \in {"submitting", "retrying"} /\ UNCHANGED <<clientVars, who>>
  BY DEF SubmitStep, SubmitAccepted, SubmitRejected, SubmitLost, Submitting,
         TabsHoldJobs
<1>2. PostersHaveWork'
  BY <1>1 DEF clientVars, PostersHaveWork
<1>3. ASSUME NEW heard \in BOOLEAN, SubmitAccepted(t, heard)
      PROVE  TypeInv'
  <2>1. StoreTypeOK'
    BY <1>1, <1>3, SubmitType DEF SubmitAccepted, TypeOK
  <2>2. answer' \in [JobIds -> Results \cup {NoResult}]
    BY <1>1, <1>3 DEF SubmitAccepted, TypeOK
  <2>. QED
    BY <1>1, <1>2, <1>3, <2>1, <2>2, AfterSubmitType
    DEF SubmitAccepted, TypeOK, clientVars
<1>4. CASE SubmitRejected(t) \/ SubmitLost(t)
  <2>1. AfterSubmit(t, FALSE) /\ UNCHANGED <<jobs, answer>>
    BY <1>4 DEF SubmitRejected, SubmitLost
  <2>. QED
    BY <1>1, <1>2, <2>1, AfterSubmitType DEF TypeOK, clientVars, StoreTypeOK
<1>. QED  BY <1>3, <1>4 DEF SubmitStep

LEMMA OtherTabType ==
  ASSUME TypeInv, NEW t \in Tabs,
         \/ ReadAccount(t) \/ Reload(t)
         \/ \E r \in Payloads[t] : Compute(t, r)
  PROVE  TypeInv'
<1>. USE StoreAssumption, BridgeAssumption
     DEF TypeInv, TypeOK, TabsHoldJobs, PostersHaveWork, clientVars,
         StoreTypeOK
<1>1. CASE ReadAccount(t)
  BY <1>1 DEF ReadAccount
<1>2. CASE Reload(t)
  BY <1>2 DEF Reload
<1>3. ASSUME NEW r \in Payloads[t], Compute(t, r) PROVE TypeInv'
  <2>1. r \in Results
    OBVIOUS
  <2>. QED  BY <1>3, <2>1 DEF Compute
<1>. QED  BY <1>1, <1>2, <1>3

LEMMA EnvironmentType ==
  ASSUME TypeInv, Restart \/ Tick
  PROVE  TypeInv'
<1>. USE StoreAssumption, BridgeAssumption DEF TypeInv
<1>1. CASE Restart
  BY <1>1, ForgetType
  DEF Restart, TypeOK, TabsHoldJobs, PostersHaveWork, clientVars, tabVars
<1>2. CASE Tick
  <2>1. StoreTypeOK'
    BY <1>2, AgeType DEF Tick, TypeOK
  <2>2. quiet' \in [Clients -> 0 .. Timeout]
    BY <1>2 DEF Tick, TypeOK, Capped
  <2>3. due' \in [Clients -> BOOLEAN]
    BY <1>2 DEF Tick
  <2>. QED
    BY <1>2, <2>1, <2>2, <2>3
    DEF Tick, TypeOK, TabsHoldJobs, PostersHaveWork, tabVars
<1>. QED  BY <1>1, <1>2

-----------------------------------------------------------------------------
(* All steps together.                                                     *)

LEMMA InitTyped == Init => TypeInv
  BY StoreAssumption, BridgeAssumption, AbsentType
  DEF Init, TypeInv, TypeOK, TabsHoldJobs, PostersHaveWork, StoreInit,
      StoreTypeOK

LEMMA StepTyped == TypeInv /\ [Next]_vars => TypeInv'
<1>. SUFFICES ASSUME TypeInv, [Next]_vars PROVE TypeInv'
  OBVIOUS
<1>1. CASE UNCHANGED vars
  BY <1>1 DEF vars, clientVars, tabVars, TypeInv, TypeOK, TabsHoldJobs,
              PostersHaveWork, StoreTypeOK
<1>2. ASSUME NEW c \in Clients, NEW n \in 1 .. MaxBatch, StartBatch(c, n)
      PROVE  TypeInv'
  BY <1>2, StartBatchType
<1>3. ASSUME NEW c \in Clients, ClientStep(c) \/ Cancel(c)
      PROVE  TypeInv'
  BY <1>3, PostType, FetchType, SweepType DEF ClientStep, FetchStep
<1>4. ASSUME NEW t \in Tabs, TabStep(t) \/ Reload(t)
      PROVE  TypeInv'
  BY <1>4, PollType, SubmitStepType, OtherTabType DEF TabStep
<1>5. CASE Restart \/ Tick
  BY <1>5, EnvironmentType
<1>. QED  BY <1>1, <1>2, <1>3, <1>4, <1>5 DEF Next

(* Type correctness: every variable of the bridge keeps its type, a tab    *)
(* that computes or submits holds a job, and the bounds on ids and drained *)
(* jobs are never passed.                                                  *)
THEOREM TypeCorrect == Spec => []TypeInv
  BY InitTyped, StepTyped, PTL DEF Spec

(* Every state has the types the runs check.                               *)
COROLLARY AlwaysTyped == Spec => []TypeOK
  BY TypeCorrect, PTL DEF TypeInv

-----------------------------------------------------------------------------
(* What each operation of the store does to the status of a job.           *)

LEMMA AddEffect ==
  ASSUME StoreTypeOK, NEW j \in JobIds, NEW a, Add(j, a), NEW k \in JobIds
  PROVE  /\ k = j => jobs'[k].status = "pending"
         /\ k # j => jobs'[k] = jobs[k] \/ jobs'[k].status = "absent"
  BY DEF Add, NewJob, Absent

LEMMA ClaimEffect ==
  ASSUME StoreTypeOK, NEW j \in JobIds, NEW a, Claim(a, j), NEW k \in JobIds
  PROVE  /\ k # j => jobs'[k] = jobs[k]
         /\ k = j => /\ jobs[k].status \in {"pending", "in_flight"}
                     /\ jobs'[k].status = "in_flight"
  BY DEF Claim, IsOldest, Claimable, Reclaimable, StoreTypeOK, Job

LEMMA SubmitEffect ==
  ASSUME StoreTypeOK, NEW j \in JobIds, NEW r, Submit(j, r), NEW k \in JobIds
  PROVE  /\ k # j => jobs'[k] = jobs[k]
         /\ k = j => jobs'[k].status = "done" /\ jobs'[k].result = r
  BY DEF Submit, StoreTypeOK, Job

LEMMA AgeEffect ==
  ASSUME StoreTypeOK, AgeJobs, NEW k \in JobIds
  PROVE  /\ jobs'[k].status = jobs[k].status
         /\ jobs'[k].result = jobs[k].result
  BY DEF AgeJobs, Aged, StoreTypeOK, Job

-----------------------------------------------------------------------------
(* Claims: the engine's timeout ends before the store's reclaim timeout    *)
(* for every awaited job, and a claim by a job's own account keeps foreign *)
(* answers out.                                                            *)

IdleAwaitsNothing == \A c \in Clients : phase[c] = "idle" => pending[c] = {}

(* An awaited claim is at most Timeout old; it is younger once its worker  *)
(* has looked at it in this unit of time.                                  *)
LookedAt(c, j) == ~due[c] \/ (phase[c] = "sweeping" /\ j \notin sweep[c])

ClaimsFresh ==
  \A c \in Clients : \A j \in pending[c] :
    jobs[j].status = "in_flight" =>
      /\ jobs[j].claim_age <= Timeout
      /\ LookedAt(c, j) => jobs[j].claim_age < Timeout

ClaimInv == TypeInv /\ IdleAwaitsNothing /\ ClaimsFresh

(* A job in the store has the account it was posted under.                 *)
JobsHaveOwners ==
  \A j \in JobIds : jobs[j].status # "absent" => jobs[j].account \in Accounts

OwnerInv == TypeInv /\ JobsHaveOwners /\ OwnersClaimShutsOthersOut

-----------------------------------------------------------------------------
(* The clock of a claim starts at zero and only a tick moves it.           *)

LEMMA ClaimClock ==
  ASSUME StoreTypeOK, NEW j \in JobIds, NEW a, Claim(a, j), NEW k \in JobIds
  PROVE  /\ k # j => jobs'[k] = jobs[k]
         /\ jobs'[j].claim_age = 0
         /\ jobs'[j].claimed_by = a
         /\ jobs'[j].account = jobs[j].account
         /\ jobs'[j].status = "in_flight"
  BY DEF Claim, StoreTypeOK, Job

LEMMA AgeClock ==
  ASSUME StoreTypeOK, AgeJobs, NEW k \in JobIds
  PROVE  /\ jobs'[k].status = jobs[k].status
         /\ jobs'[k].account = jobs[k].account
         /\ jobs'[k].claimed_by = jobs[k].claimed_by
         /\ jobs'[k].result = jobs[k].result
         /\ jobs'[k].claim_age <= jobs[k].claim_age + 1
<1>1. jobs[k] \in Job /\ jobs[k].claim_age \in Nat /\ ReclaimAge \in Nat
  BY StoreAssumption DEF StoreTypeOK, Job
<1>2. jobs'[k] = Aged(jobs[k])
  BY DEF AgeJobs
<1>. QED  BY <1>1, <1>2 DEF Aged, Capped, Job

-----------------------------------------------------------------------------
(* Steps of workers and fresh claims.                                      *)

LEMMA ClaimPost ==
  ASSUME ClaimInv, TypeInv', NEW c \in Clients,
         PostJob(c) \/ PostLost(c) \/ PostOrphaned(c)
  PROVE  ClaimInv'
<1>. USE DEF ClaimInv
<1>1. /\ UNCHANGED sweep
      /\ phase[c] = "posting"
      /\ \A d \in Clients : d # c => /\ pending'[d] = pending[d]
                                     /\ phase'[d] = phase[d]
                                     /\ due'[d] = due[d]
  BY DEF PostJob, PostLost, PostOrphaned, AfterPost, TypeInv, TypeOK
<1>2. /\ pending'[c] # {} => due'[c] = due[c]
      /\ phase'[c] = "idle" => pending'[c] = {}
      /\ phase'[c] # "sweeping"
  BY <1>1 DEF PostJob, PostLost, PostOrphaned, AfterPost, TypeInv, TypeOK
<1>3. IdleAwaitsNothing'
  BY <1>1, <1>2 DEF IdleAwaitsNothing
<1>4. \A d \in Clients : \A j \in pending'[d] :
        /\ j \in JobIds
        /\ j \in pending[d] \/ jobs'[j].status = "pending"
  BY AddEffect DEF PostJob, PostLost, PostOrphaned, TypeInv, TypeOK
<1>5. \A j \in JobIds : jobs'[j].status = "in_flight" => jobs'[j] = jobs[j]
  <2>1. CASE PostLost(c)
    BY <2>1 DEF PostLost
  <2>2. CASE PostJob(c) \/ PostOrphaned(c)
    <3>1. posted' \in JobIds /\ Add(posted', ClientAccount[c])
      BY <2>2, StoreAssumption
      DEF PostJob, PostOrphaned, TypeInv, TypeOK, JobIds
    <3>. QED  BY <3>1, AddEffect DEF TypeInv, TypeOK
  <2>. QED  BY <2>1, <2>2
<1>6. ASSUME NEW d \in Clients, NEW j \in pending'[d],
             jobs'[j].status = "in_flight"
      PROVE  /\ jobs'[j].claim_age <= Timeout
             /\ LookedAt(d, j)' => jobs'[j].claim_age < Timeout
  <2>1. j \in pending[d] /\ jobs'[j] = jobs[j]
    BY <1>4, <1>5, <1>6
  <2>2. LookedAt(d, j)' => LookedAt(d, j)
    BY <1>1, <1>2, <1>6 DEF LookedAt
  <2>. QED  BY <1>6, <2>1, <2>2 DEF ClaimsFresh
<1>. QED  BY <1>3, <1>6 DEF ClaimsFresh

LEMMA ClaimFetch ==
  ASSUME ClaimInv, TypeInv', NEW c \in Clients, NEW j \in sweep[c],
         \/ FetchDone(c, j) \/ FetchQueued(c, j)
         \/ FetchClaimed(c, j) \/ FetchFails(c, j)
  PROVE  ClaimInv'
<1>. USE DEF ClaimInv
<1>1. /\ phase[c] = "sweeping"
      /\ sweep' = [sweep EXCEPT ![c] = @ \ {j}]
      /\ UNCHANGED <<jobs, phase, due>>
  BY DEF FetchDone, FetchQueued, FetchClaimed, FetchFails, Fetching
<1>2. \/ pending' = [pending EXCEPT ![c] = @ \ {j}]
      \/ /\ UNCHANGED pending
         /\ \/ jobs[j].status = "pending"
            \/ ~(jobs[j].claim_age >= Timeout)
  BY DEF FetchDone, FetchQueued, FetchClaimed, FetchFails, Settle
<1>3. \A d \in Clients : pending'[d] \subseteq pending[d]
  <2>1. CASE pending' = [pending EXCEPT ![c] = @ \ {j}]
    <3>1. pending \in [Clients -> SUBSET JobIds]
      BY DEF TypeInv, TypeOK
    <3>. QED  BY <2>1, <3>1
  <2>2. CASE UNCHANGED pending
    BY <2>2
  <2>. QED  BY <1>2, <2>1, <2>2
<1>4. IdleAwaitsNothing'
  BY <1>1, <1>3 DEF IdleAwaitsNothing
<1>5. ASSUME NEW d \in Clients, NEW k \in pending'[d],
             jobs'[k].status = "in_flight"
      PROVE  /\ jobs'[k].claim_age <= Timeout
             /\ LookedAt(d, k)' => jobs'[k].claim_age < Timeout
  <2>1. /\ k \in pending[d] /\ k \in JobIds
        /\ jobs'[k] = jobs[k] /\ jobs[k].claim_age \in Nat /\ Timeout \in Nat
    BY <1>1, <1>3, <1>5, StoreAssumption, BridgeAssumption
    DEF TypeInv, TypeOK, StoreTypeOK, Job
  <2>2. CASE d = c /\ k = j
    <3>1. ~(jobs[k].claim_age >= Timeout)
      BY <1>1, <1>2, <1>5, <2>1, <2>2 DEF TypeInv, TypeOK
    <3>. QED  BY <2>1, <3>1
  <2>3. CASE ~(d = c /\ k = j)
    <3>1. LookedAt(d, k)' => LookedAt(d, k)
      BY <1>1, <2>3 DEF LookedAt, TypeInv, TypeOK
    <3>. QED  BY <1>5, <2>1, <3>1 DEF ClaimsFresh
  <2>. QED  BY <2>2, <2>3
<1>. QED  BY <1>4, <1>5 DEF ClaimsFresh

LEMMA ClaimSweep ==
  ASSUME ClaimInv, TypeInv', NEW c \in Clients,
         \/ BeginSweep(c) \/ EndSweep(c) \/ Cancel(c)
         \/ \E n \in 1 .. MaxBatch : StartBatch(c, n)
  PROVE  ClaimInv'
<1>. USE DEF ClaimInv
<1>1. /\ UNCHANGED jobs
      /\ \A d \in Clients : d # c => /\ pending'[d] = pending[d]
                                     /\ phase'[d] = phase[d]
                                     /\ due'[d] = due[d]
                                     /\ sweep'[d] = sweep[d]
  BY DEF BeginSweep, EndSweep, Cancel, StartBatch, TypeInv, TypeOK
<1>2. /\ pending'[c] \subseteq pending[c]
      /\ phase'[c] = "idle" => pending'[c] = {}
  BY DEF BeginSweep, EndSweep, Cancel, StartBatch, IdleAwaitsNothing,
         TypeInv, TypeOK
<1>3. \A k \in pending'[c] : LookedAt(c, k)' => LookedAt(c, k)
  <2>1. CASE BeginSweep(c)
    BY <2>1 DEF BeginSweep, LookedAt, TypeInv, TypeOK
  <2>2. CASE EndSweep(c)
    BY <2>2 DEF EndSweep, LookedAt
  <2>3. CASE Cancel(c)
    BY <2>3 DEF Cancel, TypeInv, TypeOK
  <2>4. CASE \E n \in 1 .. MaxBatch : StartBatch(c, n)
    BY <2>4 DEF StartBatch, IdleAwaitsNothing
  <2>. QED  BY <2>1, <2>2, <2>3, <2>4
<1>4. IdleAwaitsNothing'
  BY <1>1, <1>2 DEF IdleAwaitsNothing
<1>5. ClaimsFresh'
  BY <1>1, <1>2, <1>3 DEF ClaimsFresh, LookedAt
<1>. QED  BY <1>4, <1>5

-----------------------------------------------------------------------------
(* Steps of tabs and of the environment, and fresh claims.                 *)

LEMMA ClaimByTab ==
  ASSUME ClaimInv, TypeInv', UNCHANGED <<phase, pending, due, sweep>>,
         \A j \in JobIds :
           jobs'[j].status = "in_flight" =>
             jobs'[j] = jobs[j] \/ jobs'[j].claim_age = 0
  PROVE  ClaimInv'
<1>. USE DEF ClaimInv
<1>1. IdleAwaitsNothing'
  BY DEF IdleAwaitsNothing
<1>2. ASSUME NEW c \in Clients, NEW j \in pending[c],
             jobs'[j].status = "in_flight"
      PROVE  /\ jobs'[j].claim_age <= Timeout
             /\ LookedAt(c, j) => jobs'[j].claim_age < Timeout
  <2>1. j \in JobIds /\ Timeout \in Nat /\ 0 < Timeout
    BY <1>2, BridgeAssumption, StoreAssumption DEF TypeInv, TypeOK
  <2>. QED  BY <1>2, <2>1 DEF ClaimsFresh
<1>. QED  BY <1>1, <1>2 DEF ClaimsFresh, LookedAt

LEMMA ClaimTick ==
  ASSUME ClaimInv, TypeInv', Tick
  PROVE  ClaimInv'
<1>. USE DEF ClaimInv
<1>1. UNCHANGED <<phase, pending, sweep>> /\ AgeJobs
  BY DEF Tick
<1>2. IdleAwaitsNothing'
  BY <1>1 DEF IdleAwaitsNothing
<1>3. ASSUME NEW c \in Clients, NEW j \in pending[c],
             jobs'[j].status = "in_flight"
      PROVE  jobs'[j].claim_age <= Timeout /\ ~LookedAt(c, j)'
  <2>1. j \in JobIds /\ jobs[j].claim_age \in Nat /\ Timeout \in Nat
    BY <1>3, BridgeAssumption, StoreAssumption
    DEF TypeInv, TypeOK, StoreTypeOK, Job
  <2>2. jobs[j].claim_age < Timeout
    BY <1>1, <1>3, <2>1, AgeClock
    DEF Tick, LookedAt, ClaimsFresh, TypeInv, TypeOK
  <2>3. jobs'[j].claim_age <= jobs[j].claim_age + 1 /\ jobs'[j].claim_age \in Nat
    BY <1>1, <2>1, AgeClock, StoreAssumption
    DEF TypeInv, TypeOK, StoreTypeOK, Job
  <2>4. due'[c] /\ phase[c] # "sweeping"
    BY <1>3 DEF Tick, IdleAwaitsNothing
  <2>. QED  BY <1>1, <2>1, <2>2, <2>3, <2>4 DEF LookedAt
<1>. QED  BY <1>1, <1>2, <1>3 DEF ClaimsFresh

LEMMA ClaimOther ==
  ASSUME ClaimInv, TypeInv',
         \/ Restart \/ UNCHANGED vars
         \/ \E t \in Tabs : TabStep(t) \/ Reload(t)
  PROVE  ClaimInv'
<1>. USE DEF ClaimInv
<1>1. UNCHANGED clientVars
  BY DEF Restart, vars, TabStep, ReadAccount, PollStep, PollClaims,
         PollReplyLost, PollEmpty, PollUnreachable, Rest, Compute, SubmitStep,
         SubmitAccepted, SubmitRejected, SubmitLost, Submitting, Reload
<1>2. UNCHANGED <<phase, pending, due, sweep>>
  BY <1>1 DEF clientVars
<1>3. CASE UNCHANGED jobs
  BY <1>2, <1>3, ClaimByTab
<1>4. ASSUME NEW a, NEW j \in JobIds, Claim(a, j)
      PROVE  ClaimInv'
  BY <1>2, <1>4, ClaimClock, ClaimByTab DEF TypeInv, TypeOK
<1>5. ASSUME NEW t \in Tabs, NEW heard \in BOOLEAN, SubmitAccepted(t, heard)
      PROVE  ClaimInv'
  <2>1. job[t] \in JobIds /\ Submit(job[t], calc[t])
    BY <1>5 DEF SubmitAccepted, Submitting, TypeInv, TabsHoldJobs
  <2>. QED
    BY <1>2, <2>1, SubmitEffect, ClaimByTab DEF TypeInv, TypeOK
<1>6. CASE Restart
  BY <1>2, <1>6, ClaimByTab DEF Restart, ForgetJobs, Absent
<1>. QED
  BY <1>3, <1>4, <1>5, <1>6
  DEF vars, TabStep, ReadAccount, PollStep, PollClaims, PollReplyLost,
      PollEmpty, PollUnreachable, Compute, SubmitStep, SubmitRejected,
      SubmitLost, Reload

LEMMA ClaimStep == ClaimInv /\ [Next]_vars => ClaimInv'
<1>. SUFFICES ASSUME ClaimInv, [Next]_vars PROVE ClaimInv'
  OBVIOUS
<1>1. TypeInv'
  BY StepTyped DEF ClaimInv
<1>2. ASSUME NEW c \in Clients,
             \/ ClientStep(c) \/ Cancel(c)
             \/ \E n \in 1 .. MaxBatch : StartBatch(c, n)
      PROVE  ClaimInv'
  BY <1>1, <1>2, ClaimPost, ClaimFetch, ClaimSweep DEF ClientStep, FetchStep
<1>. QED
  BY <1>1, <1>2, ClaimOther, ClaimTick DEF Next

(* No awaited job is ever handed out a second time: the worker's own       *)
(* deadline for a claim runs out before the store's, at every moment a     *)
(* tab can poll (calc_batch's claimed_at check, ToeJobStore.claim).        *)
THEOREM ClaimsStand == Spec => []AwaitedClaimStands
<1>1. Init => ClaimInv
  BY InitTyped DEF Init, ClaimInv, IdleAwaitsNothing, ClaimsFresh
<1>2. ClaimInv /\ [Next]_vars => ClaimInv'
  BY ClaimStep
<1>3. ClaimInv => AwaitedClaimStands
  <2>. SUFFICES ASSUME ClaimInv, NEW c \in Clients, NEW j \in pending[c],
                       jobs[j].status = "in_flight"
                PROVE  ~(jobs[j].claim_age >= ReclaimAge)
    BY DEF AwaitedClaimStands, Awaited, Reclaimable
  <2>1. j \in JobIds /\ jobs[j].claim_age <= Timeout
    BY DEF ClaimInv, ClaimsFresh, TypeInv, TypeOK
  <2>2. jobs[j].claim_age \in Nat /\ ReclaimAge \in Nat
    BY <2>1, StoreAssumption DEF ClaimInv, TypeInv, TypeOK, StoreTypeOK, Job
  <2>. QED  BY <2>1, <2>2, BridgeAssumption
<1>. QED  BY <1>1, <1>2, <1>3, PTL DEF Spec

-----------------------------------------------------------------------------
(* Owners keep foreign answers out.                                        *)

OwnerOk(j) ==
  /\ jobs[j].status # "absent" => jobs[j].account \in Accounts
  /\ jobs[j].status = "done" /\ jobs[j].claimed_by = jobs[j].account
       => \E t \in Tabs : /\ TabAccount[t] = jobs[j].account
                          /\ jobs[j].result \in Payloads[t]

LEMMA OwnerKept ==
  ASSUME OwnerInv, TypeInv',
         \A j \in JobIds : jobs'[j] = jobs[j] \/ OwnerOk(j)'
  PROVE  OwnerInv'
  BY DEF OwnerInv, JobsHaveOwners, OwnersClaimShutsOthersOut, OwnerOk

LEMMA OwnerStep ==
  ASSUME OwnerInv, TypeInv', [Next]_vars
  PROVE  OwnerInv'
<1>0. StoreTypeOK
  BY DEF OwnerInv, TypeInv, TypeOK
<1>1. CASE UNCHANGED jobs
  BY <1>1, OwnerKept
<1>2. ASSUME NEW k \in JobIds, NEW c \in Clients, Add(k, ClientAccount[c])
      PROVE  OwnerInv'
  BY <1>2, OwnerKept, BridgeAssumption
  DEF Add, NewJob, Absent, OwnerOk
<1>3. ASSUME NEW a, NEW k \in JobIds, Claim(a, k)
      PROVE  OwnerInv'
  <2>1. OwnerOk(k)'
    BY <1>0, <1>3, ClaimClock, ClaimEffect
    DEF OwnerOk, OwnerInv, JobsHaveOwners
  <2>. QED  BY <1>0, <1>3, <2>1, ClaimClock, OwnerKept
<1>4. ASSUME NEW t \in Tabs, NEW heard \in BOOLEAN, SubmitAccepted(t, heard)
      PROVE  OwnerInv'
  <2>1. PICK k \in JobIds :
          /\ Accepts(k, who[t]) /\ Submit(k, calc[t])
          /\ calc[t] \in Payloads[t] /\ who[t] \in {NoAccount, TabAccount[t]}
    BY <1>4 DEF SubmitAccepted, Submitting, OwnerInv, TypeInv, TabsHoldJobs
  <2>2. jobs[k].account \in Accounts /\ NoAccount \notin Accounts
    BY <2>1, StoreAssumption DEF Accepts, OwnerInv, JobsHaveOwners, Players
  <2>3. /\ jobs'[k].account = jobs[k].account
        /\ jobs'[k].claimed_by = jobs[k].claimed_by
        /\ jobs'[k].result = calc[t]
    BY <1>0, <2>1 DEF Submit, StoreTypeOK, Job
  <2>4. OwnerOk(k)'
    BY <2>1, <2>2, <2>3 DEF OwnerOk, Accepts
  <2>. QED  BY <1>0, <2>1, <2>4, SubmitEffect, OwnerKept
<1>5. CASE Restart
  BY <1>5, OwnerKept DEF Restart, ForgetJobs, Absent, OwnerOk
<1>6. CASE Tick
  <2>1. AgeJobs
    BY <1>6 DEF Tick
  <2>. QED
    BY <1>0, <2>1, AgeClock, OwnerKept
    DEF OwnerOk, OwnerInv, JobsHaveOwners, OwnersClaimShutsOthersOut
<1>7. ASSUME NEW c \in Clients, PostJob(c) \/ PostOrphaned(c)
      PROVE  OwnerInv'
  <2>1. posted' \in JobIds /\ Add(posted', ClientAccount[c])
    BY <1>7, StoreAssumption
    DEF PostJob, PostOrphaned, OwnerInv, TypeInv, TypeOK, JobIds
  <2>. QED  BY <1>2, <2>1
<1>8. ASSUME NEW c \in Clients,
             \/ ClientStep(c) \/ Cancel(c)
             \/ \E n \in 1 .. MaxBatch : StartBatch(c, n)
      PROVE  OwnerInv'
  BY <1>1, <1>7, <1>8
  DEF ClientStep, PostLost, BeginSweep, FetchStep, FetchDone, FetchQueued,
      FetchClaimed, FetchFails, Fetching, EndSweep, Cancel, StartBatch
<1>9. ASSUME NEW t \in Tabs, TabStep(t) \/ Reload(t)
      PROVE  OwnerInv'
  BY <1>1, <1>3, <1>4, <1>9
  DEF TabStep, ReadAccount, PollStep, PollClaims, PollReplyLost, PollEmpty,
      PollUnreachable, Compute, SubmitStep, SubmitRejected, SubmitLost, Reload
<1>. QED
  BY <1>1, <1>5, <1>6, <1>8, <1>9 DEF Next, vars

(* A job whose last claim named its own account holds a payload of a tab   *)
(* of that account: the late answer of a foreign tab is refused            *)
(* (ToeJobStore.submit's claimed_by test).                                 *)
THEOREM OwnersAnswers == Spec => []OwnersClaimShutsOthersOut
<1>1. Init => OwnerInv
  BY InitTyped
  DEF Init, StoreInit, Absent, OwnerInv, JobsHaveOwners,
      OwnersClaimShutsOthersOut
<1>2. OwnerInv /\ [Next]_vars => OwnerInv'
  BY StepTyped, OwnerStep DEF OwnerInv
<1>. QED  BY <1>1, <1>2, PTL DEF Spec, OwnerInv

-----------------------------------------------------------------------------
(* The watchdog ends before the TTL: what a worker can still hear of its   *)
(* batch bounds how often the watchdog may be rewound.                     *)

(* A battle to post and a job never seen claimed may each rewind it twice, *)
(* a job seen claimed once more.                                           *)
Chances(c) == 2 * todo[c] + 2 * Cardinality(pending[c]) - Cardinality(seen[c])

Waited(c) == IF phase[c] = "posting" THEN 0 ELSE quiet[c]

(* A unit of time may pass while the batch is posted: what was posted      *)
(* before the last battle may be that much older.                          *)
Later(c, j) == IF todo[c] > 0 \/ \E k \in pending[c] : j < k THEN 1 ELSE 0

JobWaits(c, j) ==
  /\ jobs[j].status # "absent" => jobs[j].account = ClientAccount[c]
  /\ jobs[j].status = "pending" =>
       /\ jobs[j].age + Timeout * Chances(c)
            <= Waited(c) + LongestBatch + Later(c, j)
       /\ j \notin seen[c]
       /\ \A k \in pending[c] : j < k => jobs[k].status = "pending"
  /\ jobs[j].status = "in_flight" =>
       jobs[j].age <= LongestBatch - Timeout + jobs[j].claim_age
  /\ jobs[j].status = "done" =>
       jobs[j].age <= LongestBatch - IF LookedAt(c, j) THEN 1 ELSE 0

WorkerWaits(c) ==
  /\ pending[c] \subseteq 1 .. posted
  /\ seen[c] \subseteq pending[c] /\ sweep[c] \subseteq pending[c]
  /\ Chances(c) <= 2 * MaxBatch
  /\ phase[c] # "posting" => todo[c] = 0
  /\ phase[c] = "idle" => ~due[c]
  /\ phase[c] = "sleeping" /\ ~due[c] => quiet[c] < Timeout
  /\ phase[c] = "posting" =>
       \A j \in pending[c] : jobs[j].age <= IF due[c] THEN 1 ELSE 0
  /\ \A j \in pending[c] : JobWaits(c, j)

(* Ids are handed out in order, and what a tab holds has been claimed.     *)
JobsPosted ==
  /\ \A j \in JobIds : j > posted => jobs[j].status = "absent"
  /\ \A t \in Tabs :
       pc[t] \in {"computing", "submitting", "retrying"} =>
         job[t] <= posted /\ jobs[job[t]].status # "pending"

TtlInv == ClaimInv /\ JobsPosted /\ \A c \in Clients : WorkerWaits(c)

Mine(c) == <<phase[c], todo[c], pending[c], sweep[c], seen[c], quiet[c], due[c]>>

-----------------------------------------------------------------------------
(* Arithmetic of the bound.                                                *)

LEMMA Timeouts ==
  /\ Timeout \in Nat /\ Timeout >= 1 /\ MaxBatch \in Nat /\ MaxBatch >= 1
  /\ LongestBatch \in Nat /\ LongestBatch >= 2 * Timeout
<1>1. Timeout \in Nat /\ Timeout >= 1 /\ MaxBatch \in Nat /\ MaxBatch >= 1
  BY BridgeAssumption, StoreAssumption
<1>2. \A m, n \in Nat : m >= 1 => 2 * m * n \in Nat /\ 2 * m * n >= 2 * n
  OBVIOUS
<1>. QED  BY <1>1, <1>2 DEF LongestBatch

LEMMA TimesTimeout ==
  ASSUME NEW m \in Int, NEW n \in Int
  PROVE  /\ Timeout * m \in Int
         /\ Timeout * (m - n) = Timeout * m - Timeout * n
         /\ m <= n => Timeout * m <= Timeout * n
         /\ Timeout * 1 = Timeout
<1>1. \A t \in Nat : /\ t * m \in Int
                     /\ t * (m - n) = t * m - t * n
                     /\ m <= n => t * m <= t * n
                     /\ t * 1 = t
  OBVIOUS
<1>. QED  BY <1>1, Timeouts

LEMMA Sizes ==
  ASSUME TypeOK, NEW c \in Clients
  PROVE  /\ IsFiniteSet(pending[c]) /\ IsFiniteSet(seen[c])
         /\ Cardinality(pending[c]) \in Nat /\ Cardinality(seen[c]) \in Nat
         /\ Chances(c) \in Int
<1>1. IsFiniteSet(JobIds)
  BY FS_Interval, StoreAssumption DEF JobIds
<1>2. pending[c] \subseteq JobIds /\ seen[c] \subseteq JobIds /\ todo[c] \in Nat
  BY BridgeAssumption DEF TypeOK
<1>3. IsFiniteSet(pending[c]) /\ IsFiniteSet(seen[c])
  BY <1>1, <1>2, FS_Subset
<1>4. Cardinality(pending[c]) \in Nat /\ Cardinality(seen[c]) \in Nat
  BY <1>3, FS_CardinalityType
<1>. QED  BY <1>2, <1>3, <1>4 DEF Chances

(* Every job the worker has not seen claimed leaves two chances.           *)
LEMMA ChancesLeft ==
  ASSUME TypeOK, NEW c \in Clients, seen[c] \subseteq pending[c],
         NEW j \in pending[c], j \notin seen[c]
  PROVE  /\ Chances(c) >= 2
         /\ todo[c] > 0 => Chances(c) >= 4
         /\ \A k \in pending[c] \ seen[c] : k # j => Chances(c) >= 4
<1> DEFINE P == Cardinality(pending[c])
           S == Cardinality(seen[c])
<1>1. /\ IsFiniteSet(pending[c]) /\ IsFiniteSet(seen[c]) /\ P \in Nat /\ S \in Nat
      /\ todo[c] \in Nat
  BY Sizes, BridgeAssumption DEF TypeOK
<1>2. IsFiniteSet(pending[c] \ {j}) /\ Cardinality(pending[c] \ {j}) = P - 1
  BY <1>1, FS_RemoveElement
<1>3. S <= P - 1
  BY <1>2, FS_Subset
<1>4. Chances(c) = 2 * todo[c] + 2 * P - S
  BY DEF Chances
<1>5. ASSUME NEW k \in pending[c] \ seen[c], k # j PROVE Chances(c) >= 4
  <2> DEFINE Q == pending[c] \ {j}
             R == Q \ {k}
  <2>1. k \in Q /\ IsFiniteSet(Q) /\ Cardinality(Q) = P - 1
    BY <1>2, <1>5
  <2>2. IsFiniteSet(R) /\ Cardinality(R) = Cardinality(Q) - 1
    <3> HIDE DEF Q
    <3>. QED  BY <2>1, FS_RemoveElement
  <2>3. seen[c] \subseteq R
    BY <1>5
  <2>4. S <= Cardinality(R)
    <3> HIDE DEF R
    <3>. QED  BY <2>2, <2>3, FS_Subset
  <2> HIDE DEF P, S, Q, R
  <2>. QED  BY <1>1, <1>4, <2>1, <2>2, <2>4
<1> HIDE DEF P, S
<1>. QED  BY <1>1, <1>3, <1>4, <1>5

(* A job no tab has claimed yet is a timeout short of the longest wait.    *)
LEMMA UnclaimedAge ==
  ASSUME TypeInv, NEW c \in Clients, WorkerWaits(c), NEW j \in pending[c],
         jobs[j].status = "pending"
  PROVE  jobs[j].age <= LongestBatch - Timeout
<1>1. /\ TypeOK /\ j \in JobIds /\ jobs[j].age \in Nat
      /\ quiet[c] \in Nat /\ quiet[c] <= Timeout
  BY StoreAssumption, Timeouts DEF TypeInv, TypeOK, StoreTypeOK, Job
<1>2. /\ jobs[j].age + Timeout * Chances(c) <= Waited(c) + LongestBatch + Later(c, j)
      /\ j \notin seen[c] /\ seen[c] \subseteq pending[c]
      /\ \A k \in pending[c] : j < k => jobs[k].status = "pending" /\ k \notin seen[c]
  BY DEF WorkerWaits, JobWaits
<1>3. Waited(c) <= Timeout /\ Waited(c) \in Nat
  BY <1>1, Timeouts DEF Waited
<1>4. Chances(c) \in Int
  BY <1>1, Sizes
<1>5. Timeout * 2 \in Int /\ Timeout * 4 \in Int /\ Timeout * 2 = Timeout + Timeout
      /\ Timeout * 4 = Timeout + Timeout + Timeout + Timeout /\ Timeout * Chances(c) \in Int
  BY <1>4, Timeouts, TimesTimeout
<1>6. CASE todo[c] > 0 \/ \E k \in pending[c] : j < k
  <2>1. \A k \in pending[c] : j < k => k # j
    BY <1>1 DEF JobIds, TypeOK
  <2>2. Chances(c) >= 4
    BY <1>1, <1>2, <1>6, <2>1, ChancesLeft
  <2>3. Timeout * Chances(c) >= Timeout * 4 /\ Later(c, j) = 1
    BY <1>4, <1>6, <2>2, TimesTimeout DEF Later
  <2>. QED  BY <1>1, <1>2, <1>3, <1>5, <2>3, Timeouts
<1>7. CASE ~(todo[c] > 0 \/ \E k \in pending[c] : j < k)
  <2>1. Chances(c) >= 2
    BY <1>1, <1>2, ChancesLeft
  <2>2. Timeout * Chances(c) >= Timeout * 2 /\ Later(c, j) = 0
    BY <1>4, <1>7, <2>1, TimesTimeout DEF Later
  <2>. QED  BY <1>1, <1>2, <1>3, <1>5, <2>2, Timeouts
<1>. QED  BY <1>6, <1>7

LEMMA AwaitedAge ==
  ASSUME TtlInv, NEW c \in Clients, NEW j \in pending[c], jobs[j].status # "absent"
  PROVE  jobs[j].age <= LongestBatch
<1>1. /\ TypeInv /\ TypeOK /\ WorkerWaits(c) /\ JobWaits(c, j) /\ j \in JobIds
      /\ jobs[j].age \in Nat /\ jobs[j].claim_age \in Nat
      /\ jobs[j].status \in {"pending", "in_flight", "done"}
  BY StoreAssumption
     DEF TtlInv, ClaimInv, WorkerWaits, TypeInv, TypeOK, StoreTypeOK, Job, Status
<1>2. CASE jobs[j].status = "pending"
  BY <1>1, <1>2, UnclaimedAge, Timeouts
<1>3. CASE jobs[j].status = "in_flight"
  <2>1. jobs[j].claim_age <= Timeout
    BY <1>1, <1>3 DEF TtlInv, ClaimInv, ClaimsFresh
  <2>. QED  BY <1>1, <1>3, <2>1, Timeouts DEF JobWaits
<1>4. CASE jobs[j].status = "done"
  BY <1>1, <1>4, Timeouts DEF JobWaits
<1>. QED  BY <1>1, <1>2, <1>3, <1>4

-----------------------------------------------------------------------------
(* Steps of one worker and its own wait.                                   *)

LEMMA WorkerTypes ==
  ASSUME TtlInv, NEW c \in Clients
  PROVE  /\ TypeInv /\ TypeOK /\ StoreTypeOK /\ WorkerWaits(c)
         /\ todo[c] \in Nat /\ quiet[c] \in Nat /\ quiet[c] <= Timeout
         /\ posted \in Nat /\ due[c] \in BOOLEAN
         /\ phase[c] \in {"idle", "posting", "sleeping", "sweeping"}
         /\ phase[c] = "idle" => pending[c] = {}
         /\ phase[c] = "posting" => todo[c] > 0
         /\ Chances(c) \in Int /\ Timeout * Chances(c) \in Int
         /\ Waited(c) \in Nat /\ Waited(c) <= Timeout
         /\ \A j \in pending[c] :
              /\ j \in JobIds /\ j \in Nat /\ j <= posted /\ jobs[j] \in Job
              /\ jobs[j].age \in Nat /\ jobs[j].claim_age \in Nat
              /\ jobs[j].status \in Status /\ JobWaits(c, j)
              /\ Later(c, j) \in {0, 1}
<1>1. TypeInv /\ TypeOK /\ StoreTypeOK /\ WorkerWaits(c)
  BY DEF TtlInv, ClaimInv, TypeInv, TypeOK
<1>2. /\ todo[c] \in Nat /\ quiet[c] \in Nat /\ quiet[c] <= Timeout
      /\ posted \in Nat /\ due[c] \in BOOLEAN
      /\ phase[c] \in {"idle", "posting", "sleeping", "sweeping"}
  BY <1>1, BridgeAssumption, StoreAssumption DEF TypeOK
<1>3. /\ phase[c] = "idle" => pending[c] = {}
      /\ phase[c] = "posting" => todo[c] > 0
  BY <1>1 DEF TtlInv, ClaimInv, IdleAwaitsNothing, TypeInv, PostersHaveWork
<1>4. Chances(c) \in Int /\ Timeout * Chances(c) \in Int
  BY <1>1, Sizes, TimesTimeout
<1>5. Waited(c) \in Nat /\ Waited(c) <= Timeout
  BY <1>2, Timeouts DEF Waited
<1>6. ASSUME NEW j \in pending[c]
      PROVE  /\ j \in JobIds /\ j \in Nat /\ j <= posted /\ jobs[j] \in Job
             /\ jobs[j].age \in Nat /\ jobs[j].claim_age \in Nat
             /\ jobs[j].status \in Status /\ JobWaits(c, j)
             /\ Later(c, j) \in {0, 1}
  <2>1. j \in JobIds /\ j \in 1 .. posted /\ JobWaits(c, j)
    BY <1>1 DEF TypeOK, WorkerWaits
  <2>2. jobs[j] \in Job /\ TTL \in Nat /\ ReclaimAge \in Nat
    BY <1>1, <2>1, StoreAssumption DEF StoreTypeOK
  <2>. QED  BY <1>2, <2>1, <2>2 DEF Job, Later
<1>. QED  BY <1>1, <1>2, <1>3, <1>4, <1>5, <1>6

LEMMA WaitKept ==
  ASSUME TtlInv, NEW c \in Clients, UNCHANGED Mine(c),
         posted' \in Nat, posted <= posted',
         \A j \in pending[c] : jobs'[j] = jobs[j]
  PROVE  WorkerWaits(c)'
<1>1. /\ WorkerWaits(c) /\ posted \in Nat
      /\ UNCHANGED <<phase[c], todo[c], pending[c], sweep[c], seen[c], quiet[c], due[c]>>
  BY WorkerTypes DEF Mine
<1>2. UNCHANGED <<Chances(c), Waited(c)>>
  BY <1>1 DEF Chances, Waited
<1>3. ASSUME NEW j \in pending[c] PROVE JobWaits(c, j)'
  <2>1. /\ UNCHANGED <<Later(c, j), LookedAt(c, j)>>
        /\ JobWaits(c, j)
    BY <1>1 DEF Later, LookedAt, WorkerWaits
  <2>. QED  BY <1>1, <1>2, <1>3, <2>1 DEF JobWaits
<1>4. pending[c] \subseteq 1 .. posted'
  BY <1>1 DEF WorkerWaits
<1>. QED  BY <1>1, <1>2, <1>3, <1>4 DEF WorkerWaits

(* A worker that awaits nothing keeps the bound.                           *)
LEMMA WaitNothing ==
  ASSUME TtlInv, TypeOK', NEW c \in Clients,
         pending'[c] = {}, seen'[c] = {}, sweep'[c] = {},
         \/ todo'[c] = 0 /\ phase'[c] = "idle" /\ ~due'[c]
         \/ todo'[c] \in 1 .. MaxBatch /\ phase'[c] = "posting"
  PROVE  WorkerWaits(c)'
<1>1. Cardinality({}) = 0
  BY FS_EmptySet
<1>2. Chances(c)' <= 2 * MaxBatch
  BY <1>1, Timeouts DEF Chances
<1>. QED  BY <1>2 DEF WorkerWaits

LEMMA WaitBegins ==
  ASSUME TtlInv, NEW c \in Clients, BeginSweep(c)
  PROVE  WorkerWaits(c)'
<1>1. /\ WorkerWaits(c) /\ phase[c] = "sleeping" /\ phase'[c] = "sweeping"
      /\ UNCHANGED <<jobs, posted, pending, seen, todo, quiet, due>>
      /\ sweep'[c] = pending[c]
  BY WorkerTypes DEF BeginSweep, TypeOK
<1>2. UNCHANGED <<Chances(c), Waited(c)>>
  BY <1>1 DEF Chances, Waited
<1>3. ASSUME NEW j \in pending[c] PROVE JobWaits(c, j)'
  <2>1. UNCHANGED Later(c, j) /\ (LookedAt(c, j)' => LookedAt(c, j))
    BY <1>1 DEF Later, LookedAt
  <2>2. JobWaits(c, j) /\ jobs[j].age \in Nat
    BY WorkerTypes
  <2>. QED  BY <1>1, <1>2, <2>1, <2>2, Timeouts DEF JobWaits
<1>. QED  BY <1>1, <1>2, <1>3 DEF WorkerWaits

LEMMA WaitEnds ==
  ASSUME TtlInv, TypeOK', NEW c \in Clients, EndSweep(c)
  PROVE  WorkerWaits(c)'
<1>1. /\ WorkerWaits(c) /\ TypeOK /\ phase[c] = "sweeping" /\ todo[c] = 0
      /\ sweep[c] = {} /\ ~due'[c]
      /\ UNCHANGED <<jobs, posted, sweep, todo, quiet>>
  BY WorkerTypes DEF EndSweep, TypeOK, WorkerWaits
<1>2. CASE pending[c] # {} /\ quiet[c] >= Timeout
  <2>1. pending'[c] = {} /\ seen'[c] = {} /\ phase'[c] = "idle"
    BY <1>1, <1>2 DEF EndSweep, TypeOK
  <2>. QED  BY <1>1, <2>1, WaitNothing
<1>3. CASE ~(pending[c] # {} /\ quiet[c] >= Timeout)
  <2>1. pending'[c] = pending[c] /\ seen'[c] = seen[c]
        /\ phase'[c] = IF pending[c] = {} THEN "idle" ELSE "sleeping"
    BY <1>1, <1>3 DEF EndSweep, TypeOK
  <2>2. CASE pending[c] = {}
    <3>1. seen[c] = {}
      BY <1>1, <2>2 DEF WorkerWaits
    <3>. QED  BY <1>1, <2>1, <2>2, <3>1, WaitNothing
  <2>3. CASE pending[c] # {}
    <3>1. UNCHANGED <<Chances(c), Waited(c)>>
      BY <1>1, <2>1, <2>3 DEF Chances, Waited
    <3>2. quiet[c] < Timeout
      BY <1>3, <2>3, WorkerTypes, Timeouts
    <3>3. ASSUME NEW j \in pending[c] PROVE JobWaits(c, j)'
      <4>1. UNCHANGED Later(c, j) /\ LookedAt(c, j)
        BY <1>1, <2>1 DEF Later, LookedAt
      <4>2. JobWaits(c, j) /\ jobs[j].age \in Nat
        BY WorkerTypes
      <4>. QED  BY <1>1, <2>1, <3>1, <4>1, <4>2, Timeouts DEF JobWaits
    <3>. QED  BY <1>1, <2>1, <2>3, <3>1, <3>2, <3>3 DEF WorkerWaits
  <2>. QED  BY <2>2, <2>3
<1>. QED  BY <1>2, <1>3

(* What the worker hears of a job costs a chance or two.                   *)
LEMMA SettlePays ==
  ASSUME TtlInv, NEW c \in Clients, NEW j \in pending[c],
         pending'[c] = pending[c] \ {j}, seen'[c] = seen[c] \ {j},
         todo'[c] = todo[c]
  PROVE  Chances(c)' = Chances(c) - IF j \in seen[c] THEN 1 ELSE 2
<1>1. /\ IsFiniteSet(pending[c]) /\ IsFiniteSet(seen[c])
      /\ Cardinality(pending[c]) \in Nat /\ Cardinality(seen[c]) \in Nat
      /\ todo[c] \in Nat
  BY WorkerTypes, Sizes
<1>2. Cardinality(pending'[c]) = Cardinality(pending[c]) - 1
  BY <1>1, FS_RemoveElement
<1>3. CASE j \in seen[c]
  <2>1. Cardinality(seen[c] \ {j}) = Cardinality(seen[c]) - 1
    BY <1>1, <1>3, FS_RemoveElement
  <2>2. Cardinality(seen'[c]) = Cardinality(seen[c]) - 1
    BY <2>1
  <2>. QED  BY <1>1, <1>2, <1>3, <2>2 DEF Chances
<1>4. CASE j \notin seen[c]
  <2>1. seen'[c] = seen[c]
    BY <1>4
  <2>2. Cardinality(seen'[c]) = Cardinality(seen[c])
    BY <2>1
  <2>. QED  BY <1>1, <1>2, <1>4, <2>2 DEF Chances
<1>. QED  BY <1>3, <1>4

LEMMA FirstSightPays ==
  ASSUME TtlInv, NEW c \in Clients, NEW j \in pending[c], j \notin seen[c],
         pending'[c] = pending[c], seen'[c] = seen[c] \cup {j},
         todo'[c] = todo[c]
  PROVE  Chances(c)' = Chances(c) - 1
<1>1. /\ IsFiniteSet(pending[c]) /\ IsFiniteSet(seen[c])
      /\ Cardinality(pending[c]) \in Nat /\ Cardinality(seen[c]) \in Nat
      /\ todo[c] \in Nat
  BY WorkerTypes, Sizes
<1>2. Cardinality(seen'[c]) = Cardinality(seen[c]) + 1
  BY <1>1, FS_AddElement
<1>. QED  BY <1>1, <1>2 DEF Chances

(* The state of a sweep that fetches j, but for what it learns of j.       *)
LEMMA WaitFetching ==
  ASSUME TtlInv, NEW c \in Clients, NEW j, Fetching(c, j)
  PROVE  /\ j \in pending[c] /\ phase[c] = "sweeping" /\ todo[c] = 0
         /\ UNCHANGED <<jobs, posted, phase, todo, due>>
         /\ sweep'[c] = sweep[c] \ {j}
         /\ \A k \in pending[c] : k # j => UNCHANGED LookedAt(c, k)
<1>1. /\ TypeOK /\ WorkerWaits(c) /\ phase[c] = "sweeping"
      /\ UNCHANGED <<jobs, posted, phase, todo, due>>
      /\ j \in sweep[c] /\ sweep' = [sweep EXCEPT ![c] = @ \ {j}]
  BY WorkerTypes DEF Fetching, IsOldest
<1>2. sweep'[c] = sweep[c] \ {j}
  BY <1>1 DEF TypeOK
<1>. QED  BY <1>1, <1>2 DEF LookedAt, WorkerWaits

LEMMA WaitSettle ==
  ASSUME TtlInv, NEW c \in Clients, NEW j, Fetching(c, j),
         pending'[c] = pending[c] \ {j}, seen'[c] = seen[c] \ {j},
         quiet'[c] = 0
  PROVE  WorkerWaits(c)'
<1>1. /\ WorkerWaits(c) /\ j \in pending[c] /\ phase[c] = "sweeping" /\ todo[c] = 0
      /\ UNCHANGED <<jobs, posted, phase, todo, due>>
      /\ sweep'[c] = sweep[c] \ {j}
      /\ \A k \in pending[c] : k # j => UNCHANGED LookedAt(c, k)
  BY WaitFetching, WorkerTypes
<1>2. Chances(c)' = Chances(c) - IF j \in seen[c] THEN 1 ELSE 2
  BY <1>1, SettlePays
<1>3. Waited(c) \in Nat /\ Waited(c) <= Timeout /\ Waited(c)' = 0
      /\ Chances(c) \in Int /\ Timeout * Chances(c) \in Int
  BY <1>1, WorkerTypes DEF Waited
<1>4. ASSUME NEW k \in pending'[c] PROVE JobWaits(c, k)'
  <2>1. /\ k \in pending[c] /\ k # j /\ JobWaits(c, k) /\ jobs[k].age \in Nat
        /\ Later(c, k) \in {0, 1} /\ UNCHANGED LookedAt(c, k)
    BY <1>1, <1>4, WorkerTypes
  <2>2. Later(c, k)' \in {0, 1}
    BY DEF Later
  <2>3. ASSUME jobs[k].status = "pending"
        PROVE  jobs[k].age + Timeout * Chances(c)' <= LongestBatch + Later(c, k)'
    <3>1. CASE j \in seen[c]
      <4>1. Chances(c)' = Chances(c) - 1
        BY <1>2, <3>1
      <4>2. Timeout * Chances(c)' = Timeout * Chances(c) - Timeout
        BY <1>3, <4>1, TimesTimeout
      <4>3. ~(k < j)
        BY <1>1, <2>1, <2>3, <3>1, WorkerTypes DEF JobWaits
      <4>4. Later(c, k)' = Later(c, k)
        BY <1>1, <4>3 DEF Later
      <4>. QED  BY <1>3, <2>1, <2>3, <4>2, <4>4, Timeouts DEF JobWaits
    <3>2. CASE j \notin seen[c]
      <4>1. Chances(c)' = Chances(c) - 2
        BY <1>2, <3>2
      <4>2. Timeout * Chances(c)' = Timeout * Chances(c) - Timeout * 2
            /\ Timeout * 2 = Timeout + Timeout
        BY <1>3, <4>1, Timeouts, TimesTimeout
      <4>. QED  BY <1>3, <2>1, <2>2, <2>3, <4>2, Timeouts DEF JobWaits
    <3>. QED  BY <3>1, <3>2
  <2>4. /\ \A m \in pending'[c] : m \in pending[c]
        /\ k \notin seen[c] => k \notin seen'[c]
    OBVIOUS
  <2>5. CASE jobs[k].status = "pending"
    <3>1. jobs[k].age + Timeout * Chances(c)' <= Waited(c)' + LongestBatch + Later(c, k)'
      BY <1>3, <2>2, <2>3, <2>5, Timeouts
    <3>. QED  BY <1>1, <2>1, <2>4, <2>5, <3>1 DEF JobWaits
  <2>6. CASE jobs[k].status # "pending"
    BY <1>1, <2>1, <2>6 DEF JobWaits
  <2>. QED  BY <2>5, <2>6
<1>5. Chances(c)' <= 2 * MaxBatch
  BY <1>1, <1>2, <1>3, Timeouts DEF WorkerWaits
<1>. QED  BY <1>1, <1>4, <1>5 DEF WorkerWaits

LEMMA WaitFetch ==
  ASSUME TtlInv, NEW c \in Clients, FetchStep(c)
  PROVE  WorkerWaits(c)'
<1>1. PICK j \in sweep[c] : /\ Fetching(c, j)
                            /\ \/ FetchDone(c, j) \/ FetchQueued(c, j)
                               \/ FetchClaimed(c, j) \/ FetchFails(c, j)
  BY DEF FetchStep, FetchDone, FetchQueued, FetchClaimed, FetchFails
<1>2. /\ WorkerWaits(c) /\ j \in pending[c] /\ phase[c] = "sweeping" /\ todo[c] = 0
      /\ UNCHANGED <<jobs, posted, phase, todo, due>>
      /\ sweep'[c] = sweep[c] \ {j} /\ TypeOK
      /\ \A k \in pending[c] : k # j => UNCHANGED LookedAt(c, k)
  BY <1>1, WaitFetching, WorkerTypes
<1>3. CASE \E o : Settle(c, j, o)
  BY <1>1, <1>2, <1>3, WaitSettle DEF Settle, TypeOK
<1>4. CASE /\ UNCHANGED <<pending, quiet>> /\ seen'[c] = seen[c]
           /\ jobs[j].status # "done"
  <2>1. UNCHANGED <<Chances(c), Waited(c)>>
    BY <1>2, <1>4 DEF Chances, Waited
  <2>2. ASSUME NEW k \in pending[c] PROVE JobWaits(c, k)'
    <3>1. UNCHANGED Later(c, k) /\ JobWaits(c, k)
      BY <1>2, <1>4, WorkerTypes DEF Later
    <3>. QED  BY <1>2, <1>4, <2>1, <2>2, <3>1 DEF JobWaits
  <2>. QED  BY <1>2, <1>4, <2>1, <2>2 DEF WorkerWaits
<1>5. CASE /\ jobs[j].status = "in_flight" /\ j \notin seen[c]
           /\ UNCHANGED pending
           /\ seen'[c] = seen[c] \cup {j} /\ quiet'[c] = 0
  <2>1. Chances(c)' = Chances(c) - 1
    BY <1>2, <1>5, FirstSightPays
  <2>2. /\ Waited(c) \in Nat /\ Waited(c) <= Timeout /\ Waited(c)' = 0
        /\ Chances(c) \in Int /\ Timeout * Chances(c) \in Int
    BY <1>2, <1>5, WorkerTypes DEF Waited
  <2>3. Timeout * Chances(c)' = Timeout * Chances(c) - Timeout
    BY <2>1, <2>2, TimesTimeout
  <2>4. ASSUME NEW k \in pending[c] PROVE JobWaits(c, k)'
    <3>1. /\ UNCHANGED Later(c, k) /\ JobWaits(c, k) /\ jobs[k].age \in Nat
          /\ Later(c, k) \in {0, 1}
      BY <1>2, <1>5, WorkerTypes DEF Later
    <3>2. CASE k = j
      BY <1>2, <1>5, <3>1, <3>2 DEF JobWaits
    <3>3. CASE k # j
      BY <1>2, <1>5, <2>2, <2>3, <2>4, <3>1, <3>3, Timeouts DEF JobWaits
    <3>. QED  BY <3>2, <3>3
  <2>5. Chances(c)' <= 2 * MaxBatch
    BY <1>2, <2>1, <2>2, Timeouts DEF WorkerWaits
  <2>. QED  BY <1>2, <1>5, <2>4, <2>5 DEF WorkerWaits
<1>6. CASE FetchClaimed(c, j)
  <2>1. CASE jobs[j].claim_age >= Timeout
    BY <1>3, <1>6, <2>1 DEF FetchClaimed
  <2>2. CASE ~(jobs[j].claim_age >= Timeout) /\ j \in seen[c]
    <3>1. seen'[c] = seen[c] \cup {j}
      BY <1>2, <1>6, <2>2 DEF FetchClaimed, TypeOK
    <3>2. seen'[c] = seen[c]
      BY <2>2, <3>1
    <3>. QED  BY <1>4, <1>6, <2>2, <3>2 DEF FetchClaimed
  <2>3. CASE ~(jobs[j].claim_age >= Timeout) /\ j \notin seen[c]
    BY <1>2, <1>5, <1>6, <2>3 DEF FetchClaimed, TypeOK
  <2>. QED  BY <2>1, <2>2, <2>3
<1>7. CASE FetchQueued(c, j)
  BY <1>4, <1>7 DEF FetchQueued
<1>8. CASE FetchDone(c, j) \/ FetchFails(c, j)
  BY <1>3, <1>8 DEF FetchDone, FetchFails
<1>. QED  BY <1>1, <1>6, <1>7, <1>8

-----------------------------------------------------------------------------
(* Posts.                                                                  *)

(* The sweep that comes with a post drops no awaited job.                  *)
LEMMA AddSpares ==
  ASSUME TtlInv, LongestBatch <= TTL, NEW a, Add(posted + 1, a),
         NEW c \in Clients, NEW j \in pending[c]
  PROVE  jobs'[j] = jobs[j]
<1>1. j \in JobIds /\ j \in Nat /\ j <= posted /\ posted \in Nat /\ jobs[j].age \in Nat
  BY WorkerTypes
<1>2. ~Expired(j)
  BY <1>1, AwaitedAge, Timeouts, StoreAssumption DEF Expired
<1>. QED  BY <1>1, <1>2 DEF Add

LEMMA PostEffect ==
  ASSUME TtlInv, NEW c \in Clients, phase[c] = "posting", AfterPost(c),
         UNCHANGED sweep
  PROVE  /\ todo'[c] = todo[c] - 1 /\ todo[c] >= 1
         /\ Waited(c) = 0 /\ Waited(c)' = 0
         /\ todo[c] > 1 => phase'[c] = "posting" /\ due'[c] = due[c]
         /\ ~(todo[c] > 1) =>
              /\ todo'[c] = 0 /\ quiet'[c] = 0
              /\ phase'[c] = IF pending'[c] = {} THEN "idle" ELSE "sleeping"
              /\ due'[c] = (due[c] /\ pending'[c] # {})
<1>1. /\ TypeOK /\ todo[c] \in Nat /\ todo[c] > 0
  BY WorkerTypes
<1>2. todo'[c] = todo[c] - 1 /\ todo[c] >= 1
  BY <1>1 DEF AfterPost, TypeOK
<1>3. CASE todo[c] > 1
  BY <1>1, <1>2, <1>3 DEF AfterPost, Waited
<1>4. CASE ~(todo[c] > 1)
  <2>1. /\ todo'[c] = 0 /\ quiet'[c] = 0
        /\ phase'[c] = IF pending'[c] = {} THEN "idle" ELSE "sleeping"
        /\ due'[c] = (due[c] /\ pending'[c] # {})
    BY <1>1, <1>2, <1>4 DEF AfterPost, TypeOK
  <2>. QED  BY <1>2, <1>4, <2>1 DEF Waited
<1>. QED  BY <1>3, <1>4

LEMMA WaitPosted ==
  ASSUME TtlInv, LongestBatch <= TTL, NEW c \in Clients, PostJob(c)
  PROVE  WorkerWaits(c)'
<1> DEFINE new == posted + 1
<1>1. /\ WorkerWaits(c) /\ TypeOK /\ posted \in Nat /\ posted' = new /\ new \in JobIds
      /\ phase[c] = "posting" /\ Add(new, ClientAccount[c]) /\ AfterPost(c)
      /\ pending'[c] = pending[c] \cup {new}
      /\ UNCHANGED <<sweep, seen>>
  <2>1. /\ WorkerWaits(c) /\ TypeOK /\ posted \in Nat
    BY WorkerTypes
  <2>2. /\ posted < MaxJobs /\ posted' = posted + 1 /\ phase[c] = "posting"
        /\ AfterPost(c) /\ UNCHANGED <<sweep, seen>>
    BY DEF PostJob
  <2>3. Add(new, ClientAccount[c])
    BY <2>2 DEF PostJob
  <2>4. pending'[c] = pending[c] \cup {new}
    BY <2>1, <2>2 DEF PostJob, TypeOK
  <2>5. new \in JobIds
    BY <2>1, <2>2, StoreAssumption DEF JobIds
  <2>. QED  BY <2>1, <2>2, <2>3, <2>4, <2>5
<1>2. /\ todo'[c] = todo[c] - 1 /\ todo[c] >= 1 /\ todo[c] \in Nat
      /\ Waited(c) = 0 /\ Waited(c)' = 0
      /\ todo[c] > 1 => phase'[c] = "posting" /\ due'[c] = due[c]
      /\ ~(todo[c] > 1) =>
           /\ todo'[c] = 0 /\ quiet'[c] = 0 /\ phase'[c] = "sleeping"
           /\ due'[c] = due[c]
  BY <1>1, PostEffect, WorkerTypes
<1>3. \A j \in pending[c] : jobs'[j] = jobs[j] /\ j < new /\ new \notin pending[c]
  BY <1>1, AddSpares, WorkerTypes
<1>4. new \notin pending[c] /\ new \notin seen[c]
  BY <1>1, WorkerTypes DEF WorkerWaits
<1>5. Chances(c)' = Chances(c)
  <2>1. /\ IsFiniteSet(pending[c]) /\ Cardinality(pending[c]) \in Nat
        /\ Cardinality(seen[c]) \in Nat
    BY <1>1, Sizes
  <2>2. Cardinality(pending[c] \cup {new}) = Cardinality(pending[c]) + 1
    BY <1>4, <2>1, FS_AddElement
  <2>. QED  BY <1>1, <1>2, <2>1, <2>2 DEF Chances
<1>6. jobs'[new] = NewJob(ClientAccount[c])
  BY <1>1 DEF Add
<1>7. /\ jobs'[new].status = "pending" /\ jobs'[new].age = 0
      /\ jobs'[new].account = ClientAccount[c]
  BY <1>6 DEF NewJob, Absent
<1>8. ASSUME NEW j, j = new PROVE JobWaits(c, j)'
  <2>1. Chances(c) \in Int /\ Chances(c) <= 2 * MaxBatch /\ Later(c, j)' \in {0, 1}
    BY <1>1, WorkerTypes DEF WorkerWaits, Later
  <2>2. Timeout * Chances(c) <= Timeout * (2 * MaxBatch) /\ Timeout * Chances(c) \in Int
    BY <2>1, Timeouts, TimesTimeout
  <2>3. Timeout * (2 * MaxBatch) = LongestBatch
    <3>1. \A m, n \in Nat : m * (2 * n) = 2 * n * m
      OBVIOUS
    <3>. QED  BY <3>1, Timeouts DEF LongestBatch
  <2>4. jobs'[j].age + Timeout * Chances(c)' <= Waited(c)' + LongestBatch + Later(c, j)'
    BY <1>2, <1>5, <1>7, <1>8, <2>1, <2>2, <2>3, Timeouts
  <2>5. \A k \in pending'[c] : ~(j < k)
    BY <1>1, <1>3, <1>8, WorkerTypes
  <2>6. /\ jobs'[j].status = "pending" /\ jobs'[j].account = ClientAccount[c]
        /\ j \notin seen'[c]
    BY <1>1, <1>4, <1>7, <1>8
  <2> HIDE DEF new
  <2>. QED  BY <2>4, <2>5, <2>6 DEF JobWaits
<1>9. ASSUME NEW j \in pending[c] PROVE JobWaits(c, j)'
  <2>1. /\ JobWaits(c, j) /\ jobs[j].age \in Nat /\ jobs'[j] = jobs[j]
        /\ Later(c, j) = 1 /\ Later(c, j)' = 1
    BY <1>1, <1>2, <1>3, WorkerTypes DEF Later
  <2>2. LookedAt(c, j)' = LookedAt(c, j)
    BY <1>1, <1>2 DEF LookedAt
  <2>3. ASSUME NEW k \in pending'[c], ~(k \in pending[c] /\ jobs'[k] = jobs[k])
        PROVE  jobs'[k].status = "pending"
    BY <1>1, <1>3, <1>7, <2>3
  <2>4. CASE jobs[j].status = "pending"
    BY <1>1, <1>2, <1>5, <2>1, <2>3, <2>4 DEF JobWaits
  <2>5. CASE jobs[j].status # "pending"
    BY <2>1, <2>2, <2>5 DEF JobWaits
  <2>. QED  BY <2>4, <2>5
<1>10. phase'[c] = "posting" =>
         \A j \in pending'[c] : jobs'[j].age <= IF due'[c] THEN 1 ELSE 0
  BY <1>1, <1>2, <1>3, <1>7 DEF WorkerWaits
<1>11. pending'[c] \subseteq 1 .. posted'
  BY <1>1 DEF WorkerWaits
<1> HIDE DEF new
<1>12. seen'[c] \subseteq pending'[c] /\ sweep'[c] \subseteq pending'[c]
  BY <1>1 DEF WorkerWaits
<1>13. Chances(c)' <= 2 * MaxBatch
  BY <1>1, <1>5 DEF WorkerWaits
<1>14. ASSUME NEW j \in pending'[c] PROVE JobWaits(c, j)'
  <2>1. CASE j = new
    BY <1>8, <2>1
  <2>2. CASE j \in pending[c]
    BY <1>9, <2>2
  <2>. QED  BY <1>1, <1>14, <2>1, <2>2
<1>. QED  BY <1>1, <1>2, <1>10, <1>11, <1>12, <1>13, <1>14, Timeouts DEF WorkerWaits

(* The post of a battle fails; what is queued all the same is not awaited. *)
LEMMA WaitUnposted ==
  ASSUME TtlInv, LongestBatch <= TTL, NEW c \in Clients,
         PostLost(c) \/ PostOrphaned(c)
  PROVE  WorkerWaits(c)'
<1>1. /\ WorkerWaits(c) /\ TypeOK /\ posted \in Nat /\ posted' \in Nat /\ posted <= posted'
      /\ phase[c] = "posting" /\ AfterPost(c)
      /\ UNCHANGED <<pending, sweep, seen>>
  BY WorkerTypes DEF PostLost, PostOrphaned
<1>2. \A j \in pending[c] : jobs'[j] = jobs[j]
  <2>1. CASE PostLost(c)
    BY <2>1 DEF PostLost
  <2>2. CASE PostOrphaned(c)
    BY <2>2, AddSpares DEF PostOrphaned
  <2>. QED  BY <2>1, <2>2
<1>3. /\ todo'[c] = todo[c] - 1 /\ todo[c] >= 1 /\ todo[c] \in Nat
      /\ Waited(c) = 0 /\ Waited(c)' = 0
      /\ todo[c] > 1 => phase'[c] = "posting" /\ due'[c] = due[c]
      /\ ~(todo[c] > 1) =>
           /\ todo'[c] = 0 /\ quiet'[c] = 0
           /\ phase'[c] = IF pending[c] = {} THEN "idle" ELSE "sleeping"
           /\ due'[c] = (due[c] /\ pending[c] # {})
  BY <1>1, PostEffect, WorkerTypes
<1>4. Chances(c) \in Int /\ Timeout * Chances(c) \in Int /\ Chances(c)' = Chances(c) - 2
  <2>1. Cardinality(pending[c]) \in Nat /\ Cardinality(seen[c]) \in Nat
    BY <1>1, Sizes
  <2>. QED  BY <1>1, <1>3, <2>1, WorkerTypes DEF Chances
<1>5. Timeout * Chances(c)' = Timeout * Chances(c) - Timeout * 2
      /\ Timeout * 2 = Timeout + Timeout
  BY <1>4, Timeouts, TimesTimeout
<1>6. ASSUME NEW j \in pending[c] PROVE JobWaits(c, j)'
  <2>1. /\ JobWaits(c, j) /\ jobs[j].age \in Nat /\ jobs'[j] = jobs[j]
        /\ Later(c, j) \in {0, 1} /\ Later(c, j)' \in {0, 1}
    BY <1>2, WorkerTypes DEF Later
  <2>2. LookedAt(c, j)' = LookedAt(c, j)
    BY <1>1, <1>3 DEF LookedAt
  <2>3. jobs[j].status = "pending" =>
          jobs[j].age + Timeout * Chances(c)' <= Waited(c)' + LongestBatch + Later(c, j)'
    BY <1>3, <1>4, <1>5, <2>1, Timeouts DEF JobWaits
  <2>. QED  BY <1>1, <1>2, <2>1, <2>2, <2>3 DEF JobWaits
<1>7. phase'[c] = "posting" =>
         \A j \in pending'[c] : jobs'[j].age <= IF due'[c] THEN 1 ELSE 0
  BY <1>1, <1>2, <1>3 DEF WorkerWaits
<1>8. pending'[c] \subseteq 1 .. posted'
  BY <1>1 DEF WorkerWaits
<1>9. Chances(c)' <= 2 * MaxBatch
  BY <1>1, <1>4, Timeouts DEF WorkerWaits
<1>10. /\ phase'[c] # "posting" => todo'[c] = 0
       /\ phase'[c] = "idle" => ~due'[c]
       /\ phase'[c] = "sleeping" => quiet'[c] < Timeout
  <2>1. CASE todo[c] > 1
    BY <1>3, <2>1
  <2>2. CASE ~(todo[c] > 1) /\ pending[c] = {}
    <3>1. todo'[c] = 0 /\ phase'[c] = "idle"
      BY <1>3, <2>2
    <3>2. ~due'[c]
      BY <1>3, <2>2
    <3>. QED  BY <3>1, <3>2
  <2>3. CASE ~(todo[c] > 1) /\ pending[c] # {}
    <3>1. todo'[c] = 0 /\ quiet'[c] = 0 /\ phase'[c] = "sleeping"
      BY <1>3, <2>3
    <3>. QED  BY <3>1, Timeouts
  <2>. QED  BY <2>1, <2>2, <2>3
<1>11. /\ seen'[c] \subseteq pending'[c] /\ sweep'[c] \subseteq pending'[c]
       /\ \A j \in pending'[c] : JobWaits(c, j)'
  BY <1>1, <1>6 DEF WorkerWaits
<1>. QED  BY <1>7, <1>8, <1>9, <1>10, <1>11 DEF WorkerWaits

-----------------------------------------------------------------------------
(* Steps of tabs and of the environment.                                   *)

(* A claim takes the oldest job first, so no job overtakes an older one of *)
(* the same worker.                                                        *)
LEMMA WaitClaim ==
  ASSUME TtlInv, NEW a, NEW i \in JobIds, Claim(a, i), UNCHANGED clientVars,
         NEW c \in Clients
  PROVE  WorkerWaits(c)'
<1>1. /\ WorkerWaits(c) /\ TypeOK /\ TypeInv /\ StoreTypeOK
      /\ UNCHANGED <<posted, phase, todo, pending, sweep, seen, quiet, due>>
  BY WorkerTypes DEF clientVars
<1>2. \A j \in JobIds : jobs'[j].account = jobs[j].account /\ jobs'[j].age = jobs[j].age
  <2>. SUFFICES ASSUME NEW j \in JobIds
                PROVE  jobs'[j].account = jobs[j].account /\ jobs'[j].age = jobs[j].age
    OBVIOUS
  <2>. QED  BY <1>1 DEF Claim, StoreTypeOK, Job
<1>3. /\ jobs'[i].status = "in_flight" /\ jobs'[i].claim_age = 0
      /\ \A j \in JobIds : j # i => jobs'[j] = jobs[j]
  BY <1>1, ClaimClock
<1>4. UNCHANGED <<Chances(c), Waited(c)>>
  BY <1>1 DEF Chances, Waited
<1>5. ASSUME NEW j \in pending[c] PROVE JobWaits(c, j)'
  <2>1. /\ JobWaits(c, j) /\ j \in JobIds /\ j \in Nat /\ jobs[j] \in Job
        /\ UNCHANGED <<Later(c, j), LookedAt(c, j)>>
        /\ jobs[j].age \in Nat /\ jobs[j].claim_age \in Nat
    BY <1>1, WorkerTypes DEF Later, LookedAt
  <2>2. CASE j = i
    <3>1. i \in Claimable(a) /\ ~(jobs[j].status = "in_flight" /\ jobs[j].claim_age >= ReclaimAge)
      <4>1. jobs[j].status = "in_flight" => jobs[j].claim_age <= Timeout
        BY DEF TtlInv, ClaimInv, ClaimsFresh
      <4>. QED  BY <2>1, <4>1, BridgeAssumption, StoreAssumption DEF Claim, IsOldest
    <3>2. jobs[j].status = "pending"
      BY <2>2, <3>1 DEF Claimable, Reclaimable
    <3>3. jobs[j].age <= LongestBatch - Timeout
      BY <1>1, <3>2, UnclaimedAge
    <3>4. jobs'[j].account = ClientAccount[c]
      BY <1>2, <2>1, <3>2 DEF JobWaits
    <3>. QED  BY <1>2, <1>3, <2>1, <2>2, <3>3, <3>4, Timeouts DEF JobWaits
  <2>3. CASE j # i /\ jobs[j].status = "pending"
    <3>1. ASSUME i \in pending[c], j < i PROVE FALSE
      <4>1. jobs[i].status = "pending"
        BY <2>1, <2>3, <3>1 DEF JobWaits
      <4>2. jobs[i].account = ClientAccount[c] /\ jobs[j].account = ClientAccount[c]
        BY <2>1, <2>3, <3>1, <4>1, WorkerTypes DEF JobWaits
      <4>3. j \in Claimable(a)
        BY <2>1, <2>3, <4>2 DEF Claim, IsOldest, Claimable
      <4>4. i <= j /\ i \in Nat
        BY <4>3, StoreAssumption DEF Claim, IsOldest, JobIds
      <4>. QED  BY <2>1, <3>1, <4>4
    <3>2. \A k \in pending[c] : j < k => jobs'[k].status = "pending"
      BY <1>3, <2>1, <2>3, <3>1, WorkerTypes DEF JobWaits
    <3>. QED  BY <1>1, <1>3, <1>4, <2>1, <2>3, <3>2 DEF JobWaits
  <2>4. CASE j # i /\ jobs[j].status # "pending"
    BY <1>1, <1>3, <2>1, <2>4 DEF JobWaits
  <2>. QED  BY <2>2, <2>3, <2>4
<1>6. phase[c] = "posting" => \A j \in pending[c] : jobs'[j].age <= IF due[c] THEN 1 ELSE 0
  BY <1>1, <1>2, WorkerTypes DEF WorkerWaits
<1>. QED  BY <1>1, <1>4, <1>5, <1>6 DEF WorkerWaits

LEMMA WaitSubmit ==
  ASSUME TtlInv, NEW i \in JobIds, jobs[i].status # "pending",
         jobs[i].status # "absent", NEW r, Submit(i, r), UNCHANGED clientVars,
         NEW c \in Clients
  PROVE  WorkerWaits(c)'
<1>1. /\ WorkerWaits(c) /\ TypeOK /\ TypeInv /\ StoreTypeOK
      /\ UNCHANGED <<posted, phase, todo, pending, sweep, seen, quiet, due>>
  BY WorkerTypes DEF clientVars
<1>2. /\ jobs'[i].status = "done" /\ jobs'[i].account = jobs[i].account
      /\ jobs'[i].age = jobs[i].age
      /\ \A j \in JobIds : j # i => jobs'[j] = jobs[j]
  BY <1>1 DEF Submit, StoreTypeOK, Job
<1>3. UNCHANGED <<Chances(c), Waited(c)>>
  BY <1>1 DEF Chances, Waited
<1>4. ASSUME NEW j \in pending[c] PROVE JobWaits(c, j)'
  <2>1. /\ JobWaits(c, j) /\ j \in JobIds /\ jobs[j].age \in Nat
        /\ jobs[j].claim_age \in Nat /\ jobs[j].status \in Status
        /\ UNCHANGED <<Later(c, j), LookedAt(c, j)>>
    BY <1>1, WorkerTypes DEF Later, LookedAt
  <2>2. CASE j = i
    <3>1. /\ jobs[j].status = "in_flight" => jobs[j].claim_age <= Timeout
          /\ jobs[j].status = "in_flight" /\ LookedAt(c, j) => jobs[j].claim_age < Timeout
      BY DEF TtlInv, ClaimInv, ClaimsFresh
    <3>2. jobs[j].age <= LongestBatch - IF LookedAt(c, j) THEN 1 ELSE 0
      BY <2>1, <2>2, <3>1, Timeouts DEF JobWaits, Status
    <3>. QED  BY <1>2, <2>1, <2>2, <3>2 DEF JobWaits
  <2>3. CASE j # i
    <3>1. \A k \in pending[c] : jobs[k].status = "pending" => jobs'[k].status = "pending"
      BY <1>2, WorkerTypes
    <3>. QED  BY <1>1, <1>2, <1>3, <2>1, <2>3, <3>1 DEF JobWaits
  <2>. QED  BY <2>2, <2>3
<1>5. phase[c] = "posting" => \A j \in pending[c] : jobs'[j].age <= IF due[c] THEN 1 ELSE 0
  BY <1>1, <1>2, WorkerTypes DEF WorkerWaits
<1>. QED  BY <1>1, <1>3, <1>4, <1>5 DEF WorkerWaits

LEMMA WaitRestart ==
  ASSUME TtlInv, Restart, NEW c \in Clients
  PROVE  WorkerWaits(c)'
<1>1. /\ WorkerWaits(c)
      /\ UNCHANGED <<posted, phase, todo, pending, sweep, seen, quiet, due>>
      /\ \A j \in pending[c] : jobs'[j].status = "absent" /\ jobs'[j].age = 0
  BY WorkerTypes DEF Restart, clientVars, ForgetJobs, Absent
<1>2. UNCHANGED Chances(c)
  BY <1>1 DEF Chances
<1>3. \A j \in pending[c] : JobWaits(c, j)'
  BY <1>1 DEF JobWaits
<1>. QED  BY <1>1, <1>2, <1>3 DEF WorkerWaits

LEMMA WaitTick ==
  ASSUME TtlInv, Tick, NEW c \in Clients
  PROVE  WorkerWaits(c)'
<1>1. /\ WorkerWaits(c) /\ TypeOK /\ StoreTypeOK /\ ~due[c] /\ phase[c] # "sweeping"
      /\ UNCHANGED <<posted, phase, todo, pending, sweep, seen>> /\ AgeJobs
      /\ due'[c] = (phase[c] # "idle")
      /\ quiet'[c] = IF phase[c] = "sleeping" THEN Capped(quiet[c] + 1, Timeout)
                     ELSE quiet[c]
  BY WorkerTypes DEF Tick
<1>2. /\ phase[c] = "sleeping" => quiet[c] < Timeout /\ quiet'[c] = quiet[c] + 1
      /\ quiet[c] \in Nat
  BY <1>1, WorkerTypes, Timeouts DEF WorkerWaits, Capped
<1>3. UNCHANGED Chances(c) /\ Chances(c) \in Int /\ Timeout * Chances(c) \in Int
  BY <1>1, WorkerTypes DEF Chances
<1>4. \A j \in pending[c] :
        /\ jobs'[j].status = jobs[j].status /\ jobs'[j].account = jobs[j].account
        /\ jobs'[j].age <= jobs[j].age + 1 /\ jobs'[j].age \in Nat
        /\ jobs[j].status = "in_flight" => jobs'[j].claim_age = jobs[j].claim_age + 1
  <2>. SUFFICES ASSUME NEW j \in pending[c]
                PROVE  /\ jobs'[j].status = jobs[j].status
                       /\ jobs'[j].account = jobs[j].account
                       /\ jobs'[j].age <= jobs[j].age + 1 /\ jobs'[j].age \in Nat
                       /\ jobs[j].status = "in_flight" =>
                            jobs'[j].claim_age = jobs[j].claim_age + 1
    OBVIOUS
  <2>1. /\ j \in JobIds /\ jobs[j] \in Job /\ jobs[j].age \in Nat
        /\ jobs[j].claim_age \in Nat
    BY WorkerTypes
  <2>2. jobs[j].status = "in_flight" => jobs[j].claim_age < Timeout
    BY <1>1 DEF TtlInv, ClaimInv, ClaimsFresh, LookedAt
  <2>3. jobs'[j] = Aged(jobs[j]) /\ ReclaimAge \in Nat /\ Timeout < ReclaimAge /\ TTL \in Nat
    BY <1>1, <2>1, BridgeAssumption, StoreAssumption DEF AgeJobs
  <2>. QED  BY <2>1, <2>2, <2>3, Timeouts DEF Aged, Capped, Job
<1>5. ASSUME NEW j \in pending[c] PROVE JobWaits(c, j)'
  <2>1. /\ JobWaits(c, j) /\ jobs[j].age \in Nat /\ jobs[j].claim_age \in Nat
        /\ UNCHANGED Later(c, j) /\ LookedAt(c, j)
        /\ Later(c, j) \in {0, 1}
    BY <1>1, WorkerTypes DEF Later, LookedAt
  <2>2. ~LookedAt(c, j)'
    BY <1>1, WorkerTypes DEF LookedAt
  <2>3. CASE jobs[j].status = "pending"
    <3>1. jobs'[j].age + Timeout * Chances(c)' <= Waited(c)' + LongestBatch + Later(c, j)'
      <4>1. CASE phase[c] = "sleeping"
        BY <1>1, <1>2, <1>3, <1>4, <2>1, <2>3, <4>1, Timeouts DEF JobWaits, Waited
      <4>2. CASE phase[c] = "posting"
        <5>1. jobs[j].age = 0 /\ Later(c, j) = 1 /\ Waited(c)' = 0
          BY <1>1, <2>1, <4>2, WorkerTypes DEF WorkerWaits, Later, Waited
        <5>2. Timeout * Chances(c) <= Timeout * (2 * MaxBatch)
          BY <1>1, <1>3, Timeouts, TimesTimeout DEF WorkerWaits
        <5>3. Timeout * (2 * MaxBatch) = LongestBatch
          <6>1. \A m, n \in Nat : m * (2 * n) = 2 * n * m
            OBVIOUS
          <6>. QED  BY <6>1, Timeouts DEF LongestBatch
        <5>. QED  BY <1>3, <1>4, <2>1, <5>1, <5>2, <5>3, Timeouts
      <4>. QED  BY <1>1, <4>1, <4>2, WorkerTypes
    <3>. QED  BY <1>1, <1>4, <2>1, <2>3, <3>1 DEF JobWaits
  <2>4. CASE jobs[j].status = "in_flight"
    <3>1. jobs'[j].age <= LongestBatch - Timeout + jobs'[j].claim_age
      BY <1>4, <2>1, <2>4, Timeouts DEF JobWaits
    <3>. QED  BY <1>1, <1>4, <2>1, <2>4, <3>1 DEF JobWaits
  <2>5. CASE jobs[j].status = "done"
    <3>1. jobs'[j].age <= LongestBatch
      BY <1>4, <2>1, <2>5, Timeouts DEF JobWaits
    <3>. QED  BY <1>1, <1>4, <2>1, <2>2, <2>5, <3>1, Timeouts DEF JobWaits
  <2>6. CASE jobs[j].status = "absent"
    BY <1>4, <2>1, <2>6 DEF JobWaits
  <2>. QED  BY <2>3, <2>4, <2>5, <2>6, WorkerTypes DEF Status
<1>6. phase[c] = "posting" => \A j \in pending[c] : jobs'[j].age <= 1
  BY <1>1, <1>4, WorkerTypes DEF WorkerWaits
<1>7. phase[c] = "posting" => \A j \in pending'[c] : jobs'[j].age <= IF due'[c] THEN 1 ELSE 0
  BY <1>1, <1>6
<1>. QED  BY <1>1, <1>3, <1>5, <1>7 DEF WorkerWaits

-----------------------------------------------------------------------------
(* Every step.                                                             *)

LEMMA PostedKept ==
  ASSUME TtlInv, UNCHANGED <<posted, pc, job>>,
         \A j \in JobIds :
           \/ jobs'[j].status = jobs[j].status \/ jobs'[j].status = "absent"
           \/ jobs'[j].status # "pending" /\ jobs[j].status # "absent"
  PROVE  JobsPosted'
<1>1. \A t \in Tabs : pc[t] \in {"computing", "submitting", "retrying"} => job[t] \in JobIds
  BY DEF TtlInv, ClaimInv, TypeInv, TabsHoldJobs
<1>. QED  BY <1>1 DEF TtlInv, JobsPosted

LEMMA PostedByClient ==
  ASSUME TtlInv, NEW c \in Clients,
         \/ ClientStep(c) \/ Cancel(c)
         \/ \E n \in 1 .. MaxBatch : StartBatch(c, n)
  PROVE  JobsPosted'
<1>1. UNCHANGED <<pc, job>>
  BY DEF ClientStep, FetchStep, FetchDone, FetchQueued, FetchClaimed, FetchFails,
         Fetching, PostJob, PostLost, PostOrphaned, BeginSweep, EndSweep, Cancel,
         StartBatch, tabVars
<1>2. CASE UNCHANGED <<jobs, posted>>
  BY <1>1, <1>2, PostedKept
<1>3. CASE PostJob(c) \/ PostOrphaned(c)
  <2>1. /\ posted' = posted + 1 /\ posted' \in JobIds /\ posted \in Nat /\ StoreTypeOK
        /\ \E a : Add(posted', a)
    BY <1>3, WorkerTypes, StoreAssumption DEF PostJob, PostOrphaned, TypeOK, JobIds
  <2>2. \A j \in JobIds : j # posted' => jobs'[j] = jobs[j] \/ jobs'[j].status = "absent"
    BY <2>1, AddEffect
  <2>3. \A j \in JobIds : j \in Nat
    BY StoreAssumption DEF JobIds
  <2>4. \A t \in Tabs : pc[t] \in {"computing", "submitting", "retrying"} => job[t] \in JobIds
    BY DEF TtlInv, ClaimInv, TypeInv, TabsHoldJobs
  <2>5. \A j \in JobIds : j > posted' => j > posted /\ j # posted'
    BY <2>1, <2>3
  <2>6. \A j \in JobIds : j <= posted => j <= posted' /\ j # posted'
    BY <2>1, <2>3
  <2>. QED  BY <1>1, <2>2, <2>4, <2>5, <2>6 DEF TtlInv, JobsPosted
<1>. QED
  BY <1>2, <1>3
  DEF ClientStep, FetchStep, FetchDone, FetchQueued, FetchClaimed, FetchFails,
      Fetching, PostLost, BeginSweep, EndSweep, Cancel, StartBatch

LEMMA PostedByTab ==
  ASSUME TtlInv, NEW t \in Tabs, TabStep(t) \/ Reload(t)
  PROVE  JobsPosted'
<1>1. /\ TypeOK /\ StoreTypeOK /\ JobsPosted
      /\ \A u \in Tabs : pc[u] \in {"computing", "submitting", "retrying"} => job[u] \in JobIds
  BY DEF TtlInv, ClaimInv, TypeInv, TabsHoldJobs, TypeOK
<1>2. UNCHANGED posted
  BY DEF TabStep, ReadAccount, PollStep, PollClaims, PollReplyLost, PollEmpty,
         PollUnreachable, Rest, Compute, SubmitStep, SubmitAccepted,
         SubmitRejected, SubmitLost, Submitting, Reload, clientVars
<1>3. ASSUME NEW a, NEW j \in JobIds, Claim(a, j),
             \/ /\ pc' = [pc EXCEPT ![t] = "computing"]
                /\ job' = [job EXCEPT ![t] = j]
             \/ /\ pc' = [pc EXCEPT ![t] = "idle"]
                /\ UNCHANGED job
      PROVE  JobsPosted'
  <2>1. \A k \in JobIds : jobs'[k] = jobs[k] \/ k = j
    BY <1>1, <1>3, ClaimClock
  <2>2. jobs'[j].status = "in_flight" /\ jobs[j].status # "absent"
    BY <1>1, <1>3, ClaimClock, ClaimEffect
  <2>3. j <= posted
    BY <1>1, <2>2, StoreAssumption DEF JobsPosted, TypeOK, JobIds
  <2>. QED  BY <1>1, <1>2, <1>3, <2>1, <2>2, <2>3 DEF JobsPosted, TypeOK
<1>4. ASSUME \A k \in JobIds : \/ jobs'[k] = jobs[k]
                               \/ jobs'[k].status = "done" /\ jobs[k].status # "absent",
             \A u \in Tabs : pc'[u] \in {"computing", "submitting", "retrying"} =>
               pc[u] \in {"computing", "submitting", "retrying"} /\ job'[u] = job[u]
      PROVE  JobsPosted'
  BY <1>1, <1>2, <1>4 DEF JobsPosted
<1>5. CASE ReadAccount(t) \/ Reload(t) \/ \E r \in Payloads[t] : Compute(t, r)
  <2>1. UNCHANGED jobs
    BY <1>5 DEF ReadAccount, Compute, Reload
  <2>2. ASSUME NEW u \in Tabs, pc'[u] \in {"computing", "submitting", "retrying"}
        PROVE  pc[u] \in {"computing", "submitting", "retrying"} /\ job'[u] = job[u]
    <3>1. CASE ReadAccount(t)
      BY <2>2, <3>1 DEF ReadAccount
    <3>2. CASE Reload(t)
      BY <1>1, <2>2, <3>2 DEF Reload, TypeOK
    <3>3. CASE \E r \in Payloads[t] : Compute(t, r)
      BY <1>1, <2>2, <3>3 DEF Compute, TypeOK
    <3>. QED  BY <1>5, <3>1, <3>2, <3>3
  <2>. QED  BY <1>4, <2>1, <2>2
<1>6. CASE PollStep(t)
  <2>1. CASE PollUnreachable(t) \/ \E a : PollEmpty(t, a)
    <3>1. UNCHANGED jobs
      BY <2>1 DEF PollUnreachable, PollEmpty
    <3>2. UNCHANGED job /\ (pc' = [pc EXCEPT ![t] = "idle"] \/ pc' = [pc EXCEPT ![t] = "fallback"])
      BY <2>1 DEF PollUnreachable, PollEmpty, Rest
    <3>3. \A u \in Tabs : pc'[u] = pc[u] \/ pc'[u] \in {"idle", "fallback"}
      BY <1>1, <3>2 DEF TypeOK
    <3>. QED  BY <1>4, <3>1, <3>2, <3>3
  <2>2. ASSUME NEW a, NEW j \in JobIds, PollClaims(t, a, j) \/ PollReplyLost(t, a, j)
        PROVE  JobsPosted'
    BY <1>3, <2>2 DEF PollClaims, PollReplyLost, Rest
  <2>. QED  BY <1>6, <2>1, <2>2 DEF PollStep
<1>7. CASE SubmitStep(t)
  <2>1. /\ pc[t] \in {"submitting", "retrying"} /\ job[t] \in JobIds
        /\ \E ok \in BOOLEAN : AfterSubmit(t, ok)
    BY <1>1, <1>7 DEF SubmitStep, SubmitAccepted, SubmitRejected, SubmitLost, Submitting
  <2>2. \A u \in Tabs : pc'[u] \in {"computing", "submitting", "retrying"} =>
          pc[u] \in {"computing", "submitting", "retrying"} /\ job'[u] = job[u]
    BY <1>1, <2>1 DEF AfterSubmit, TypeOK
  <2>3. \/ UNCHANGED jobs
        \/ Submit(job[t], calc[t]) /\ jobs[job[t]].status # "absent"
    BY <1>7 DEF SubmitStep, SubmitAccepted, SubmitRejected, SubmitLost, Accepts
  <2>4. ASSUME NEW k \in JobIds
        PROVE  \/ jobs'[k] = jobs[k]
               \/ jobs'[k].status = "done" /\ jobs[k].status # "absent"
    <3>1. CASE UNCHANGED jobs
      BY <3>1
    <3>2. CASE Submit(job[t], calc[t]) /\ jobs[job[t]].status # "absent"
      BY <1>1, <2>1, <3>2, SubmitEffect
    <3>. QED  BY <2>3, <3>1, <3>2
  <2>. QED  BY <1>4, <2>2, <2>4
<1>. QED  BY <1>5, <1>6, <1>7 DEF TabStep

LEMMA PostedKeptByClock ==
  ASSUME TtlInv, Restart \/ Tick \/ UNCHANGED vars
  PROVE  JobsPosted'
<1>1. UNCHANGED <<posted, pc, job>>
  BY DEF Restart, Tick, vars, clientVars, tabVars
<1>2. StoreTypeOK
  BY DEF TtlInv, ClaimInv, TypeInv, TypeOK
<1>3. ASSUME NEW j \in JobIds
      PROVE  jobs'[j].status = jobs[j].status \/ jobs'[j].status = "absent"
  BY <1>2, AgeEffect DEF Restart, Tick, vars, ForgetJobs, Absent
<1>. QED  BY <1>1, <1>3, PostedKept

LEMMA WaitByClient ==
  ASSUME TtlInv, ClaimInv', LongestBatch <= TTL, NEW c \in Clients,
         \/ ClientStep(c) \/ Cancel(c)
         \/ \E n \in 1 .. MaxBatch : StartBatch(c, n)
  PROVE  \A d \in Clients : WorkerWaits(d)'
<1>1. TypeOK /\ TypeOK' /\ StoreTypeOK
  BY DEF TtlInv, ClaimInv, TypeInv, TypeOK
<1>2. posted \in Nat /\ posted' \in Nat /\ posted <= posted'
  <2>1. posted \in Nat /\ posted' \in Nat
    BY <1>1, StoreAssumption DEF TypeOK
  <2>. QED
    BY <2>1
    DEF ClientStep, FetchStep, FetchDone, FetchQueued, FetchClaimed, FetchFails,
        Fetching, PostJob, PostLost, PostOrphaned, BeginSweep, EndSweep, Cancel,
        StartBatch
<1>3. ASSUME NEW d \in Clients, d # c PROVE WorkerWaits(d)'
  <2>1. UNCHANGED Mine(d)
    BY <1>1, <1>3
    DEF ClientStep, FetchStep, FetchDone, FetchQueued, FetchClaimed, FetchFails,
        Fetching, Settle, PostJob, PostLost, PostOrphaned, AfterPost, BeginSweep,
        EndSweep, Cancel, StartBatch, Mine, TypeOK
  <2>2. \A j \in pending[d] : jobs'[j] = jobs[j]
    <3>1. CASE UNCHANGED jobs
      BY <3>1
    <3>2. CASE PostJob(c) \/ PostOrphaned(c)
      BY <3>2, AddSpares DEF PostJob, PostOrphaned
    <3>. QED
      BY <3>1, <3>2
      DEF ClientStep, FetchStep, FetchDone, FetchQueued, FetchClaimed, FetchFails,
          Fetching, PostLost, BeginSweep, EndSweep, Cancel, StartBatch
  <2>. QED  BY <1>2, <2>1, <2>2, WaitKept
<1>4. WorkerWaits(c)'
  <2>1. CASE Cancel(c)
    <3>1. /\ pending'[c] = {} /\ seen'[c] = {} /\ sweep'[c] = {}
          /\ todo'[c] = 0 /\ phase'[c] = "idle" /\ ~due'[c]
      BY <1>1, <2>1 DEF Cancel, TypeOK
    <3>. QED  BY <1>1, <3>1, WaitNothing
  <2>2. CASE \E n \in 1 .. MaxBatch : StartBatch(c, n)
    <3>1. pending[c] = {} /\ seen[c] = {} /\ sweep[c] = {}
      BY <2>2, WorkerTypes DEF StartBatch, WorkerWaits
    <3>2. /\ todo'[c] \in 1 .. MaxBatch /\ phase'[c] = "posting"
          /\ pending' = pending /\ seen' = seen /\ sweep' = sweep
      BY <1>1, <2>2 DEF StartBatch, TypeOK
    <3>. QED  BY <1>1, <3>1, <3>2, WaitNothing
  <2>. QED
    BY <1>1, <2>1, <2>2, WaitPosted, WaitUnposted, WaitBegins, WaitFetch, WaitEnds
    DEF ClientStep
<1>. QED  BY <1>3, <1>4

LEMMA WaitByTab ==
  ASSUME TtlInv, NEW t \in Tabs, TabStep(t) \/ Reload(t), NEW c \in Clients
  PROVE  WorkerWaits(c)'
<1>1. UNCHANGED clientVars
  BY DEF TabStep, ReadAccount, PollStep, PollClaims, PollReplyLost, PollEmpty,
         PollUnreachable, Rest, Compute, SubmitStep, SubmitAccepted,
         SubmitRejected, SubmitLost, Submitting, Reload
<1>2. CASE UNCHANGED jobs
  BY <1>1, <1>2, WaitKept, WorkerTypes DEF clientVars, Mine
<1>3. ASSUME NEW a, NEW j \in JobIds, Claim(a, j)
      PROVE  WorkerWaits(c)'
  BY <1>1, <1>3, WaitClaim
<1>4. ASSUME NEW heard \in BOOLEAN, SubmitAccepted(t, heard)
      PROVE  WorkerWaits(c)'
  <2>1. /\ job[t] \in JobIds /\ Submit(job[t], calc[t])
        /\ jobs[job[t]].status # "absent" /\ jobs[job[t]].status # "pending"
    BY <1>4
    DEF SubmitAccepted, Submitting, Accepts, TtlInv, ClaimInv, TypeInv,
        TabsHoldJobs, JobsPosted
  <2>. QED  BY <1>1, <2>1, WaitSubmit
<1>. QED
  BY <1>2, <1>3, <1>4
  DEF TabStep, ReadAccount, PollStep, PollClaims, PollReplyLost, PollEmpty,
      PollUnreachable, Compute, SubmitStep, SubmitRejected, SubmitLost, Reload

(* With batches its TTL has room for, the store never sweeps a job away    *)
(* from under the worker that waits for it: however the tabs take, lose    *)
(* and answer its jobs, the worker's watchdog has ended the batch by then  *)
(* (ToeJobStore.cleanup against calc_batch's last_progress_at).            *)
THEOREM AwaitedOutlive == Spec => []AwaitedJobOutlivesTTL
<1>1. Init => TtlInv
  <2>. SUFFICES ASSUME Init PROVE TtlInv
    OBVIOUS
  <2>1. ClaimInv
    BY InitTyped DEF Init, ClaimInv, IdleAwaitsNothing, ClaimsFresh
  <2>2. JobsPosted
    BY DEF Init, StoreInit, Absent, JobsPosted
  <2>3. ASSUME NEW c \in Clients PROVE WorkerWaits(c)
    <3>1. /\ pending[c] = {} /\ seen[c] = {} /\ sweep[c] = {} /\ todo[c] = 0
          /\ phase[c] = "idle" /\ ~due[c]
      BY DEF Init
    <3>2. Cardinality({}) = 0
      BY FS_EmptySet
    <3>3. Chances(c) <= 2 * MaxBatch
      BY <3>1, <3>2, Timeouts DEF Chances
    <3>. QED  BY <3>1, <3>3 DEF WorkerWaits
  <2>. QED  BY <2>1, <2>2, <2>3 DEF TtlInv
<1>2. ASSUME LongestBatch <= TTL PROVE TtlInv /\ [Next]_vars => TtlInv'
  <2>. SUFFICES ASSUME TtlInv, [Next]_vars PROVE TtlInv'
    OBVIOUS
  <2>1. ClaimInv'
    BY ClaimStep DEF TtlInv
  <2>2. ASSUME NEW c \in Clients,
               \/ ClientStep(c) \/ Cancel(c)
               \/ \E n \in 1 .. MaxBatch : StartBatch(c, n)
        PROVE  TtlInv'
    BY <1>2, <2>1, <2>2, PostedByClient, WaitByClient DEF TtlInv
  <2>3. ASSUME NEW t \in Tabs, TabStep(t) \/ Reload(t) PROVE TtlInv'
    BY <2>1, <2>3, PostedByTab, WaitByTab DEF TtlInv
  <2>4. CASE Restart \/ Tick
    BY <2>1, <2>4, PostedKeptByClock, WaitRestart, WaitTick DEF TtlInv
  <2>5. CASE UNCHANGED vars
    <3>1. \A c \in Clients : WorkerWaits(c)'
      BY <2>5, WaitKept, WorkerTypes DEF vars, clientVars, Mine
    <3>. QED  BY <2>1, <2>5, <3>1, PostedKeptByClock DEF TtlInv
  <2>. QED  BY <2>2, <2>3, <2>4, <2>5 DEF Next
<1>3. TtlInv => AwaitedJobOutlivesTTL
  <2>. SUFFICES ASSUME TtlInv, LongestBatch <= TTL, NEW c \in Clients,
                       NEW j \in pending[c], jobs[j].status # "absent"
                PROVE  ~(jobs[j].age > TTL)
    BY DEF AwaitedJobOutlivesTTL, Awaited, Expired
  <2>1. jobs[j].age \in Nat
    BY WorkerTypes
  <2>. QED  BY <2>1, AwaitedAge, Timeouts, StoreAssumption
<1>4. CASE LongestBatch <= TTL
  <2>1. TtlInv /\ [Next]_vars => TtlInv'
    BY <1>2, <1>4
  <2>. QED  BY <1>1, <1>3, <2>1, PTL DEF Spec
<1>5. CASE ~(LongestBatch <= TTL)
  <2>1. AwaitedJobOutlivesTTL
    BY <1>5 DEF AwaitedJobOutlivesTTL
  <2>. QED  BY <2>1, PTL
<1>. QED  BY <1>4, <1>5
=============================================================================
