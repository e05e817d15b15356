------------------------- MODULE ToeBridgeContract -------------------------
(***************************************************************************)
(* The ToE bridge implements BattleOracle: the refinement, proved.         *)
(*                                                                         *)
(* The store, the workers and the history of accepted answers each know a  *)
(* part of what became of a battle. The invariant says how the parts       *)
(* agree; it is inductive together with the types.                         *)
(***************************************************************************)
EXTENDS ToeBridgeProofs

(* A job still open has no accepted answer; a done one holds it.           *)
StoreAgrees ==
  \A j \in JobIds :
    /\ jobs[j].status \in {"pending", "in_flight"} => answer[j] = NoResult
    /\ jobs[j].status = "done" => /\ answer[j] \in Results
                                  /\ jobs[j].result = answer[j]

(* Nothing is known of a job id that has not been handed out.              *)
FutureBlank ==
  \A j \in JobIds : j > posted =>
    /\ jobs[j].status = "absent"
    /\ answer[j] = NoResult
    /\ outcome[j] = "none"
    /\ \A c \in Clients : j \notin pending[c]

(* An awaited job has no outcome yet, and one worker awaits it.            *)
WaitersApart ==
  /\ \A c \in Clients : \A j \in pending[c] : outcome[j] = "none"
  /\ \A c, d \in Clients : c # d => pending[c] \cap pending[d] = {}

SweepAwaits == \A c \in Clients : sweep[c] \subseteq pending[c]

WaitInv   == WaitersApart /\ SweepAwaits
OracleInv == TypeInv /\ StoreAgrees /\ FutureBlank /\ WaitInv

-----------------------------------------------------------------------------
(* Each step keeps the invariant and is a step of the oracle, or none.     *)

LEMMA StutterKeeps ==
  ASSUME OracleInv, TypeInv', UNCHANGED <<jobs, posted, outcome, answer>>,
         \A c \in Clients : pending'[c] = pending[c],
         \A c \in Clients : sweep'[c] \subseteq pending[c]
  PROVE  OracleInv'
  BY DEF OracleInv, WaitInv, StoreAgrees, FutureBlank, WaitersApart,
         SweepAwaits

LEMMA NewJobKeeps ==
  ASSUME TypeInv, StoreAgrees, FutureBlank, NEW a,
         posted' = posted + 1, posted' \in JobIds, Add(posted', a),
         UNCHANGED answer
  PROVE  /\ StoreAgrees'
         /\ \A k \in JobIds : k > posted' => jobs'[k].status = "absent"
<1>. USE DEF TypeInv, TypeOK
<1>1. posted \in Nat /\ posted' > posted
  BY StoreAssumption
<1>2. ASSUME NEW k \in JobIds
      PROVE  /\ jobs'[k].status \in {"pending", "in_flight"}
                  => answer[k] = NoResult
             /\ jobs'[k].status = "done" => /\ answer[k] \in Results
                                            /\ jobs'[k].result = answer[k]
  <2>1. CASE k = posted'
    BY <1>1, <2>1, AddEffect DEF FutureBlank
  <2>2. CASE k # posted'
    BY <2>2, AddEffect DEF StoreAgrees
  <2>. QED  BY <2>1, <2>2
<1>3. ASSUME NEW k \in JobIds, k > posted'
      PROVE  jobs'[k].status = "absent"
  <2>1. k > posted /\ k # posted'
    BY <1>1, <1>3, StoreAssumption DEF JobIds
  <2>. QED  BY <2>1, AddEffect DEF FutureBlank
<1>. QED  BY <1>2, <1>3 DEF StoreAgrees

LEMMA PostKeeps ==
  ASSUME OracleInv, TypeInv', NEW c \in Clients,
         PostJob(c) \/ PostLost(c) \/ PostOrphaned(c)
  PROVE  OracleInv' /\ [Oracle!OracleNext]_(Oracle!oracleVars)
<1>. USE DEF OracleInv, WaitInv
<1>1. CASE PostLost(c)
  BY <1>1, StutterKeeps
  DEF PostLost, SweepAwaits, Oracle!oracleVars
<1>2. ASSUME PostJob(c) \/ PostOrphaned(c)
      PROVE  /\ posted' = posted + 1 /\ posted \in Nat /\ posted' \in JobIds
             /\ UNCHANGED <<answer, sweep, estimate>>
             /\ StoreAgrees'
             /\ \A k \in JobIds : k > posted' =>
                  k > posted /\ k # posted' /\ jobs'[k].status = "absent"
  <2>1. /\ posted' = posted + 1 /\ posted \in Nat /\ posted' \in JobIds
        /\ Add(posted', ClientAccount[c])
        /\ UNCHANGED <<answer, sweep, estimate>>
    BY <1>2, StoreAssumption
    DEF PostJob, PostOrphaned, TypeInv, TypeOK, JobIds
  <2>. QED  BY <2>1, NewJobKeeps DEF JobIds
<1>3. CASE PostJob(c)
  <2>1. /\ UNCHANGED outcome
        /\ pending' = [pending EXCEPT ![c] = @ \cup {posted'}]
    BY <1>3 DEF PostJob
  <2>2. FutureBlank'
    BY <1>2, <1>3, <2>1 DEF FutureBlank, TypeInv, TypeOK
  <2>3. posted' > posted
    BY <1>2, <1>3
  <2>4. WaitersApart' /\ SweepAwaits'
    BY <1>2, <1>3, <2>1, <2>3
    DEF FutureBlank, WaitersApart, SweepAwaits, TypeInv, TypeOK
  <2>. QED
    BY <1>2, <1>3, <2>1, <2>2, <2>4 DEF Oracle!oracleVars
<1>4. CASE PostOrphaned(c)
  <2>1. /\ UNCHANGED pending
        /\ outcome' = [outcome EXCEPT ![posted'] = "error"]
    BY <1>4 DEF PostOrphaned
  <2>2. FutureBlank'
    BY <1>2, <1>4, <2>1 DEF FutureBlank, TypeInv, TypeOK
  <2>3. /\ posted' > posted
        /\ outcome[posted'] = "none"
        /\ \A d \in Clients : posted' \notin pending[d]
    BY <1>2, <1>4 DEF FutureBlank
  <2>4. WaitersApart' /\ SweepAwaits'
    BY <1>2, <1>4, <2>1, <2>3
    DEF WaitersApart, SweepAwaits, TypeInv, TypeOK
  <2>5. outcome' = [k \in JobIds |-> IF k \in {posted'} THEN "error"
                                     ELSE outcome[k]]
    BY <2>1 DEF TypeInv, TypeOK
  <2>6. Oracle!Fail({posted'}, "error")
    BY <1>2, <1>4, <2>3, <2>5 DEF Oracle!Fail
  <2>. QED
    BY <1>2, <1>4, <2>2, <2>4, <2>6 DEF Oracle!OracleNext, Failures
<1>. QED  BY <1>1, <1>3, <1>4

LEMMA SettleKeeps ==
  ASSUME OracleInv, TypeInv', NEW c \in Clients, NEW j \in sweep[c], NEW o,
         Settle(c, j, o), sweep' = [sweep EXCEPT ![c] = @ \ {j}],
         UNCHANGED <<jobs, posted, answer>>
  PROVE  OracleInv' /\ j \in JobIds /\ outcome[j] = "none"
<1>. USE DEF OracleInv, WaitInv
<1>1. /\ j \in JobIds /\ j \in pending[c] /\ outcome[j] = "none"
      /\ ~(j > posted)
      /\ \A d \in Clients : d # c => j \notin pending[d]
  BY DEF SweepAwaits, WaitersApart, FutureBlank, TypeInv, TypeOK
<1>2. /\ outcome' = [outcome EXCEPT ![j] = o]
      /\ pending' = [pending EXCEPT ![c] = @ \ {j}]
  BY DEF Settle
<1>3. StoreAgrees'
  BY DEF StoreAgrees
<1>4. FutureBlank'
  BY <1>1, <1>2 DEF FutureBlank, TypeInv, TypeOK
<1>5. WaitersApart' /\ SweepAwaits'
  BY <1>1, <1>2 DEF WaitersApart, SweepAwaits, TypeInv, TypeOK
<1>. QED  BY <1>1, <1>3, <1>4, <1>5

LEMMA FetchKeeps ==
  ASSUME OracleInv, TypeInv', NEW c \in Clients, NEW j \in sweep[c],
         \/ FetchDone(c, j) \/ FetchQueued(c, j)
         \/ FetchClaimed(c, j) \/ FetchFails(c, j)
  PROVE  OracleInv' /\ [Oracle!OracleNext]_(Oracle!oracleVars)
<1>1. /\ sweep' = [sweep EXCEPT ![c] = @ \ {j}]
      /\ UNCHANGED <<jobs, posted, answer>>
  BY DEF FetchDone, FetchQueued, FetchClaimed, FetchFails, Fetching
<1>2. ASSUME UNCHANGED <<pending, outcome, estimate>>
      PROVE  OracleInv' /\ UNCHANGED Oracle!oracleVars
  <2>1. \A d \in Clients : sweep'[d] \subseteq pending[d]
    BY <1>1 DEF OracleInv, WaitInv, SweepAwaits, TypeInv, TypeOK
  <2>. QED
    BY <1>1, <1>2, <2>1, StutterKeeps DEF Oracle!oracleVars
<1>3. ASSUME NEW o \in Failures, Settle(c, j, o), UNCHANGED estimate
      PROVE  OracleInv' /\ [Oracle!OracleNext]_(Oracle!oracleVars)
  <2>1. OracleInv' /\ j \in JobIds /\ outcome[j] = "none"
    BY <1>1, <1>3, SettleKeeps
  <2>2. outcome' = [k \in JobIds |-> IF k \in {j} THEN o ELSE outcome[k]]
    BY <1>3, <2>1 DEF Settle, OracleInv, TypeInv, TypeOK
  <2>3. Oracle!Fail({j}, o)
    BY <1>1, <1>3, <2>1, <2>2 DEF Oracle!Fail
  <2>. QED  BY <2>1, <2>3 DEF Oracle!OracleNext
<1>4. CASE FetchDone(c, j)
  <2>1. Settle(c, j, "result")
    BY <1>4 DEF FetchDone
  <2>2. OracleInv' /\ j \in JobIds /\ outcome[j] = "none"
    BY <1>1, <2>1, SettleKeeps
  <2>3. answer[j] # NoResult /\ jobs[j].result = answer[j]
    BY <1>4, <2>2, StoreAssumption DEF FetchDone, OracleInv, StoreAgrees
  <2>4. Oracle!Report(j)
    BY <1>1, <1>4, <2>2, <2>3 DEF FetchDone, Settle, Oracle!Report
  <2>. QED  BY <2>2, <2>4 DEF Oracle!OracleNext
<1>5. CASE FetchQueued(c, j)
  BY <1>2, <1>5 DEF FetchQueued
<1>6. CASE FetchClaimed(c, j)
  BY <1>2, <1>3, <1>6 DEF FetchClaimed, Failures
<1>7. CASE FetchFails(c, j)
  BY <1>3, <1>7 DEF FetchFails, Failures
<1>. QED  BY <1>4, <1>5, <1>6, <1>7

(* A worker gives its whole pending dict one outcome, or leaves it be.     *)
LEMMA GiveUpKeeps ==
  ASSUME OracleInv, TypeInv', NEW c \in Clients, NEW o \in Failures,
         outcome' = [j \in JobIds |-> IF j \in pending[c] THEN o
                                      ELSE outcome[j]],
         pending' = [pending EXCEPT ![c] = {}],
         sweep' = [sweep EXCEPT ![c] = {}],
         UNCHANGED <<jobs, posted, answer, estimate>>
  PROVE  OracleInv' /\ Oracle!OracleNext
<1>. USE DEF OracleInv, WaitInv
<1>1. pending[c] \subseteq JobIds
  BY DEF TypeInv, TypeOK
<1>2. StoreAgrees'
  BY DEF StoreAgrees
<1>3. FutureBlank'
  BY <1>1 DEF FutureBlank, TypeInv, TypeOK
<1>4. WaitersApart' /\ SweepAwaits'
  BY <1>1 DEF WaitersApart, SweepAwaits, TypeInv, TypeOK
<1>5. Oracle!Fail(pending[c], o)
  BY DEF Oracle!Fail, WaitersApart
<1>. QED
  BY <1>1, <1>2, <1>3, <1>4, <1>5 DEF Oracle!OracleNext

LEMMA EndSweepKeeps ==
  ASSUME OracleInv, TypeInv', NEW c \in Clients, EndSweep(c)
  PROVE  OracleInv' /\ [Oracle!OracleNext]_(Oracle!oracleVars)
<1>1. CASE pending[c] # {} /\ quiet[c] >= Timeout
  <2>1. /\ outcome' = [j \in JobIds |-> IF j \in pending[c] THEN "stalled"
                                        ELSE outcome[j]]
        /\ pending' = [pending EXCEPT ![c] = {}]
        /\ UNCHANGED <<jobs, posted, answer, estimate>>
    BY <1>1 DEF EndSweep
  <2>2. sweep' = [sweep EXCEPT ![c] = {}]
    BY DEF EndSweep, OracleInv, TypeInv, TypeOK
  <2>. QED  BY <2>1, <2>2, GiveUpKeeps DEF Failures
<1>2. CASE ~(pending[c] # {} /\ quiet[c] >= Timeout)
  <2>1. /\ outcome' = [j \in JobIds |-> outcome[j]]
        /\ pending' = [pending EXCEPT ![c] = pending[c]]
        /\ UNCHANGED <<jobs, posted, sweep, answer, estimate>>
    BY <1>2 DEF EndSweep
  <2>2. UNCHANGED <<outcome, pending>>
    BY <2>1 DEF OracleInv, TypeInv, TypeOK
  <2>3. \A d \in Clients : sweep'[d] \subseteq pending[d]
    BY <2>1 DEF OracleInv, WaitInv, SweepAwaits
  <2>. QED  BY <2>1, <2>2, <2>3, StutterKeeps DEF Oracle!oracleVars
<1>. QED  BY <1>1, <1>2

LEMMA CancelKeeps ==
  ASSUME OracleInv, TypeInv', NEW c \in Clients, Cancel(c)
  PROVE  OracleInv' /\ [Oracle!OracleNext]_(Oracle!oracleVars)
  BY GiveUpKeeps DEF Cancel, Failures

LEMMA QuietClientKeeps ==
  ASSUME OracleInv, TypeInv', NEW c \in Clients,
         BeginSweep(c) \/ \E n \in 1 .. MaxBatch : StartBatch(c, n)
  PROVE  OracleInv' /\ [Oracle!OracleNext]_(Oracle!oracleVars)
<1>1. UNCHANGED <<jobs, posted, pending, outcome, estimate, answer>>
  BY DEF BeginSweep, StartBatch
<1>2. \A d \in Clients : sweep'[d] \subseteq pending[d]
  <2>1. sweep \in [Clients -> SUBSET JobIds]
    BY DEF OracleInv, TypeInv, TypeOK
  <2>2. \A d \in Clients : sweep[d] \subseteq pending[d]
    BY DEF OracleInv, WaitInv, SweepAwaits
  <2>3. CASE BeginSweep(c)
    BY <2>1, <2>2, <2>3 DEF BeginSweep
  <2>4. CASE \E n \in 1 .. MaxBatch : StartBatch(c, n)
    BY <2>2, <2>4 DEF StartBatch
  <2>. QED  BY <2>3, <2>4
<1>. QED  BY <1>1, <1>2, StutterKeeps DEF Oracle!oracleVars

LEMMA PollKeeps ==
  ASSUME OracleInv, TypeInv', NEW t \in Tabs, PollStep(t)
  PROVE  OracleInv' /\ UNCHANGED Oracle!oracleVars
<1>1. UNCHANGED <<clientVars, answer>>
  BY DEF PollStep, PollClaims, PollReplyLost, PollEmpty, PollUnreachable,
         Rest
<1>2. UNCHANGED <<posted, pending, sweep, outcome, estimate, answer>>
  BY <1>1 DEF clientVars
<1>3. CASE UNCHANGED jobs
  BY <1>2, <1>3, StutterKeeps DEF OracleInv, WaitInv, SweepAwaits,
                                  Oracle!oracleVars
<1>4. ASSUME NEW a, NEW j \in JobIds, Claim(a, j)
      PROVE  OracleInv'
  <2>. USE DEF OracleInv
  <2>1. ASSUME NEW k \in JobIds
        PROVE  \/ jobs'[k] = jobs[k]
               \/ /\ jobs[k].status \in {"pending", "in_flight"}
                  /\ jobs'[k].status = "in_flight"
    BY <1>4, ClaimEffect DEF TypeInv, TypeOK
  <2>3. StoreAgrees'
    BY <1>2, <2>1 DEF StoreAgrees
  <2>4. FutureBlank'
    BY <1>2, <2>1 DEF FutureBlank
  <2>2. WaitInv'
    BY <1>2 DEF WaitInv, WaitersApart, SweepAwaits
  <2>. QED  BY <2>2, <2>3, <2>4
<1>. QED
  BY <1>2, <1>3, <1>4 DEF PollStep, PollClaims, PollReplyLost, PollEmpty,
                          PollUnreachable, Oracle!oracleVars

LEMMA SubmitKeeps ==
  ASSUME OracleInv, TypeInv', NEW t \in Tabs, SubmitStep(t)
  PROVE  OracleInv' /\ [Oracle!OracleNext]_(Oracle!oracleVars)
<1>1. UNCHANGED <<posted, pending, sweep, outcome, estimate>>
  BY DEF SubmitStep, SubmitAccepted, SubmitRejected, SubmitLost, Submitting,
         clientVars
<1>2. CASE SubmitRejected(t) \/ SubmitLost(t)
  BY <1>1, <1>2, StutterKeeps
  DEF SubmitRejected, SubmitLost, OracleInv, WaitInv, SweepAwaits,
      Oracle!oracleVars
<1>3. ASSUME NEW heard \in BOOLEAN, SubmitAccepted(t, heard)
      PROVE  OracleInv' /\ Oracle!OracleNext
  <2>1. /\ job[t] \in JobIds /\ calc[t] \in Results
        /\ Accepts(job[t], who[t]) /\ Submit(job[t], calc[t])
        /\ answer' = [answer EXCEPT ![job[t]] = calc[t]]
    BY <1>3, BridgeAssumption
    DEF SubmitAccepted, Submitting, OracleInv, TypeInv, TabsHoldJobs
  <2>2. jobs[job[t]].status \in {"pending", "in_flight"}
    BY <2>1 DEF Accepts, OracleInv, TypeInv, TypeOK, StoreTypeOK, Job, Status
  <2>3. StoreAgrees' /\ FutureBlank'
    <3>1. \A k \in JobIds \ {job[t]} :
            jobs'[k] = jobs[k] /\ answer'[k] = answer[k]
      BY <2>1, SubmitEffect DEF OracleInv, TypeInv, TypeOK
    <3>2. /\ jobs'[job[t]].status = "done"
          /\ jobs'[job[t]].result = calc[t]
      BY <2>1, SubmitEffect DEF OracleInv, TypeInv, TypeOK
    <3>3. answer'[job[t]] = calc[t]
      BY <2>1 DEF OracleInv, TypeInv, TypeOK
    <3>4. StoreAgrees'
      BY <2>1, <3>1, <3>2, <3>3 DEF OracleInv, StoreAgrees
    <3>5. FutureBlank'
      BY <1>1, <2>2, <3>1 DEF OracleInv, FutureBlank
    <3>. QED  BY <3>4, <3>5
  <2>4. WaitInv'
    BY <1>1 DEF OracleInv, WaitInv, WaitersApart, SweepAwaits
  <2>5. Oracle!Answer(job[t], calc[t])
    BY <1>1, <2>1, <2>2 DEF Oracle!Answer, OracleInv, StoreAgrees
  <2>. QED
    BY <2>1, <2>3, <2>4, <2>5 DEF OracleInv, Oracle!OracleNext
<1>. QED  BY <1>2, <1>3 DEF SubmitStep

LEMMA OtherKeeps ==
  ASSUME OracleInv, TypeInv',
         \/ Restart \/ Tick \/ UNCHANGED vars
         \/ \E t \in Tabs : \/ ReadAccount(t) \/ Reload(t)
                            \/ \E r \in Payloads[t] : Compute(t, r)
  PROVE  OracleInv' /\ UNCHANGED Oracle!oracleVars
<1>1. UNCHANGED <<posted, pending, sweep, outcome, estimate, answer>>
  BY DEF Restart, Tick, ReadAccount, Reload, Compute, vars, clientVars
<1>2. UNCHANGED Oracle!oracleVars
  BY <1>1 DEF Oracle!oracleVars
<1>3. CASE UNCHANGED jobs
  BY <1>1, <1>2, <1>3, StutterKeeps DEF OracleInv, WaitInv, SweepAwaits
<1>4. WaitInv'
  BY <1>1 DEF OracleInv, WaitInv, WaitersApart, SweepAwaits
<1>5. CASE Restart
  BY <1>1, <1>2, <1>4, <1>5
  DEF Restart, ForgetJobs, Absent, OracleInv, StoreAgrees, FutureBlank
<1>6. CASE Tick
  <2>1. StoreTypeOK /\ AgeJobs
    BY <1>6 DEF Tick, OracleInv, TypeInv, TypeOK
  <2>. QED
    BY <1>1, <1>2, <1>4, <2>1, AgeEffect
    DEF OracleInv, StoreAgrees, FutureBlank
<1>. QED
  BY <1>3, <1>5, <1>6 DEF ReadAccount, Reload, Compute, vars

LEMMA StepKeeps ==
  ASSUME OracleInv, TypeInv', [Next]_vars
  PROVE  OracleInv' /\ [Oracle!OracleNext]_(Oracle!oracleVars)
<1>1. ASSUME NEW c \in Clients, NEW n \in 1 .. MaxBatch, StartBatch(c, n)
      PROVE  OracleInv' /\ [Oracle!OracleNext]_(Oracle!oracleVars)
  BY <1>1, QuietClientKeeps
<1>2. ASSUME NEW c \in Clients, ClientStep(c) \/ Cancel(c)
      PROVE  OracleInv' /\ [Oracle!OracleNext]_(Oracle!oracleVars)
  BY <1>2, PostKeeps, FetchKeeps, QuietClientKeeps, EndSweepKeeps, CancelKeeps
  DEF ClientStep, FetchStep
<1>3. ASSUME NEW t \in Tabs, TabStep(t) \/ Reload(t)
      PROVE  OracleInv' /\ [Oracle!OracleNext]_(Oracle!oracleVars)
  BY <1>3, PollKeeps, SubmitKeeps, OtherKeeps DEF TabStep
<1>4. CASE Restart \/ Tick \/ UNCHANGED vars
  BY <1>4, OtherKeeps
<1>. QED  BY <1>1, <1>2, <1>3, <1>4 DEF Next

-----------------------------------------------------------------------------
(* Refinement: whatever is lost, reclaimed, retried or reloaded, an answer *)
(* is accepted once for a job and never replaced, and a worker hands its   *)
(* caller that answer, once, or a failure (calc_batch on top of            *)
(* ToeJobStore.claim and submit).                                          *)
THEOREM OracleImplemented == Spec => OracleSpec
<1>1. Init => OracleInv /\ Oracle!OracleInit
  <2>. SUFFICES ASSUME Init PROVE OracleInv /\ Oracle!OracleInit
    OBVIOUS
  <2>1. TypeInv
    BY InitTyped
  <2>. QED
    BY <2>1 DEF Init, StoreInit, Absent, OracleInv, StoreAgrees, FutureBlank,
                WaitInv, WaitersApart, SweepAwaits, Oracle!OracleInit
<1>2. OracleInv /\ [Next]_vars
        => OracleInv' /\ [Oracle!OracleNext]_(Oracle!oracleVars)
  BY StepTyped, StepKeeps DEF OracleInv
<1>. QED  BY <1>1, <1>2, PTL DEF Spec, OracleSpec, Oracle!OracleSpec
=============================================================================
