---------------------------- MODULE ToeJobStore ----------------------------
(***************************************************************************)
(* The in-memory ToE job queue of the auth server                          *)
(* (commands/auth_server.py, class ToeJobStore) and the four HTTP routes   *)
(* that are its only callers.                                              *)
(*                                                                         *)
(* Every method runs under one lock, so each is one atomic step here.      *)
(* Time is kept as ages that grow with AgeJobs and saturate where the code *)
(* stops telling them apart: created_at is read only by the TTL sweep,     *)
(* claimed_at only against the two timeouts. uuid job ids are numbered in  *)
(* the order of their creation, which is also the order of created_at and, *)
(* for equal stamps, of the dict that the stable sort in claim() starts    *)
(* from.                                                                   *)
(***************************************************************************)
EXTENDS Naturals

CONSTANTS
  Accounts,      \* x-auth-user-id values the CLI posts jobs under
  Strangers,     \* player ids a tab may report that no CLI posts under
  NoAccount,     \* the empty account string of an account-less poll
  Nobody,        \* claimed_by = None: never claimed
  Results,       \* payloads a userscript tab can submit
  NoResult,      \* result = None
  MaxJobs,       \* bound: how many jobs are ever posted
  ReclaimAge,    \* in_flight_timeout_seconds
  TTL            \* ttl_seconds

Players == Accounts \cup Strangers
JobIds  == 1 .. MaxJobs

ASSUME StoreAssumption ==
  /\ NoAccount \notin Players
  /\ Nobody \notin Players \cup {NoAccount}
  /\ NoResult \notin Results
  /\ MaxJobs \in Nat
  /\ ReclaimAge \in Nat \ {0}
  /\ TTL \in Nat \ {0}

VARIABLE jobs    \* _jobs: the record of every id; status "absent" = not in it

Status == {"absent", "pending", "in_flight", "done"}

Job == [account    : Accounts \cup {NoAccount},
        status     : Status,
        claimed_by : Players \cup {NoAccount, Nobody},
        age        : 0 .. TTL + 1,       \* now - created_at
        claim_age  : 0 .. ReclaimAge,    \* now - claimed_at, while in flight
        result     : Results \cup {NoResult}]

StoreTypeOK == jobs \in [JobIds -> Job]

Absent ==
  [account |-> NoAccount, status |-> "absent", claimed_by |-> Nobody,
   age |-> 0, claim_age |-> 0, result |-> NoResult]

NewJob(account) ==
  [Absent EXCEPT !.account = account, !.status = "pending"]

StoreInit == jobs = [j \in JobIds |-> Absent]

Capped(n, cap) == IF n < cap THEN n ELSE cap

-----------------------------------------------------------------------------
(* POST /toe/job: drop what the TTL has passed, whatever its status, then  *)
(* insert the new job. The route takes the lock once for each; a poll that *)
(* falls between the two finds what one just before or after would find,   *)
(* or nothing, and leaves its tab where an unreachable server would.       *)
Expired(j) == jobs[j].status # "absent" /\ jobs[j].age > TTL

Add(j, account) ==
  jobs' = [k \in JobIds |-> IF k = j THEN NewJob(account)
                            ELSE IF Expired(k) THEN Absent ELSE jobs[k]]

-----------------------------------------------------------------------------
(* GET /toe/next: an account's poll sees that account's jobs, an           *)
(* account-less poll sees everybody's. A claim older than ReclaimAge is    *)
(* up for grabs again.                                                     *)
NeverReclaimable(j) == FALSE    \* fault: a lost claim holds its job for good

Reclaimable(j) ==
  jobs[j].status = "in_flight" /\ jobs[j].claim_age >= ReclaimAge

Claimable(account) ==
  {j \in JobIds : /\ account \in {NoAccount, jobs[j].account}
                  /\ jobs[j].status = "pending" \/ Reclaimable(j)}

IsOldest(j, S) == j \in S /\ \A k \in S : j <= k

Claim(account, j) ==
  /\ IsOldest(j, Claimable(account))
  /\ jobs' = [jobs EXCEPT ![j].status     = "in_flight",
                          ![j].claim_age  = 0,
                          ![j].claimed_by = account]

-----------------------------------------------------------------------------
(* POST /toe/job/{id}/result: done is terminal, and a foreign account may  *)
(* answer only while the job's last claim was an account-less one.         *)
AcceptsLate(j, account) ==       \* fault: the last writer wins
  /\ jobs[j].status # "absent"
  /\ jobs[j].account = account \/ jobs[j].claimed_by = NoAccount

AcceptsAnyone(j, account) ==     \* fault: the account is not compared
  jobs[j].status \notin {"absent", "done"}

Accepts(j, account) ==
  /\ jobs[j].status \notin {"absent", "done"}
  /\ jobs[j].account = account \/ jobs[j].claimed_by = NoAccount

Submit(j, r) ==
  jobs' = [jobs EXCEPT ![j].status    = "done",
                       ![j].claim_age = 0,    \* read only while in flight
                       ![j].result    = r]

-----------------------------------------------------------------------------
(* GET /toe/job/{id}: 404 for an unknown id and for another account's job. *)
Visible(j, account) ==
  jobs[j].status # "absent" /\ jobs[j].account = account

-----------------------------------------------------------------------------
(* The passing of one unit of time, and the loss of the process.           *)
Aged(job) ==
  IF job.status = "absent" THEN job
  ELSE [job EXCEPT
          !.age = Capped(@ + 1, TTL + 1),
          !.claim_age = IF job.status = "in_flight"
                        THEN Capped(@ + 1, ReclaimAge) ELSE @]

AgeJobs == jobs' = [j \in JobIds |-> Aged(jobs[j])]

ForgetJobs == jobs' = [j \in JobIds |-> Absent]
=============================================================================
