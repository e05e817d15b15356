---------------------------- MODULE ProcessProofs ----------------------------
(* Theorems about the components below the commands, for every value of the     *)
(* constants: the retries of a call keep their contract, the WAL lock keeps      *)
(* every thread's update, `multi` reports what was done and no less, the page    *)
(* keeps the budget of its reloads and sees the API's requests.                  *)
EXTENDS Process, TLAPS

-------------------------------------------------------------------------------
(* HWClient.call *)

\* While a call is under way no attempt has been made that the budget does not cover, and
\* the server has carried it out at most once per attempt.
ClientInv == /\ budget \in Nat /\ attempt \in Nat /\ executed \in Nat
             /\ pc \in {"post", "backoff"} =>
                   attempt <= budget /\ executed <= attempt /\ answer = NoAnswer

LEMMA ClientInit == Init => ClientInv
BY ClientAssumption DEF Init, NoCall, ClientInv, Client!Init

\* Every step of a call is one the contract allows.
LEMMA ClientSteps ==
  ASSUME ClientInv, Client!Next
  PROVE  ClientInv' /\ Client!Contract!Attempt
<1>1. CASE Client!Transient
  BY <1>1, ClientAssumption
  DEF Client!Transient, Client!Post, ClientInv, Client!Contract!Attempt, Client!Contract!Told
<1>2. CASE Client!Backoff
  BY <1>2, ClientAssumption
  DEF Client!Backoff, ClientInv, Client!Contract!Attempt, Client!Contract!Told
<1>3. CASE Client!Unauthorized
  BY <1>3, ClientAssumption
  DEF Client!Unauthorized, Client!Return, Client!Post, ClientInv, Client!Contract!Attempt,
      Client!Contract!Told
<1>4. CASE Client!Refused
  BY <1>4, ClientAssumption
  DEF Client!Refused, Client!Return, Client!Post, ClientInv, Client!Contract!Attempt,
      Client!Contract!Told
<1>5. CASE Client!Fulfilled
  BY <1>5, ClientAssumption
  DEF Client!Fulfilled, Client!Return, Client!Post, ClientInv, Client!Contract!Attempt,
      Client!Contract!Told
<1>6. CASE Client!Unreadable
  BY <1>6, ClientAssumption
  DEF Client!Unreadable, Client!Return, Client!Post, ClientInv, Client!Contract!Attempt,
      Client!Contract!Told
<1>. QED  BY <1>1, <1>2, <1>3, <1>4, <1>5, <1>6 DEF Client!Next

LEMMA ClientStepOrRest ==
  ASSUME ClientInv, [Next]_vars
  PROVE  ClientInv' /\ [Client!Contract!Attempt]_<<budget, executed, answer>>
<1>1. CASE Client!Next
  BY <1>1, ClientSteps
<1>2. CASE UNCHANGED clientVars
  BY <1>2 DEF clientVars, ClientInv
<1>3. CASE Next
  BY <1>1, <1>2, <1>3 DEF Next, ClientStep, MainStep, PoolStep, WriterStep
<1>4. CASE UNCHANGED vars
  BY <1>2, <1>4 DEF vars
<1>. QED  BY <1>3, <1>4

\* Whatever the network does to requests and replies and whatever the budget, what a caller
\* of HWClient.call is told bounds how often the server has carried the call out: the
\* retries implement GameCallContract.
THEOREM CallsKeepContract == Spec => CallContract
<1>1. Init => Client!Contract!Init
  BY ClientAssumption DEF Init, NoCall, Client!Init, Client!Contract!Init
<1>2. Spec => []ClientInv
  BY ClientInit, ClientStepOrRest, PTL DEF Spec
<1>3. ClientInv /\ [Next]_vars => [Client!Contract!Attempt]_<<budget, executed, answer>>
  BY ClientStepOrRest
<1>. QED  BY <1>1, <1>2, <1>3, PTL DEF Spec, CallContract, Client!CallContract, Client!Contract!Spec

-------------------------------------------------------------------------------
(* ConfigStore *)

\* Where a writer is on its way, and where it holds the lock of the database.
Under == {"open", "nap", "read", "write"}
Places == {"idle", "lock", "sleep"} \union Under \union Store!Ended

Threads == [Writers -> [at : Places, attempt : Nat, opens : Nat, seen : SUBSET Writers,
                        open : BOOLEAN]]

Stores == [value : SUBSET Writers, lock : Writers \union {Nobody}, lost : SUBSET Writers,
           others : Nat]

\* The lock is held by the one writer who is under way in it; what that one has read is
\* all there is, or was there until another process dropped it.
StoreInv ==
  /\ thread \in Threads
  /\ store \in Stores
  /\ \A t \in Writers :
        /\ thread[t].at \in Under <=> store.lock = t
        /\ thread[t].at = "write" => /\ store.value \subseteq thread[t].seen
                                     /\ thread[t].seen \subseteq store.value \union store.lost
        /\ thread[t].at = "ok" => t \in store.value \union store.lost
  /\ Main \in live /\ live \subseteq Writers
  /\ thread[Main].at = "panic" => \E t \in Writers \ {Main} : t \in live \/ thread[t].at # "idle"

StoreInvariant == part = "store" => StoreInv

LEMMA StoreInit == Init => StoreInvariant
<1>. SUFFICES ASSUME Init, part = "store" PROVE StoreInv
  BY DEF StoreInvariant
<1>1. Store!Init
  BY DEF Init
<1>2. thread = [t \in Writers |-> [at |-> "idle", attempt |-> 0, opens |-> 0, seen |-> {},
                                   open |-> FALSE]]
  BY <1>1 DEF Store!Init
<1>3. store = [value |-> {}, lock |-> Nobody, lost |-> {}, others |-> Others]
  BY <1>1 DEF Store!Init
<1>4. live = {Main}
  BY <1>1 DEF Store!Init
<1>. QED  BY <1>2, <1>3, <1>4, StoreAssumption
     DEF StoreInv, Threads, Stores, Under, Places, Store!Ended

\* A step of one writer, who holds the lock before it or nobody does.
LEMMA OneWriter ==
  ASSUME StoreInv, NEW t \in Writers, thread' \in Threads, store' \in Stores, live' = live,
         \A u \in Writers \ {t} : thread'[u] = thread[u],
         thread[t].at # "panic", thread'[t].at \notin {"idle", "panic"},
         thread'[t].at \in Under <=> store'.lock = t,
         store'.lock # t => store'.lock = IF store.lock = t THEN Nobody ELSE store.lock,
         store'.lock = t => store.lock \in {t, Nobody},
         thread'[t].at = "write" => /\ store'.value \subseteq thread'[t].seen
                                    /\ thread'[t].seen \subseteq store'.value \union store'.lost,
         thread'[t].at = "ok" => t \in store'.value \union store'.lost,
         store.value \subseteq store'.value, store.lost = store'.lost,
         store'.value # store.value => store.lock = t
  PROVE  StoreInv'
<1>1. ASSUME NEW u \in Writers
      PROVE  /\ thread'[u].at \in Under <=> store'.lock = u
             /\ thread'[u].at = "write" => /\ store'.value \subseteq thread'[u].seen
                                           /\ thread'[u].seen \subseteq store'.value \union store'.lost
             /\ thread'[u].at = "ok" => u \in store'.value \union store'.lost
  <2>1. CASE u = t
    BY <2>1
  <2>2. CASE u # t
    <3>1. thread'[u] = thread[u]
      BY <2>2
    <3>2. thread[u].at \in Under <=> store'.lock = u
      BY <2>2, StoreAssumption DEF StoreInv
    <3>3. thread[u].at = "write" => store'.value = store.value
      BY <2>2 DEF StoreInv, Under
    <3>. QED  BY <3>1, <3>2, <3>3 DEF StoreInv
  <2>. QED  BY <2>1, <2>2
<1>2. thread'[Main].at = "panic" =>
        \E u \in Writers \ {Main} : u \in live' \/ thread'[u].at # "idle"
  <2>1. SUFFICES ASSUME thread'[Main].at = "panic"
                 PROVE  \E u \in Writers \ {Main} : u \in live' \/ thread'[u].at # "idle"
    OBVIOUS
  <2>2. t # Main /\ thread[Main].at = "panic"
    BY <2>1, StoreAssumption
  <2>3. PICK u \in Writers \ {Main} : u \in live \/ thread[u].at # "idle"
    BY <2>2 DEF StoreInv
  <2>. QED  BY <2>2, <2>3
<1>. QED  BY <1>1, <1>2 DEF StoreInv

LEMMA WriterBegins ==
  ASSUME StoreInv, NEW t \in Writers, live' = live, Store!Begin(t) PROVE StoreInv'
<1>0. thread \in Threads /\ store \in Stores
  BY DEF StoreInv
<1>1. /\ thread[t].at \in {"idle", "sleep"} /\ store' = store
      /\ thread' \in Threads /\ thread'[t].at = "lock"
      /\ \A u \in Writers \ {t} : thread'[u] = thread[u]
  BY <1>0 DEF Store!Begin, Threads, Places
<1>2. store.lock # t
  BY <1>1 DEF StoreInv, Under
<1>. QED  BY <1>0, <1>1, <1>2, OneWriter DEF Under

LEMMA WriterAcquires ==
  ASSUME StoreInv, NEW t \in Writers, live' = live, Store!Acquire(t) PROVE StoreInv'
<1>0. thread \in Threads /\ store \in Stores
  BY DEF StoreInv
<1>1. /\ thread[t].at = "lock" /\ store.lock = Nobody /\ thread' \in Threads
      /\ thread'[t].at \in {"read", "open"}
      /\ \A u \in Writers \ {t} : thread'[u] = thread[u]
  BY <1>0 DEF Store!Acquire, Store!LockFree, Threads, Places, Under
<1>2. /\ store'.lock = t /\ store'.value = store.value /\ store'.lost = store.lost
      /\ store' \in Stores
  BY <1>0 DEF Store!Acquire, Stores
<1>. QED  BY <1>1, <1>2, OneWriter DEF Under

\* Steps that neither take nor release the lock.
LEMMA WriterGoesOn ==
  ASSUME StoreInv, NEW t \in Writers, live' = live,
         Store!Connected(t) \/ Store!OpenFails(t) \/ Store!OpenAgain(t) \/ Store!Read(t)
  PROVE  StoreInv'
<1>0. thread \in Threads /\ store \in Stores
  BY DEF StoreInv
<1>1. /\ store' = store /\ thread[t].at \in Under
      /\ thread' \in Threads /\ thread'[t].at \in Under
      /\ thread'[t].at = "write" => thread'[t].seen = store.value
      /\ \A u \in Writers \ {t} : thread'[u] = thread[u]
  <2>1. CASE Store!Connected(t)
    <3>1. /\ thread[t].at = "open" /\ UNCHANGED store
          /\ thread' = [thread EXCEPT ![t].at = "read", ![t].open = TRUE]
      BY <2>1 DEF Store!Connected
    <3>2. thread' \in Threads
      <4>. DEFINE moved == [thread EXCEPT ![t].at = "read"]
      <4>1. moved \in Threads
        BY <1>0 DEF Threads, Places, Under
      <4>2. PICK yes \in BOOLEAN : thread' = [moved EXCEPT ![t].open = yes]
        BY <3>1, Zenon
      <4>. HIDE DEF moved
      <4>. QED  BY <4>1, <4>2 DEF Threads
    <3>3. thread'[t].at = "read"
      BY <1>0, <3>1 DEF Threads
    <3>4. \A u \in Writers \ {t} : thread'[u] = thread[u]
      BY <1>0, <3>1 DEF Threads
    <3>. QED  BY <3>1, <3>2, <3>3, <3>4 DEF Under
  <2>2. CASE Store!OpenFails(t)
    BY <1>0, <2>2 DEF Store!OpenFails, Threads, Places, Under
  <2>3. CASE Store!OpenAgain(t)
    BY <1>0, <2>3 DEF Store!OpenAgain, Store!Moves, Threads, Places, Under
  <2>4. CASE Store!Read(t)
    <3>1. /\ thread[t].at = "read" /\ UNCHANGED store
          /\ thread' = [thread EXCEPT ![t].at = "write", ![t].seen = store.value]
          /\ store.value \in SUBSET Writers
      BY <1>0, <2>4 DEF Store!Read, Stores
    <3>2. thread' \in Threads
      <4>. DEFINE moved == [thread EXCEPT ![t].at = "write"]
      <4>1. moved \in Threads
        BY <1>0 DEF Threads, Places, Under
      <4>2. thread' = [moved EXCEPT ![t].seen = store.value]
        BY <3>1, Zenon
      <4>3. store.value \in SUBSET Writers
        BY <3>1
      <4>. HIDE DEF moved
      <4>. QED  BY <4>3, <4>1, <4>2 DEF Threads
    <3>3. /\ thread'[t].at = "write"
          /\ thread'[t].seen = store.value
      BY <1>0, <3>1 DEF Threads
    <3>4. \A u \in Writers \ {t} : thread'[u] = thread[u]
      BY <1>0, <3>1 DEF Threads
    <3>. QED  BY <3>1, <3>2, <3>3, <3>4 DEF Under
  <2>. QED  BY <2>1, <2>2, <2>3, <2>4
<1>2. store.lock = t
  BY <1>1 DEF StoreInv, Under
<1>3. thread'[t].at \notin {"idle", "panic", "ok"} /\ thread[t].at # "panic"
  BY <1>1 DEF Under
<1>. QED  BY <1>0, <1>1, <1>2, <1>3, OneWriter

\* What a writer leaves behind when it releases the lock, with its deed or without it.
LEMMA Released ==
  ASSUME StoreInv, NEW t \in Writers, thread[t].at \in Under,
         \/ store' = Store!Unlocked(t)
         \/ thread[t].at = "write"
            /\ store' = [Store!Unlocked(t) EXCEPT !.value = Store!Written(t)]
  PROVE  /\ store' \in Stores /\ store'.lock = Nobody /\ store'.lost = store.lost
         /\ store.value \subseteq store'.value /\ store.lock = t
<1>0. store \in Stores /\ store.lock = t
  BY DEF StoreInv
<1>1. Store!Unlocked(t) \in Stores /\ Store!Unlocked(t).lock = Nobody
      /\ Store!Unlocked(t).value = store.value /\ Store!Unlocked(t).lost = store.lost
  BY <1>0 DEF Stores, Store!Unlocked
<1>2. CASE store' = Store!Unlocked(t)
  BY <1>0, <1>1, <1>2
<1>3. CASE thread[t].at = "write" /\ store' = [Store!Unlocked(t) EXCEPT !.value = Store!Written(t)]
  <2>1. Store!Written(t) \in SUBSET Writers /\ store.value \subseteq Store!Written(t)
    BY <1>0, <1>3 DEF StoreInv, Stores, Threads, Store!Written, Store!Merged
  <2>. HIDE DEF Store!Written
  <2>. QED  BY <1>0, <1>1, <1>3, <2>1 DEF Stores
<1>. QED  BY <1>2, <1>3

LEMMA WriterLeaves ==
  ASSUME StoreInv, NEW t \in Writers, live' = live, thread[t].at \in {"open", "read", "write"},
         NEW next \in {"ok", "failed", "sleep"}, NEW open \in BOOLEAN,
         Store!Leave(t, next, open),
         \/ store' = Store!Unlocked(t)
         \/ thread[t].at = "write"
            /\ store' = [Store!Unlocked(t) EXCEPT !.value = Store!Written(t)],
         next = "ok" => t \in store'.value \union store'.lost
  PROVE  StoreInv'
<1>0. thread \in Threads
  BY DEF StoreInv
<1>1. /\ thread' \in Threads /\ thread'[t].at \in {next, "interrupted"}
      /\ \A u \in Writers \ {t} : thread'[u] = thread[u]
  BY <1>0 DEF Store!Leave, Threads, Places, Store!Ended
<1>2. thread[t].at \in Under
  BY DEF Under
<1>3. /\ store' \in Stores /\ store'.lock = Nobody /\ store'.lost = store.lost
      /\ store.value \subseteq store'.value /\ store.lock = t
  BY <1>2, Released
<1>4. /\ thread'[t].at \notin Under /\ thread'[t].at \notin {"idle", "panic", "write"}
      /\ thread[t].at # "panic" /\ Nobody # t
  BY <1>1, StoreAssumption DEF Under
<1>. QED  BY <1>1, <1>2, <1>3, <1>4, OneWriter

LEMMA WriterEndsAttempt ==
  ASSUME StoreInv, NEW t \in Writers, live' = live, Store!Write(t) \/ Store!AttemptFails(t)
  PROVE  StoreInv'
<1>0. thread \in Threads /\ store \in Stores
  BY DEF StoreInv
<1>1. CASE Store!Write(t)
  <2>1. /\ thread[t].at = "write" /\ Store!Leave(t, "ok", TRUE)
        /\ store' = [Store!Unlocked(t) EXCEPT !.value = Store!Written(t)]
    BY <1>1 DEF Store!Write
  <2>2. t \in Store!Written(t) \union store.lost
    BY <2>1 DEF StoreInv, Store!Written, Store!Merged
  <2>3. store'.value = Store!Written(t) /\ store'.lost = store.lost
    BY <1>0, <2>1 DEF Store!Unlocked, Stores
  <2>. QED  BY <2>1, <2>2, <2>3, WriterLeaves
<1>2. CASE Store!AttemptFails(t)
  <2>1. /\ thread[t].at \in {"open", "read", "write"}
        /\ \/ store' = Store!Unlocked(t)
           \/ thread[t].at = "write"
              /\ store' = [Store!Unlocked(t) EXCEPT !.value = Store!Written(t)]
    BY <1>2 DEF Store!AttemptFails
  <2>2. PICK next \in {"failed", "sleep"}, open \in {thread[t].open, FALSE} :
          Store!Leave(t, next, open)
    BY <1>2 DEF Store!AttemptFails, Store!AfterFailure
  <2>3. open \in BOOLEAN
    BY <1>0 DEF Threads
  <2>. QED  BY <2>1, <2>2, <2>3, WriterLeaves
<1>. QED  BY <1>1, <1>2

\* Ctrl+C at the main thread ends it and releases what it holds; the driver panics only if
\* another thread is there to take the signal.
LEMMA CtrlC ==
  ASSUME StoreInv, Store!Sigint PROVE StoreInv'
<1>0. thread \in Threads /\ store \in Stores /\ Main \in Writers
  BY StoreAssumption DEF StoreInv
<1>1. CASE UNCHANGED <<thread, store>>
  BY <1>1 DEF StoreInv, Threads, Stores, Store!Sigint
<1>2. CASE ~(Store!Attempting(Main) /\ Store!Shielded)
  <2>1. PICK end \in {"interrupted", "panic"} :
          /\ thread' = [thread EXCEPT ![Main].at = end]
          /\ end = "panic" => Store!Attempting(Main)
    BY <1>2 DEF Store!Sigint
  <2>2. /\ thread' \in Threads /\ thread'[Main].at = end /\ live' = live
        /\ \A u \in Writers \ {Main} : thread'[u] = thread[u]
    BY <1>0, <2>1 DEF Store!Sigint, Threads, Places, Store!Ended
  <2>3. \/ store' = Store!Unlocked(Main)
        \/ thread[Main].at = "write"
           /\ store' = [Store!Unlocked(Main) EXCEPT !.value = Store!Written(Main)]
    BY <1>2 DEF Store!Sigint
  <2>4. /\ store' \in Stores /\ store'.lost = store.lost /\ store.value \subseteq store'.value
        /\ store'.lock = IF store.lock = Main THEN Nobody ELSE store.lock
        /\ store'.value # store.value => store.lock = Main
    <3>1. CASE thread[Main].at \in Under
      BY <1>0, <2>3, <3>1, Released
    <3>2. CASE thread[Main].at \notin Under
      <4>1. store' = Store!Unlocked(Main) /\ store.lock # Main
        BY <1>0, <2>3, <3>2 DEF Under, StoreInv
      <4>. QED  BY <1>0, <4>1 DEF Store!Unlocked, Stores
    <3>. QED  BY <3>1, <3>2
  <2>5. ASSUME end = "panic"
        PROVE  \E u \in Writers \ {Main} : u \in live'
    <3>1. PICK u \in live : u # Main
      BY <1>2, <2>1, <2>5 DEF Store!Shielded, StoreInv
    <3>. QED  BY <2>2, <3>1 DEF StoreInv
  <2>6. ASSUME NEW u \in Writers
        PROVE  /\ thread'[u].at \in Under <=> store'.lock = u
               /\ thread'[u].at = "write" =>
                    /\ store'.value \subseteq thread'[u].seen
                    /\ thread'[u].seen \subseteq store'.value \union store'.lost
               /\ thread'[u].at = "ok" => u \in store'.value \union store'.lost
    <3>1. CASE u = Main
      <4>1. store'.lock # Main
        BY <1>0, <2>4, StoreAssumption
      <4>. QED  BY <2>1, <2>2, <3>1, <4>1 DEF Under, Store!Ended
    <3>2. CASE u # Main
      <4>1. thread'[u] = thread[u]
        BY <2>2, <3>2
      <4>2. thread[u].at \in Under <=> store'.lock = u
        BY <1>0, <2>4, <3>2, StoreAssumption DEF StoreInv
      <4>3. thread[u].at = "write" => store'.value = store.value
        BY <1>0, <2>4, <3>2 DEF StoreInv, Under
      <4>. QED  BY <2>4, <4>1, <4>2, <4>3 DEF StoreInv
    <3>. QED  BY <3>1, <3>2
  <2>. QED  BY <2>2, <2>4, <2>5, <2>6 DEF StoreInv
<1>. QED  BY <1>1, <1>2 DEF Store!Sigint

\* Another process writes over the value, or takes it away.
LEMMA OtherProcess ==
  ASSUME StoreInv, Store!Intrude PROVE StoreInv'
<1>0. thread \in Threads /\ store \in Stores /\ thread' = thread /\ live' = live
  BY DEF StoreInv, Store!Intrude
<1>1. PICK kept \in SUBSET store.value :
        store' = [store EXCEPT !.value = kept, !.lost = @ \union (store.value \ kept),
                               !.others = @ - 1]
  BY DEF Store!Intrude
<1>2. store.others > 0
  BY DEF Store!Intrude
<1>3. /\ store'.value = kept /\ store'.lost = store.lost \union (store.value \ kept)
      /\ store'.lock = store.lock
  BY <1>0, <1>1 DEF Stores
<1>4. store' \in Stores
  <2>1. store.value \in SUBSET Writers /\ store.lost \in SUBSET Writers /\ store.others - 1 \in Nat
    BY <1>0, <1>2 DEF Stores
  <2>2. store' = [[[store EXCEPT !.value = kept] EXCEPT !.lost = store.lost \union (store.value \ kept)]
                     EXCEPT !.others = store.others - 1]
    BY <1>0, <1>1 DEF Stores
  <2>. QED  BY <1>0, <2>1, <2>2 DEF Stores
<1>5. /\ store'.value \subseteq store.value
      /\ store.value \union store.lost \subseteq store'.value \union store'.lost
  BY <1>3
<1>. QED  BY <1>0, <1>3, <1>4, <1>5 DEF StoreInv

\* A thread of the pool is started or goes.
LEMMA PoolTurns ==
  ASSUME StoreInv, Store!Pool PROVE StoreInv'
<1>1. UNCHANGED <<thread, store>>
  BY DEF Store!Pool, Store!Starts, Store!Exits
<1>2. CASE \E t \in Writers : Store!Starts(t)
  <2>1. live \subseteq live' /\ live' \subseteq Writers
    BY <1>2 DEF Store!Starts, StoreInv
  <2>. QED  BY <1>1, <2>1 DEF StoreInv, Threads, Stores
<1>3. ASSUME NEW t \in Writers, Store!Exits(t) PROVE StoreInv'
  <2>1. /\ live' = live \ {t} /\ t # Main /\ thread[t].at # "idle"
    BY <1>3 DEF Store!Exits, Store!Ended
  <2>. QED  BY <1>1, <2>1 DEF StoreInv, Threads, Stores
<1>. QED  BY <1>2, <1>3 DEF Store!Pool

LEMMA StoreSteps ==
  ASSUME StoreInvariant, [Next]_vars PROVE StoreInvariant'
<1>. SUFFICES ASSUME part' = "store" PROVE StoreInv'
  BY DEF StoreInvariant
<1>1. part = "store" /\ StoreInv
  BY DEF StoreInvariant, Next, vars
<1>2. CASE UNCHANGED storeVars
  BY <1>1, <1>2 DEF storeVars, StoreInv, Threads, Stores
<1>3. ASSUME NEW t \in Writers, Store!Step(t) PROVE StoreInv'
  BY <1>1, <1>3, WriterBegins, WriterAcquires, WriterGoesOn, WriterEndsAttempt DEF Store!Step
<1>4. CASE Store!Sigint
  BY <1>1, <1>4, CtrlC
<1>5. CASE Store!Intrude
  BY <1>1, <1>5, OtherProcess
<1>51. CASE Store!Pool
  BY <1>1, <1>51, PoolTurns
<1>6. CASE Next
  BY <1>1, <1>3, <1>4, <1>5, <1>51, <1>6 DEF Next, ClientStep, MainStep, PoolStep, WriterStep
<1>7. CASE UNCHANGED vars
  BY <1>2, <1>7 DEF vars
<1>. QED  BY <1>6, <1>7

LEMMA StoreAlways == Spec => []StoreInvariant
<1>1. Init => StoreInvariant
  BY StoreInit
<1>2. StoreInvariant /\ [Next]_vars => StoreInvariant'
  BY StoreSteps
<1>. QED  BY <1>1, <1>2, PTL DEF Spec

\* However many threads of a process write one account's configuration, however often their
\* attempts are retried and whatever other processes do meanwhile, an update that was
\* reported as done stays until another process drops it.
THEOREM NoUpdateLost == Spec => []UpdatesSurvive
<1>1. StoreInvariant => UpdatesSurvive
  BY DEF StoreInvariant, StoreInv, UpdatesSurvive, Store!UpdatesSurvive
<1>. QED  BY <1>1, StoreAlways, PTL

\* Ctrl+C never makes the driver panic in a process that has had no thread but the main one,
\* and whoever it ends has released the lock.
THEOREM InterruptsAreClean == Spec => []CleanInterrupt
<1>1. StoreInvariant => CleanInterrupt
  BY StoreAssumption
  DEF StoreInvariant, StoreInv, CleanInterrupt, Store!CleanInterrupt, Store!Ended, Under
<1>. QED  BY <1>1, StoreAlways, PTL

\* Whoever waits for the lock waits for a thread that is at work in it, however attempts end
\* and whoever is interrupted where: the safety half of WritersEnd.
THEOREM WaitersAreServed == Spec => []NobodyWaitsForTheDead
<1>1. StoreInvariant => NobodyWaitsForTheDead
  <2>. SUFFICES ASSUME StoreInvariant, part = "store", NEW t \in Writers,
                       thread[t].at = "lock", store.lock # Nobody
                PROVE  Store!Attempting(store.lock) /\ thread[store.lock].at # "lock"
    BY DEF NobodyWaitsForTheDead, Store!NobodyWaitsForTheDead
  <2>1. StoreInv /\ store.lock \in Writers
    BY DEF StoreInvariant, StoreInv, Stores
  <2>2. thread[store.lock].at \in Under
    BY <2>1 DEF StoreInv
  <2>. QED  BY <2>2 DEF Under, Store!Attempting
<1>. QED  BY <1>1, StoreAlways, PTL

\* A pending signal belongs to the main thread's present attempt.
SigintInv ==
  /\ thread \in Threads /\ sigint \in {"none", "pending", "delivered"}
  /\ Store!DeferredIsHeld

SigintInvariant == part = "store" => SigintInv

LEMMA SigintOfWriter ==
  ASSUME SigintInv, thread' \in Threads, NEW t \in Writers, Store!Step(t)
  PROVE  SigintInv'
<1>0. /\ thread \in Threads /\ Main \in Writers
      /\ thread[t].at \notin {"interrupted", "panic"}
  BY StoreAssumption
  DEF SigintInv, Store!Step, Store!Begin, Store!Acquire, Store!Connected, Store!OpenFails,
      Store!OpenAgain, Store!Moves, Store!Read, Store!Write, Store!AttemptFails
<1>1. CASE UNCHANGED sigint
  <2>1. CASE t # Main
    <3>1. thread'[Main] = thread[Main]
      BY <1>0, <2>1
      DEF Store!Step, Store!Begin, Store!Acquire, Store!Connected, Store!OpenFails,
          Store!OpenAgain, Store!Moves, Store!Read, Store!Write, Store!AttemptFails,
          Store!Leave, Threads
    <3>. QED  BY <1>1, <3>1 DEF SigintInv, Store!DeferredIsHeld, Store!Attempting
  <2>2. CASE t = Main /\ (Store!Write(t) \/ Store!AttemptFails(t))
    <3>1. PICK next \in {"ok", "failed", "sleep"} : thread'[t].at = next /\ sigint # "pending"
      <4>1. CASE Store!Write(t)
        BY <1>0, <1>1, <2>2, <4>1 DEF Store!Write, Store!Leave, Threads
      <4>2. CASE Store!AttemptFails(t)
        <5>1. PICK next \in {"failed", "sleep"}, open \in {thread[t].open, FALSE} :
                Store!Leave(t, next, open)
          BY <4>2 DEF Store!AttemptFails, Store!AfterFailure
        <5>. QED  BY <1>0, <1>1, <2>2, <5>1 DEF Store!Leave, Threads
      <4>. QED  BY <2>2, <4>1, <4>2
    <3>. QED  BY <1>0, <1>1, <2>2, <3>1 DEF SigintInv, Store!DeferredIsHeld
  <2>3. CASE t = Main /\ ~(Store!Write(t) \/ Store!AttemptFails(t))
    <3>1. thread'[t].at \in {"lock", "open", "read", "nap", "write"}
      BY <1>0, <2>3
      DEF Store!Step, Store!Begin, Store!Acquire, Store!Connected, Store!OpenFails,
          Store!OpenAgain, Store!Moves, Store!Read, Threads
    <3>. QED  BY <1>0, <1>1, <2>3, <3>1 DEF SigintInv, Store!DeferredIsHeld, Store!Attempting
  <2>. QED  BY <2>1, <2>2, <2>3
<1>2. CASE ~UNCHANGED sigint
  <2>1. Store!Write(t) \/ Store!AttemptFails(t)
    BY <1>2 DEF Store!Step, Store!Begin, Store!Acquire, Store!Connected, Store!OpenFails,
                Store!OpenAgain, Store!Moves, Store!Read
  <2>2. t = Main /\ sigint' = "delivered" /\ thread'[t].at = "interrupted"
    BY <1>0, <1>2, <2>1 DEF Store!Write, Store!AttemptFails, Store!Leave, Threads
  <2>. QED  BY <2>2 DEF SigintInv, Store!DeferredIsHeld
<1>. QED  BY <1>1, <1>2

LEMMA SigintSteps ==
  ASSUME SigintInvariant, StoreInvariant', [Next]_vars PROVE SigintInvariant'
<1>. SUFFICES ASSUME part' = "store" PROVE SigintInv'
  BY DEF SigintInvariant
<1>0. part = "store" /\ SigintInv /\ thread' \in Threads
  BY DEF SigintInvariant, StoreInvariant, StoreInv, Next, vars
<1>1. CASE UNCHANGED storeVars
  BY <1>0, <1>1 DEF storeVars, SigintInv, Store!DeferredIsHeld, Store!Attempting
<1>2. ASSUME NEW t \in Writers, Store!Step(t) PROVE SigintInv'
  BY <1>0, <1>2, SigintOfWriter
<1>3. CASE Store!Sigint
  <2>1. CASE Store!Attempting(Main) /\ Store!Shielded
    BY <1>0, <1>3, <2>1 DEF Store!Sigint, SigintInv, Store!DeferredIsHeld, Store!Attempting
  <2>2. CASE ~(Store!Attempting(Main) /\ Store!Shielded)
    <3>1. PICK end \in {"interrupted", "panic"} :
            sigint' = "delivered" /\ thread' = [thread EXCEPT ![Main].at = end]
      BY <1>3, <2>2 DEF Store!Sigint
    <3>2. thread'[Main].at = end
      BY <1>0, <3>1, StoreAssumption DEF Threads
    <3>. QED  BY <1>0, <3>1, <3>2 DEF SigintInv, Store!DeferredIsHeld
  <2>. QED  BY <2>1, <2>2
<1>4. CASE Store!Intrude
  BY <1>0, <1>4 DEF Store!Intrude, SigintInv, Store!DeferredIsHeld, Store!Attempting
<1>5. CASE Store!Pool
  BY <1>0, <1>5 DEF Store!Pool, Store!Starts, Store!Exits, SigintInv, Store!DeferredIsHeld,
                    Store!Attempting
<1>6. CASE Next
  BY <1>0, <1>1, <1>2, <1>3, <1>4, <1>5, <1>6
  DEF Next, ClientStep, MainStep, PoolStep, WriterStep
<1>7. CASE UNCHANGED vars
  BY <1>1, <1>7 DEF vars
<1>. QED  BY <1>6, <1>7

\* A deferred Ctrl+C never outlasts the attempt it was deferred for, however the attempt ends,
\* and the main thread is interrupted by a Ctrl+C and by nothing else: the safety half of
\* DeferredIsDelivered.
THEOREM DeferredStaysHeld == Spec => []DeferredIsHeld
<1>1. Init => SigintInvariant
  BY StoreAssumption, StoreInit
  DEF Init, StoreInvariant, StoreInv, SigintInvariant, SigintInv, Store!Init,
      Store!DeferredIsHeld, Store!Attempting
<1>2. SigintInvariant /\ StoreInvariant' /\ [Next]_vars => SigintInvariant'
  BY SigintSteps
<1>3. SigintInvariant => DeferredIsHeld
  BY DEF SigintInvariant, SigintInv, DeferredIsHeld
<1>. QED  BY <1>1, <1>2, <1>3, StoreAlways, PTL DEF Spec

\* What a writer that has read under the lock writes: its own update, what there is, and at
\* most what another process has dropped since.
LEMMA WrittenMerges ==
  ASSUME StoreInv, NEW t \in Writers, thread[t].at = "write"
  PROVE  /\ \/ Store!Written(t) = store.value
            \/ \E back \in SUBSET store.lost :
                 Store!Written(t) = store.value \union back \union {t}
         /\ t \in Store!Written(t) \union store.lost
<1>1. store.value \subseteq thread[t].seen /\ thread[t].seen \subseteq store.value \union store.lost
  BY DEF StoreInv
<1>2. CASE t \in thread[t].seen
  <2>1. Store!Written(t) = store.value
    BY <1>2 DEF Store!Written, Store!Merged
  <2>. QED  BY <1>1, <1>2, <2>1
<1>3. CASE t \notin thread[t].seen
  <2>1. Store!Written(t) = thread[t].seen \union {t}
    BY <1>3 DEF Store!Written, Store!Merged
  <2>2. thread[t].seen \ store.value \in SUBSET store.lost
    BY <1>1
  <2>3. Store!Written(t) = store.value \union (thread[t].seen \ store.value) \union {t}
    BY <1>1, <2>1
  <2>. QED  BY <2>1, <2>2, <2>3
<1>. QED  BY <1>2, <1>3

\* The end of an attempt, with its deed or without it, as AtomicUpdates sees it.
LEMMA DeedMerges ==
  ASSUME StoreInv, NEW t \in Writers, store' \in Stores,
         \/ store' = Store!Unlocked(t)
         \/ thread[t].at = "write"
            /\ store' = [Store!Unlocked(t) EXCEPT !.value = Store!Written(t)]
  PROVE  /\ store'.lost = store.lost
         /\ \/ store'.value = store.value
            \/ \E back \in SUBSET store.lost : store'.value = store.value \union back \union {t}
<1>0. store \in Stores
  BY DEF StoreInv
<1>1. /\ Store!Unlocked(t).value = store.value /\ Store!Unlocked(t).lost = store.lost
      /\ Store!Unlocked(t) \in Stores
  BY <1>0 DEF Stores, Store!Unlocked
<1>2. CASE store' = Store!Unlocked(t)
  BY <1>1, <1>2
<1>3. CASE /\ thread[t].at = "write"
           /\ store' = [Store!Unlocked(t) EXCEPT !.value = Store!Written(t)]
  <2>1. store'.value = Store!Written(t) /\ store'.lost = store.lost
    BY <1>1, <1>3 DEF Stores
  <2>. QED  BY <1>3, <2>1, WrittenMerges
<1>. QED  BY <1>2, <1>3

LEMMA WorkOf ==
  ASSUME part = "store", part' = "store", NEW t \in Writers,
         \A u \in Writers \ {t} : thread'[u] = thread[u],
         thread[t].at \notin Store!Ended,
         store'.lost = store.lost,
         \/ store'.value = store.value
         \/ \E back \in SUBSET store.lost : store'.value = store.value \union back \union {t},
         thread'[t].at = "ok" => t \in store'.value \union store'.lost
  PROVE  Updates!Next
<1>1. /\ Store!Outcome(t) = "running" /\ Store!Outcome(t)' \in {"running", "ok", "failed"}
      /\ Store!Outcome(t)' = "ok" => thread'[t].at = "ok"
      /\ \A u \in Writers \ {t} : Store!Outcome(u)' = Store!Outcome(u)
  BY DEF Store!Outcome, Store!Ended
<1> DEFINE end == Store!Outcome(t)'
<1>2. [u \in Writers |-> Store!Outcome(u)'] = [[u \in Writers |-> Store!Outcome(u)] EXCEPT ![t] = end]
  BY <1>1
<1>3. Updates!Work(t)
  BY <1>1, <1>2 DEF Updates!Work, Updates!Done
<1>. QED  BY <1>3 DEF Updates!Next

LEMMA UpdateOfWriter ==
  ASSUME part = "store", part' = "store", StoreInv, StoreInv', NEW t \in Writers, Store!Step(t)
  PROVE  Updates!Next
<1>0. /\ thread \in Threads /\ store' \in Stores
      /\ thread'[t].at = "ok" => t \in store'.value \union store'.lost
  BY DEF StoreInv
<1>1. CASE Store!Write(t) \/ Store!AttemptFails(t)
  <2>1. /\ thread[t].at \in {"open", "read", "write"}
        /\ \/ store' = Store!Unlocked(t)
           \/ thread[t].at = "write"
              /\ store' = [Store!Unlocked(t) EXCEPT !.value = Store!Written(t)]
    BY <1>1 DEF Store!Write, Store!AttemptFails
  <2>2. /\ store'.lost = store.lost
        /\ \/ store'.value = store.value
           \/ \E back \in SUBSET store.lost : store'.value = store.value \union back \union {t}
    BY <1>0, <2>1, DeedMerges
  <2>3. \A u \in Writers \ {t} : thread'[u] = thread[u]
    BY <1>0, <1>1 DEF Store!Write, Store!AttemptFails, Store!Leave, Threads
  <2>. QED  BY <1>0, <2>1, <2>2, <2>3, WorkOf DEF Store!Ended
<1>2. CASE \/ Store!Begin(t) \/ Store!Acquire(t) \/ Store!Connected(t) \/ Store!OpenFails(t)
           \/ Store!OpenAgain(t) \/ Store!Read(t)
  <2>1. thread[t].at \notin Store!Ended
    BY <1>2 DEF Store!Begin, Store!Acquire, Store!Connected, Store!OpenFails, Store!OpenAgain,
                Store!Moves, Store!Read, Store!Ended
  <2>2. \A u \in Writers \ {t} : thread'[u] = thread[u]
    BY <1>0, <1>2
    DEF Store!Begin, Store!Acquire, Store!Connected, Store!OpenFails, Store!OpenAgain,
        Store!Moves, Store!Read, Threads
  <2>3. store'.value = store.value /\ store'.lost = store.lost
    BY <1>2 DEF Store!Begin, Store!Acquire, Store!Connected, Store!OpenFails, Store!OpenAgain,
                Store!Moves, Store!Read, StoreInv, Stores
  <2>. QED  BY <1>0, <2>1, <2>2, <2>3, WorkOf
<1>. QED  BY <1>1, <1>2 DEF Store!Step

LEMMA UpdateOfCtrlC ==
  ASSUME part = "store", part' = "store", StoreInv, StoreInv', Store!Sigint
  PROVE  [Updates!Next]_(Updates!updateVars)
<1>1. CASE UNCHANGED <<thread, store>>
  BY <1>1 DEF Updates!updateVars, Store!Outcome
<1>2. CASE ~UNCHANGED <<thread, store>>
  <2>1. /\ thread[Main].at \notin Store!Ended
        /\ \E end : thread' = [thread EXCEPT ![Main].at = end]
        /\ \/ store' = Store!Unlocked(Main)
           \/ thread[Main].at = "write"
              /\ store' = [Store!Unlocked(Main) EXCEPT !.value = Store!Written(Main)]
    BY <1>2 DEF Store!Sigint
  <2>2. /\ thread \in Threads /\ store' \in Stores /\ Main \in Writers
        /\ thread'[Main].at = "ok" => Main \in store'.value \union store'.lost
    BY StoreAssumption DEF StoreInv
  <2>3. \A u \in Writers \ {Main} : thread'[u] = thread[u]
    BY <2>1, <2>2 DEF Threads
  <2>4. /\ store'.lost = store.lost
        /\ \/ store'.value = store.value
           \/ \E back \in SUBSET store.lost : store'.value = store.value \union back \union {Main}
    BY <2>1, <2>2, DeedMerges
  <2>. QED  BY <2>1, <2>2, <2>3, <2>4, WorkOf
<1>. QED  BY <1>1, <1>2

LEMMA UpdateOfOthers ==
  ASSUME part = "store", part' = "store", StoreInv, Store!Intrude
  PROVE  Updates!Next
<1>1. PICK kept \in SUBSET store.value :
        store' = [store EXCEPT !.value = kept, !.lost = @ \union (store.value \ kept),
                               !.others = @ - 1]
  BY DEF Store!Intrude
<1>2. store'.value = kept /\ store'.lost = store.lost \union (store.value \ kept)
  BY <1>1 DEF StoreInv, Stores
<1>3. thread' = thread
  BY DEF Store!Intrude
<1>4. Updates!Intrude
  BY <1>2, <1>3 DEF Updates!Intrude, Store!Outcome
<1>. QED  BY <1>4 DEF Updates!Next

LEMMA UpdateSteps ==
  ASSUME StoreInvariant, StoreInvariant', [Next]_vars
  PROVE  [Updates!Next]_(Updates!updateVars)
<1>0. part' = part
  BY DEF Next, vars
<1>1. CASE part # "store"
  BY <1>0, <1>1 DEF Updates!updateVars
<1>2. CASE part = "store" /\ UNCHANGED storeVars
  BY <1>0, <1>2 DEF storeVars, Updates!updateVars, Store!Outcome
<1>3. CASE part = "store" /\ ~UNCHANGED storeVars
  <2>1. StoreInv /\ StoreInv'
    BY <1>0, <1>3 DEF StoreInvariant
  <2>2. (\E t \in Writers : Store!Step(t)) \/ Store!Sigint \/ Store!Intrude \/ Store!Pool
    BY <1>0, <1>3 DEF Next, vars, ClientStep, MainStep, PoolStep, WriterStep
  <2>3. CASE Store!Pool
    <3>1. UNCHANGED <<thread, store>>
      BY <2>3 DEF Store!Pool, Store!Starts, Store!Exits
    <3>. QED  BY <1>0, <1>3, <3>1 DEF Updates!updateVars, Store!Outcome
  <2>. QED  BY <1>0, <1>3, <2>1, <2>2, <2>3, UpdateOfWriter, UpdateOfCtrlC, UpdateOfOthers
<1>. QED  BY <1>1, <1>2, <1>3

\* However many threads write one configuration, however often their attempts fail, before
\* the commit or after it, and wherever Ctrl+C strikes, each update is made at one moment and
\* before its writer is told how it ended, and drops nobody else's: the lock, the retries
\* and the deferred signal implement AtomicUpdates.
THEOREM UpdatesAreAtomic == Spec => UpdateContract
<1>1. Init => Updates!Init
  BY DEF Init, NoStore, Store!Init, Store!Outcome, Store!Ended, Updates!Init
<1>2. StoreInvariant /\ StoreInvariant' /\ [Next]_vars => [Updates!Next]_(Updates!updateVars)
  BY UpdateSteps
<1>. QED  BY <1>1, <1>2, StoreAlways, PTL DEF Spec, UpdateContract, Updates!Spec

-------------------------------------------------------------------------------
(* The run over many accounts *)

MultiTyped ==
    /\ main \in [at : {"submit", "gather", "cancel", "collect", "summarize", "record",
                       "failRecord", "exit"},
                 next : Nat, coop : BOOLEAN, missing : BOOLEAN,
                 slots : {Multi!Slots(c) : c \in Ceilings}, presses : Nat,
                 cancelled : BOOLEAN, code : {0, 1, 130}]
    /\ main.next >= 1
    /\ worker \in [Multi!Accounts -> [state : {"none", "queued", "running", "done", "cancelled"},
                                      outcome : Multi!Outcomes]]
    /\ report \in [result : [Multi!Accounts -> Multi!Results], log : {"none", "ok", "failed"},
                   logged : [Multi!Accounts -> Multi!Results]]

\* What a future has, and what is reported of it.
FuturesAgree ==
    \A a \in Multi!Accounts :
        /\ worker[a].state = "done" <=> worker[a].outcome # "none"
        /\ worker[a].outcome = "partial" => main.cancelled /\ main.coop
        /\ report.result[a] \in {"ok", "partial"} => worker[a].outcome = report.result[a]
        /\ report.result[a] = "interrupted" =>
              /\ main.cancelled
              /\ main.coop => worker[a].state = "cancelled"
              /\ \A b \in Multi!Accounts : worker[b].state # "queued"

\* What each phase has behind it.
PhasesAgree ==
    /\ main.at = "submit" => \A a \in Multi!Accounts : report.result[a] = "none"
    /\ main.at \in {"gather", "cancel"} =>
          \A a \in Multi!Accounts : report.result[a] # "interrupted"
    /\ main.at = "cancel" =>
          \A a \in Multi!Accounts : a < main.next => worker[a].state # "queued"
    /\ main.at = "collect" => \A a \in Multi!Accounts :
          worker[a].state # "queued" /\ (a < main.next => report.result[a] # "none")
    /\ main.at \in {"cancel", "collect"} => main.cancelled
    /\ main.at \in {"summarize", "record"} =>
          \A a \in Multi!Accounts : report.result[a] # "none"
    /\ main.at = "record" /\ main.code = 0 => ~main.missing /\ Multi!Failures = {}
    /\ main.at = "failRecord" => main.code # 0
    /\ main.at # "exit" => report.log = "none"

MultiInv == MultiTyped /\ FuturesAgree /\ PhasesAgree /\ Multi!ExitZeroIsComplete

MultiInvariant == part = "multi" => MultiInv

LEMMA MultiInit == Init => MultiInvariant
<1>. SUFFICES ASSUME Init, part = "multi" PROVE MultiInv
  BY DEF MultiInvariant
<1>1. Multi!Init
  BY DEF Init
<1>2. PICK coop \in BOOLEAN, missing \in BOOLEAN, c \in Ceilings :
        main = [at |-> "submit", next |-> 1, coop |-> coop, missing |-> missing,
                slots |-> Multi!Slots(c), presses |-> 0, cancelled |-> FALSE, code |-> 0]
  BY <1>1 DEF Multi!Init
<1>3. /\ worker = [a \in Multi!Accounts |-> [state |-> "none", outcome |-> "none"]]
      /\ report = [result |-> Multi!NoResults, log |-> "none", logged |-> Multi!NoResults]
  BY <1>1 DEF Multi!Init
<1>4. Multi!NoResults \in [Multi!Accounts -> Multi!Results]
  BY DEF Multi!NoResults, Multi!Results
<1>5. MultiTyped
  BY <1>2, <1>3, <1>4 DEF MultiTyped, Multi!Outcomes
<1>. QED  BY <1>2, <1>3, <1>5
          DEF MultiInv, FuturesAgree, PhasesAgree, Multi!ExitZeroIsComplete, Multi!At, Multi!NoResults

\* A thread takes what is queued or ends what it runs; whatever is reported stays true.
LEMMA PoolSteps == ASSUME MultiInv, Multi!PoolStep PROVE MultiInv'
<1>1. PICK a \in Multi!Accounts : Multi!Start(a) \/ Multi!End(a)
  BY DEF Multi!PoolStep
<1>2. UNCHANGED <<main, report>>
  BY <1>1 DEF Multi!Start, Multi!End
<1>3. PICK s \in {"running", "done"}, o \in Multi!Outcomes :
        /\ worker' = [worker EXCEPT ![a] = [state |-> s, outcome |-> o]]
        /\ worker[a].state \in {"queued", "running"}
        /\ s = "done" <=> o # "none"
        /\ o = "partial" => main.cancelled /\ main.coop
  BY <1>1 DEF Multi!Start, Multi!End, Multi!Becomes, Multi!In, Multi!Outcomes
<1>4. /\ worker \in [Multi!Accounts -> [state : {"none", "queued", "running", "done", "cancelled"},
                                        outcome : Multi!Outcomes]]
  BY DEF MultiInv, MultiTyped
<1>5. \A b \in Multi!Accounts :
         worker'[b] = IF b = a THEN [state |-> s, outcome |-> o] ELSE worker[b]
  BY <1>3, <1>4
<1>6. worker[a].outcome = "none" /\ report.result[a] \notin {"ok", "partial"}
  BY <1>3 DEF MultiInv, FuturesAgree
<1>7. MultiTyped'
  BY <1>2, <1>3, <1>4 DEF MultiInv, MultiTyped, Multi!Outcomes
<1>8. FuturesAgree'
  BY <1>2, <1>3, <1>5, <1>6 DEF MultiInv, FuturesAgree
<1>9. PhasesAgree'
  BY <1>2, <1>3, <1>5 DEF MultiInv, PhasesAgree, Multi!Failures
<1>10. Multi!ExitZeroIsComplete'
  BY <1>2, <1>3, <1>5, <1>6 DEF MultiInv, Multi!ExitZeroIsComplete, Multi!At
<1>. QED  BY <1>7, <1>8, <1>9, <1>10 DEF MultiInv

\* A step of the main thread, or of Ctrl+C, that only turns to another phase.
LEMMA TurnTo ==
  ASSUME MultiInv, UNCHANGED worker,
         NEW at \in {"gather", "cancel", "collect", "summarize", "failRecord", "record", "exit"},
         main' \in [at : {at}, next : Nat, coop : {main.coop}, missing : {main.missing},
                    slots : {main.slots}, presses : Nat, cancelled : BOOLEAN, code : {0, 1, 130}],
         main'.next = 1, main.cancelled => main'.cancelled
  PROVE  /\ report' = report => MultiTyped' /\ FuturesAgree'
         /\ (report' = [report EXCEPT !.result = Multi!NoResults]) => MultiTyped' /\ FuturesAgree'
         /\ main'.at = at /\ main'.coop = main.coop /\ main'.missing = main.missing
<1>1. MultiTyped /\ FuturesAgree
  BY DEF MultiInv
<1>2. main'.at = at /\ main'.coop = main.coop /\ main'.missing = main.missing
  OBVIOUS
<1>3. main' \in [at : {"submit", "gather", "cancel", "collect", "summarize", "record",
                       "failRecord", "exit"},
                 next : Nat, coop : BOOLEAN, missing : BOOLEAN,
                 slots : {Multi!Slots(c) : c \in Ceilings}, presses : Nat,
                 cancelled : BOOLEAN, code : {0, 1, 130}]
  BY <1>1 DEF MultiTyped
<1>4. CASE report' = report
  BY <1>1, <1>2, <1>3, <1>4 DEF MultiTyped, FuturesAgree
<1>5. CASE report' = [report EXCEPT !.result = Multi!NoResults]
  <2>1. Multi!NoResults \in [Multi!Accounts -> Multi!Results]
        /\ \A a \in Multi!Accounts : Multi!NoResults[a] = "none"
    BY DEF Multi!NoResults, Multi!Results
  <2>2. report' \in [result : [Multi!Accounts -> Multi!Results], log : {"none", "ok", "failed"},
                     logged : [Multi!Accounts -> Multi!Results]]
        /\ report'.result = Multi!NoResults
    BY <1>1, <1>5, <2>1 DEF MultiTyped
  <2>. QED  BY <1>1, <1>2, <1>3, <2>1, <2>2 DEF MultiTyped, FuturesAgree
<1>. QED  BY <1>2, <1>4, <1>5

LEMMA MultiSubmits ==
  ASSUME MultiInv, Multi!Submit \/ Multi!Submitted PROVE MultiInv'
<1>1. MultiTyped /\ FuturesAgree /\ PhasesAgree /\ Multi!ExitZeroIsComplete
  BY DEF MultiInv
<1>2. main.at = "submit" /\ UNCHANGED report
  BY DEF Multi!Submit, Multi!Submitted, Multi!At
<1>3. CASE Multi!Submit
  <2>1. /\ main' = [main EXCEPT !.next = @ + 1]
        /\ worker' = [worker EXCEPT ![main.next] = [state |-> "queued", outcome |-> "none"]]
    BY <1>3 DEF Multi!Submit, Multi!Becomes
  <2>2. main.next \in Multi!Accounts
    BY <1>1, <1>3, MultiAssumption DEF Multi!Submit, MultiTyped, Multi!Accounts
  <2>3. /\ main'.at = main.at /\ main'.coop = main.coop /\ main'.cancelled = main.cancelled
        /\ main'.missing = main.missing /\ main'.code = main.code
    BY <1>1, <2>1 DEF MultiTyped
  <2>4. MultiTyped'
    <3>1. /\ main' \in [at : {"submit"}, next : Nat, coop : {main.coop}, missing : {main.missing},
                        slots : {main.slots}, presses : Nat, cancelled : BOOLEAN, code : {0, 1, 130}]
          /\ main'.next >= 1
      BY <1>1, <1>2, <2>1 DEF MultiTyped
    <3>2. [state |-> "queued", outcome |-> "none"] \in
            [state : {"none", "queued", "running", "done", "cancelled"}, outcome : Multi!Outcomes]
      BY DEF Multi!Outcomes
    <3>3. worker' \in [Multi!Accounts ->
             [state : {"none", "queued", "running", "done", "cancelled"}, outcome : Multi!Outcomes]]
      BY <1>1, <2>1, <2>2, <3>2 DEF MultiTyped
    <3>4. main' \in [at : {"submit", "gather", "cancel", "collect", "summarize", "record",
                           "failRecord", "exit"},
                     next : Nat, coop : BOOLEAN, missing : BOOLEAN,
                     slots : {Multi!Slots(c) : c \in Ceilings}, presses : Nat,
                     cancelled : BOOLEAN, code : {0, 1, 130}]
      BY <1>1, <3>1 DEF MultiTyped
    <3>. QED  BY <1>1, <1>2, <3>1, <3>3, <3>4 DEF MultiTyped
  <2>5. \A b \in Multi!Accounts :
           worker'[b] = IF b = main.next THEN [state |-> "queued", outcome |-> "none"] ELSE worker[b]
    BY <1>1, <2>1 DEF MultiTyped
  <2>6. \A b \in Multi!Accounts : report.result[b] = "none"
    BY <1>1, <1>2 DEF PhasesAgree
  <2>7. FuturesAgree'
    BY <1>1, <1>2, <2>3, <2>5, <2>6 DEF FuturesAgree
  <2>8. PhasesAgree'
    BY <1>1, <1>2, <2>3, <2>6 DEF PhasesAgree
  <2>9. Multi!ExitZeroIsComplete'
    BY <1>2, <2>3 DEF Multi!ExitZeroIsComplete, Multi!At
  <2>. QED  BY <2>4, <2>7, <2>8, <2>9 DEF MultiInv
<1>4. CASE Multi!Submitted
  <2>1. main' = [main EXCEPT !.at = "gather", !.next = 1] /\ UNCHANGED worker
    BY <1>4 DEF Multi!Submitted, Multi!Goto
  <2>2. /\ main' \in [at : {"gather"}, next : Nat, coop : {main.coop}, missing : {main.missing},
                     slots : {main.slots}, presses : Nat, cancelled : BOOLEAN, code : {0, 1, 130}]
        /\ main'.next = 1 /\ main'.cancelled = main.cancelled
    BY <1>1, <2>1 DEF MultiTyped
  <2>3. MultiTyped' /\ FuturesAgree' /\ main'.at = "gather"
    BY <1>2, <2>1, <2>2, TurnTo
  <2>4. PhasesAgree'
    BY <1>1, <1>2, <2>1, <2>3 DEF PhasesAgree
  <2>. QED  BY <2>3, <2>4 DEF MultiInv, Multi!ExitZeroIsComplete, Multi!At
<1>. QED  BY <1>3, <1>4

\* A result is stored: what the future returned, or, where no more begin, an interrupt.
LEMMA Stored ==
  ASSUME MultiInv, NEW a \in Multi!Accounts, report.result[a] = "none", UNCHANGED worker,
         NEW r \in {"ok", "failed", "partial", "interrupted"},
         report' = [report EXCEPT !.result[a] = r],
         r \in {"ok", "partial"} => worker[a].outcome = r,
         r = "interrupted" => /\ main.cancelled /\ (main.coop => worker[a].state = "cancelled")
                              /\ \A b \in Multi!Accounts : worker[b].state # "queued",
         main'.coop = main.coop, main'.cancelled = main.cancelled
  PROVE  /\ report' \in [result : [Multi!Accounts -> Multi!Results], log : {"none", "ok", "failed"},
                         logged : [Multi!Accounts -> Multi!Results]]
         /\ report'.log = report.log
         /\ \A b \in Multi!Accounts :
               report'.result[b] = IF b = a THEN r ELSE report.result[b]
         /\ FuturesAgree'
<1>1. MultiTyped /\ FuturesAgree
  BY DEF MultiInv
<1> DEFINE results == [report.result EXCEPT ![a] = r]
<1>2. results \in [Multi!Accounts -> Multi!Results]
  BY <1>1 DEF MultiTyped, Multi!Results
<1>3. \A b \in Multi!Accounts : results[b] = IF b = a THEN r ELSE report.result[b]
  BY <1>1 DEF MultiTyped
<1>4. report' = [report EXCEPT !.result = results]
  BY <1>1 DEF MultiTyped
<1> HIDE DEF results
<1>5. /\ report' \in [result : [Multi!Accounts -> Multi!Results], log : {"none", "ok", "failed"},
                      logged : [Multi!Accounts -> Multi!Results]]
      /\ report'.log = report.log /\ report'.result = results
  BY <1>1, <1>2, <1>4 DEF MultiTyped
<1>6. FuturesAgree'
  BY <1>1, <1>3, <1>5 DEF FuturesAgree
<1>. QED  BY <1>3, <1>5, <1>6

LEMMA MultiGathers ==
  ASSUME MultiInv,
         Multi!Gathered \/ \E a \in Multi!Accounts : Multi!Gather(a) \/ Multi!GatherRaises(a)
  PROVE  MultiInv'
<1>1. MultiTyped /\ FuturesAgree /\ PhasesAgree /\ Multi!ExitZeroIsComplete
  BY DEF MultiInv
<1>2. main.at = "gather" /\ UNCHANGED worker
  BY DEF Multi!Gather, Multi!GatherRaises, Multi!Gathered, Multi!At
<1>3. ASSUME NEW a \in Multi!Accounts, Multi!Gather(a) PROVE MultiInv'
  <2> DEFINE r == worker[a].outcome
  <2>1. /\ main' = main /\ report.result[a] = "none"
        /\ report' = [report EXCEPT !.result[a] = r] /\ r # "raised"
        /\ worker[a].state = "done"
    BY <1>3 DEF Multi!Gather, Multi!Store
  <2>2. r \in Multi!Outcomes /\ r # "none"
    BY <1>1, <2>1 DEF MultiTyped, FuturesAgree
  <2>3. r \in {"ok", "failed", "partial", "interrupted"} /\ r # "interrupted"
    BY <2>1, <2>2 DEF Multi!Outcomes
  <2> HIDE DEF r
  <2>4. r = worker[a].outcome
    BY DEF r
  <2>5. /\ report' \in [result : [Multi!Accounts -> Multi!Results], log : {"none", "ok", "failed"},
                        logged : [Multi!Accounts -> Multi!Results]]
        /\ report'.log = report.log
        /\ \A b \in Multi!Accounts : report'.result[b] = IF b = a THEN r ELSE report.result[b]
        /\ FuturesAgree'
    BY <1>2, <2>1, <2>3, <2>4, Stored
  <2>6. MultiTyped'
    BY <1>1, <1>2, <2>1, <2>5 DEF MultiTyped
  <2>7. PhasesAgree'
    BY <1>1, <1>2, <2>1, <2>3, <2>5 DEF PhasesAgree
  <2>8. Multi!ExitZeroIsComplete'
    BY <1>1, <1>2, <2>1, <2>5 DEF Multi!ExitZeroIsComplete, Multi!At, PhasesAgree
  <2>. QED  BY <2>5, <2>6, <2>7, <2>8 DEF MultiInv
<1>4. ASSUME NEW a \in Multi!Accounts, Multi!GatherRaises(a) PROVE MultiInv'
  <2>1. /\ main' = [main EXCEPT !.at = "failRecord", !.code = 1]
        /\ report' = [report EXCEPT !.result = Multi!NoResults]
    BY <1>4 DEF Multi!GatherRaises
  <2>2. /\ main'.at = "failRecord" /\ main'.code = 1 /\ main'.coop = main.coop
        /\ main'.cancelled = main.cancelled
        /\ main' \in [at : {"submit", "gather", "cancel", "collect", "summarize", "record",
                            "failRecord", "exit"},
                      next : Nat, coop : BOOLEAN, missing : BOOLEAN,
                      slots : {Multi!Slots(c) : c \in Ceilings}, presses : Nat,
                      cancelled : BOOLEAN, code : {0, 1, 130}]
        /\ main'.next >= 1
    BY <1>1, <2>1 DEF MultiTyped
  <2>3. /\ report' \in [result : [Multi!Accounts -> Multi!Results], log : {"none", "ok", "failed"},
                        logged : [Multi!Accounts -> Multi!Results]]
        /\ report'.log = report.log
        /\ \A b \in Multi!Accounts : report'.result[b] = "none"
    <3>1. Multi!NoResults \in [Multi!Accounts -> Multi!Results]
          /\ \A b \in Multi!Accounts : Multi!NoResults[b] = "none"
      BY DEF Multi!NoResults, Multi!Results
    <3>. QED  BY <1>1, <2>1, <3>1 DEF MultiTyped
  <2>4. MultiTyped' /\ FuturesAgree'
    BY <1>1, <1>2, <2>2, <2>3 DEF MultiTyped, FuturesAgree
  <2>5. PhasesAgree' /\ Multi!ExitZeroIsComplete'
    BY <1>1, <1>2, <2>2, <2>3 DEF PhasesAgree, Multi!ExitZeroIsComplete, Multi!At
  <2>. QED  BY <2>4, <2>5 DEF MultiInv
<1>5. CASE Multi!Gathered
  <2>1. main' = [main EXCEPT !.at = "summarize", !.next = 1] /\ UNCHANGED report
        /\ \A a \in Multi!Accounts : report.result[a] # "none"
    BY <1>5 DEF Multi!Gathered, Multi!Goto
  <2>2. /\ main' \in [at : {"summarize"}, next : Nat, coop : {main.coop}, missing : {main.missing},
                     slots : {main.slots}, presses : Nat, cancelled : BOOLEAN, code : {0, 1, 130}]
        /\ main'.next = 1 /\ main'.cancelled = main.cancelled
    BY <1>1, <2>1 DEF MultiTyped
  <2>3. MultiTyped' /\ FuturesAgree' /\ main'.at = "summarize"
    BY <1>2, <2>1, <2>2, TurnTo
  <2>4. PhasesAgree'
    BY <1>1, <1>2, <2>1, <2>3 DEF PhasesAgree
  <2>. QED  BY <2>3, <2>4 DEF MultiInv, Multi!ExitZeroIsComplete, Multi!At
<1>. QED  BY <1>3, <1>4, <1>5

\* The loop over the futures that Ctrl+C begins: what is behind it is not queued any more.
LEMMA MultiCancels ==
  ASSUME MultiInv, Multi!Cancel \/ Multi!Cancelled PROVE MultiInv'
<1>1. MultiTyped /\ FuturesAgree /\ PhasesAgree /\ Multi!ExitZeroIsComplete
  BY DEF MultiInv
<1>2. main.at = "cancel" /\ main.cancelled /\ UNCHANGED report
  BY <1>1 DEF Multi!Cancel, Multi!Cancelled, Multi!At, PhasesAgree
<1>3. CASE Multi!Cancel
  <2>1. /\ main' = [main EXCEPT !.next = @ + 1]
        /\ worker' = IF worker[main.next].state = "queued"
                     THEN [worker EXCEPT ![main.next] = [state |-> "cancelled", outcome |-> "none"]]
                     ELSE worker
    BY <1>1, <1>3, MultiAssumption
    DEF Multi!Cancel, Multi!Becomes, Multi!In, Multi!Accounts, MultiTyped
  <2>2. main.next \in Multi!Accounts
    BY <1>1, <1>3, MultiAssumption DEF Multi!Cancel, MultiTyped, Multi!Accounts
  <2>3. /\ main'.at = main.at /\ main'.coop = main.coop /\ main'.cancelled = main.cancelled
        /\ main'.missing = main.missing /\ main'.code = main.code /\ main'.next = main.next + 1
    BY <1>1, <2>1 DEF MultiTyped
  <2>4. MultiTyped'
    BY <1>1, <1>2, <2>1, <2>2 DEF MultiTyped, Multi!Outcomes
  <2>5. \A b \in Multi!Accounts :
           \/ worker'[b] = worker[b] /\ (b = main.next => worker[b].state # "queued")
           \/ /\ b = main.next /\ worker[b].state = "queued"
              /\ worker'[b] = [state |-> "cancelled", outcome |-> "none"]
    BY <1>1, <2>1, <2>2 DEF MultiTyped
  <2>6. \A b \in Multi!Accounts : report.result[b] # "interrupted"
    BY <1>1, <1>2 DEF PhasesAgree
  <2>7. FuturesAgree'
    BY <1>1, <1>2, <2>3, <2>5, <2>6 DEF FuturesAgree
  <2>8. \A b \in Multi!Accounts : b < main.next + 1 => b < main.next \/ b = main.next
    BY <2>2 DEF Multi!Accounts
  <2>9. PhasesAgree'
    BY <1>1, <1>2, <2>3, <2>5, <2>6, <2>8 DEF PhasesAgree
  <2>10. Multi!ExitZeroIsComplete'
    BY <1>2, <2>3 DEF Multi!ExitZeroIsComplete, Multi!At
  <2>. QED  BY <2>4, <2>7, <2>9, <2>10 DEF MultiInv
<1>4. CASE Multi!Cancelled
  <2>1. /\ main' = [main EXCEPT !.at = "collect", !.next = 1] /\ UNCHANGED worker
        /\ main.next > Size
    BY <1>4 DEF Multi!Cancelled, Multi!Goto
  <2>2. /\ main' \in [at : {"collect"}, next : Nat, coop : {main.coop}, missing : {main.missing},
                     slots : {main.slots}, presses : Nat, cancelled : BOOLEAN, code : {0, 1, 130}]
        /\ main'.next = 1 /\ main'.cancelled = main.cancelled
    BY <1>1, <2>1 DEF MultiTyped
  <2>3. MultiTyped' /\ FuturesAgree' /\ main'.at = "collect"
    BY <1>2, <2>1, <2>2, TurnTo
  <2>4. \A a \in Multi!Accounts : a < main.next /\ ~(a < 1)
    BY <1>1, <2>1, MultiAssumption DEF Multi!Accounts, MultiTyped
  <2>5. PhasesAgree'
    BY <1>1, <1>2, <2>1, <2>2, <2>3, <2>4 DEF PhasesAgree
  <2>. QED  BY <2>3, <2>5 DEF MultiInv, Multi!ExitZeroIsComplete, Multi!At
<1>. QED  BY <1>3, <1>4

\* The loop over what is left without a result.
LEMMA MultiCollects ==
  ASSUME MultiInv, Multi!Collect \/ Multi!Collected PROVE MultiInv'
<1>1. MultiTyped /\ FuturesAgree /\ PhasesAgree /\ Multi!ExitZeroIsComplete
  BY DEF MultiInv
<1>2. /\ main.at = "collect" /\ main.cancelled /\ UNCHANGED worker
      /\ \A b \in Multi!Accounts : worker[b].state # "queued"
  BY <1>1 DEF Multi!Collect, Multi!Collected, Multi!At, PhasesAgree
<1>3. CASE Multi!Collect
  <2> DEFINE a == main.next
  <2>1. main' = [main EXCEPT !.next = @ + 1]
    BY <1>3 DEF Multi!Collect
  <2>2. a \in Multi!Accounts
    BY <1>1, <1>3, MultiAssumption DEF Multi!Collect, MultiTyped, Multi!Accounts
  <2>3. /\ main'.at = main.at /\ main'.coop = main.coop /\ main'.cancelled = main.cancelled
        /\ main'.missing = main.missing /\ main'.code = main.code /\ main'.next = a + 1
    BY <1>1, <2>1 DEF MultiTyped
  <2>4. \A b \in Multi!Accounts : b < a + 1 => b < a \/ b = a
    BY <2>2 DEF Multi!Accounts
  <2>5. \/ report.result[a] # "none" /\ report' = report
        \/ /\ report.result[a] = "none"
           /\ \E r \in {"ok", "failed", "partial", "interrupted"} :
                 /\ report' = [report EXCEPT !.result[a] = r]
                 /\ r \in {"ok", "partial"} => worker[a].outcome = r
                 /\ r = "interrupted" /\ main.coop => worker[a].state = "cancelled"
    <3>1. /\ worker[a].outcome \in Multi!Outcomes
          /\ worker[a].state = "done" => worker[a].outcome # "none"
      BY <1>1, <2>2 DEF MultiTyped, FuturesAgree
    <3>. QED  BY <1>3, <3>1 DEF Multi!Collect, Multi!Store, Multi!Outcomes
  <2>6. FuturesAgree' /\ (\A b \in Multi!Accounts : b < a + 1 => report'.result[b] # "none")
        /\ report' \in [result : [Multi!Accounts -> Multi!Results], log : {"none", "ok", "failed"},
                        logged : [Multi!Accounts -> Multi!Results]]
        /\ report'.log = report.log
    <3>1. CASE report' = report /\ report.result[a] # "none"
      BY <1>1, <1>2, <2>3, <2>4, <3>1 DEF MultiTyped, FuturesAgree, PhasesAgree
    <3>2. ASSUME report.result[a] = "none",
                 NEW r \in {"ok", "failed", "partial", "interrupted"},
                 report' = [report EXCEPT !.result[a] = r],
                 r \in {"ok", "partial"} => worker[a].outcome = r,
                 r = "interrupted" /\ main.coop => worker[a].state = "cancelled"
          PROVE  /\ FuturesAgree'
                 /\ \A b \in Multi!Accounts : b < a + 1 => report'.result[b] # "none"
                 /\ report' \in [result : [Multi!Accounts -> Multi!Results],
                                 log : {"none", "ok", "failed"},
                                 logged : [Multi!Accounts -> Multi!Results]]
                 /\ report'.log = report.log
      <4>1. /\ report' \in [result : [Multi!Accounts -> Multi!Results],
                            log : {"none", "ok", "failed"},
                            logged : [Multi!Accounts -> Multi!Results]]
            /\ report'.log = report.log /\ FuturesAgree'
            /\ \A b \in Multi!Accounts :
                  report'.result[b] = IF b = a THEN r ELSE report.result[b]
        BY <1>2, <2>2, <2>3, <3>2, Stored
      <4>. QED  BY <1>1, <1>2, <2>4, <3>2, <4>1 DEF PhasesAgree
    <3>. QED  BY <2>5, <3>1, <3>2
  <2>7. MultiTyped'
    BY <1>1, <1>2, <2>1, <2>6 DEF MultiTyped
  <2>8. PhasesAgree'
    BY <1>1, <1>2, <2>3, <2>6 DEF PhasesAgree
  <2>9. Multi!ExitZeroIsComplete'
    BY <1>2, <2>3 DEF Multi!ExitZeroIsComplete, Multi!At
  <2>. QED  BY <2>6, <2>7, <2>8, <2>9 DEF MultiInv
<1>4. CASE Multi!Collected
  <2>1. /\ main' = [main EXCEPT !.at = "summarize", !.next = 1] /\ UNCHANGED report
        /\ main.next > Size
    BY <1>4 DEF Multi!Collected, Multi!Goto
  <2>2. /\ main' \in [at : {"summarize"}, next : Nat, coop : {main.coop}, missing : {main.missing},
                     slots : {main.slots}, presses : Nat, cancelled : BOOLEAN, code : {0, 1, 130}]
        /\ main'.next = 1 /\ main'.cancelled = main.cancelled
    BY <1>1, <2>1 DEF MultiTyped
  <2>3. MultiTyped' /\ FuturesAgree' /\ main'.at = "summarize"
    BY <1>2, <2>1, <2>2, TurnTo
  <2>4. \A a \in Multi!Accounts : a < main.next
    BY <1>1, <2>1, MultiAssumption DEF Multi!Accounts, MultiTyped
  <2>5. PhasesAgree'
    BY <1>1, <1>2, <2>1, <2>3, <2>4 DEF PhasesAgree
  <2>. QED  BY <2>3, <2>5 DEF MultiInv, Multi!ExitZeroIsComplete, Multi!At
<1>. QED  BY <1>3, <1>4

LEMMA MultiSums ==
  ASSUME MultiInv, Multi!Summarize PROVE MultiInv'
<1>1. MultiTyped /\ FuturesAgree /\ PhasesAgree
  BY DEF MultiInv
<1> DEFINE code == IF ~main.missing /\ Multi!Failures = {} THEN 0 ELSE 1
<1>2. /\ main.at = "summarize" /\ UNCHANGED <<worker, report>>
      /\ main' = [main EXCEPT !.at = "record", !.code = code]
  BY DEF Multi!Summarize, Multi!At
<1>3. code \in {0, 1} /\ (code = 0 => ~main.missing /\ Multi!Failures = {})
  OBVIOUS
<1> HIDE DEF code
<1>4. /\ main'.at = "record" /\ main'.code = code /\ main'.coop = main.coop
      /\ main'.missing = main.missing /\ main'.cancelled = main.cancelled
      /\ main' \in [at : {"submit", "gather", "cancel", "collect", "summarize", "record",
                          "failRecord", "exit"},
                    next : Nat, coop : BOOLEAN, missing : BOOLEAN,
                    slots : {Multi!Slots(c) : c \in Ceilings}, presses : Nat,
                    cancelled : BOOLEAN, code : {0, 1, 130}]
      /\ main'.next >= 1
  BY <1>1, <1>2, <1>3 DEF MultiTyped
<1>5. MultiTyped' /\ FuturesAgree'
  BY <1>1, <1>2, <1>4 DEF MultiTyped, FuturesAgree
<1>6. Multi!Failures' = Multi!Failures
  BY <1>2, <1>4 DEF Multi!Failures
<1>7. PhasesAgree' /\ Multi!ExitZeroIsComplete'
  BY <1>1, <1>2, <1>3, <1>4, <1>6 DEF PhasesAgree, Multi!ExitZeroIsComplete, Multi!At
<1>. QED  BY <1>5, <1>7 DEF MultiInv

\* What a record changes, if it is made at all.
LEMMA RecordKeeps ==
  ASSUME MultiInv, NEW status \in {"ok", "failed"}, Multi!Recorded(status),
         UNCHANGED worker, main'.coop = main.coop, main.cancelled => main'.cancelled
  PROVE  /\ report' \in [result : [Multi!Accounts -> Multi!Results], log : {"none", "ok", "failed"},
                         logged : [Multi!Accounts -> Multi!Results]]
         /\ report'.result = report.result
         /\ report' = report \/ (report'.log = status /\ report'.logged = report.result)
         /\ FuturesAgree'
<1>1. MultiTyped /\ FuturesAgree
  BY DEF MultiInv
<1>2. /\ report' \in [result : [Multi!Accounts -> Multi!Results], log : {"none", "ok", "failed"},
                      logged : [Multi!Accounts -> Multi!Results]]
      /\ report'.result = report.result
      /\ report' = report \/ (report'.log = status /\ report'.logged = report.result)
  <2>1. CASE report' = report
    BY <1>1, <2>1 DEF MultiTyped
  <2>2. CASE report' = [report EXCEPT !.log = status, !.logged = report.result]
    BY <1>1, <2>2 DEF MultiTyped
  <2>. QED  BY <2>1, <2>2 DEF Multi!Recorded
<1>3. FuturesAgree'
  <2>1. main'.coop = main.coop /\ (main.cancelled => main'.cancelled) /\ worker' = worker
    OBVIOUS
  <2>. QED  BY <1>1, <1>2, <2>1 DEF FuturesAgree
<1>. QED  BY <1>2, <1>3

\* The end: code 0 comes from a summary without failures, over a result for every account.
LEMMA MultiRecords ==
  ASSUME MultiInv, Multi!Record \/ Multi!FailRecord PROVE MultiInv'
<1>1. MultiTyped /\ FuturesAgree /\ PhasesAgree
  BY DEF MultiInv
<1>2. /\ main.at \in {"record", "failRecord"} /\ UNCHANGED worker
      /\ main' = [main EXCEPT !.at = "exit", !.next = 1]
  BY DEF Multi!Record, Multi!FailRecord, Multi!At, Multi!Goto
<1>3. /\ main'.at = "exit" /\ main'.code = main.code /\ main'.coop = main.coop
      /\ main'.missing = main.missing /\ main'.cancelled = main.cancelled
      /\ main' \in [at : {"submit", "gather", "cancel", "collect", "summarize", "record",
                          "failRecord", "exit"},
                    next : Nat, coop : BOOLEAN, missing : BOOLEAN,
                    slots : {Multi!Slots(c) : c \in Ceilings}, presses : Nat,
                    cancelled : BOOLEAN, code : {0, 1, 130}]
      /\ main'.next >= 1
  <2>1. main' = [at |-> "exit", next |-> 1, coop |-> main.coop, missing |-> main.missing,
                 slots |-> main.slots, presses |-> main.presses, cancelled |-> main.cancelled,
                 code |-> main.code]
    BY <1>1, <1>2 DEF MultiTyped
  <2>. QED  BY <1>1, <2>1 DEF MultiTyped
<1>4. PICK status \in {"ok", "failed"} :
        Multi!Recorded(status) /\ (main.at = "record" /\ main.code = 0 => status = "ok")
  BY DEF Multi!Record, Multi!FailRecord, Multi!Status, Multi!At
<1>5. /\ report' \in [result : [Multi!Accounts -> Multi!Results], log : {"none", "ok", "failed"},
                      logged : [Multi!Accounts -> Multi!Results]]
      /\ report'.result = report.result
      /\ report' = report \/ (report'.log = status /\ report'.logged = report.result)
      /\ FuturesAgree'
  BY <1>2, <1>3, <1>4, RecordKeeps
<1>6. MultiTyped' /\ PhasesAgree'
  BY <1>1, <1>2, <1>3, <1>5 DEF MultiTyped, PhasesAgree
<1>7. Multi!ExitZeroIsComplete'
  <2>1. SUFFICES ASSUME main.code = 0 PROVE Multi!ExitZeroIsComplete'
    BY <1>3 DEF Multi!ExitZeroIsComplete, Multi!At
  <2>2. main.at = "record" /\ ~main.missing /\ Multi!Failures = {}
        /\ report.log = "none" /\ \A a \in Multi!Accounts : report.result[a] # "none"
    BY <1>1, <1>2, <2>1 DEF PhasesAgree
  <2>3. report'.log # "none" =>
           report'.log = "ok" /\ \A a \in Multi!Accounts : report'.logged[a] # "none"
    BY <1>4, <1>5, <2>1, <2>2
  <2>4. ASSUME NEW a \in Multi!Accounts
        PROVE  \/ worker[a].outcome = "ok"
               \/ /\ main.coop /\ main.cancelled
                  /\ worker[a].outcome = "partial" \/ worker[a].state = "cancelled"
    <3>1. report.result[a] \in {"ok", "partial", "interrupted", "failed"}
      BY <1>1, <2>2 DEF MultiTyped, Multi!Results
    <3>2. report.result[a] # "failed" /\ (report.result[a] = "interrupted" => main.coop)
      BY <2>2 DEF Multi!Failures
    <3>. QED  BY <1>1, <3>1, <3>2 DEF FuturesAgree
  <2>5. \A a \in Multi!Accounts : worker'[a] = worker[a]
    BY <1>2
  <2>. QED  BY <1>3, <2>2, <2>3, <2>4, <2>5 DEF Multi!ExitZeroIsComplete, Multi!At
<1>. QED  BY <1>5, <1>6, <1>7 DEF MultiInv

\* Ctrl+C ends the command with a code of its own or with the one it had, except while it gathers.
LEMMA MultiPressed ==
  ASSUME MultiInv, Multi!Press PROVE MultiInv'
<1>1. MultiTyped /\ FuturesAgree /\ PhasesAgree
  BY DEF MultiInv
<1> DEFINE Stops(at, code) ==
             /\ main' = [main EXCEPT !.at = at, !.next = 1, !.code = code, !.presses = @ + 1,
                                     !.cancelled = TRUE]
             /\ at = "cancel" => main.at = "gather" /\ UNCHANGED report
             /\ at = "failRecord" =>
                   /\ code = 130 /\ main.at # "exit"
                   /\ report' = report \/ report' = [report EXCEPT !.result = Multi!NoResults]
             /\ at = "exit" =>
                   /\ code # 0
                   /\ \E status \in {"ok", "failed"} : Multi!Recorded(status)
<1>2. \E at \in {"cancel", "failRecord", "exit"}, code \in {0, 1, 130} : Stops(at, code)
  <2>1. CASE main.at = "gather" /\ Multi!Interrupted("cancel", 0) /\ UNCHANGED report
    <3>1. Stops("cancel", 0)
      BY <2>1 DEF Multi!Interrupted
    <3>. QED  BY <3>1
  <2>2. CASE /\ main.at \in {"submit", "cancel", "collect", "summarize"}
             /\ Multi!Interrupted("failRecord", 130)
             /\ report' = report \/ report' = [report EXCEPT !.result = Multi!NoResults]
    <3>1. Stops("failRecord", 130)
      BY <2>2 DEF Multi!Interrupted
    <3>. QED  BY <3>1
  <2>3. CASE main.at = "record" /\ Multi!Interrupted("exit", 130) /\ Multi!Recorded(Multi!Status)
    <3>1. Multi!Status \in {"ok", "failed"}
      BY DEF Multi!Status
    <3>2. Stops("exit", 130)
      BY <2>3, <3>1 DEF Multi!Interrupted
    <3>. QED  BY <3>2
  <2>4. CASE /\ main.at = "failRecord" /\ Multi!Interrupted("exit", main.code)
             /\ Multi!Recorded("failed")
    <3>1. main.code \in {0, 1, 130} /\ main.code # 0
      BY <1>1, <2>4 DEF MultiTyped, PhasesAgree
    <3>2. Stops("exit", main.code)
      BY <2>4, <3>1 DEF Multi!Interrupted
    <3>. QED  BY <3>1, <3>2
  <2>. QED  BY <2>1, <2>2, <2>3, <2>4 DEF Multi!Press, Multi!At
<1>3. UNCHANGED worker
  BY DEF Multi!Press
<1>4. PICK at \in {"cancel", "failRecord", "exit"}, code \in {0, 1, 130} : Stops(at, code)
  BY <1>2
<1>5. /\ main' \in [at : {at}, next : Nat, coop : {main.coop}, missing : {main.missing},
                   slots : {main.slots}, presses : Nat, cancelled : BOOLEAN, code : {0, 1, 130}]
      /\ main'.next = 1 /\ main'.cancelled = TRUE /\ main'.code = code /\ main'.at = at
      /\ main'.coop = main.coop
  <2>1. /\ DOMAIN main = {"at", "next", "coop", "missing", "slots", "presses", "cancelled", "code"}
        /\ main.presses + 1 \in Nat
    BY <1>1 DEF MultiTyped
  <2>2. main' = [main EXCEPT !.at = at, !.next = 1, !.code = code, !.presses = main.presses + 1,
                             !.cancelled = TRUE]
    BY <1>4
  <2>3. main' = [at |-> at, next |-> 1, coop |-> main.coop, missing |-> main.missing,
                 slots |-> main.slots, presses |-> main.presses + 1, cancelled |-> TRUE,
                 code |-> code]
    BY <1>1, <2>1, <2>2 DEF MultiTyped
  <2>. QED  BY <2>1, <2>3
<1>6. CASE at = "exit"
  <2>1. PICK status \in {"ok", "failed"} : Multi!Recorded(status)
    BY <1>4, <1>6
  <2>2. /\ report' \in [result : [Multi!Accounts -> Multi!Results], log : {"none", "ok", "failed"},
                        logged : [Multi!Accounts -> Multi!Results]]
        /\ FuturesAgree'
    BY <1>3, <1>5, <2>1, RecordKeeps
  <2>3. MultiTyped'
    BY <1>1, <1>3, <1>5, <1>6, <2>2 DEF MultiTyped
  <2>. QED  BY <1>4, <1>5, <1>6, <2>2, <2>3
            DEF MultiInv, PhasesAgree, Multi!ExitZeroIsComplete, Multi!At
<1>7. CASE at \in {"cancel", "failRecord"}
  <2>1. MultiTyped' /\ FuturesAgree'
    BY <1>3, <1>4, <1>5, <1>7, TurnTo
  <2>2. report'.log = report.log /\ (at = "cancel" => report' = report)
    BY <1>1, <1>4, <1>7 DEF MultiTyped
  <2>3. \A a \in Multi!Accounts : ~(a < 1)
    BY DEF Multi!Accounts
  <2>4. PhasesAgree'
    BY <1>1, <1>3, <1>4, <1>5, <1>7, <2>2, <2>3 DEF PhasesAgree
  <2>. QED  BY <1>5, <1>7, <2>1, <2>4 DEF MultiInv, Multi!ExitZeroIsComplete, Multi!At
<1>. QED  BY <1>6, <1>7

LEMMA MultiSteps == ASSUME MultiInvariant, [Next]_vars PROVE MultiInvariant'
<1>. SUFFICES ASSUME part' = "multi" PROVE MultiInv'
  BY DEF MultiInvariant
<1>1. part = "multi" /\ MultiInv
  BY DEF MultiInvariant, Next, vars
<1>2. CASE Multi!MainStep
  BY <1>1, <1>2, MultiSubmits, MultiGathers, MultiCancels, MultiCollects, MultiSums, MultiRecords
  DEF Multi!MainStep
<1>3. CASE Next
  <2>1. Multi!MainStep \/ Multi!PoolStep \/ Multi!Press
    BY <1>1, <1>3 DEF Next, ClientStep, MainStep, PoolStep, WriterStep
  <2>. QED  BY <1>1, <1>2, <2>1, PoolSteps, MultiPressed
<1>4. CASE UNCHANGED vars
  BY <1>1, <1>4
  DEF vars, multiVars, MultiInv, MultiTyped, FuturesAgree, PhasesAgree,
      Multi!ExitZeroIsComplete, Multi!At, Multi!Failures, Multi!Accounts
<1>. QED  BY <1>3, <1>4

LEMMA MultiAlways == Spec => []MultiInvariant
<1>1. Init => MultiInvariant
  BY MultiInit
<1>2. MultiInvariant /\ [Next]_vars => MultiInvariant'
  BY MultiSteps
<1>. QED  BY <1>1, <1>2, PTL DEF Spec

\* For any number of accounts and threads and whenever Ctrl+C is pressed: what a worker of a
\* routine that polls the flag has done is reported as such, and only what never began is
\* reported as interrupted (cooperative_wait).
THEOREM WorkIsReported == Spec => []NothingDoneIsLost
<1>1. MultiInvariant => NothingDoneIsLost
  BY DEF MultiInvariant, MultiInv, FuturesAgree, NothingDoneIsLost, Multi!NothingDoneIsLost
<1>. QED  BY <1>1, MultiAlways, PTL

\* Once an account is reported as interrupted, nothing is left that would still begin.
THEOREM NothingBeginsLater == Spec => []StoppedMeansStopped
<1>1. MultiInvariant => StoppedMeansStopped
  BY DEF MultiInvariant, MultiInv, FuturesAgree, StoppedMeansStopped, Multi!StoppedMeansStopped,
         Multi!In
<1>. QED  BY <1>1, MultiAlways, PTL

\* Exit code 0, and a record "ok", are never given for a run that left an account out or failed
\* one, whenever Ctrl+C comes (cmd_multi).
THEOREM ZeroIsComplete == Spec => []ExitZeroIsComplete
<1>1. MultiInvariant => ExitZeroIsComplete
  BY DEF MultiInvariant, MultiInv, ExitZeroIsComplete
<1>. QED  BY <1>1, MultiAlways, PTL

\* Where accounts can be while they are submitted and waited for.
Pooled ==
    /\ main.at = "submit" =>
          \A a \in Multi!Accounts : a < main.next => worker[a].state # "none"
    /\ main.at \in {"gather", "cancel", "collect"} =>
          \A a \in Multi!Accounts : worker[a].state # "none"
    /\ main.at \in {"submit", "gather"} =>
          \A a \in Multi!Accounts : worker[a].state # "cancelled"

PooledInvariant == part = "multi" => Pooled

LEMMA PooledByPool == ASSUME MultiInv, Pooled, Multi!PoolStep PROVE Pooled'
<1>1. PICK a \in Multi!Accounts, state \in {"running", "done"}, outcome \in Multi!Outcomes :
        /\ worker' = [worker EXCEPT ![a] = [state |-> state, outcome |-> outcome]]
        /\ main' = main
  BY DEF Multi!PoolStep, Multi!Start, Multi!End, Multi!Becomes, Multi!Outcomes
<1>2. \A b \in Multi!Accounts :
         worker'[b].state = IF b = a THEN state ELSE worker[b].state
  BY <1>1 DEF MultiInv, MultiTyped
<1>. QED  BY <1>1, <1>2 DEF Pooled

LEMMA PooledByMain == ASSUME MultiInv, Pooled, Multi!MainStep \/ Multi!Press PROVE Pooled'
<1>1. MultiTyped /\ main.next \in Nat
  BY DEF MultiInv, MultiTyped
<1>2. CASE Multi!Submit
  <2>1. /\ main'.at = "submit" /\ main'.next = main.next + 1 /\ main.at = "submit"
        /\ worker' = [worker EXCEPT ![main.next] = [state |-> "queued", outcome |-> "none"]]
    BY <1>1, <1>2 DEF Multi!Submit, Multi!At, Multi!Becomes, MultiTyped
  <2>2. \A b \in Multi!Accounts :
           worker'[b].state = IF b = main.next THEN "queued" ELSE worker[b].state
    BY <1>1, <2>1 DEF MultiTyped
  <2>3. \A b \in Multi!Accounts : b < main.next + 1 /\ b # main.next => b < main.next
    BY <1>1 DEF Multi!Accounts
  <2>. QED  BY <2>1, <2>2, <2>3 DEF Pooled
<1>3. CASE Multi!Submitted
  <2>1. /\ main.at = "submit" /\ main.next > Size /\ worker' = worker /\ main'.at = "gather"
    BY <1>1, <1>3 DEF Multi!Submitted, Multi!At, Multi!Goto, MultiTyped
  <2>2. \A a \in Multi!Accounts : a < main.next
    BY <1>1, <2>1, MultiAssumption DEF Multi!Accounts
  <2>. QED  BY <2>1, <2>2 DEF Pooled
<1>4. CASE Multi!Cancel
  <2>1. /\ main.at = "cancel" /\ main'.at = "cancel"
        /\ \/ worker' = worker
           \/ worker' = [worker EXCEPT ![main.next] = [state |-> "cancelled", outcome |-> "none"]]
    BY <1>1, <1>4 DEF Multi!Cancel, Multi!At, Multi!Becomes, MultiTyped
  <2>2. \A b \in Multi!Accounts : worker'[b].state \in {worker[b].state, "cancelled"}
    BY <1>1, <2>1 DEF MultiTyped
  <2>. QED  BY <2>1, <2>2 DEF Pooled
<1>5. CASE \/ Multi!Gathered \/ Multi!Cancelled \/ Multi!Collect \/ Multi!Collected
           \/ Multi!Summarize \/ Multi!Record \/ Multi!FailRecord
           \/ \E a \in Multi!Accounts : Multi!Gather(a) \/ Multi!GatherRaises(a)
  <2>1. /\ worker' = worker
        /\ \/ main' = main
           \/ main'.at \in {"summarize", "record", "failRecord", "exit"}
           \/ main.at \in {"cancel", "collect"} /\ main'.at = "collect"
    <3>. DEFINE Goes(phase) == worker' = worker /\ Multi!Goto(phase)
    <3>0. ASSUME NEW phase, Multi!Goto(phase) PROVE main'.at = phase
      BY <1>1, <3>0 DEF Multi!Goto, MultiTyped
    <3>1. CASE Multi!Gathered \/ Multi!Cancelled \/ Multi!Collected \/ Multi!Summarize
      <4>1. CASE Multi!Gathered \/ Multi!Collected
        <5>1. Goes("summarize")
          BY <4>1, Zenon DEF Multi!Gathered, Multi!Collected
        <5>. QED  BY <3>0, <5>1
      <4>2. CASE Multi!Cancelled
        <5>1. Goes("collect") /\ main.at = "cancel"
          BY <4>2, Zenon DEF Multi!Cancelled, Multi!At
        <5>. QED  BY <3>0, <5>1
      <4>3. CASE Multi!Summarize
        BY <1>1, <4>3 DEF Multi!Summarize, MultiTyped
      <4>. QED  BY <3>1, <4>1, <4>2, <4>3
    <3>2. CASE Multi!Record \/ Multi!FailRecord
      <4>1. Goes("exit")
        BY <3>2, Zenon DEF Multi!Record, Multi!FailRecord
      <4>. QED  BY <3>0, <4>1
    <3>3. CASE Multi!Collect
      <4>1. /\ worker' = worker /\ main.at = "collect"
            /\ main' = [main EXCEPT !.next = @ + 1]
        BY <3>3, Zenon DEF Multi!Collect, Multi!At
      <4>. QED  BY <1>1, <4>1 DEF MultiTyped
    <3>4. ASSUME NEW a \in Multi!Accounts, Multi!Gather(a) \/ Multi!GatherRaises(a)
          PROVE  worker' = worker /\ (main' = main \/ main'.at = "failRecord")
      BY <1>1, <3>4 DEF Multi!Gather, Multi!GatherRaises, MultiTyped
    <3>. QED  BY <1>5, <3>1, <3>2, <3>3, <3>4
  <2>. QED  BY <2>1 DEF Pooled
<1>6. CASE Multi!Press
  <2>1. /\ worker' = worker
        /\ \/ main.at = "gather" /\ main'.at = "cancel"
           \/ main'.at \in {"failRecord", "exit"}
    <3>1. ASSUME NEW phase, NEW code, Multi!Interrupted(phase, code)
          PROVE  main'.at = phase
      BY <1>1, <3>1 DEF Multi!Interrupted, MultiTyped
    <3>2. /\ worker' = worker
          /\ \/ main.at = "gather" /\ Multi!Interrupted("cancel", 0)
             \/ Multi!Interrupted("failRecord", 130)
             \/ \E code \in {130, main.code} : Multi!Interrupted("exit", code)
      BY <1>6 DEF Multi!Press, Multi!At
    <3>. QED  BY <3>1, <3>2
  <2>. QED  BY <2>1 DEF Pooled
<1>. QED  BY <1>2, <1>3, <1>4, <1>5, <1>6 DEF Multi!MainStep

\* Whoever the main thread of `multi` waits for is in the pool or done, in whatever phase
\* Ctrl+C finds it: the safety half of MultiEnds.
THEOREM NobodyIsForgotten == Spec => []WaitsForThePool
<1>1. Init => PooledInvariant
  <2>. SUFFICES ASSUME Init, part = "multi" PROVE Pooled
    BY DEF PooledInvariant
  <2>1. /\ main.at = "submit" /\ main.next = 1
        /\ worker = [a \in Multi!Accounts |-> [state |-> "none", outcome |-> "none"]]
    BY DEF Init, Multi!Init
  <2>2. \A a \in Multi!Accounts : ~(a < 1)
    BY MultiAssumption DEF Multi!Accounts
  <2>. QED  BY <2>1, <2>2 DEF Pooled
<1>2. MultiInvariant /\ PooledInvariant /\ [Next]_vars => PooledInvariant'
  <2>. SUFFICES ASSUME MultiInvariant, PooledInvariant, [Next]_vars, part' = "multi"
                PROVE  Pooled'
    BY DEF PooledInvariant
  <2>1. part = "multi" /\ MultiInv /\ Pooled
    BY DEF MultiInvariant, PooledInvariant, Next, vars
  <2>2. CASE UNCHANGED vars
    BY <2>1, <2>2 DEF vars, multiVars, Pooled, Multi!Accounts
  <2>3. CASE Next
    <3>1. Multi!MainStep \/ Multi!PoolStep \/ Multi!Press
      BY <2>1, <2>3 DEF Next, ClientStep, MainStep, PoolStep, WriterStep
    <3>. QED  BY <2>1, <3>1, PooledByPool, PooledByMain
  <2>. QED  BY <2>2, <2>3
<1>3. MultiInvariant /\ PooledInvariant => WaitsForThePool
  BY DEF MultiInvariant, MultiInv, MultiTyped, PhasesAgree, PooledInvariant, Pooled,
         WaitsForThePool, Multi!WaitsForThePool, Multi!At
<1>. QED  BY <1>1, <1>2, <1>3, MultiAlways, PTL DEF Spec

-------------------------------------------------------------------------------
(* The reload of the page *)

\* A reload leaves its time behind in storage; so the next one is a cooldown later, and any
\* number of them as many cooldowns.
BudgetInv ==
    /\ page \in [now : Int, mishaps : Int, reloads : Seq(Int)]
    /\ tab \in [form : {"absent", "broken", "kept"}, last : Int, window : Int, count : Int]
    /\ page.reloads # <<>> => /\ tab.form = "kept" /\ tab.window <= page.now
                              /\ tab.last = page.reloads[Len(page.reloads)] /\ tab.last <= page.now
    /\ \A i, j \in 1..Len(page.reloads) :
          i < j => page.reloads[j] - page.reloads[i] >= (j - i) * Cooldown

BudgetInvariant == part = "page" => BudgetInv

LEMMA BudgetInit == Init => BudgetInvariant
<1>. SUFFICES ASSUME Init, part = "page" PROVE BudgetInv
  BY DEF BudgetInvariant
<1>1. Page!Init
  BY DEF Init
<1>2. page = [now |-> Window, mishaps |-> 0, reloads |-> <<>>]
  BY <1>1 DEF Page!Init
<1>3. tab = [form |-> "absent", last |-> 0, window |-> 0, count |-> 0]
  BY <1>1 DEF Page!Init, Page!Default
<1>. QED  BY <1>2, <1>3, PageAssumption DEF BudgetInv

\* Time passes, or the page is used: what was counted stays.
LEMMA BudgetKept ==
  ASSUME BudgetInv, tab' = tab, page'.reloads = page.reloads, page'.now >= page.now,
         page' \in [now : Int, mishaps : Int, reloads : Seq(Int)]
  PROVE  BudgetInv'
<1>1. /\ page.now \in Int /\ page'.now \in Int /\ tab.window \in Int /\ tab.last \in Int
      /\ tab' \in [form : {"absent", "broken", "kept"}, last : Int, window : Int, count : Int]
  BY DEF BudgetInv
<1>2. page'.reloads # <<>> =>
          /\ tab'.form = "kept" /\ tab'.window <= page'.now
          /\ tab'.last = page'.reloads[Len(page'.reloads)] /\ tab'.last <= page'.now
  <2>1. page.reloads # <<>> => tab.form = "kept" /\ tab.window <= page.now
                               /\ tab.last = page.reloads[Len(page.reloads)] /\ tab.last <= page.now
    BY DEF BudgetInv
  <2>. QED  BY <1>1, <2>1
<1>3. \A i, j \in 1..Len(page'.reloads) :
          i < j => page'.reloads[j] - page'.reloads[i] >= (j - i) * Cooldown
  BY Zenon DEF BudgetInv
<1>. QED  BY <1>1, <1>2, <1>3 DEF BudgetInv

LEMMA BudgetTick ==
  ASSUME BudgetInv, Page!Tick PROVE BudgetInv'
<1>1. page \in [now : Int, mishaps : Int, reloads : Seq(Int)]
  BY DEF BudgetInv
<1>2. page' = [page EXCEPT !.now = page.now + 1] /\ tab' = tab
  BY DEF Page!Tick
<1>3. page'.reloads = page.reloads /\ page'.now = page.now + 1
  BY <1>1, <1>2
<1>4. page' \in [now : Int, mishaps : Int, reloads : Seq(Int)]
  BY <1>1, <1>2
<1>. QED  BY <1>1, <1>2, <1>3, <1>4, BudgetKept

LEMMA BudgetMishap ==
  ASSUME BudgetInv, Page!Mishap PROVE BudgetInv'
<1>1. PICK back \in {0, Cooldown}, form \in {tab.form, "absent", "broken"} :
        /\ page' = [now |-> page.now - back, mishaps |-> page.mishaps + 1, reloads |-> <<>>]
        /\ tab' = [tab EXCEPT !.form = form]
  BY DEF Page!Mishap
<1>2. page' \in [now : Int, mishaps : Int, reloads : Seq(Int)] /\ page'.reloads = <<>>
  BY <1>1, PageAssumption DEF BudgetInv
<1>3. tab' \in [form : {"absent", "broken", "kept"}, last : Int, window : Int, count : Int]
  BY <1>1 DEF BudgetInv
<1>. QED  BY <1>2, <1>3 DEF BudgetInv

\* What is kept of an earlier reload is sound as long as nothing happens to it.
LEMMA StillSane ==
  ASSUME BudgetInv, page.reloads # <<>> PROVE Page!Sane
BY DEF BudgetInv, Page!Sane

LEMMA BudgetSuppress ==
  ASSUME BudgetInv, Page!Suppress PROVE BudgetInv'
<1>1. page' = page /\ tab' \in {tab, Page!Default}
  BY DEF Page!Suppress, Page!Repaired
<1>2. page.reloads # <<>> => tab' = tab
  BY StillSane DEF Page!Suppress, Page!Repaired
<1>3. tab' \in [form : {"absent", "broken", "kept"}, last : Int, window : Int, count : Int]
  BY <1>1 DEF BudgetInv, Page!Default
<1>. QED  BY <1>1, <1>2, <1>3 DEF BudgetInv

\* One more cooldown.
LEMMA OneMore ==
  ASSUME NEW a \in Int, NEW b \in Int, NEW c \in Int, NEW n \in Int, NEW i \in Int,
         b - a >= (n - i) * Cooldown, c - b >= Cooldown
  PROVE  c - a >= (n + 1 - i) * Cooldown
BY PageAssumption

LEMMA BudgetReload ==
  ASSUME BudgetInv, Page!Reload PROVE BudgetInv'
<1> DEFINE old == page.reloads
           n == Len(page.reloads)
<1>0. page \in [now : Int, mishaps : Int, reloads : Seq(Int)]
  BY DEF BudgetInv
<1>1. old \in Seq(Int) /\ n \in Nat /\ page.now \in Int /\ \A i \in 1..n : old[i] \in Int
  BY <1>0
<1>2. page' = [page EXCEPT !.reloads = Append(old, page.now)]
  BY DEF Page!Reload, Page!Noted
<1>3. page'.reloads = Append(old, page.now) /\ page'.now = page.now
  BY <1>0, <1>2
<1>4. page' \in [now : Int, mishaps : Int, reloads : Seq(Int)]
  <2>1. Append(old, page.now) \in Seq(Int)
    BY <1>1
  <2>. QED  BY <1>0, <1>2, <2>1
<1>5. /\ Len(page'.reloads) = n + 1
      /\ page'.reloads[n + 1] = page.now
      /\ \A i \in 1..n : page'.reloads[i] = old[i]
  BY <1>1, <1>3
<1>6. Page!Current \in [form : {"absent", "broken", "kept"}, last : Int, window : Int, count : Int]
  BY DEF BudgetInv, Page!Current, Page!Default
<1>7. /\ tab'.form = "kept" /\ tab'.last = page.now
      /\ tab' \in [form : {"absent", "broken", "kept"}, last : Int, window : Int, count : Int]
      /\ tab'.window = page.now \/ tab'.window = Page!Current.window
  BY <1>1, <1>6 DEF Page!Reload, Page!Counted
<1>8. tab'.window <= page.now
  <2>1. Page!Current.last + Cooldown <= page.now
    BY <1>1, <1>6, PageAssumption DEF Page!Reload, Page!Due
  <2>2. Page!Current.window <= page.now
    <3>1. CASE Page!Sane
      BY <3>1 DEF Page!Current, Page!Sane
    <3>2. CASE ~Page!Sane
      <4>1. Page!Current.last = 0 /\ Page!Current.window = 0
        BY <3>2 DEF Page!Current, Page!Default
      <4>. QED  BY <1>1, <2>1, <4>1, PageAssumption
    <3>. QED  BY <3>1, <3>2
  <2>. QED  BY <1>1, <1>7, <2>2
<1>9. n > 0 => page.now - old[n] >= Cooldown
  <2>1. CASE n > 0
    <3>1. old # <<>>
      BY <1>1, <2>1
    <3>2. Page!Current = tab
      BY <3>1, StillSane DEF Page!Current
    <3>. QED  BY <3>1, <3>2 DEF BudgetInv, Page!Reload, Page!Due
  <2>. QED  BY <1>1, <2>1
<1>10. \A i, j \in 1..n : i < j => old[j] - old[i] >= (j - i) * Cooldown
  BY DEF BudgetInv
<1> HIDE DEF old, n
<1>11. ASSUME NEW i \in 1..(n + 1), NEW j \in 1..(n + 1), i < j
       PROVE  page'.reloads[j] - page'.reloads[i] >= (j - i) * Cooldown
  <2>1. i \in 1..n /\ page'.reloads[i] = old[i] /\ old[i] \in Int
    <3>1. i \in 1..n
      BY <1>1, <1>11
    <3>. QED  BY <1>1, <1>5, <3>1
  <2>2. CASE j \in 1..n
    BY <1>5, <1>10, <1>11, <2>1, <2>2
  <2>3. CASE j = n + 1
    <3>1. page.now - old[n] >= Cooldown /\ n \in 1..n
      BY <1>1, <1>9, <2>1
    <3>2. old[n] \in Int
      BY <1>1, <3>1
    <3>3. old[n] - old[i] >= (n - i) * Cooldown
      <4>1. CASE i = n
        <5>1. old[n] - old[i] = 0 /\ n - i = 0
          BY <1>1, <2>1, <3>2, <4>1
        <5>. QED  BY <5>1, PageAssumption
      <4>2. CASE i # n
        <5>1. i < n
          BY <1>1, <2>1, <4>2
        <5>. QED  BY <1>10, <2>1, <3>1, <5>1
      <4>. QED  BY <4>1, <4>2
    <3>4. n \in Int /\ i \in Int
      BY <1>1
    <3>5. page.now - old[i] >= (n + 1 - i) * Cooldown
      BY <1>1, <2>1, <3>1, <3>2, <3>3, <3>4, OneMore
    <3>6. page'.reloads[j] = page.now /\ j - i = n + 1 - i
      BY <1>1, <1>5, <2>3, <3>4
    <3>. QED  BY <2>1, <3>5, <3>6
  <2>4. j \in 1..n \/ j = n + 1
    BY <1>1
  <2>. QED  BY <2>2, <2>3, <2>4
<1>12. \A i, j \in 1..Len(page'.reloads) :
          i < j => page'.reloads[j] - page'.reloads[i] >= (j - i) * Cooldown
  BY <1>5, <1>11
<1>13. /\ tab'.last = page'.reloads[Len(page'.reloads)]
       /\ tab'.last <= page'.now /\ tab'.window <= page'.now
  BY <1>1, <1>3, <1>5, <1>7, <1>8
<1>. QED  BY <1>4, <1>7, <1>12, <1>13 DEF BudgetInv

LEMMA BudgetSteps ==
  ASSUME BudgetInvariant, [Next]_vars PROVE BudgetInvariant'
<1>. SUFFICES ASSUME part' = "page" PROVE BudgetInv'
  BY DEF BudgetInvariant
<1>1. part = "page" /\ BudgetInv
  BY DEF BudgetInvariant, Next, vars
<1>2. CASE UNCHANGED <<page, tab>>
  BY <1>1, <1>2 DEF BudgetInv
<1>3. ASSUME NEW x \in Requests, NEW r \in Page!Responses, Page!Load(x, r) PROVE BudgetInv'
  BY <1>1, <1>3, BudgetSuppress, BudgetReload DEF Page!Load
<1>4. CASE Page!Next
  BY <1>1, <1>2, <1>3, <1>4, BudgetTick, BudgetMishap
  DEF Page!Next, Page!Navigate, Page!OpenApi, Page!OpenOther, Page!OtherWraps
<1>5. CASE Next
  BY <1>1, <1>4, <1>5 DEF Next, ClientStep, MainStep, PoolStep, WriterStep
<1>6. CASE UNCHANGED vars
  BY <1>2, <1>6 DEF vars, pageVars
<1>. QED  BY <1>5, <1>6

\* MaxReloads cooldowns are longer than the window.
LEMMA ManyCooldowns ==
  ASSUME NEW k \in Int, k >= MaxReloads PROVE k * Cooldown > Window
<1>1. Cooldown \in Nat /\ MaxReloads \in Nat /\ Window \in Int
  BY PageAssumption
<1>2. (k - MaxReloads) * Cooldown >= 0
  BY <1>1
<1>3. k * Cooldown = (k - MaxReloads) * Cooldown + MaxReloads * Cooldown
  BY <1>1
<1>. QED  BY <1>1, <1>2, <1>3, PageAssumption

\* Whatever answers the page hears and however often it is loaded, it reloads itself no
\* more than MaxReloads times in any Window and never twice within Cooldown, while its
\* storage is kept and the clock runs forward.
THEOREM ReloadsAreRare == Spec => []ReloadBudget
<1>1. BudgetInvariant => ReloadBudget
  <2>. SUFFICES ASSUME BudgetInv,
                       NEW i \in DOMAIN page.reloads, NEW j \in DOMAIN page.reloads
                PROVE  /\ i < j => page.reloads[j] - page.reloads[i] >= Cooldown
                       /\ i + MaxReloads <= j => page.reloads[j] - page.reloads[i] > Window
    BY DEF BudgetInvariant, ReloadBudget, Page!ReloadBudget
  <2>1. page.reloads \in Seq(Int)
    BY DEF BudgetInv
  <2>2. /\ i \in 1..Len(page.reloads) /\ j \in 1..Len(page.reloads)
        /\ page.reloads[i] \in Int /\ page.reloads[j] \in Int
    BY <2>1
  <2>3. i < j => page.reloads[j] - page.reloads[i] >= (j - i) * Cooldown
    BY <2>2 DEF BudgetInv
  <2>4. i < j => (j - i) * Cooldown >= Cooldown
    <3>1. Cooldown \in Nat
      BY PageAssumption
    <3>2. CASE i < j
      <4> DEFINE k == j - i - 1
      <4>1. k \in Nat /\ j - i = k + 1
        BY <2>2, <3>2
      <4> HIDE DEF k
      <4>2. k * Cooldown \in Nat /\ (k + 1) * Cooldown = k * Cooldown + Cooldown
        BY <3>1, <4>1
      <4>. QED  BY <3>1, <4>1, <4>2
    <3>. QED  BY <3>2
  <2>5. i + MaxReloads <= j => (j - i) * Cooldown > Window /\ i < j
    <3>1. CASE i + MaxReloads <= j
      <4>1. j - i \in Int /\ j - i >= MaxReloads /\ i < j
        BY <2>2, <3>1, PageAssumption
      <4>. QED  BY <4>1, ManyCooldowns
    <3>. QED  BY <3>1
  <2> DEFINE gap == page.reloads[j] - page.reloads[i]
             cools == (j - i) * Cooldown
  <2>6. cools \in Int /\ Window \in Int /\ Cooldown \in Int /\ gap \in Int
    BY <2>2, PageAssumption
  <2>7. /\ i < j => gap >= cools /\ cools >= Cooldown
        /\ i + MaxReloads <= j => cools > Window /\ i < j
    BY <2>3, <2>4, <2>5
  <2> HIDE DEF gap, cools
  <2>8. /\ i < j => gap >= Cooldown
        /\ i + MaxReloads <= j => gap > Window
    BY <2>6, <2>7
  <2>. QED  BY <2>8 DEF gap
<1>2. Init => BudgetInvariant
  BY BudgetInit
<1>3. BudgetInvariant /\ [Next]_vars => BudgetInvariant'
  BY BudgetSteps
<1>. QED  BY <1>1, <1>2, <1>3, PTL DEF Spec

-------------------------------------------------------------------------------
(* The wrapped requests *)

Wrappers == {"ours", "theirs"}

Objects == [opened : {"none", "api", "other"}, active : BOOLEAN, chain : Seq(Wrappers),
            listener : BOOLEAN]

OursAmong(chain) == \E i \in 1..Len(chain) : chain[i] = "ours"

\* No wrapper of ours wraps another of ours.
Apart(chain) == \A i \in 2..Len(chain) : "theirs" \in {chain[i - 1], chain[i]}

Seen(o) == /\ o.active <=> o.opened = "api"
           /\ o.opened = "api" => o.listener /\ OursAmong(o.chain)
           /\ Apart(o.chain)

SeenInvariant == part = "page" => xhr \in [Requests -> Objects] /\ \A x \in Requests : Seen(xhr[x])

\* A wrapper that is not ours, or that is put on top of no other of ours.
LEMMA Wrapped ==
  ASSUME NEW chain \in Seq(Wrappers), NEW w \in Wrappers, Apart(chain),
         w = "theirs" \/ ~(chain # <<>> /\ chain[Len(chain)] = "ours")
  PROVE  /\ Append(chain, w) \in Seq(Wrappers) /\ Apart(Append(chain, w))
         /\ w = "ours" \/ OursAmong(chain) => OursAmong(Append(chain, w))
<1> DEFINE n == Len(chain)
           longer == Append(chain, w)
<1>1. /\ longer \in Seq(Wrappers) /\ n \in Nat /\ Len(longer) = n + 1 /\ longer[n + 1] = w
      /\ \A i \in 1..n : longer[i] = chain[i] /\ chain[i] \in Wrappers
  OBVIOUS
<1>2. n > 0 /\ w # "theirs" => chain[n] = "theirs"
  <2>1. CASE n > 0 /\ w # "theirs"
    <3>1. chain # <<>> /\ n \in 1..n
      BY <1>1, <2>1
    <3>. QED  BY <1>1, <2>1, <3>1 DEF Wrappers
  <2>. QED  BY <2>1
<1> HIDE DEF n, longer
<1>3. ASSUME NEW i \in 2..(n + 1) PROVE "theirs" \in {longer[i - 1], longer[i]}
  <2>1. CASE i \in 2..n
    <3>1. i - 1 \in 1..n /\ i \in 1..n
      BY <1>1, <2>1
    <3>2. "theirs" \in {chain[i - 1], chain[i]}
      BY <2>1 DEF Apart, n
    <3>. QED  BY <1>1, <3>1, <3>2
  <2>2. CASE i = n + 1
    <3>1. i - 1 = n /\ n \in 1..n /\ n > 0
      BY <1>1, <2>2
    <3>. QED  BY <1>1, <1>2, <2>2, <3>1
  <2>. QED  BY <1>1, <2>1, <2>2
<1>4. Apart(longer)
  BY <1>1, <1>3 DEF Apart
<1>5. ASSUME w = "ours" \/ OursAmong(chain) PROVE OursAmong(longer)
  <2>1. CASE w = "ours"
    <3>1. n + 1 \in 1..(n + 1)
      BY <1>1
    <3>. QED  BY <1>1, <2>1, <3>1 DEF OursAmong
  <2>2. CASE OursAmong(chain)
    <3>1. PICK i \in 1..n : chain[i] = "ours"
      BY <2>2 DEF OursAmong, n
    <3>2. i \in 1..(n + 1)
      BY <1>1, <3>1
    <3>. QED  BY <1>1, <3>1, <3>2 DEF OursAmong
  <2>. QED  BY <1>5, <2>1, <2>2
<1>. QED  BY <1>1, <1>4, <1>5 DEF longer

LEMMA SeenInit == Init => SeenInvariant
<1>. SUFFICES ASSUME Init, part = "page"
              PROVE  xhr \in [Requests -> Objects] /\ \A x \in Requests : Seen(xhr[x])
  BY DEF SeenInvariant
<1>1. xhr = [x \in Requests |-> Page!Fresh]
  BY DEF Init, Page!Init
<1>2. Page!Fresh \in Objects
  BY DEF Page!Fresh, Objects, Wrappers
<1>3. Seen(Page!Fresh)
  BY DEF Page!Fresh, Seen, Apart
<1>. QED  BY <1>1, <1>2, <1>3

\* A step on one request object.
LEMMA OneObject ==
  ASSUME SeenInvariant, part' = part, part = "page",
         NEW x \in Requests, NEW o \in Objects, Seen(o), xhr' = [xhr EXCEPT ![x] = o]
  PROVE  SeenInvariant'
<1>1. xhr \in [Requests -> Objects] /\ \A y \in Requests : Seen(xhr[y])
  BY DEF SeenInvariant
<1>2. xhr' \in [Requests -> Objects]
  BY <1>1
<1>3. ASSUME NEW y \in Requests PROVE Seen(xhr'[y])
  BY <1>1
<1>4. \A y \in Requests : Seen(xhr[y])'
  BY <1>3 DEF Seen, Apart, OursAmong
<1>. QED  BY <1>2, <1>4 DEF SeenInvariant

LEMMA SeenApi ==
  ASSUME SeenInvariant, part' = part, part = "page", NEW x \in Requests, Page!OpenApi(x)
  PROVE  SeenInvariant'
<1> DEFINE chain == xhr[x].chain
           longer == IF Page!Ours(x) THEN chain ELSE Append(chain, "ours")
           o == [opened |-> "api", active |-> TRUE, listener |-> TRUE, chain |-> longer]
<1>1. xhr[x] \in Objects /\ Seen(xhr[x])
  BY DEF SeenInvariant
<1>2. chain \in Seq(Wrappers) /\ Apart(chain)
  BY <1>1 DEF Objects, Seen
<1>3. xhr' = [xhr EXCEPT ![x] = o]
  BY <1>1 DEF Page!OpenApi
<1>4. longer \in Seq(Wrappers) /\ Apart(longer) /\ OursAmong(longer)
  <2>1. CASE Page!Ours(x)
    <3>1. chain # <<>> /\ chain[Len(chain)] = "ours"
      BY <2>1 DEF Page!Ours
    <3>2. Len(chain) \in 1..Len(chain)
      BY <1>2, <3>1
    <3>. QED  BY <1>2, <2>1, <3>1, <3>2 DEF OursAmong
  <2>2. CASE ~Page!Ours(x)
    <3>1. ~(chain # <<>> /\ chain[Len(chain)] = "ours") /\ "ours" \in Wrappers
      BY <2>2 DEF Page!Ours, Wrappers
    <3>2. Append(chain, "ours") \in Seq(Wrappers) /\ Apart(Append(chain, "ours"))
          /\ OursAmong(Append(chain, "ours"))
      BY <1>2, <3>1, Wrapped
    <3>. QED  BY <2>2, <3>2
  <2>. QED  BY <2>1, <2>2
<1> HIDE DEF longer
<1>5. o \in Objects /\ Seen(o)
  BY <1>4 DEF Objects, Seen
<1>. QED  BY <1>3, <1>5, OneObject

LEMMA SeenOther ==
  ASSUME SeenInvariant, part' = part, part = "page", NEW x \in Requests, Page!OpenOther(x)
  PROVE  SeenInvariant'
<1> DEFINE shorter == IF Page!Ours(x) THEN <<>> ELSE xhr[x].chain
           o == [xhr[x] EXCEPT !.opened = "other", !.active = FALSE, !.chain = shorter]
<1>1. xhr \in [Requests -> Objects] /\ xhr[x] \in Objects /\ Seen(xhr[x])
  BY DEF SeenInvariant
<1>2. shorter \in Seq(Wrappers) /\ Apart(shorter)
  BY <1>1 DEF Objects, Seen, Apart
<1>3. xhr' = [xhr EXCEPT ![x] = o]
  BY <1>1 DEF Page!OpenOther
<1> HIDE DEF shorter
<1>4. o \in Objects /\ Seen(o)
  BY <1>1, <1>2 DEF Objects, Seen
<1>. QED  BY <1>3, <1>4, OneObject

LEMMA SeenTheirs ==
  ASSUME SeenInvariant, part' = part, part = "page", NEW x \in Requests, Page!OtherWraps(x)
  PROVE  SeenInvariant'
<1> DEFINE longer == Append(xhr[x].chain, "theirs")
           o == [xhr[x] EXCEPT !.chain = longer]
<1>1. xhr \in [Requests -> Objects] /\ xhr[x] \in Objects /\ Seen(xhr[x])
  BY DEF SeenInvariant
<1>2. xhr[x].chain \in Seq(Wrappers) /\ Apart(xhr[x].chain) /\ "theirs" \in Wrappers
  BY <1>1 DEF Objects, Seen, Wrappers
<1>3. /\ longer \in Seq(Wrappers) /\ Apart(longer)
      /\ OursAmong(xhr[x].chain) => OursAmong(longer)
  BY <1>2, Wrapped
<1>4. xhr' = [xhr EXCEPT ![x] = o]
  BY <1>1 DEF Page!OtherWraps
<1> HIDE DEF longer
<1>5. /\ o.opened = xhr[x].opened /\ o.active = xhr[x].active /\ o.listener = xhr[x].listener
      /\ o.chain = longer /\ o \in Objects
  BY <1>1, <1>3 DEF Objects
<1>6. Seen(o)
  BY <1>1, <1>3, <1>5, Zenon DEF Seen
<1>. QED  BY <1>4, <1>5, <1>6, OneObject

LEMMA SeenSteps ==
  ASSUME SeenInvariant, [Next]_vars PROVE SeenInvariant'
<1>. SUFFICES ASSUME part' = "page" PROVE SeenInvariant'
  BY DEF SeenInvariant
<1>1. part = "page" /\ part' = part
  BY DEF Next, vars
<1>2. CASE UNCHANGED xhr
  BY <1>1, <1>2 DEF SeenInvariant, Seen, Apart, OursAmong
<1>3. CASE Page!Navigate
  <2>1. xhr' = [x \in Requests |-> Page!Fresh]
    BY <1>3 DEF Page!Navigate
  <2>2. Page!Fresh \in Objects /\ Seen(Page!Fresh)
    BY DEF Page!Fresh, Objects, Wrappers, Seen, Apart
  <2>3. xhr' \in [Requests -> Objects] /\ \A x \in Requests : Seen(xhr'[x])
    BY <2>1, <2>2
  <2>4. \A x \in Requests : Seen(xhr[x])'
    BY <2>3 DEF Seen, Apart, OursAmong
  <2>. QED  BY <2>3, <2>4 DEF SeenInvariant
<1>4. CASE Page!Next
  BY <1>1, <1>2, <1>3, <1>4, SeenApi, SeenOther, SeenTheirs
  DEF Page!Next, Page!Tick, Page!Mishap, Page!Load
<1>5. CASE Next
  BY <1>1, <1>4, <1>5 DEF Next, ClientStep, MainStep, PoolStep, WriterStep
<1>6. CASE UNCHANGED vars
  BY <1>2, <1>6 DEF vars, pageVars
<1>. QED  BY <1>5, <1>6

\* For any number of request objects, opened any number of times for the API and for other
\* URLs and wrapped by whomever: the API's requests are seen, and nothing else is.
THEOREM RequestsAreSeen == Spec => []ApiRequestsAreSeen
<1>1. SeenInvariant => ApiRequestsAreSeen
  <2>. SUFFICES ASSUME SeenInvariant, part = "page" PROVE Page!ApiRequestsAreSeen
    BY DEF ApiRequestsAreSeen
  <2>1. ASSUME NEW x \in Requests
        PROVE  /\ xhr[x].active <=> xhr[x].opened = "api"
               /\ xhr[x].opened = "api" =>
                     xhr[x].listener /\ \E i \in DOMAIN xhr[x].chain : xhr[x].chain[i] = "ours"
               /\ \A i \in 2..Len(xhr[x].chain) : "theirs" \in {xhr[x].chain[i - 1], xhr[x].chain[i]}
    <3>1. Seen(xhr[x]) /\ xhr[x].chain \in Seq(Wrappers)
      BY DEF SeenInvariant, Objects
    <3>2. DOMAIN xhr[x].chain = 1..Len(xhr[x].chain)
      BY <3>1
    <3>. QED  BY <3>1, <3>2, Zenon DEF Seen, Apart, OursAmong
  <2>. QED  BY <2>1, Zenon DEF Page!ApiRequestsAreSeen
<1>2. Init => SeenInvariant
  BY SeenInit
<1>3. SeenInvariant /\ [Next]_vars => SeenInvariant'
  BY SeenSteps
<1>. QED  BY <1>1, <1>2, <1>3, PTL DEF Spec

-------------------------------------------------------------------------------
(* Types and bounds                                                             *)

LEMMA ClientTypes == Spec => []Client!ClientTypeOK
<1>1. Init => Client!ClientTypeOK
  BY ClientAssumption DEF Init, NoCall, Client!Init, Client!ClientTypeOK
<1>2. ASSUME Client!ClientTypeOK, [Next]_vars PROVE Client!ClientTypeOK'
  <2>1. CASE Client!Next
    BY <1>2, <2>1
    DEF Client!Next, Client!Transient, Client!Backoff, Client!Unauthorized, Client!Refused,
        Client!Fulfilled, Client!Unreadable, Client!Post, Client!Return, Client!ClientTypeOK
  <2>2. CASE UNCHANGED clientVars
    BY <1>2, <2>2 DEF clientVars, Client!ClientTypeOK
  <2>. QED
    BY <1>2, <2>1, <2>2 DEF Next, ClientStep, MainStep, PoolStep, WriterStep, vars
<1>. QED  BY <1>1, <1>2, PTL DEF Spec

-------------------------------------------------------------------------------
\* A writer that is about to try again has an attempt left.
StoreBound ==
  /\ Store!StoreTypeOK
  /\ \A t \in Writers : /\ thread[t].at = "idle" => thread[t].attempt = 0
                        /\ thread[t].at = "sleep" => thread[t].attempt < Attempts

StoreBounded == part = "store" => StoreBound

ThreadType == [at : {"idle", "lock", "open", "nap", "read", "write", "sleep"} \union Store!Ended,
               attempt : 0..Attempts, opens : 0..Opens, seen : SUBSET Writers, open : BOOLEAN]

StoreType == [value : SUBSET Writers, lock : Writers \union {Nobody}, lost : SUBSET Writers,
              others : 0..Others]

LEMMA StoreBoundInit == Init => StoreBounded
<1>. SUFFICES ASSUME Init, part = "store" PROVE StoreBound
  BY DEF StoreBounded
<1>1. Store!Init
  BY DEF Init
<1>2. 0 \in 0..Attempts /\ 0 \in 0..Opens /\ Others \in 0..Others
  BY StoreAssumption
<1>3. [at |-> "idle", attempt |-> 0, opens |-> 0, seen |-> {}, open |-> FALSE] \in ThreadType
  BY <1>2 DEF ThreadType
<1>4. store \in StoreType
  BY <1>1, <1>2 DEF Store!Init, StoreType
<1>5. Main \in live /\ live \subseteq Writers
  BY <1>1, StoreAssumption DEF Store!Init
<1>. QED  BY <1>1, <1>3, <1>4, <1>5
     DEF Store!Init, StoreBound, Store!StoreTypeOK, ThreadType, StoreType

\* A step of one writer keeps the bounds of all.
LEMMA OneBounded ==
  ASSUME StoreBound, NEW t \in Writers, NEW r \in ThreadType,
         thread' = [thread EXCEPT ![t] = r], store' \in StoreType,
         sigint' \in {"none", "pending", "delivered"}, live' = live,
         r.at # "idle", r.at = "sleep" => r.attempt < Attempts
  PROVE  StoreBound'
<1>1. thread \in [Writers -> ThreadType]
  BY DEF StoreBound, Store!StoreTypeOK, ThreadType
<1>2. thread' \in [Writers -> ThreadType]
  BY <1>1
<1>3. \A u \in Writers : thread'[u] = IF u = t THEN r ELSE thread[u]
  BY <1>1
<1>4. Store!StoreTypeOK'
  BY <1>2 DEF StoreBound, Store!StoreTypeOK, ThreadType, StoreType
<1>. QED  BY <1>3, <1>4 DEF StoreBound

LEMMA BoundedTypes ==
  ASSUME StoreBound, NEW t \in Writers
  PROVE  /\ thread \in [Writers -> ThreadType] /\ thread[t] \in ThreadType
         /\ store \in StoreType /\ sigint \in {"none", "pending", "delivered"}
         /\ Store!Unlocked(t) \in StoreType
         /\ Store!Written(t) \in SUBSET Writers
         /\ [Store!Unlocked(t) EXCEPT !.value = Store!Written(t)] \in StoreType
<1>1. /\ thread \in [Writers -> ThreadType]
      /\ store \in StoreType /\ sigint \in {"none", "pending", "delivered"}
  BY DEF StoreBound, Store!StoreTypeOK, ThreadType, StoreType
<1>2. thread[t] \in ThreadType
  BY <1>1
<1>3. Store!Unlocked(t) \in StoreType
  BY <1>1 DEF Store!Unlocked, StoreType
<1>4. Store!Written(t) \in SUBSET Writers
  BY <1>1, <1>2 DEF Store!Written, Store!Merged, StoreType, ThreadType
<1>5. [Store!Unlocked(t) EXCEPT !.value = Store!Written(t)] \in StoreType
  BY <1>3, <1>4 DEF StoreType
<1>. QED  BY <1>1, <1>2, <1>3, <1>4, <1>5

LEMMA BoundedLeave ==
  ASSUME StoreBound, NEW t \in Writers, NEW next \in Store!Ended \union {"sleep"}, NEW open \in BOOLEAN,
         next = "sleep" => thread[t].attempt < Attempts,
         store' \in StoreType, live' = live, Store!Leave(t, next, open)
  PROVE  StoreBound'
<1>1. /\ thread \in [Writers -> ThreadType] /\ thread[t] \in ThreadType
      /\ sigint \in {"none", "pending", "delivered"}
  BY BoundedTypes
<1>2. PICK at \in {next, "interrupted"} :
        /\ thread' = [thread EXCEPT ![t].at = at, ![t].open = open]
        /\ sigint' \in {sigint, "delivered"}
  BY DEF Store!Leave
<1> DEFINE r == [thread[t] EXCEPT !.at = at, !.open = open]
<1>3. at \in Store!Ended \union {"sleep"} /\ at # "idle"
  BY DEF Store!Ended
<1>4. r \in ThreadType /\ r.at = at /\ r.attempt = thread[t].attempt
  BY <1>1, <1>3 DEF ThreadType
<1>5. thread' = [thread EXCEPT ![t] = r]
  BY <1>1, <1>2
<1>6. at = "sleep" => next = "sleep"
  BY DEF Store!Ended
<1> HIDE DEF r
<1>. QED  BY <1>1, <1>2, <1>3, <1>4, <1>5, <1>6, OneBounded

LEMMA BoundedStep ==
  ASSUME StoreBound, NEW t \in Writers, Store!Step(t)
  PROVE  StoreBound'
<1>1. /\ thread \in [Writers -> ThreadType] /\ thread[t] \in ThreadType
      /\ store \in StoreType /\ sigint \in {"none", "pending", "delivered"}
      /\ Store!Unlocked(t) \in StoreType
      /\ [Store!Unlocked(t) EXCEPT !.value = Store!Written(t)] \in StoreType
      /\ thread[t].attempt \in 0..Attempts /\ thread[t].opens \in 0..Opens
      /\ Attempts \in Nat \ {0} /\ Opens \in Nat \ {0} /\ live' = live
  BY BoundedTypes, StoreAssumption DEF ThreadType, Store!Step
<1>2. CASE Store!Begin(t)
  <2> DEFINE r == [thread[t] EXCEPT !.at = "lock", !.attempt = @ + 1, !.opens = 0]
  <2>1. thread[t].attempt + 1 \in 0..Attempts /\ 0 \in 0..Opens
    BY <1>1, <1>2 DEF Store!Begin, StoreBound
  <2>2. r \in ThreadType /\ r.at = "lock"
    BY <1>1, <2>1 DEF ThreadType
  <2>3. thread' = [thread EXCEPT ![t] = r]
    BY <1>1, <1>2 DEF Store!Begin
  <2> HIDE DEF r
  <2>. QED  BY <1>1, <1>2, <2>2, <2>3, OneBounded DEF Store!Begin
<1>3. CASE Store!Acquire(t)
  <2> DEFINE r == [thread[t] EXCEPT !.at = IF thread[t].open THEN "read" ELSE "open"]
  <2>1. r \in ThreadType /\ r.at \in {"read", "open"}
    BY <1>1 DEF ThreadType
  <2>2. thread' = [thread EXCEPT ![t] = r]
    BY <1>1, <1>3 DEF Store!Acquire
  <2>3. store' \in StoreType
    BY <1>1, <1>3 DEF Store!Acquire, StoreType
  <2> HIDE DEF r
  <2>. QED  BY <1>1, <1>3, <2>1, <2>2, <2>3, OneBounded DEF Store!Acquire
<1>4. CASE Store!Connected(t)
  <2> DEFINE r == [thread[t] EXCEPT !.at = "read", !.open = TRUE]
  <2>1. r \in ThreadType /\ r.at = "read"
    BY <1>1 DEF ThreadType
  <2>2. thread' = [thread EXCEPT ![t] = r]
    BY <1>1, <1>4 DEF Store!Connected
  <2> HIDE DEF r
  <2>. QED  BY <1>1, <1>4, <2>1, <2>2, OneBounded DEF Store!Connected
<1>5. CASE Store!OpenFails(t)
  <2> DEFINE r == [thread[t] EXCEPT !.at = "nap", !.opens = @ + 1]
  <2>1. thread[t].opens + 1 \in 0..Opens
    BY <1>1, <1>5 DEF Store!OpenFails
  <2>2. r \in ThreadType /\ r.at = "nap"
    BY <1>1, <2>1 DEF ThreadType
  <2>3. thread' = [thread EXCEPT ![t] = r]
    BY <1>1, <1>5 DEF Store!OpenFails
  <2> HIDE DEF r
  <2>. QED  BY <1>1, <1>5, <2>2, <2>3, OneBounded DEF Store!OpenFails
<1>6. CASE Store!OpenAgain(t)
  <2> DEFINE r == [thread[t] EXCEPT !.at = "open"]
  <2>1. r \in ThreadType /\ r.at = "open"
    BY <1>1 DEF ThreadType
  <2>2. thread' = [thread EXCEPT ![t] = r]
    BY <1>1, <1>6 DEF Store!OpenAgain, Store!Moves
  <2> HIDE DEF r
  <2>. QED  BY <1>1, <1>6, <2>1, <2>2, OneBounded DEF Store!OpenAgain, Store!Moves
<1>7. CASE Store!Read(t)
  <2> DEFINE r == [thread[t] EXCEPT !.at = "write", !.seen = store.value]
  <2>1. r \in ThreadType /\ r.at = "write"
    BY <1>1 DEF ThreadType, StoreType
  <2>2. thread' = [thread EXCEPT ![t] = r]
    BY <1>1, <1>7 DEF Store!Read
  <2> HIDE DEF r
  <2>. QED  BY <1>1, <1>7, <2>1, <2>2, OneBounded DEF Store!Read
<1>8. CASE Store!Write(t)
  BY <1>1, <1>8, BoundedLeave DEF Store!Write, Store!Ended
<1>9. CASE Store!AttemptFails(t)
  <2>1. store' \in StoreType
    BY <1>1, <1>9 DEF Store!AttemptFails
  <2>2. PICK next \in Store!AfterFailure(t), open \in {thread[t].open, FALSE} :
          Store!Leave(t, next, open)
    BY <1>9 DEF Store!AttemptFails
  <2>3. open \in BOOLEAN
    BY <1>1 DEF ThreadType
  <2>4. /\ next \in Store!Ended \union {"sleep"}
        /\ next = "sleep" => thread[t].attempt < Attempts
    BY <2>2 DEF Store!AfterFailure, Store!Ended
  <2>. QED  BY <1>1, <2>1, <2>2, <2>3, <2>4, BoundedLeave
<1>. QED  BY <1>2, <1>3, <1>4, <1>5, <1>6, <1>7, <1>8, <1>9 DEF Store!Step

LEMMA BoundedOther ==
  ASSUME StoreBound, Store!Sigint \/ Store!Intrude \/ Store!Pool
  PROVE  StoreBound'
<1>1. Main \in Writers
  BY StoreAssumption
<1>2. /\ thread \in [Writers -> ThreadType] /\ thread[Main] \in ThreadType
      /\ store \in StoreType /\ sigint \in {"none", "pending", "delivered"}
      /\ Store!Unlocked(Main) \in StoreType
      /\ [Store!Unlocked(Main) EXCEPT !.value = Store!Written(Main)] \in StoreType
  BY <1>1, BoundedTypes
<1>3. CASE /\ UNCHANGED <<thread, live>> /\ store' \in StoreType
           /\ sigint' \in {"none", "pending", "delivered"}
  BY <1>3 DEF StoreBound, Store!StoreTypeOK, StoreType
<1>4. CASE Store!Sigint
  <2>1. CASE UNCHANGED thread
    BY <1>2, <1>3, <1>4, <2>1 DEF Store!Sigint
  <2>2. CASE ~UNCHANGED thread
    <3>1. PICK end \in {"interrupted", "panic"} : thread' = [thread EXCEPT ![Main].at = end]
      BY <1>4, <2>2 DEF Store!Sigint
    <3> DEFINE r == [thread[Main] EXCEPT !.at = end]
    <3>2. r \in ThreadType /\ r.at \in {"interrupted", "panic"}
      BY <1>2 DEF ThreadType, Store!Ended
    <3>3. thread' = [thread EXCEPT ![Main] = r]
      BY <1>2, <3>1
    <3>4. store' \in StoreType /\ sigint' \in {"none", "pending", "delivered"} /\ live' = live
      BY <1>2, <1>4, <2>2 DEF Store!Sigint
    <3> HIDE DEF r
    <3>. QED  BY <1>1, <3>2, <3>3, <3>4, OneBounded
  <2>. QED  BY <2>1, <2>2
<1>5. CASE Store!Intrude
  <2>1. PICK kept \in SUBSET store.value :
          store' = [store EXCEPT !.value = kept, !.lost = @ \union (store.value \ kept),
                                 !.others = @ - 1]
    BY <1>5 DEF Store!Intrude
  <2>2. store.others - 1 \in 0..Others
    <3>1. store.others \in 0..Others /\ store.others > 0
      BY <1>2, <1>5 DEF Store!Intrude, StoreType
    <3>. QED  BY <3>1, StoreAssumption
  <2>3. store' \in StoreType
    BY <1>2, <2>1, <2>2 DEF StoreType
  <2>. QED  BY <1>2, <1>3, <1>5, <2>3 DEF Store!Intrude
<1>6. CASE Store!Pool
  <2>1. UNCHANGED <<thread, store, sigint>> /\ Main \in live' /\ live' \subseteq Writers
    BY <1>6 DEF Store!Pool, Store!Starts, Store!Exits, StoreBound, Store!StoreTypeOK
  <2>. QED  BY <2>1 DEF StoreBound, Store!StoreTypeOK
<1>. QED  BY <1>4, <1>5, <1>6

LEMMA StoreTypes == Spec => []StoreBounded
<1>1. ASSUME StoreBounded, [Next]_vars PROVE StoreBounded'
  <2>. SUFFICES ASSUME part' = "store" PROVE StoreBound'
    BY DEF StoreBounded
  <2>1. part = "store" /\ StoreBound
    BY <1>1 DEF StoreBounded, Next, vars
  <2>2. CASE UNCHANGED storeVars
    BY <2>1, <2>2 DEF storeVars, StoreBound, Store!StoreTypeOK
  <2>3. CASE Next
    BY <2>1, <2>3, BoundedStep, BoundedOther DEF Next, ClientStep, MainStep, PoolStep, WriterStep
  <2>. QED  BY <1>1, <2>2, <2>3 DEF vars
<1>. QED  BY <1>1, StoreBoundInit, PTL DEF Spec

-------------------------------------------------------------------------------
\* HW_MAX_PARALLEL leaves the pool at least one thread.
LEMMA SomeSlots == ASSUME NEW c \in Ceilings PROVE Multi!Slots(c) \in Nat \ {0}
<1> DEFINE most == Multi!Max({Size, 1})
<1>1. Size \in Nat /\ c \in Nat
  BY MultiAssumption
<1>2. most \in Nat \ {0}
  <2>1. \E m \in {Size, 1} : \A y \in {Size, 1} : m >= y
    <3>1. CASE Size >= 1
      BY <1>1, <3>1
    <3>2. CASE ~(Size >= 1)
      BY <1>1, <3>2
    <3>. QED  BY <3>1, <3>2
  <2>2. most \in {Size, 1} /\ \A y \in {Size, 1} : most >= y
    BY <2>1 DEF Multi!Max
  <2>. QED  BY <1>1, <2>2
<1> HIDE DEF most
<1>3. c # 0 => Multi!Min({c, most}) \in {c, most}
  <2>1. \E m \in {c, most} : \A y \in {c, most} : m <= y
    <3>1. CASE c <= most
      BY <1>1, <1>2, <3>1
    <3>2. CASE ~(c <= most)
      BY <1>1, <1>2, <3>2
    <3>. QED  BY <3>1, <3>2
  <2>. QED  BY <2>1 DEF Multi!Min
<1>. QED  BY <1>1, <1>2, <1>3 DEF Multi!Slots, most

MultiBound == main.next <= Size + 1 /\ main.presses <= Presses

MultiBounded == part = "multi" => MultiBound

LEMMA BoundedMain ==
  ASSUME MultiInv, MultiBound, Multi!Next
  PROVE  MultiBound'
<1>1. /\ main.next \in Nat /\ main.presses \in Nat /\ Size \in Nat /\ Presses \in Nat
      /\ main \in [at : {"submit", "gather", "cancel", "collect", "summarize", "record",
                         "failRecord", "exit"},
                   next : Nat, coop : BOOLEAN, missing : BOOLEAN,
                   slots : {Multi!Slots(c) : c \in Ceilings}, presses : Nat,
                   cancelled : BOOLEAN, code : {0, 1, 130}]
  BY MultiAssumption DEF MultiInv, MultiTyped
<1>2. CASE /\ main'.next \in {1, main.next} \/ (main.next <= Size /\ main'.next = main.next + 1)
           /\ main'.presses = main.presses
  BY <1>1, <1>2 DEF MultiBound
<1>3. CASE UNCHANGED main
  BY <1>3 DEF MultiBound
<1>4. ASSUME NEW phase, Multi!Goto(phase) PROVE MultiBound'
  BY <1>1, <1>2, <1>4 DEF Multi!Goto
<1>5. CASE main.next <= Size /\ main' = [main EXCEPT !.next = @ + 1]
  BY <1>1, <1>2, <1>5
<1>6. CASE Multi!Press
  <2>1. main.presses < Presses /\ main'.presses = main.presses + 1 /\ main'.next = 1
    <3>1. main.presses < Presses /\ \E phase, code : Multi!Interrupted(phase, code)
      BY <1>6 DEF Multi!Press
    <3>. QED  BY <1>1, <3>1 DEF Multi!Interrupted
  <2>. QED  BY <1>1, <2>1 DEF MultiBound
<1>7. CASE Multi!Summarize \/ \E a \in Multi!Accounts : Multi!GatherRaises(a)
  <2>1. main'.next = main.next /\ main'.presses = main.presses
    <3>1. CASE Multi!Summarize
      <4>1. \E code : main' = [main EXCEPT !.at = "record", !.code = code]
        BY <3>1 DEF Multi!Summarize
      <4>. QED  BY <1>1, <4>1
    <3>2. CASE \E a \in Multi!Accounts : Multi!GatherRaises(a)
      <4>1. main' = [main EXCEPT !.at = "failRecord", !.code = 1]
        BY <3>2 DEF Multi!GatherRaises
      <4>. QED  BY <1>1, <4>1
    <3>. QED  BY <1>7, <3>1, <3>2
  <2>. QED  BY <1>2, <2>1
<1>8. CASE Multi!Submit \/ Multi!Cancel \/ Multi!Collect
  BY <1>5, <1>8 DEF Multi!Submit, Multi!Cancel, Multi!Collect
<1>9. CASE Multi!Submitted \/ Multi!Gathered \/ Multi!Cancelled \/ Multi!Collected
           \/ Multi!Record \/ Multi!FailRecord
  BY <1>4, <1>9
  DEF Multi!Submitted, Multi!Gathered, Multi!Cancelled, Multi!Collected, Multi!Record,
      Multi!FailRecord
<1>10. CASE Multi!PoolStep \/ \E a \in Multi!Accounts : Multi!Gather(a)
  BY <1>3, <1>10 DEF Multi!PoolStep, Multi!Start, Multi!End, Multi!Gather
<1>. QED  BY <1>6, <1>7, <1>8, <1>9, <1>10 DEF Multi!Next, Multi!MainStep

LEMMA MultiBounds == Spec => []MultiBounded
<1>1. Init => MultiBounded
  <2>. SUFFICES ASSUME Init, part = "multi" PROVE MultiBound
    BY DEF MultiBounded
  <2>1. main.next = 1 /\ main.presses = 0
    BY DEF Init, Multi!Init
  <2>. QED  BY <2>1, MultiAssumption DEF MultiBound
<1>2. ASSUME MultiInvariant, MultiBounded, [Next]_vars PROVE MultiBounded'
  <2>. SUFFICES ASSUME part' = "multi" PROVE MultiBound'
    BY DEF MultiBounded
  <2>1. part = "multi" /\ MultiInv /\ MultiBound
    BY <1>2 DEF MultiInvariant, MultiBounded, Next, vars
  <2>2. CASE UNCHANGED vars
    BY <2>1, <2>2 DEF vars, multiVars, MultiBound
  <2>3. CASE Next
    <3>1. Multi!Next
      BY <2>1, <2>3 DEF Next, ClientStep, MainStep, PoolStep, WriterStep, Multi!Next
    <3>. QED  BY <2>1, <3>1, BoundedMain
  <2>. QED  BY <1>2, <2>2, <2>3
<1>. QED  BY <1>1, <1>2, MultiAlways, PTL DEF Spec

-------------------------------------------------------------------------------
TabType == [form : {"absent", "broken", "kept"}, last : Nat, window : Nat, count : 0..MaxReloads]

PageBound ==
  /\ page \in [now : Int, mishaps : 0..Mishaps, reloads : Seq(Nat)]
  /\ tab \in TabType

PageBounded == part = "page" => PageBound

LEMMA BoundedReload ==
  ASSUME PageBound, Page!Reload PROVE PageBound'
<1>1. /\ page.now \in Int /\ page.reloads \in Seq(Nat) /\ tab \in TabType
      /\ page \in [now : Int, mishaps : 0..Mishaps, reloads : Seq(Nat)]
      /\ Cooldown \in Nat /\ Window \in Nat /\ MaxReloads \in Nat \ {0}
  BY PageAssumption DEF PageBound
<1>2. Page!Current \in TabType
  <2>1. Page!Default \in TabType
    <3>1. 0 \in 0..MaxReloads
      BY <1>1
    <3>. QED  BY <3>1 DEF Page!Default, TabType
  <2>. QED  BY <1>1, <2>1 DEF Page!Current
<1>3. Page!Current.last \in Nat /\ Page!Current.window \in Nat /\ Page!Current.count \in 0..MaxReloads
  BY <1>2 DEF TabType
<1>4. page.now \in Nat
  BY <1>1, <1>3 DEF Page!Reload, Page!Due
<1>5. Page!Counted \in TabType
  <2>1. (IF Page!NewWindow THEN page.now ELSE Page!Current.window) \in Nat
    BY <1>3, <1>4
  <2>2. (IF Page!NewWindow THEN 1 ELSE Page!Current.count + 1) \in 0..MaxReloads
    <3>1. CASE Page!NewWindow
      BY <1>1, <3>1
    <3>2. CASE ~Page!NewWindow
      <4>1. Page!Current.count < MaxReloads
        BY <3>2 DEF Page!Reload, Page!Due
      <4>2. Page!Current.count + 1 \in 0..MaxReloads
        BY <1>1, <1>3, <4>1
      <4>. QED  BY <3>2, <4>2
    <3>. QED  BY <3>1, <3>2
  <2>. QED  BY <1>4, <2>1, <2>2 DEF Page!Counted, TabType
<1>6. Append(page.reloads, page.now) \in Seq(Nat)
  BY <1>1, <1>4
<1>. QED  BY <1>1, <1>5, <1>6 DEF Page!Reload, Page!Noted, PageBound

LEMMA BoundedPage ==
  ASSUME PageBound, Page!Next PROVE PageBound'
<1>1. /\ page \in [now : Int, mishaps : 0..Mishaps, reloads : Seq(Nat)] /\ tab \in TabType
      /\ page.now \in Int /\ page.mishaps \in 0..Mishaps
  BY DEF PageBound
<1>2. CASE UNCHANGED <<page, tab>>
  BY <1>2 DEF PageBound
<1>3. CASE Page!Tick
  BY <1>1, <1>3 DEF Page!Tick, PageBound
<1>4. CASE Page!Mishap
  <2>1. PICK back \in {0, Cooldown}, form \in {tab.form, "absent", "broken"} :
          /\ page' = [now |-> page.now - back, mishaps |-> page.mishaps + 1, reloads |-> <<>>]
          /\ tab' = [tab EXCEPT !.form = form]
    BY <1>4 DEF Page!Mishap
  <2>2. page.mishaps + 1 \in 0..Mishaps
    BY <1>1, <1>4, PageAssumption DEF Page!Mishap
  <2>3. page.now - back \in Int
    BY <1>1, <2>1, PageAssumption
  <2>4. <<>> \in Seq(Nat)
    OBVIOUS
  <2>5. page' \in [now : Int, mishaps : 0..Mishaps, reloads : Seq(Nat)]
    BY <2>1, <2>2, <2>3, <2>4
  <2>6. tab' \in TabType
    BY <1>1, <2>1 DEF TabType
  <2>. QED  BY <2>5, <2>6 DEF PageBound
<1>5. ASSUME NEW x \in Requests, NEW r \in Page!Responses, Page!Load(x, r) PROVE PageBound'
  <2>1. CASE Page!Suppress
    <3>1. Page!Default \in TabType
      <4>1. 0 \in 0..MaxReloads
        BY PageAssumption
      <4>. QED  BY <4>1 DEF Page!Default, TabType
    <3>. QED  BY <1>1, <2>1, <3>1 DEF Page!Suppress, Page!Repaired, PageBound
  <2>. QED  BY <1>5, <2>1, BoundedReload DEF Page!Load
<1>. QED
  BY <1>2, <1>3, <1>4, <1>5
  DEF Page!Next, Page!Navigate, Page!OpenApi, Page!OpenOther, Page!OtherWraps

LEMMA PageBounds == Spec => []PageBounded
<1>1. Init => PageBounded
  <2>. SUFFICES ASSUME Init, part = "page" PROVE PageBound
    BY DEF PageBounded
  <2>1. page = [now |-> Window, mishaps |-> 0, reloads |-> <<>>]
        /\ tab = [form |-> "absent", last |-> 0, window |-> 0, count |-> 0]
    BY DEF Init, Page!Init, Page!Default
  <2>2. 0 \in 0..Mishaps /\ 0 \in 0..MaxReloads /\ Window \in Int
    BY PageAssumption
  <2>3. <<>> \in Seq(Nat)
    OBVIOUS
  <2>. QED  BY <2>1, <2>2, <2>3 DEF PageBound, TabType
<1>2. ASSUME PageBounded, [Next]_vars PROVE PageBounded'
  <2>. SUFFICES ASSUME part' = "page" PROVE PageBound'
    BY DEF PageBounded
  <2>1. part = "page" /\ PageBound
    BY <1>2 DEF PageBounded, Next, vars
  <2>2. CASE UNCHANGED vars
    BY <2>1, <2>2 DEF vars, pageVars, PageBound
  <2>3. CASE Next
    BY <2>1, <2>3, BoundedPage DEF Next, ClientStep, MainStep, PoolStep, WriterStep
  <2>. QED  BY <1>2, <2>2, <2>3
<1>. QED  BY <1>1, <1>2, PTL DEF Spec

-------------------------------------------------------------------------------
LEMMA SeenAlways == Spec => []SeenInvariant
<1>1. SeenInvariant /\ [Next]_vars => SeenInvariant'
  BY SeenSteps
<1>. QED  BY <1>1, SeenInit, PTL DEF Spec

Parts == part \in {"client", "multi", "store", "page"}

\* In every component's states the counters keep their bounds: a call's retries, the next
\* account of `multi` and its presses, a writer's attempts and openings, the page's reload
\* count and its times, which are never negative even after the clock was set back.
THEOREM ProcessTyped == Spec => []TypeOK
<1>1. Spec => []Parts
  <2>1. Init => Parts
    BY DEF Init, Parts
  <2>2. Parts /\ [Next]_vars => Parts'
    BY DEF Parts, Next, vars
  <2>. QED  BY <2>1, <2>2, PTL DEF Spec
<1>2. ASSUME Parts, Client!ClientTypeOK, StoreBounded, MultiInvariant, MultiBounded, PageBounded,
             SeenInvariant
      PROVE  TypeOK
  <2>1. CASE part = "client"
    BY <1>2, <2>1 DEF TypeOK
  <2>2. CASE part = "store"
    BY <1>2, <2>2 DEF TypeOK, StoreBounded, StoreBound
  <2>3. CASE part = "multi"
    <3>1. MultiInv /\ MultiBound
      BY <1>2, <2>3 DEF MultiInvariant, MultiBounded
    <3>2. main.next \in 1..(Size + 1) /\ main.presses \in 0..Presses
      BY <3>1, MultiAssumption DEF MultiBound, MultiInv, MultiTyped
    <3>3. main.slots \in Nat \ {0}
      BY <3>1, SomeSlots DEF MultiInv, MultiTyped
    <3>4. Multi!MultiTypeOK
      BY <3>1, <3>2, <3>3 DEF MultiInv, MultiTyped, Multi!MultiTypeOK
    <3>. QED  BY <2>3, <3>4 DEF TypeOK
  <2>4. CASE part = "page"
    <3>1. PageBound /\ xhr \in [Requests -> Objects]
      BY <1>2, <2>4 DEF PageBounded, SeenInvariant
    <3>2. Page!PageTypeOK
      BY <3>1 DEF PageBound, TabType, Objects, Wrappers, Page!PageTypeOK
    <3>. QED  BY <2>4, <3>2 DEF TypeOK
  <2>. QED  BY <1>2, <2>1, <2>2, <2>3, <2>4 DEF Parts
<1>. QED
  BY <1>1, <1>2, ClientTypes, StoreTypes, MultiAlways, MultiBounds, PageBounds, SeenAlways, PTL
===============================================================================
