------------------------------ MODULE ConfigStore ------------------------------
(* update_config_merged (core/repository.py) under retry_on_wal_contention and   *)
(* defer_sigint (core/database.py): threads of one process read, merge and write  *)
(* one value of the account's configuration, with other processes at the same     *)
(* database and Ctrl+C at any moment. The first connection of a thread is opened  *)
(* within its transaction, with retries of its own.                               *)
EXTENDS Naturals

CONSTANTS Writers,   \* threads of the process
          Main,      \* the main thread, one of them
          Attempts,  \* of retry_on_wal_contention
          Opens,     \* of the connection, within an attempt
          Others,    \* updates by other processes
          Nobody

VARIABLES thread,  \* [Writers -> where it is, its counters, what it has read]
          store,   \* the value, as the set of the updates it shows; locks; history
          sigint,  \* "none", "pending", "delivered"
          live     \* threads that have been started and have not gone: the main one, the pool's

vars == <<thread, store, sigint, live>>

Ended == {"ok", "failed", "interrupted", "panic"}

Init == /\ thread = [t \in Writers |-> [at |-> "idle", attempt |-> 0, opens |-> 0, seen |-> {},
                                        open |-> FALSE]]
        /\ store = [value |-> {}, lock |-> Nobody, lost |-> {}, others |-> Others]
        /\ sigint = "none"
        /\ live = {Main}

-------------------------------------------------------------------------------
(* Ctrl+C *)

\* The parts of an attempt: the wait for the lock, the native calls, the retries within.
Attempting(t) == thread[t].at \in {"lock", "open", "nap", "read", "write"}

ShieldedNever == FALSE

\* defer_sigint masks the signal of its own thread only: any other thread of the process,
\* one at its work or one that waits in the pool, may take it for the process.
Shielded == live = {Main}

Unlocked(t) == [store EXCEPT !.lock = IF @ = t THEN Nobody ELSE @]

\* A merge that changes nothing is not written.
Merged(t) == thread[t].seen \union {t}

Written(t) == IF Merged(t) = thread[t].seen THEN store.value ELSE Merged(t)

Sigint ==
    /\ sigint = "none" /\ thread[Main].at \notin Ended /\ UNCHANGED live
    /\ IF Attempting(Main) /\ Shielded
       THEN sigint' = "pending" /\ UNCHANGED <<thread, store>>
       ELSE /\ sigint' = "delivered"
            /\ \E end \in {"interrupted"} \union
                          IF Attempting(Main) THEN {"panic"} ELSE {} :  \* in a native call
                 thread' = [thread EXCEPT ![Main].at = end]
            /\ \/ store' = Unlocked(Main)
               \/ thread[Main].at = "write"  \* committed already
                  /\ store' = [Unlocked(Main) EXCEPT !.value = Written(Main)]

LeaveLosing(t, next, open) ==
    IF t = Main /\ sigint = "pending" /\ next # "ok"
    THEN /\ thread' = [thread EXCEPT ![t].at = "interrupted", ![t].open = open]
         /\ sigint' = "delivered"
    ELSE /\ thread' = [thread EXCEPT ![t].at = next, ![t].open = open]
         /\ UNCHANGED sigint

\* The mask is lifted when the attempt ends, however it ends.
Leave(t, next, open) ==
    IF t = Main /\ sigint = "pending"
    THEN /\ thread' = [thread EXCEPT ![t].at = "interrupted", ![t].open = open]
         /\ sigint' = "delivered"
    ELSE /\ thread' = [thread EXCEPT ![t].at = next, ![t].open = open]
         /\ UNCHANGED sigint

-------------------------------------------------------------------------------
(* The pool's threads *)

\* A thread that is not within an update starts another one, which has an update to make.
Starts(t) == /\ thread[t].at = "idle" /\ t \notin live
             /\ \E s \in live : ~Attempting(s)
             /\ live' = live \union {t}
             /\ UNCHANGED <<thread, store, sigint>>

\* The pool keeps its threads when their work is done, until it is shut down.
Exits(t) == /\ t \in live \ {Main} /\ thread[t].at \in Ended
            /\ live' = live \ {t}
            /\ UNCHANGED <<thread, store, sigint>>

-------------------------------------------------------------------------------
(* One attempt *)

Moves(t, from, to) == /\ thread[t].at = from
                      /\ thread' = [thread EXCEPT ![t].at = to]
                      /\ UNCHANGED <<store, sigint>>

Begin(t) == /\ t \in live /\ thread[t].at \in {"idle", "sleep"}
            /\ thread' = [thread EXCEPT ![t].at = "lock", ![t].attempt = @ + 1, ![t].opens = 0]
            /\ UNCHANGED <<store, sigint>>

LockIgnored(t) == TRUE

LockFree(t) == store.lock = Nobody

\* A pooled connection is used again; otherwise one is opened, which needs the lock too.
Acquire(t) == /\ thread[t].at = "lock" /\ LockFree(t)
              /\ store' = [store EXCEPT !.lock = t]
              /\ thread' = [thread EXCEPT ![t].at = IF thread[t].open THEN "read" ELSE "open"]
              /\ UNCHANGED sigint

Connected(t) == /\ thread[t].at = "open"
                /\ thread' = [thread EXCEPT ![t].at = "read", ![t].open = TRUE]
                /\ UNCHANGED <<store, sigint>>

\* Contention with another process: again, after a sleep. The sync on connect is given up
\* after its last try, the connection itself is not had.
OpenFails(t) == /\ thread[t].at = "open" /\ thread[t].opens + 1 < Opens
                /\ thread' = [thread EXCEPT ![t].at = "nap", ![t].opens = @ + 1]
                /\ UNCHANGED <<store, sigint>>

OpenAgain(t) == Moves(t, "nap", "open")

Read(t) == /\ thread[t].at = "read"
           /\ thread' = [thread EXCEPT ![t].at = "write", ![t].seen = store.value]
           /\ UNCHANGED <<store, sigint>>

Write(t) == /\ thread[t].at = "write"
            /\ store' = [Unlocked(t) EXCEPT !.value = Written(t)]
            /\ Leave(t, "ok", TRUE)

\* Whatever is not transient propagates at once.
AfterFailure(t) ==
    {"failed"} \union
    IF /\ thread[t].attempt < Attempts
       /\ thread[t].at = "open" => thread[t].opens + 1 = Opens
    THEN {"sleep"} ELSE {}

AttemptFailsHolding(t) ==
    /\ thread[t].at \in {"open", "read", "write"}
    /\ UNCHANGED store
    /\ \E next \in AfterFailure(t), open \in {thread[t].open, FALSE} : Leave(t, next, open)

\* An error at the connection, the read or the write; at the commit it may come after the
\* deed. A dead stream disposes of the pool.
AttemptFails(t) ==
    /\ thread[t].at \in {"open", "read", "write"}
    /\ \/ store' = Unlocked(t)
       \/ thread[t].at = "write" /\ store' = [Unlocked(t) EXCEPT !.value = Written(t)]
    /\ \E next \in AfterFailure(t), open \in {thread[t].open, FALSE} : Leave(t, next, open)

-------------------------------------------------------------------------------
\* Another process does not know of the lock: it may write over what it has not read, or
\* leave JSON that cannot be parsed, which counts as absent.
Intrude == /\ store.others > 0
           /\ \E kept \in SUBSET store.value :
                store' = [store EXCEPT !.value = kept, !.lost = @ \union (store.value \ kept),
                                       !.others = @ - 1]
           /\ UNCHANGED <<thread, sigint, live>>

Step(t) == /\ UNCHANGED live
           /\ \/ Begin(t) \/ Acquire(t) \/ Connected(t) \/ OpenFails(t) \/ OpenAgain(t)
              \/ Read(t) \/ Write(t) \/ AttemptFails(t)

Pool == \E t \in Writers : Starts(t) \/ Exits(t)

Next == Sigint \/ Intrude \/ Pool \/ \E t \in Writers : Step(t)

Spec == Init /\ [][Next]_vars

-------------------------------------------------------------------------------
StoreTypeOK ==
    /\ thread \in [Writers -> [at : {"idle", "lock", "open", "nap", "read", "write", "sleep"} \union Ended,
                               attempt : 0..Attempts, opens : 0..Opens, seen : SUBSET Writers,
                               open : BOOLEAN]]
    /\ store \in [value : SUBSET Writers, lock : Writers \union {Nobody},
                  lost : SUBSET Writers, others : 0..Others]
    /\ sigint \in {"none", "pending", "delivered"}
    /\ Main \in live /\ live \subseteq Writers

\* An update that was reported as done is there until another process drops it: threads of
\* one process never lose each other's, whatever is retried (update_config_merged).
UpdatesSurvive ==
    \A t \in Writers : thread[t].at = "ok" => t \in store.value \union store.lost

\* The native driver panics on Ctrl+C only in a process that has had another thread
\* started; and whoever is interrupted leaves the lock.
CleanInterrupt ==
    /\ thread[Main].at = "panic" =>
          \E t \in Writers \ {Main} : t \in live \/ thread[t].at # "idle"
    /\ thread[Main].at \in Ended => store.lock # Main

\* A deferred Ctrl+C belongs to an attempt that is not over, and a delivered one has ended
\* the main thread, which nothing else does.
DeferredIsHeld ==
    /\ sigint = "pending" => Attempting(Main)
    /\ sigint = "delivered" <=> thread[Main].at \in {"interrupted", "panic"}

Deferred == sigint = "pending"

Delivered == thread[Main].at = "interrupted"

AllEnded == \A t \in Writers : thread[t].at \in Ended \/ (thread[t].at = "idle" /\ t \notin live)

\* What a writer of AtomicUpdates has been told.
Outcome(t) == CASE thread[t].at = "ok" -> "ok"
                [] thread[t].at \in Ended \ {"ok"} -> "failed"
                [] OTHER -> "running"

\* Whoever waits for the lock waits for a thread that is still at work.
NobodyWaitsForTheDead ==
    \A t \in Writers : thread[t].at = "lock" /\ store.lock # Nobody =>
        Attempting(store.lock) /\ thread[store.lock].at # "lock"

\* Who sleeps before a retry does not block the others.
SleepersHoldNoLock == \A t \in Writers : thread[t].at \in {"nap", "sleep"} => store.lock # t
===============================================================================
