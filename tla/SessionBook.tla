----------------------------- MODULE SessionBook -----------------------------
(* What the handshake promises, without tabs' timers, HTTP and the nonce:   *)
(* a book with one session per account, in which a session is entered whole *)
(* or not at all, and in which an account's sessions are entered in their   *)
(* order, but for what a request does that nobody waits for any more.       *)
EXTENDS Naturals

CONSTANTS
  Accounts,
  Session,       \* Session[n]: the headers of an account's n-th login
  Nothing

VARIABLES
  login,     \* login[a]: the number of logins
  stored,    \* stored[a]: what the book has
  entered,   \* entered[a]: what a request that was waited for put there last
  told,      \* told[a]: what the account's tab will not send again
  loose      \* loose[a]: whether a request is about that nobody waits for

Init ==
  /\ login = [a \in Accounts |-> 1]
  /\ stored = [a \in Accounts |-> Nothing]
  /\ entered = [a \in Accounts |-> Nothing]
  /\ told = [a \in Accounts |-> Nothing]
  /\ loose = [a \in Accounts |-> FALSE]

LogIn(a) ==
  /\ login' = [login EXCEPT ![a] = @ + 1]
  /\ UNCHANGED <<stored, entered, told, loose>>

(* Never an older session than the tab was told of.                        *)
Enter(a) ==
  /\ \E n \in 1 .. login[a] :
       /\ told[a] \in {Nothing} \cup {Session[k] : k \in 1 .. n}
       /\ stored' = [stored EXCEPT ![a] = Session[n]]
       /\ entered' = [entered EXCEPT ![a] = Session[n]]
  /\ UNCHANGED <<login, told, loose>>

(* A request that nobody waits for may be late and of an older session.    *)
Overtake(a) ==
  /\ loose[a]
  /\ \E n \in 1 .. login[a] :
       stored' = [stored EXCEPT ![a] = Session[n]]
  /\ \E more \in BOOLEAN : loose' = [loose EXCEPT ![a] = more]
  /\ UNCHANGED <<login, entered, told>>

Tell(a) ==
  /\ entered[a] # Nothing
  /\ told' = [told EXCEPT ![a] = entered[a]]
  /\ UNCHANGED <<login, stored, entered, loose>>

Forget(a) ==
  /\ told' = [told EXCEPT ![a] = Nothing]
  /\ \E more \in BOOLEAN : loose' = [loose EXCEPT ![a] = more]
  /\ UNCHANGED <<login, stored, entered>>

(* Requests are given up, end, or are lost with the server.                *)
Turn ==
  /\ loose' \in [Accounts -> BOOLEAN]
  /\ UNCHANGED <<login, stored, entered, told>>

Next ==
  \/ Turn
  \/ \E a \in Accounts :
       LogIn(a) \/ Enter(a) \/ Overtake(a) \/ Tell(a) \/ Forget(a)

bookVars == <<login, stored, entered, told, loose>>

Spec == Init /\ [][Next]_bookVars
=============================================================================
