--------------------------- MODULE AuthHandshake ---------------------------
(***************************************************************************)
(* How a session reaches the repository: tabs that capture the game's      *)
(* headers and send them (index.ts, auth-client.ts), the auth server with  *)
(* its one nonce (commands/auth_server.py, AuthServer, GET /nonce and      *)
(* POST /auth) and the check of the headers against the game               *)
(* (core/auth.py, update_session_with_headers).                            *)
(*                                                                         *)
(* A tab plays one account. Its logins are numbered; a login has headers   *)
(* that the game accepts until the next one. The server runs each request  *)
(* in a thread of its own, and goes on with it when the tab has given up.  *)
(* A unit of time is half a second or less (Interval is the poll interval).*)
(* A poll may be late, or early after a late one.                          *)
(***************************************************************************)
EXTENDS AuthSession, FiniteSets

CONSTANTS
  Tabs,
  MaxLogin,      \* bound on the logins of a tab
  Identity,      \* Identity[n]: the session-id and user-id of login n
  Threads,       \* bound on the requests the server works on at a time
  Nonces,        \* nonces it draws from
  NoNonce,
  Timeout,       \* FETCH_TIMEOUT_MS, for headers and body together
  MaxTrouble,    \* bound on calls, checks and saves that fail, on reloads
                 \* and on restarts of the server
  Split,         \* whether the game may set a request's headers one by one
                 \* and requests of the login before may still be under way
  Chatty         \* whether the game asks for something within the life of a
                 \* captured key, so that there always is a session to send

Logins == 1 .. MaxLogin

ASSUME HandshakeAssumption ==
  /\ Tabs # {} /\ Nonces # {}
  /\ MaxLogin \in Nat \ {0} /\ None \notin Logins
  /\ Identity \in [Logins -> Logins]
  /\ NoNonce \notin Nonces
  /\ Timeout \in Nat \ {0} /\ MaxTrouble \in Nat
  /\ Split \in BOOLEAN /\ Chatty \in BOOLEAN

VARIABLES
  login,     \* login[t]: the account's present login
  sess,      \* sess[t]: SessionState
  call,      \* call[t]: what trySend waits for
  nonce,     \* AuthServer.current_nonce
  thread,    \* thread[h]: a request at the server
  stored,    \* stored[t]: the headers the repository has for the account
  trouble,
  entered,   \* history: entered[t]: what the last request that the tab was
             \* waiting for has put there
  judged     \* history: judged[t]: the identity seen at the last poll that
             \* went as far as to look at it

vars ==
  <<login, sess, call, nonce, thread, stored, trouble, entered, judged>>

Empty == <<None, None>>
HeaderSets == (Logins \cup {None}) \X (Logins \cup {None})
Proper(n) == <<Identity[n], n>>

Idle == [stage |-> "idle", wait |-> 0, headers |-> Empty]
Free(t) == [stage |-> "free", tab |-> t, headers |-> Empty, nonce |-> NoNonce,
            heard |-> FALSE, ok |-> FALSE]

At(h, stage) == thread[h].stage = stage
Working(h) == ~At(h, "free")
Heard(h, t) == Working(h) /\ thread[h].tab = t /\ thread[h].heard

Unused == Nonces \ ({nonce} \cup {thread[h].nonce : h \in Threads})
Fresh == CHOOSE n \in Unused : TRUE

Init ==
  /\ login = [t \in Tabs |-> 1]
  /\ sess = [t \in Tabs |-> NewSession]
  /\ call = [t \in Tabs |-> Idle]
  /\ nonce = CHOOSE n \in Nonces : TRUE
  /\ thread = [h \in Threads |-> Free(CHOOSE t \in Tabs : TRUE)]
  /\ stored = [t \in Tabs |-> Empty]
  /\ trouble = MaxTrouble
  /\ entered = [t \in Tabs |-> Empty]
  /\ judged = [t \in Tabs |-> None]

-----------------------------------------------------------------------------
(* The game in the tab.                                                    *)

LogIn(t) ==
  /\ login[t] < MaxLogin
  /\ login' = [login EXCEPT ![t] = @ + 1]
  /\ UNCHANGED <<sess, call, nonce, thread, stored, trouble,
                 entered, judged>>

Capture(t) ==
  /\ \E n \in Logins, keys \in SUBSET {"id", "tok"} :
       /\ IF Split THEN n \in {login[t], login[t] - 1} /\ keys # {}
                   ELSE n = login[t] /\ keys = {"id", "tok"}
       /\ sess' = [sess EXCEPT
            ![t].id = IF "id" \in keys THEN Identity[n] ELSE @,
            ![t].idAge = IF "id" \in keys THEN 0 ELSE @,
            ![t].tok = IF "tok" \in keys THEN n ELSE @,
            ![t].tokAge = IF "tok" \in keys THEN 0 ELSE @]
  /\ UNCHANGED <<login, call, nonce, thread, stored, trouble,
                 entered, judged>>

(* trySend: nothing while a send is under way.                             *)
Poll(t) ==
  /\ call[t] = Idle /\ ~ShouldSend(sess[t])
  /\ sess' = [sess EXCEPT ![t] = Evaluated(@)]
  /\ judged' = [judged EXCEPT ![t] =
       IF Judged(sess[t]) THEN sess[t].id ELSE @]
  /\ UNCHANGED <<login, call, nonce, thread, stored, trouble, entered>>

Send(t) ==
  /\ call[t] = Idle /\ ShouldSend(sess[t])
  /\ sess' = [sess EXCEPT ![t] = Attempted(@)]
  /\ judged' = [judged EXCEPT ![t] = sess[t].id]
  /\ call' = [call EXCEPT ![t] =
       [stage |-> "nonce", wait |-> 0, headers |-> Headers(sess[t])]]
  /\ \E h \in Threads :
       /\ At(h, "free")
       /\ thread' = [thread EXCEPT ![h] =
            [Free(t) EXCEPT !.stage = "draw", !.heard = TRUE]]
  /\ UNCHANGED <<login, nonce, stored, trouble, entered>>

-----------------------------------------------------------------------------
(* The server. A thread may be preempted between any two accesses to       *)
(* current_nonce.                                                          *)

Finish(h, ok) ==
  thread' = [thread EXCEPT ![h] =
    IF @.heard THEN [@ EXCEPT !.stage = "reply", !.ok = ok] ELSE Free(@.tab)]

Proceed(h, stage) == thread' = [thread EXCEPT ![h].stage = stage]

Fails == trouble > 0 /\ trouble' = trouble - 1

Draw(h) ==
  /\ At(h, "draw")
  /\ Unused # {} /\ nonce' = Fresh
  /\ Proceed(h, "read")
  /\ UNCHANGED <<login, sess, call, stored, trouble, entered, judged>>

ReadNonce(h) ==
  /\ At(h, "read")
  /\ thread' = [thread EXCEPT ![h] =
       IF @.heard
       THEN [@ EXCEPT !.stage = "reply", !.nonce = nonce,
                      !.ok = nonce # NoNonce]
       ELSE Free(@.tab)]
  /\ UNCHANGED <<login, sess, call, nonce, stored, trouble,
                 entered, judged>>

Check(h) ==
  /\ At(h, "check")
  /\ IF nonce # NoNonce /\ thread[h].nonce = nonce
     THEN Proceed(h, "spend") ELSE Finish(h, FALSE)
  /\ UNCHANGED <<login, sess, call, nonce, stored, trouble,
                 entered, judged>>

Spend(h) ==
  /\ At(h, "spend")
  /\ nonce' = NoNonce
  /\ Proceed(h, "verify")
  /\ UNCHANGED <<login, sess, call, stored, trouble, entered, judged>>

(* get_user_info: the game accepts the headers of the present login.       *)
Verify(h) ==
  /\ At(h, "verify")
  /\ IF thread[h].headers = Proper(login[thread[h].tab])
     THEN Proceed(h, "save") ELSE Finish(h, FALSE)
  /\ UNCHANGED <<login, sess, call, nonce, stored, trouble,
                 entered, judged>>

Save(h) ==
  /\ At(h, "save")
  /\ stored' = [stored EXCEPT ![thread[h].tab] = thread[h].headers]
  /\ entered' = [entered EXCEPT ![thread[h].tab] =
       IF thread[h].heard THEN thread[h].headers ELSE @]
  /\ Finish(h, TRUE)
  /\ UNCHANGED <<login, sess, call, nonce, trouble, judged>>

CheckOrSaveFails(h) ==
  /\ Fails
  /\ At(h, "verify") \/ At(h, "save")
  /\ Finish(h, FALSE)
  /\ UNCHANGED <<login, sess, call, nonce, stored, entered, judged>>

Restart ==
  /\ Fails
  /\ Unused # {} /\ nonce' = Fresh
  /\ thread' = [h \in Threads |-> Free(thread[h].tab)]
  /\ call' = [t \in Tabs |-> Idle]
  /\ sess' = [t \in Tabs |->
       IF call[t] = Idle THEN sess[t] ELSE Failed(sess[t])]
  /\ UNCHANGED <<login, stored, entered, judged>>

-----------------------------------------------------------------------------
(* What becomes of a send.                                                 *)

HearNonce(t, h) ==
  /\ Heard(h, t) /\ At(h, "reply") /\ call[t].stage = "nonce"
  /\ IF thread[h].ok
     THEN /\ call' = [call EXCEPT ![t].stage = "auth", ![t].wait = 0]
          /\ thread' = [thread EXCEPT ![h].stage = "check",
                                      ![h].headers = call[t].headers]
          /\ UNCHANGED sess
     ELSE /\ call' = [call EXCEPT ![t] = Idle]
          /\ thread' = [thread EXCEPT ![h] = Free(t)]
          /\ sess' = [sess EXCEPT ![t] = Failed(@)]
  /\ UNCHANGED <<login, nonce, stored, trouble, entered, judged>>

HearAnswerAsOfNow(t, h) ==
  /\ Heard(h, t) /\ At(h, "reply") /\ call[t].stage = "auth"
  /\ call' = [call EXCEPT ![t] = Idle]
  /\ thread' = [thread EXCEPT ![h] = Free(t)]
  /\ sess' = [sess EXCEPT ![t] =
       IF thread[h].ok THEN Succeeded(@, Headers(@)) ELSE Failed(@)]
  /\ UNCHANGED <<login, nonce, stored, trouble, entered, judged>>

HearAnswer(t, h) ==
  /\ Heard(h, t) /\ At(h, "reply") /\ call[t].stage = "auth"
  /\ call' = [call EXCEPT ![t] = Idle]
  /\ thread' = [thread EXCEPT ![h] = Free(t)]
  /\ sess' = [sess EXCEPT ![t] =
       IF thread[h].ok THEN Succeeded(@, call[t].headers) ELSE Failed(@)]
  /\ UNCHANGED <<login, nonce, stored, trouble, entered, judged>>

(* The request or its reply is lost, or the reply is late: the server may  *)
(* never see the request, or go on with it.                                *)
Unheard(t, arrives) ==
  [h \in Threads |->
    CASE ~Heard(h, t) -> thread[h]
      [] Heard(h, t) /\ arrives /\ ~At(h, "reply") ->
           [thread[h] EXCEPT !.heard = FALSE]
      [] OTHER -> Free(t)]

GiveUp(t) ==
  /\ Fails
  /\ call[t] # Idle
  /\ \E arrives \in BOOLEAN :
       thread' = Unheard(t, arrives)
  /\ call' = [call EXCEPT ![t] = Idle]
  /\ sess' = [sess EXCEPT ![t] = Failed(@)]
  /\ UNCHANGED <<login, nonce, stored, entered, judged>>

(* The page is reloaded, by the player or by auth recovery.                *)
Reload(t) ==
  /\ Fails
  /\ thread' = Unheard(t, TRUE)
  /\ call' = [call EXCEPT ![t] = Idle]
  /\ sess' = [sess EXCEPT ![t] = NewSession]
  /\ judged' = [judged EXCEPT ![t] = None]
  /\ UNCHANGED <<login, nonce, stored, entered>>

(* A fetch waits for Timeout at most.                                      *)
Tick ==
  /\ \A t \in Tabs :
       /\ call[t].wait < Timeout
       /\ Chatty => sess[t].idAge < TTL /\ sess[t].tokAge < TTL
  /\ sess' = [t \in Tabs |-> Older(sess[t])]
  /\ call' = [t \in Tabs |->
       IF call[t] = Idle THEN Idle ELSE [call[t] EXCEPT !.wait = @ + 1]]
  /\ UNCHANGED <<login, nonce, thread, stored, trouble, entered, judged>>

Next ==
  \/ Restart
  \/ Tick
  \/ \E t \in Tabs :
       \/ LogIn(t) \/ Capture(t) \/ Poll(t) \/ Send(t) \/ GiveUp(t) \/ Reload(t)
       \/ \E h \in Threads : HearNonce(t, h) \/ HearAnswer(t, h)
  \/ \E h \in Threads :
       \/ Draw(h) \/ ReadNonce(h) \/ Check(h) \/ Spend(h) \/ Verify(h)
       \/ Save(h) \/ CheckOrSaveFails(h)

Spec == Init /\ [][Next]_vars

(* Polls go on, the server's threads run, replies arrive and the game goes *)
(* on asking. How often anything may fail is bounded by MaxTrouble.        *)
FairSpec ==
  /\ Spec /\ WF_vars(Tick)
  /\ \A t \in Tabs :
       /\ WF_vars(Capture(t))
       /\ WF_vars(Poll(t) \/ Send(t))
       /\ \A h \in Threads : WF_vars(HearNonce(t, h) \/ HearAnswer(t, h))
  /\ \A h \in Threads :
       WF_vars(Draw(h) \/ ReadNonce(h) \/ Check(h) \/ Spend(h) \/ Verify(h)
               \/ Save(h))

-----------------------------------------------------------------------------
Known == Logins \cup {None}

Sessions ==
  [id : Known, tok : Known, idAge : 0 .. TTL + 1, tokAge : 0 .. TTL + 1,
   sent : HeaderSets, pending : Known, tried : Known,
   backoff : 1 .. MaxBackoff, since : 0 .. MaxBackoff]

Calls ==
  [stage : {"idle", "nonce", "auth"}, wait : 0 .. Timeout,
   headers : HeaderSets]

Requests ==
  [stage : {"free", "draw", "read", "check", "spend", "verify", "save",
            "reply"},
   tab : Tabs, headers : HeaderSets, nonce : Nonces \cup {NoNonce},
   heard : BOOLEAN, ok : BOOLEAN]

(* The variables keep their types.                                         *)
TypeOK ==
  /\ login \in [Tabs -> Logins]
  /\ sess \in [Tabs -> Sessions]
  /\ call \in [Tabs -> Calls]
  /\ nonce \in Nonces \cup {NoNonce}
  /\ thread \in [Threads -> Requests]
  /\ stored \in [Tabs -> HeaderSets]
  /\ trouble \in 0 .. MaxTrouble
  /\ entered \in [Tabs -> HeaderSets]
  /\ judged \in [Tabs -> Known]

(* A tab that will not send the present login again (serialized equals     *)
(* lastSentJson) may keep quiet: a request that it was waiting for has put *)
(* it into the repository, and none with an older login came after that.   *)
SilenceIsSound ==
  \A t \in Tabs :
    sess[t].sent = Proper(login[t]) => entered[t] = Proper(login[t])

(* At whatever pace the server saves, the repository has nothing for an    *)
(* account or the headers of one of its logins, whole: never a new         *)
(* identity with an old token (update_session_with_headers).               *)
StoredIsWhole ==
  \A t \in Tabs :
    stored[t] = Empty \/ \E n \in 1 .. login[t] : stored[t] = Proper(n)

(* The tab gave up on a request, or was reloaded, and the server goes on   *)
(* with it.                                                                *)
Abandoned(t) ==
  \E h \in Threads : Working(h) /\ thread[h].tab = t /\ ~thread[h].heard

Book ==
  INSTANCE SessionBook WITH
    Accounts <- Tabs, Session <- [n \in Logins |-> Proper(n)],
    Nothing <- Empty, told <- [t \in Tabs |-> sess[t].sent],
    loose <- [t \in Tabs |-> Abandoned(t)]

(* The repository is given whole sessions of logins there have been, and   *)
(* an older one than the tab was told of only by a request that the tab    *)
(* gave up on while the server went on with it; a tab is told what its own *)
(* request has put there: the handshake refines SessionBook.               *)
SessionContract == Book!Spec

(* A backoff is cut short by a success, by a reload, or by a new identity  *)
(* seen in two looks in a row, and not by headers that flicker between the *)
(* old identity and the new one (evaluateSend, pendingIdentityJson).       *)
RewoundByLogin ==
  [][\A t \in Tabs :
       sess'[t].backoff < sess[t].backoff =>
         \/ call[t].stage = "auth"
         \/ sess'[t] = NewSession
         \/ sess[t].id = judged[t] /\ sess[t].id # sess[t].tried]_vars

(* Every account's present session gets into the repository and stays      *)
(* there: tabs that take each other's nonce do not do so for ever, since   *)
(* their backoffs grow beyond the time a send may take.                    *)
NewestIsStored == \A t \in Tabs : <>[](stored[t] = Proper(login[t]))

(* The comment on FRESH_WINDOW_MS: every required header has been observed *)
(* within two poll intervals before a send.                                *)
FreshWhenSent ==
  [][\A t \in Tabs :
       call[t] = Idle /\ call'[t] # Idle =>
         sess[t].idAge <= 2 * Interval /\ sess[t].tokAge <= 2 * Interval]_vars
=============================================================================
