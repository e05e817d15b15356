------------------------------ MODULE PageScript ------------------------------
(* The userscript in one tab of the game: the wrapped XMLHttpRequest              *)
(* (xhr-interceptor.ts) that sees the API's requests and answers, and the reload  *)
(* of the page when an answer says that the session has expired                   *)
(* (auth-recovery.ts). What it counts lives in sessionStorage and survives.       *)
EXTENDS Integers, Sequences

CONSTANTS Requests,                      \* XMLHttpRequest objects of the page
          Cooldown, Window, MaxReloads,  \* RELOAD_COOLDOWN_MS, ..., in minutes
          Horizon,                       \* minutes that pass after the start
          Mishaps,                       \* times storage is lost or spoilt, the clock set back
          Wraps                          \* wrappers on one object

VARIABLES page,  \* the clock; history: the reloads since the last mishap
          tab,   \* sessionStorage
          xhr    \* [Requests -> what the objects carry]

vars == <<page, tab, xhr>>

Fresh == [opened |-> "none", active |-> FALSE, chain |-> <<>>, listener |-> FALSE]

Default == [form |-> "kept", last |-> 0, window |-> 0, count |-> 0]

Init == /\ page = [now |-> Window, mishaps |-> 0, reloads |-> <<>>]
        /\ tab = [Default EXCEPT !.form = "absent"]
        /\ xhr = [x \in Requests |-> Fresh]

-------------------------------------------------------------------------------
(* XMLHttpRequest.prototype.open *)

Ours(x) == xhr[x].chain # <<>> /\ xhr[x].chain[Len(xhr[x].chain)] = "ours"

OpenApi(x) ==
    /\ Len(xhr[x].chain) < Wraps \/ Ours(x)
    /\ xhr' = [xhr EXCEPT ![x] = [opened |-> "api", active |-> TRUE, listener |-> TRUE,
                                  chain |-> IF Ours(x) THEN @.chain ELSE Append(@.chain, "ours")]]
    /\ UNCHANGED <<page, tab>>

OpenOtherStillActive(x) ==
    /\ xhr' = [xhr EXCEPT ![x].opened = "other", ![x].chain = IF Ours(x) THEN <<>> ELSE @]
    /\ UNCHANGED <<page, tab>>

\* The own property is deleted, and what it wrapped with it.
OpenOther(x) ==
    /\ xhr' = [xhr EXCEPT ![x].opened = "other", ![x].active = FALSE,
                          ![x].chain = IF Ours(x) THEN <<>> ELSE @]
    /\ UNCHANGED <<page, tab>>

\* Another userscript wraps setRequestHeader of the object.
OtherWraps(x) == /\ Len(xhr[x].chain) < Wraps
                 /\ xhr' = [xhr EXCEPT ![x].chain = Append(@, "theirs")]
                 /\ UNCHANGED <<page, tab>>

-------------------------------------------------------------------------------
(* createApiResponseHandler *)

Responses == [status : {0, 200, 401}, huge : BOOLEAN, body : {"fine", "expired"}]

\* expired: an error name or "Invalid signature". An aborted request has status 0.
isSessionExpired(r) == r.status # 0 /\ (r.status = 401 \/ (~r.huge /\ r.body = "expired"))

\* sanitizeReloadState: what is broken or in the future counts as never having reloaded.
Sane == tab.form = "kept" /\ tab.last <= page.now /\ tab.window <= page.now

Current == IF Sane THEN tab ELSE Default

Repaired == IF Sane \/ tab.form = "absent" THEN tab ELSE Default

NewWindow == page.now - Current.window >= Window

DueByCount == NewWindow \/ Current.count < MaxReloads

Due == /\ page.now - Current.last >= Cooldown
       /\ NewWindow \/ Current.count < MaxReloads

Counted == [form |-> "kept", last |-> page.now,
            window |-> IF NewWindow THEN page.now ELSE Current.window,
            count |-> IF NewWindow THEN 1 ELSE Current.count + 1]

Noted == [page EXCEPT !.reloads = Append(@, page.now)]

\* The kill switch, or a storage that cannot be read or written, suppresses the reload.
Suppress == tab' \in {tab, Repaired} /\ UNCHANGED page

Reload == Due /\ tab' = Counted /\ page' = Noted

Load(x, r) == /\ xhr[x].opened # "none" /\ xhr[x].active /\ xhr[x].listener
              /\ isSessionExpired(r)
              /\ Suppress \/ Reload
              /\ UNCHANGED xhr

-------------------------------------------------------------------------------
(* The browser *)

\* The reload that was asked for, or one of the player's.
Navigate == xhr' = [x \in Requests |-> Fresh] /\ UNCHANGED <<page, tab>>

Tick == /\ page.now < Window + Horizon
        /\ page' = [page EXCEPT !.now = @ + 1]
        /\ UNCHANGED <<tab, xhr>>

Mishap == /\ page.mishaps < Mishaps
          /\ \E back \in {0, Cooldown}, form \in {tab.form, "absent", "broken"} :
               /\ page' = [now |-> page.now - back, mishaps |-> page.mishaps + 1, reloads |-> <<>>]
               /\ tab' = [tab EXCEPT !.form = form]
          /\ UNCHANGED xhr

Next == \/ Tick \/ Mishap \/ Navigate
        \/ \E x \in Requests : OpenApi(x) \/ OpenOther(x) \/ OtherWraps(x)
                               \/ \E r \in Responses : Load(x, r)

Spec == Init /\ [][Next]_vars

-------------------------------------------------------------------------------
PageTypeOK ==
    /\ page \in [now : Int, mishaps : 0..Mishaps, reloads : Seq(Nat)]
    /\ tab \in [form : {"absent", "broken", "kept"}, last : Nat, window : Nat, count : 0..MaxReloads]
    /\ xhr \in [Requests -> [opened : {"none", "api", "other"}, active : BOOLEAN,
                             chain : Seq({"ours", "theirs"}), listener : BOOLEAN]]

\* While storage is kept and the clock runs forward, any Window holds at most MaxReloads
\* reloads, no two of them within Cooldown, however many answers say that the session has
\* expired and across every reload (evaluateReload; the limit of the userscripts' README).
ReloadBudget ==
    \A i, j \in DOMAIN page.reloads :
        /\ i < j => page.reloads[j] - page.reloads[i] >= Cooldown
        /\ i + MaxReloads <= j => page.reloads[j] - page.reloads[i] > Window

\* Whatever an object was opened for before and whoever has wrapped it since, its headers
\* are captured and its answers heard exactly while it is opened for the API, by no
\* wrapper that wraps itself (installXhrInterceptor).
ApiRequestsAreSeen ==
    \A x \in Requests :
        LET o == xhr[x] IN
        /\ o.active <=> o.opened = "api"
        /\ o.opened = "api" => o.listener /\ \E i \in DOMAIN o.chain : o.chain[i] = "ours"
        /\ \A i \in 2..Len(o.chain) : "theirs" \in {o.chain[i - 1], o.chain[i]}
===============================================================================
