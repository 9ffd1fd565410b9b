------------------------------- MODULE LocalLogin -------------------------------
(***************************************************************************)
(* Interactive logins on a developer's machine (proxy_server.py,           *)
(* proxy_client.py, the local_auth.py of the providers, local mode of      *)
(* connect_routes.py).  A login registers its state with the callback      *)
(* proxy, opens the provider's page and polls the proxy for what the       *)
(* browser brings back; the proxy keeps all this in memory and forgets it  *)
(* after a while.  A connect route in local mode registers a redirect      *)
(* instead, by which the proxy sends the browser on to the server.         *)
(*                                                                         *)
(* A step of the proxy is one request: every one begins with the cleanup,  *)
(* under the same lock.  Requests it refuses change nothing but that, and  *)
(* are no steps.  A poll and its answer are one step, or two outcomes of   *)
(* one when the answer is lost.  Opening the browser takes no time.        *)
(*                                                                         *)
(* Abstracted: a state and the code approved for it are named by their     *)
(* login, which is why a callback's state always matches; how often a      *)
(* device flow polls; what is stored; the expiry of a connect flow's stash *)
(* after 600 s, which the proxy's state does not reach.  Clocks only count *)
(* down and age.                                                           *)
(*                                                                         *)
(* Definitions named <operator>_<bug> are mutations.                       *)
(***************************************************************************)
EXTENDS Naturals, FiniteSets

CONSTANTS Login,      \* logins, each with a state of its own
          Provider,
          FallsBack,  \* the providers with a device code flow
          None,       \* SQL NULL, Python's None
          Timeout,    \* how long wait_for_callback polls (120 s)
          StateTTL,   \* STATE_TTL of the proxy (300 s)
          DeviceTTL   \* expires_in of a device code

Answer == {"code", "error"}

ASSUME LoginAssumption ==
    /\ Timeout \in Nat \ {0} /\ StateTTL \in Nat /\ DeviceTTL \in Nat
    /\ Timeout <= StateTTL
    /\ FallsBack \subseteq Provider
    /\ None \notin Login \cup Provider \cup Answer

VARIABLES up,         \* is the proxy running?
          pending,    \* its _pending: state -> PendingAuth
          pc,         \* pc[l]: what login l does next
          provider,   \* provider[l], None before it starts
          connect,    \* the logins of a connect route
          left,       \* left[l]: time until the deadline of l's loop
          stash,      \* oauth_pending_auth: the connect flows not called back
          url,        \* url[l]: the answer the proxy redirected l's browser with
          stored,     \* provider_tokens: the login each credential is from
          answered,   \* history: answered[l], the latest answer the proxy took
          forgotten,  \* history: the logins whose registration a stop erased
          presented   \* history: presented[l], how often l's code was exchanged

vars == <<up, pending, pc, provider, connect, left, stash, url, stored,
          answered, forgotten, presented>>

Working == {"waiting", "exchange", "save", "device", "polling"}

Init ==
    /\ up \in BOOLEAN
    /\ pending = << >>
    /\ pc = [l \in Login |-> "idle"]
    /\ provider = [l \in Login |-> None]
    /\ connect = {} /\ stash = {} /\ forgotten = {}
    /\ left = [l \in Login |-> 0]
    /\ url = [l \in Login |-> None]
    /\ stored = [p \in Provider |-> None]
    /\ answered = [l \in Login |-> None]
    /\ presented = [l \in Login |-> 0]

GoTo(l, where) == pc' = [pc EXCEPT ![l] = where]

(* The browser flow returned nothing: the device flow, if there is one, or *)
(* PermissionError.  A connect route has no second way.                    *)
BrowserFails(l, p) ==
    GoTo(l, IF p \in FallsBack /\ l \notin connect THEN "device" ELSE "failed")

-----------------------------------------------------------------------------
(* The proxy's table *)

(* the age a state has when its login gives up, taken off its time *)
Stale_soon(entry) == entry.age >= StateTTL - Timeout

Stale(entry) == entry.age > StateTTL

Cleaned == [s \in {x \in DOMAIN pending : ~Stale(pending[x])} |-> pending[s]]

(* every registration redirects *)
Registered_redirecting(l, p, redirect) ==
    [s \in DOMAIN Cleaned \cup {l} |->
        IF s = l THEN [provider |-> p, redirect |-> TRUE, age |-> 0, result |-> None]
        ELSE pending[s]]

(* _handle_register; states are random, so none is registered twice.       *)
Registered(l, p, redirect) ==
    [s \in DOMAIN Cleaned \cup {l} |->
        IF s = l THEN [provider |-> p, redirect |-> redirect, age |-> 0, result |-> None]
        ELSE pending[s]]

-----------------------------------------------------------------------------
(* A login starts *)

CachedToken(l) ==
    /\ pc[l] = "idle"
    /\ GoTo(l, "done")
    /\ UNCHANGED <<up, pending, provider, connect, left, stash, url, stored,
                   answered, forgotten, presented>>

Register(l, p) ==
    /\ pc[l] = "idle" /\ up
    /\ pending' = Registered(l, p, FALSE)
    /\ provider' = [provider EXCEPT ![l] = p]
    /\ left' = [left EXCEPT ![l] = Timeout]
    /\ GoTo(l, "waiting")
    /\ UNCHANGED <<up, connect, stash, url, stored, answered, forgotten, presented>>

(* The proxy does not run, or its answer is lost: the browser stays shut.  *)
RegisterFails(l, p) ==
    /\ pc[l] = "idle"
    /\ \/ UNCHANGED pending
       \/ up /\ pending' = Registered(l, p, FALSE)
    /\ provider' = [provider EXCEPT ![l] = p]
    /\ BrowserFails(l, p)
    /\ UNCHANGED <<up, connect, left, stash, url, stored, answered, forgotten, presented>>

(* GET /connect/<p>: _register_with_proxy, whose failure is only logged,   *)
(* and _stash_pkce.                                                        *)
StartConnect(l, p) ==
    /\ pc[l] = "idle"
    /\ \/ UNCHANGED pending
       \/ up /\ pending' = Registered(l, p, TRUE)
    /\ provider' = [provider EXCEPT ![l] = p]
    /\ connect' = connect \cup {l}
    /\ stash' = stash \cup {l}
    /\ GoTo(l, "relayed")
    /\ UNCHANGED <<up, left, url, stored, answered, forgotten, presented>>

-----------------------------------------------------------------------------
(* The browser *)

(* GET /connections/<p>/callback at the proxy.  A second one, after a      *)
(* reload or when the user goes back and decides otherwise, replaces the   *)
(* answer.                                                                 *)
Callback(l, p, a) ==
    /\ up /\ l \in DOMAIN Cleaned
    /\ pending[l].provider = p
    /\ pending' = [Cleaned EXCEPT ![l].result = a]
    /\ url' = [url EXCEPT ![l] = IF pending[l].redirect THEN a ELSE url[l]]
    /\ answered' = [answered EXCEPT ![l] = a]
    /\ UNCHANGED <<up, pc, provider, connect, left, stash, stored, forgotten, presented>>

(* _consume_pkce reads the row and leaves it *)
Consumed_kept(l) == stash

Consumed(l) == stash \ {l}

(* GET /connect/<p>/callback, to which the browser was redirected, at the  *)
(* server: _finish_connect refuses a callback without a code before it     *)
(* looks for the stash.                                                    *)
FinishConnect(l) ==
    /\ url[l] = "code" /\ l \in stash
    /\ stash' = Consumed(l)
    /\ GoTo(l, "exchange")
    /\ UNCHANGED <<up, pending, provider, connect, left, url, stored, answered,
                   forgotten, presented>>

-----------------------------------------------------------------------------
(* wait_for_callback *)

(* A poll that is answered: the result, which the proxy deletes as it      *)
(* answers, "pending", or 404.                                             *)
Poll(l) ==
    /\ pc[l] = "waiting" /\ left[l] > 0 /\ up
    /\ IF l \notin DOMAIN Cleaned
       THEN pending' = Cleaned /\ BrowserFails(l, provider[l])
       ELSE IF pending[l].result = None
       THEN pending' = Cleaned /\ UNCHANGED pc
       ELSE /\ pending' = [s \in DOMAIN Cleaned \ {l} |-> pending[s]]
            /\ IF pending[l].result = "code"
               THEN GoTo(l, "exchange")
               ELSE BrowserFails(l, provider[l])
    /\ UNCHANGED <<up, provider, connect, left, stash, url, stored, answered, forgotten, presented>>

(* The proxy is down, or what it answered is lost: the login does not poll *)
(* again.                                                                  *)
PollFails(l) ==
    /\ pc[l] = "waiting" /\ left[l] > 0
    /\ pending' = IF up
                  THEN [s \in {x \in DOMAIN Cleaned : x = l => pending[x].result = None}
                            |-> pending[s]]
                  ELSE pending
    /\ BrowserFails(l, provider[l])
    /\ UNCHANGED <<up, provider, connect, left, stash, url, stored, answered,
                   forgotten, presented>>

GiveUp(l) ==
    /\ pc[l] = "waiting" /\ left[l] = 0
    /\ BrowserFails(l, provider[l])
    /\ UNCHANGED <<up, pending, provider, connect, left, stash, url, stored, answered,
                   forgotten, presented>>

-----------------------------------------------------------------------------
(* From a code to a credential *)

ExchangeCode(l) ==
    /\ pc[l] = "exchange"
    /\ presented' = [presented EXCEPT ![l] = @ + 1]
    /\ \/ GoTo(l, "save")
       \/ BrowserFails(l, provider[l])
    /\ UNCHANGED <<up, pending, provider, connect, left, stash, url, stored, answered, forgotten>>

(* _do_device_code_auth: its first request, ...                            *)
DeviceStart(l) ==
    /\ pc[l] = "device"
    /\ left' = [left EXCEPT ![l] = DeviceTTL]
    /\ GoTo(l, "polling")
    /\ UNCHANGED <<up, pending, provider, connect, stash, url, stored, answered,
                   forgotten, presented>>

(* slow_down grants a new deadline *)
Remaining_renewed(l) == DeviceTTL

(* slow_down and authorization_pending change the interval at most.        *)
Remaining(l) == left[l]

(* ... a poll, which brings the token or goes on.  The last is sent after  *)
(* the sleep in which the code expires.                                    *)
DevicePoll(l) ==
    /\ pc[l] = "polling"
    /\ \/ GoTo(l, "save") /\ UNCHANGED left
       \/ left' = [left EXCEPT ![l] = Remaining(l)] /\ UNCHANGED pc
    /\ UNCHANGED <<up, pending, provider, connect, stash, url, stored, answered,
                   forgotten, presented>>

(* ... and the end of the loop.                                            *)
DeviceTimeout(l) ==
    /\ pc[l] = "polling" /\ left[l] = 0
    /\ GoTo(l, "failed")
    /\ UNCHANGED <<up, pending, provider, connect, left, stash, url, stored, answered,
                   forgotten, presented>>

Save(l) ==
    /\ pc[l] = "save"
    /\ stored' = [stored EXCEPT ![provider[l]] = l]
    /\ GoTo(l, "done")
    /\ UNCHANGED <<up, pending, provider, connect, left, stash, url, answered,
                   forgotten, presented>>

(* A network or database error, no cloud site, a killed tool.              *)
Fail(l) ==
    /\ pc[l] \in Working
    /\ GoTo(l, "failed")
    /\ UNCHANGED <<up, pending, provider, connect, left, stash, url, stored, answered,
                   forgotten, presented>>

-----------------------------------------------------------------------------
StopProxy ==
    /\ up
    /\ up' = FALSE
    /\ pending' = << >>
    /\ forgotten' = forgotten \cup DOMAIN pending
    /\ UNCHANGED <<pc, provider, connect, left, stash, url, stored, answered, presented>>

StartProxy ==
    /\ ~up
    /\ up' = TRUE
    /\ UNCHANGED <<pending, pc, provider, connect, left, stash, url, stored, answered,
                   forgotten, presented>>

Tick ==
    /\ left' = [l \in Login |-> IF left[l] > 0 THEN left[l] - 1 ELSE 0]
    /\ pending' = [s \in DOMAIN pending |->
                      IF Stale(pending[s]) THEN pending[s] ELSE [pending[s] EXCEPT !.age = @ + 1]]
    /\ UNCHANGED <<up, pc, provider, connect, stash, url, stored, answered, forgotten, presented>>

Next ==
    \/ \E l \in Login, p \in Provider : Register(l, p) \/ RegisterFails(l, p)
    \/ \E l \in Login, p \in Provider : StartConnect(l, p)
    \/ \E l \in Login, p \in Provider, a \in Answer : Callback(l, p, a)
    \/ \E l \in Login : CachedToken(l) \/ FinishConnect(l)
    \/ \E l \in Login : Poll(l) \/ PollFails(l) \/ GiveUp(l)
    \/ \E l \in Login : ExchangeCode(l) \/ Save(l) \/ Fail(l)
    \/ \E l \in Login : DeviceStart(l) \/ DevicePoll(l) \/ DeviceTimeout(l)
    \/ StopProxy
    \/ StartProxy
    \/ Tick

(* Time passes and a login that is not waiting for anybody goes on; every  *)
(* request has a timeout.  Nobody has to answer it: not the user, not the  *)
(* proxy.                                                                  *)
Fairness ==
    /\ WF_vars(Tick)
    /\ \A l \in Login : /\ WF_vars(GiveUp(l)) /\ WF_vars(DeviceTimeout(l))
                        /\ WF_vars(ExchangeCode(l) \/ DeviceStart(l) \/ Save(l))

Spec == Init /\ [][Next]_vars /\ Fairness

-----------------------------------------------------------------------------
(* Properties *)

(* Every variable has its type.                                            *)
TypeOK ==
    /\ up \in BOOLEAN
    /\ DOMAIN pending \subseteq Login
    /\ \A s \in DOMAIN pending : pending[s] \in
          [provider : Provider, redirect : BOOLEAN, age : 0 .. StateTTL + 1,
           result : Answer \cup {None}]
    /\ \A s \in DOMAIN pending : pending[s].redirect <=> s \in connect
    /\ pc \in [Login -> Working \cup {"idle", "relayed", "done", "failed"}]
    /\ left \in [Login -> 0 .. Timeout \cup 0 .. DeviceTTL]
    /\ stash \subseteq connect /\ connect \subseteq Login
    /\ \A l \in Login : pc[l] \in Working => provider[l] \in Provider
    /\ url \in [Login -> Answer \cup {None}]
    /\ stored \in [Provider -> Login \cup {None}]

(* A poll ends a login's wait only with what its user answered last, and   *)
(* an "unknown state" is told only to a login whose registration went with *)
(* a stopped proxy: the proxy keeps a state longer than anybody polls for  *)
(* it, also when other logins' requests clean up (proxy_server.py,         *)
(* STATE_TTL, against wait_for_callback's own deadline).                   *)
LatestAnswerCounts ==
    [][\A l \in Login :
          Poll(l) /\ pc'[l] # "waiting" =>
             IF l \in DOMAIN pending
             THEN pc'[l] = "exchange" <=> answered[l] = "code"
             ELSE l \in forgotten]_vars

(* A code is presented to its provider at most once, however often the     *)
(* browser reloads the callback, and what is stored is from a login at     *)
(* that provider which presented its approved code, or fell back.          *)
OneExchangePerLogin ==
    /\ \A l \in Login : presented[l] <= 1
    /\ \A p \in Provider : stored[p] # None =>
          /\ provider[stored[p]] = p
          /\ presented[stored[p]] = 1 \/ (p \in FallsBack /\ stored[p] \notin connect)

(* A login ends, whoever does not answer.                                  *)
EveryLoginEnds ==
    \A l \in Login : pc[l] \in Working ~> pc[l] \in {"done", "failed"}
=============================================================================
