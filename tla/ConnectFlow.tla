------------------------------ MODULE ConnectFlow ------------------------------
(***************************************************************************)
(* Connecting a provider in JWT mode: the ticket a tool mints, the link    *)
(* that spends it, and the provider's callback (connect_routes.py,         *)
(* connect_tickets.py).  Between link and callback the flow lives in a row *)
(* of oauth_pending_auth, the table the authorization server keeps its own *)
(* sign-ins in: either side sweeps the other's rows and can be handed the  *)
(* other's state.                                                          *)
(*                                                                         *)
(* Handlers of several replicas run at once and each is several            *)
(* transactions.  The ticket is claimed by one UPDATE, a step.  The stash  *)
(* is read by a SELECT and deleted later in the transaction, two steps,    *)
(* and an ORM delete that finds the row gone only warns.                   *)
(*                                                                         *)
(* Abstracted: tickets and states are numbered in the order they are made; *)
(* a provider's code is named by the state it was approved for, and the    *)
(* PKCE verifier by the state it is stashed under.  A callback without a   *)
(* code (the user declined) changes nothing.  Refresh, status and what a   *)
(* stored credential becomes are in ProviderTokens and MsalCache.          *)
(*                                                                         *)
(* Definitions named <operator>_<bug> are mutations, as in RefreshRotation.*)
(***************************************************************************)
EXTENDS Naturals, Sequences, FiniteSets

CONSTANTS Worker,         \* request handlers of the replicas
          User, Provider,
          None,           \* SQL NULL
          TicketTTL,      \* TICKET_TTL_SECONDS
          StateTTL,       \* the 600 s of a stash, and PENDING_AUTH_TTL_SECONDS
          TenMinutes,     \* how long past expiry tickets and pruned rows stay
          MaxNow,         \* bound: the last instant the model reaches
          MaxTickets,     \* bound: tickets minted
          MaxStates       \* bound: states, of connect flows and of sign-ins

ASSUME ConnectAssumption ==
    /\ TicketTTL \in Nat /\ StateTTL \in Nat /\ TenMinutes \in Nat
    /\ MaxNow \in Nat /\ MaxTickets \in Nat /\ MaxStates \in Nat
    /\ None \notin User \cup Provider \cup Nat

(* NULL is not what a handler holds between its transactions.              *)
ASSUME NullIsNothingHeld ==
    /\ None \notin [ticket : Nat, user : User, provider : Provider]
    /\ None \notin [state : Nat, code : Nat, provider : Provider, user : User]

VARIABLES now,
          tickets,  \* connect_tickets: ticket -> row
          pending,  \* oauth_pending_auth: state -> row
          stored,   \* provider_tokens: whose approval, by user and provider
          code,     \* at the provider: state -> "none", "issued" or "spent"
          pc,       \* pc[w]: "idle", "start", "matched", "exchange" or "save"
          taken,    \* taken[w]: what w's transactions returned
          minted,   \* history: every ticket's [user, provider], in order
          started,  \* history: every state's origin, in order
          signedIn  \* history: the sign-ins whose own callback got their row

vars == <<now, tickets, pending, stored, code, pc, taken, minted, started, signedIn>>

Remove(f, S) == [x \in DOMAIN f \ S |-> f[x]]
Put(f, k, v) == [x \in DOMAIN f \cup {k} |-> IF x = k THEN v ELSE f[x]]
Expired(f, age) == {x \in DOMAIN f : f[x].expires + age < now}

(* client_id of a row: "connect:<provider>", or an OAuth client's.         *)
connect(p) == [connect |-> p]
signIn == [connect |-> None]

Init ==
    /\ now = 0
    /\ tickets = << >> /\ pending = << >>
    /\ stored = [u \in User |-> [p \in Provider |-> None]]
    /\ code = << >>
    /\ pc = [w \in Worker |-> "idle"]
    /\ taken = [w \in Worker |-> None]
    /\ minted = << >> /\ started = << >> /\ signedIn = {}

(* what the transactions returned outlives the request *)
Return_keeping(w) == pc' = [pc EXCEPT ![w] = "idle"] /\ UNCHANGED taken

Return(w) ==
    /\ pc' = [pc EXCEPT ![w] = "idle"]
    /\ taken' = [taken EXCEPT ![w] = None]

-----------------------------------------------------------------------------
(* The ticket and the link *)

(* POST /connect/<p>/ticket for the user of the JWT: mint_ticket, _sweep.  *)
MintTicket(u, p) ==
    /\ Len(minted) < MaxTickets
    /\ minted' = Append(minted, [user |-> u, provider |-> p])
    /\ tickets' = Put(Remove(tickets, Expired(tickets, TenMinutes)), Len(minted) + 1,
                      [user |-> u, provider |-> p, used |-> None,
                       expires |-> now + TicketTTL])
    /\ UNCHANGED <<now, pending, stored, code, pc, taken, started, signedIn>>

(* the UPDATE without used_at IS NULL *)
Claimable_again(t) == t \in DOMAIN tickets

(* no provider check *)
TicketMatches_anyProvider(t, p) == tickets[t].expires >= now

(* consume_ticket claims the ticket, then checks; a failed check rolls the *)
(* claim back.                                                             *)
Claimable(t) == t \in DOMAIN tickets /\ tickets[t].used = None

TicketMatches(t, p) == tickets[t].expires >= now /\ tickets[t].provider = p

(* GET /connect/<p>?ticket=t, which a browser, a prefetcher or a second    *)
(* tab may repeat.                                                         *)
ConsumeTicket(w, t, p) ==
    /\ pc[w] = "idle"
    /\ Claimable(t)
    /\ IF TicketMatches(t, p)
       THEN /\ tickets' = [tickets EXCEPT ![t].used = now]
            /\ taken' = [taken EXCEPT ![w] = [ticket |-> t, user |-> tickets[t].user,
                                              provider |-> p]]
            /\ pc' = [pc EXCEPT ![w] = "start"]
       ELSE UNCHANGED <<tickets, pc, taken>>
    /\ UNCHANGED <<now, pending, stored, code, minted, started, signedIn>>

(* The return_url, the client's secrets or the redirect URI are refused    *)
(* after the ticket is spent, or the replica dies.                         *)
StartFails(w) ==
    /\ pc[w] = "start"
    /\ Return(w)
    /\ UNCHANGED <<now, tickets, pending, stored, code, minted, started, signedIn>>

(* _stash_pkce, which does not sweep, and the redirect to the provider.    *)
Stash(w) ==
    /\ pc[w] = "start"
    /\ Len(started) < MaxStates
    /\ LET s == Len(started) + 1
       IN  /\ pending' = Put(pending, s, [client |-> connect(taken[w].provider),
                                          user |-> taken[w].user,
                                          expires |-> now + StateTTL])
           /\ code' = Put(code, s, "none")
    /\ started' = Append(started, taken[w])
    /\ Return(w)
    /\ UNCHANGED <<now, tickets, stored, minted, signedIn>>

-----------------------------------------------------------------------------
(* The provider: its authorize page and its token endpoint *)

Approve(s) ==
    /\ s \in DOMAIN code /\ code[s] = "none"
    /\ code' = [code EXCEPT ![s] = "issued"]
    /\ UNCHANGED <<now, tickets, pending, stored, pc, taken, minted, started, signedIn>>

(* It knows the codes it issued, wants the verifier of the request each    *)
(* was approved for, and takes each once.                                  *)
Exchangeable(req) ==
    /\ req.code = req.state
    /\ code[req.code] = "issued"
    /\ started[req.code].provider = req.provider

-----------------------------------------------------------------------------
(* The callback *)

(* _consume_pkce, its SELECT and its checks.  An unknown, expired or       *)
(* foreign state answers 400; the delete of an expired row is rolled back  *)
(* by the exception that follows it.                                       *)
StashMatches(s, p) ==
    s \in DOMAIN pending /\ pending[s].expires >= now /\ pending[s].client = connect(p)

(* redirect_uri, the column that holds the user_key.                       *)
StashUser(s) == pending[s].user

(* The verifier is bound to "connect_routes" and that user; decrypt raises *)
(* on a sign-in's, which is bound to "oauth_as".                           *)
StashDecrypts(s) == StashUser(s) # None

(* a foreign state is deleted and refused without an exception *)
ReadStash_refusalCommits(w, s, c, p) ==
    /\ pc[w] = "idle"
    /\ s \in DOMAIN pending /\ c \in DOMAIN code /\ code[c] # "none"
    /\ IF StashMatches(s, p) /\ StashDecrypts(s)
       THEN /\ taken' = [taken EXCEPT ![w] = [state |-> s, code |-> c, provider |-> p,
                                              user |-> StashUser(s)]]
            /\ pc' = [pc EXCEPT ![w] = "matched"]
            /\ UNCHANGED pending
       ELSE pending' = Remove(pending, {s}) /\ UNCHANGED <<pc, taken>>
    /\ UNCHANGED <<now, tickets, stored, code, minted, started, signedIn>>

ReadStash(w, s, c, p) ==
    /\ pc[w] = "idle"
    /\ StashMatches(s, p) /\ StashDecrypts(s)
    /\ c \in DOMAIN code /\ code[c] # "none"
    /\ taken' = [taken EXCEPT ![w] = [state |-> s, code |-> c, provider |-> p,
                                      user |-> StashUser(s)]]
    /\ pc' = [pc EXCEPT ![w] = "matched"]
    /\ UNCHANGED <<now, tickets, pending, stored, code, minted, started, signedIn>>

DeleteStash(w) ==
    /\ pc[w] = "matched"
    /\ pending' = Remove(pending, {taken[w].state})
    /\ pc' = [pc EXCEPT ![w] = "exchange"]
    /\ UNCHANGED <<now, tickets, stored, code, taken, minted, started, signedIn>>

(* _exchange_code: the provider answers with a token.                      *)
ExchangeCode(w) ==
    /\ pc[w] = "exchange"
    /\ Exchangeable(taken[w])
    /\ code' = [code EXCEPT ![taken[w].code] = "spent"]
    /\ pc' = [pc EXCEPT ![w] = "save"]
    /\ UNCHANGED <<now, tickets, pending, stored, taken, minted, started, signedIn>>

(* The callback ends without a token, and without its stash: the secrets   *)
(* are gone, the provider refuses or sends no access_token (connection_    *)
(* error), or the connection fails, before or after the provider took the  *)
(* code (httpx's exceptions are no RuntimeError, the answer is a 500).     *)
ExchangeFails(w) ==
    /\ pc[w] = "exchange"
    /\ \/ UNCHANGED code
       \/ Exchangeable(taken[w]) /\ code' = [code EXCEPT ![taken[w].code] = "spent"]
    /\ Return(w)
    /\ UNCHANGED <<now, tickets, pending, stored, minted, started, signedIn>>

(* TokenStore(p, user_key).save_token, an upsert.                          *)
SaveToken(w) ==
    /\ pc[w] = "save"
    /\ stored' = [stored EXCEPT ![taken[w].user][taken[w].provider] = taken[w].state]
    /\ Return(w)
    /\ UNCHANGED <<now, tickets, pending, code, minted, started, signedIn>>

(* The replica dies in the callback, or the save fails; an open            *)
(* transaction is rolled back.                                             *)
Crash(w) ==
    /\ pc[w] \in {"matched", "save"}
    /\ Return(w)
    /\ UNCHANGED <<now, tickets, pending, stored, code, minted, started, signedIn>>

(* DELETE /connect/<p>.                                                    *)
Disconnect(u, p) ==
    /\ stored[u][p] # None
    /\ stored' = [stored EXCEPT ![u][p] = None]
    /\ UNCHANGED <<now, tickets, pending, code, pc, taken, minted, started, signedIn>>

-----------------------------------------------------------------------------
(* The authorization server's use of the table *)

(* store_pending_auth: sweep what has expired, whoever's it is.            *)
StorePendingAuth ==
    /\ Len(started) < MaxStates
    /\ LET s == Len(started) + 1
       IN  /\ pending' = Put(Remove(pending, Expired(pending, 0)), s,
                             [client |-> signIn, user |-> None, expires |-> now + StateTTL])
           /\ code' = Put(code, s, "none")
    /\ started' = Append(started, [ticket |-> None, user |-> None, provider |-> None])
    /\ UNCHANGED <<now, tickets, stored, pc, taken, minted, signedIn>>

(* The same from the other side: decrypt raises on a connect flow's row.   *)
Decrypts(s) == pending[s].client = signIn

(* consume_pending_auth: DELETE ... RETURNING, rolled back when the row    *)
(* has expired or does not decrypt.                                        *)
ConsumePendingAuth(s) ==
    /\ s \in DOMAIN pending /\ pending[s].expires >= now
    /\ Decrypts(s)
    /\ pending' = Remove(pending, {s})
    /\ signedIn' = signedIn \cup {s}
    /\ UNCHANGED <<now, tickets, stored, code, pc, taken, minted, started>>

(* bond-mcps prune-oauth, its deletes on these two tables.                 *)
PruneOAuth ==
    /\ tickets' = Remove(tickets, Expired(tickets, TenMinutes))
    /\ pending' = Remove(pending, Expired(pending, TenMinutes))
    /\ UNCHANGED <<now, stored, code, pc, taken, minted, started, signedIn>>

Tick ==
    /\ now < MaxNow
    /\ now' = now + 1
    /\ UNCHANGED <<tickets, pending, stored, code, pc, taken, minted, started, signedIn>>

Next ==
    \/ \E u \in User, p \in Provider : MintTicket(u, p) \/ Disconnect(u, p)
    \/ \E w \in Worker, t \in 1 .. MaxTickets, p \in Provider : ConsumeTicket(w, t, p)
    \/ \E w \in Worker : StartFails(w) \/ Stash(w) \/ DeleteStash(w)
    \/ \E w \in Worker : ExchangeCode(w) \/ ExchangeFails(w) \/ SaveToken(w)
    \/ \E w \in Worker : Crash(w)
    \/ \E w \in Worker, s, c \in 1 .. MaxStates, p \in Provider : ReadStash(w, s, c, p)
    \/ \E s \in 1 .. MaxStates : Approve(s) \/ ConsumePendingAuth(s)
    \/ StorePendingAuth
    \/ PruneOAuth
    \/ Tick

Spec == Init /\ [][Next]_vars

-----------------------------------------------------------------------------
(* Properties *)

IsConnect(s) == started[s].ticket # None

(* Every variable has its type.                                            *)
TypeOK ==
    /\ now \in 0 .. MaxNow
    /\ DOMAIN tickets \subseteq 1 .. Len(minted)
    /\ \A t \in DOMAIN tickets : tickets[t] \in
          [user : User, provider : Provider, used : Nat \cup {None}, expires : Nat]
    /\ DOMAIN pending \subseteq 1 .. Len(started)
    /\ \A s \in DOMAIN pending :
          /\ pending[s].client \in {connect(p) : p \in Provider} \cup {signIn}
          /\ pending[s].user \in User \cup {None}
    /\ stored \in [User -> [Provider -> 1 .. Len(started) \cup {None}]]
    /\ signedIn \subseteq 1 .. Len(started)
    /\ \A w \in Worker : pc[w] = "idle" <=> taken[w] = None

(* A credential is kept for the user and the provider of the ticket that   *)
(* started its flow, and is the one that flow's approval gave: flows of    *)
(* several users and providers that run at once are not mixed up, nor      *)
(* joined with a sign-in's row in the same table (connect_routes.py:       *)
(* "state bound to (user_key, code_verifier, return_url)").                *)
CredentialLandsWithItsUser ==
    \A u \in User, p \in Provider :
        stored[u][p] # None =>
            /\ IsConnect(stored[u][p])
            /\ minted[started[stored[u][p]].ticket] = [user |-> u, provider |-> p]
            /\ code[stored[u][p]] = "spent"

(* A link opened twice, by a second tab or at another replica, or after    *)
(* the ticket's row was swept, starts one flow (models.py: "Consumed       *)
(* exactly once").                                                         *)
OneFlowPerTicket ==
    \A r, s \in 1 .. Len(started) :
        IsConnect(r) /\ started[r].ticket = started[s].ticket => r = s

(* Nobody but its own flow uses up what has not expired: a ticket is spent *)
(* only by the start of its provider's flow, and a row of the shared table *)
(* only by the callback it belongs to, its provider's for a connect flow   *)
(* and the authorization server's, which goes on with it, for a sign-in;   *)
(* whichever route the state is sent to and whoever sweeps or prunes.      *)
OnlyOwnersSpend ==
    [][/\ \A t \in DOMAIN tickets :
             tickets[t].expires >= now /\ Claimable(t) /\ ~Claimable(t)'
                => \E w \in Worker : /\ pc[w] = "idle" /\ pc'[w] = "start"
                                     /\ taken'[w].ticket = t
                                     /\ taken'[w].provider = tickets[t].provider
       /\ \A s \in DOMAIN pending :
             pending[s].expires >= now /\ s \notin DOMAIN pending' =>
                IF IsConnect(s)
                THEN \E w \in Worker : /\ pc[w] = "matched" /\ pc'[w] = "exchange"
                                       /\ taken[w].state = s
                                       /\ taken[w].provider = started[s].provider
                ELSE s \in signedIn' \ signedIn]_vars
=============================================================================
