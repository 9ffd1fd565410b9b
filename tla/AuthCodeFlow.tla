----------------------------- MODULE AuthCodeFlow -----------------------------
(***************************************************************************)
(* The authorization-code grant of the authorization server: /oauth/       *)
(* authorize, the upstream identity provider's callback and /oauth/token   *)
(* (auth_server/endpoints.py), over the oauth_pending_auth and             *)
(* oauth_auth_codes tables (auth_server/codes.py).                         *)
(*                                                                         *)
(* A handler is not one transaction: the callback consumes its pending row *)
(* in one and issues the code in another, with the call to the identity    *)
(* provider between them, and the token endpoint consumes the code in one  *)
(* and issues the refresh token in another.  Several replicas run these    *)
(* handlers at once and may die between two transactions.  Within a        *)
(* transaction the claim is one statement (DELETE ... RETURNING, UPDATE    *)
(* ... WHERE used_at IS NULL), so a transaction is a step.                 *)
(*                                                                         *)
(* Abstracted: states and codes are numbered in the order they are made,   *)
(* and email, resource, scope and client_state are left out.               *)
(*                                                                         *)
(* Definitions named <operator>_<bug> are mutations, as in RefreshRotation.*)
(***************************************************************************)
EXTENDS Naturals, Sequences, FiniteSets

CONSTANTS Worker,         \* request handlers of the AS replicas
          Client, User,
          Uri,            \* redirect_uris, see UriType
          Registered,     \* Registered[c]: the redirect_uris of client c
          Verifier,       \* PKCE code verifiers
          None,           \* SQL NULL
          PendingTTL,     \* PENDING_AUTH_TTL_SECONDS
          CodeTTL,        \* AUTH_CODE_TTL_SECONDS
          TenMinutes,     \* how long past expiry codes and pruned rows stay
          MaxNow,         \* bound: the last instant the model reaches
          MaxStates,      \* bound: authorize requests
          MaxCodes        \* bound: authorization codes

(* What is_redirect_uri_allowed looks at: query stands for a query or a    *)
(* fragment, loopback for an http URL on localhost, 127.0.0.1 or ::1.      *)
UriType == [host : STRING, port : Nat, path : STRING,
            query : BOOLEAN, userinfo : BOOLEAN, loopback : BOOLEAN]

ASSUME FlowAssumption ==
    /\ PendingTTL \in Nat /\ CodeTTL \in Nat /\ TenMinutes \in Nat
    /\ MaxNow \in Nat /\ MaxStates \in Nat /\ MaxCodes \in Nat
    /\ None \notin Client \cup User \cup Verifier \cup Nat
    /\ Uri \subseteq UriType
    /\ Registered \in [Client -> SUBSET Uri]

VARIABLES now,
          pending,   \* oauth_pending_auth: state -> row
          codes,     \* oauth_auth_codes: code -> row
          pc,        \* pc[w]: "idle", "exchange" or "grant"
          taken,     \* taken[w]: what w's first transaction returned
          asked,     \* history: every authorize request, in order
          issued,    \* history: every code's [state, user], in order
          families   \* history: every refresh family issued, in order

vars == <<now, pending, codes, pc, taken, asked, issued, families>>

(* The client sends S256(verifier) at authorize and the verifier itself at *)
(* the token endpoint; SHA-256 has no collisions here.                     *)
S256(v) == <<"S256", v>>
Challenge == {S256(v) : v \in Verifier}

is_redirect_uri_allowed(c, uri) ==
    /\ ~uri.query /\ ~uri.userinfo
    /\ \/ uri \in Registered[c]
       \/ /\ uri.loopback
          /\ \E reg \in Registered[c] :
                reg.loopback /\ reg.host = uri.host /\ reg.path = uri.path /\ ~reg.query

Remove(f, S) == [x \in DOMAIN f \ S |-> f[x]]
Put(f, k, v) == [x \in DOMAIN f \cup {k} |-> IF x = k THEN v ELSE f[x]]

(* Rows of f that expired more than age ago.                               *)
Expired(f, age) == {x \in DOMAIN f : f[x].expires + age < now}

Init ==
    /\ now = 0
    /\ pending = << >> /\ codes = << >>
    /\ pc = [w \in Worker |-> "idle"]
    /\ taken = [w \in Worker |-> None]
    /\ asked = << >> /\ issued = << >> /\ families = << >>

(* oauth_authorize: resolve the client, check the redirect, store_pending_ *)
(* auth, which sweeps what has expired.                                    *)
Authorize(c, uri, v) ==
    /\ is_redirect_uri_allowed(c, uri)
    /\ Len(asked) < MaxStates
    /\ asked' = Append(asked, [client |-> c, uri |-> uri, verifier |-> v])
    /\ pending' = Put(Remove(pending, Expired(pending, 0)), Len(asked) + 1,
                      [client |-> c, uri |-> uri, challenge |-> S256(v),
                       expires |-> now + PendingTTL])
    /\ UNCHANGED <<now, codes, pc, taken, issued, families>>

(* consume_pending_auth: an unknown state matches nothing, an expired one  *)
(* is put back by the rollback; both answer 400 and change nothing.        *)
ConsumePending(w, s) ==
    /\ pc[w] = "idle"
    /\ s \in DOMAIN pending /\ pending[s].expires >= now
    /\ pending' = Remove(pending, {s})
    /\ taken' = [taken EXCEPT ![w] = [state |-> s, row |-> pending[s]]]
    /\ pc' = [pc EXCEPT ![w] = "exchange"]
    /\ UNCHANGED <<now, codes, asked, issued, families>>

Return(w) ==
    /\ pc' = [pc EXCEPT ![w] = "idle"]
    /\ taken' = [taken EXCEPT ![w] = None]

(* The upstream reported an error, sent no code, or refused the exchange;  *)
(* or the replica died.  The pending row stays consumed.                   *)
AbandonSignIn(w) ==
    /\ pc[w] = "exchange"
    /\ Return(w)
    /\ UNCHANGED <<now, pending, codes, asked, issued, families>>

(* exchange_code told who the user is: issue_auth_code, which sweeps.      *)
IssueCode(w, u) ==
    /\ pc[w] = "exchange"
    /\ Len(issued) < MaxCodes
    /\ LET row == taken[w].row
       IN  codes' = Put(Remove(codes, Expired(codes, TenMinutes)), Len(issued) + 1,
                        [client |-> row.client, user |-> u, uri |-> row.uri,
                         challenge |-> row.challenge, used |-> None,
                         expires |-> now + CodeTTL])
    /\ issued' = Append(issued, [state |-> taken[w].state, user |-> u])
    /\ Return(w)
    /\ UNCHANGED <<now, pending, asked, families>>

(* the UPDATE without used_at IS NULL *)
Claimable_again(k) == k \in DOMAIN codes

(* no PKCE check *)
Matches_unproved(k, c, uri, v) ==
    codes[k].expires >= now /\ codes[k].client = c /\ codes[k].uri = uri

(* used_at set, whatever the checks say *)
RefusedClaim_commits(k, c, uri, v) == codes' = [codes EXCEPT ![k].used = now]

(* consume_auth_code claims the code, then checks; a failed check rolls    *)
(* the claim back.                                                         *)
Claimable(k) == k \in DOMAIN codes /\ codes[k].used = None

Matches(k, c, uri, v) ==
    /\ codes[k].expires >= now
    /\ codes[k].client = c
    /\ codes[k].uri = uri
    /\ codes[k].challenge = S256(v)

RefusedClaim(k, c, uri, v) == UNCHANGED codes

ConsumeCode(w, k, c, uri, v) ==
    /\ pc[w] = "idle"
    /\ Claimable(k)
    /\ IF Matches(k, c, uri, v)
       THEN /\ codes' = [codes EXCEPT ![k].used = now]
            /\ taken' = [taken EXCEPT ![w] = [code |-> k, row |-> codes[k], by |-> v]]
            /\ pc' = [pc EXCEPT ![w] = "grant"]
       ELSE RefusedClaim(k, c, uri, v) /\ UNCHANGED <<pc, taken>>
    /\ UNCHANGED <<now, pending, asked, issued, families>>

(* _build_token_response: issue_refresh_token in a transaction of its own. *)
GrantFamily(w) ==
    /\ pc[w] = "grant"
    /\ families' = Append(families,
                     [code |-> taken[w].code, by |-> taken[w].by,
                      client |-> taken[w].row.client, user |-> taken[w].row.user])
    /\ Return(w)
    /\ UNCHANGED <<now, pending, codes, asked, issued>>

(* The replica dies between the two: the code is spent, nothing is issued. *)
CrashBeforeGrant(w) ==
    /\ pc[w] = "grant"
    /\ Return(w)
    /\ UNCHANGED <<now, pending, codes, asked, issued, families>>

(* bond-mcps prune-oauth, its deletes on these two tables.                 *)
PruneOAuth ==
    /\ pending' = Remove(pending, Expired(pending, TenMinutes))
    /\ codes' = Remove(codes, Expired(codes, TenMinutes))
    /\ UNCHANGED <<now, pc, taken, asked, issued, families>>

Tick ==
    /\ now < MaxNow
    /\ now' = now + 1
    /\ UNCHANGED <<pending, codes, pc, taken, asked, issued, families>>

Next ==
    \/ \E c \in Client, uri \in Uri, v \in Verifier : Authorize(c, uri, v)
    \/ \E w \in Worker, s \in 1 .. MaxStates : ConsumePending(w, s)
    \/ \E w \in Worker : AbandonSignIn(w) \/ GrantFamily(w) \/ CrashBeforeGrant(w)
    \/ \E w \in Worker, u \in User : IssueCode(w, u)
    \/ \E w \in Worker, k \in 1 .. MaxCodes, c \in Client, uri \in Uri, v \in Verifier :
          ConsumeCode(w, k, c, uri, v)
    \/ PruneOAuth
    \/ Tick

Spec == Init /\ [][Next]_vars

-----------------------------------------------------------------------------
(* Properties *)

StateOf(k) == issued[k].state

(* Every variable has its type.                                            *)
TypeOK ==
    /\ now \in 0 .. MaxNow
    /\ DOMAIN pending \subseteq 1 .. Len(asked)
    /\ \A s \in DOMAIN pending : pending[s] \in
          [client : Client, uri : Uri, challenge : Challenge, expires : Nat]
    /\ DOMAIN codes \subseteq 1 .. Len(issued)
    /\ \A k \in DOMAIN codes : codes[k] \in
          [client : Client, user : User, uri : Uri, challenge : Challenge,
           used : Nat \cup {None}, expires : Nat]
    /\ pc \in [Worker -> {"idle", "exchange", "grant"}]
    /\ \A w \in Worker : pc[w] = "idle" => taken[w] = None
    /\ \A k \in 1 .. Len(issued) : StateOf(k) \in 1 .. Len(asked)

(* One sign-in at the identity provider yields at most one refresh family, *)
(* however many callbacks and token requests race, are repeated or arrive  *)
(* after a sweep has forgotten the rows (codes.py: "two concurrent         *)
(* callbacks with the same bond_state cannot both pass", "atomic           *)
(* single-use enforcement").                                               *)
OneFamilyPerSignIn ==
    \A i, j \in 1 .. Len(families) :
        StateOf(families[i].code) = StateOf(families[j].code) => i = j

(* What a family is bound to is what its authorize request asked for and   *)
(* whom the identity provider named, and it went to whoever made that      *)
(* request: the client, the user and the verifier do not get mixed up      *)
(* between sign-ins that run at once.                                      *)
FamilyBelongsToSignIn ==
    \A i \in 1 .. Len(families) :
        LET f == families[i]
            request == asked[StateOf(f.code)]
        IN  /\ f.client = request.client
            /\ f.by = request.verifier
            /\ f.user = issued[f.code].user
            /\ is_redirect_uri_allowed(f.client, request.uri)

(* Nobody but its owner spends a sign-in: a pending row or a code that has *)
(* not expired is only used up by a handler that goes on with it, so a     *)
(* wrong client_id, redirect_uri or verifier, a replay, a sweep or a prune *)
(* leaves it for the client that can prove itself.                         *)
OnlyOwnersSpend ==
    [][/\ \A s \in DOMAIN pending :
             pending[s].expires >= now /\ s \notin DOMAIN pending'
                => \E w \in Worker : pc[w] = "idle" /\ pc'[w] = "exchange" /\ taken'[w].state = s
       /\ \A k \in DOMAIN codes :
             codes[k].expires >= now /\ Claimable(k) /\ ~Claimable(k)'
                => \E w \in Worker : pc[w] = "idle" /\ pc'[w] = "grant" /\ taken'[w].code = k]_vars
=============================================================================
