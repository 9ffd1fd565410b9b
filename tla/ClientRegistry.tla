---------------------------- MODULE ClientRegistry ----------------------------
(***************************************************************************)
(* The registry of OAuth clients: the oauth_clients table                  *)
(* (auth_server/clients.py), composed with the refresh tokens of           *)
(* RefreshRotation, whose rows bond-mcps prune-oauth (cli.py) consults to  *)
(* tell an idle client from one in use.                                    *)
(*                                                                         *)
(* A client registers itself or comes from the environment of the          *)
(* replicas; only /oauth/authorize looks it up, so a sign-in under way and *)
(* a session that refreshes do not notice that it is gone, the next        *)
(* sign-in does.  Prune reads which clients are in use in one statement    *)
(* and deletes the others in a later one of the same transaction, which    *)
(* under READ COMMITTED keeps nobody out in between.                       *)
(*                                                                         *)
(* Abstracted: redirect_uris and the metadata of a client.                 *)
(*                                                                         *)
(* Definitions named <operator>_<bug> are mutations, as in RefreshRotation.*)
(***************************************************************************)
EXTENDS RefreshRotation

CONSTANTS Static,      \* clients in BOND_MCPS_STATIC_CLIENTS
          Attempt,     \* sign-ins under way at a time
          ClientIdle   \* --client-idle-days

ASSUME RegistryAssumption ==
    /\ Static \subseteq Client
    /\ None \notin Client
    /\ ClientIdle \in Nat

VARIABLES clients,    \* the table: client_id -> row
          ids,        \* history: client_ids ever handed out
          attempt,    \* attempt[a]: the client that signs a user in, or None
          pruning,    \* what a running prune-oauth has read, or None
          crossed,    \* history: attempts that a prune overlapped
          excused     \* history: families those attempts ended in

rvars == <<clients, ids, attempt, pruning, crossed, excused>>

RInit ==
    /\ Init
    /\ clients = << >> /\ ids = {}
    /\ attempt = [a \in Attempt |-> None]
    /\ pruning = None /\ crossed = {} /\ excused = {}

Registered == DOMAIN clients

-----------------------------------------------------------------------------
(* Registering *)

(* register_client: a client_id that was never used.                       *)
RegisterClient(c) ==
    /\ c \notin Static \cup ids
    /\ ids' = ids \cup {c}
    /\ clients' = [x \in Registered \cup {c} |->
                     IF x = c THEN [static |-> FALSE, created |-> now] ELSE clients[x]]
    /\ UNCHANGED <<vars, attempt, pruning, crossed, excused>>

(* _ensure_statics_seeded, on the first call of a replica, that is at any  *)
(* time: each entry is upserted in a transaction of its own, one that      *)
(* fails is logged and skipped.  A row that is there keeps its created_at. *)
SeedStatics ==
    /\ \E done \in SUBSET Static :
          /\ done \ Registered # {}
          /\ clients' = [x \in Registered \cup done |->
                           IF x \in Registered THEN clients[x]
                           ELSE [static |-> TRUE, created |-> now]]
    /\ UNCHANGED <<vars, ids, attempt, pruning, crossed, excused>>

-----------------------------------------------------------------------------
(* Signing in *)

(* oauth_authorize with a client_id that get_client finds; any other is    *)
(* answered 400.                                                           *)
AuthorizeClient(a, c) ==
    /\ attempt[a] = None
    /\ c \in Registered
    /\ attempt' = [attempt EXCEPT ![a] = c]
    /\ crossed' = IF pruning = None THEN crossed ELSE crossed \cup {a}
    /\ UNCHANGED <<vars, clients, ids, pruning, excused>>

(* The user gave up, or the sign-in failed or expired.                     *)
AbandonAttempt(a) ==
    /\ attempt[a] # None
    /\ attempt' = [attempt EXCEPT ![a] = None]
    /\ crossed' = crossed \ {a}
    /\ UNCHANGED <<vars, clients, ids, pruning, excused>>

(* The code grant, which does not look at the registry.                    *)
GrantAttempt(a, u) ==
    /\ attempt[a] # None
    /\ SignIn(u, attempt[a])
    /\ attempt' = [attempt EXCEPT ![a] = None]
    /\ crossed' = crossed \ {a}
    /\ excused' = IF a \in crossed THEN excused \cup {Fresh} ELSE excused
    /\ UNCHANGED <<clients, ids, pruning>>

(* Nor does the refresh grant.                                             *)
Refresh(t) ==
    /\ t \in DOMAIN rows
    /\ RotateLive(t, rows[t].client) \/ RotateGraced(t, rows[t].client)
    /\ UNCHANGED rvars

-----------------------------------------------------------------------------
(* bond-mcps prune-oauth, its statements on clients and refresh tokens *)

(* the cutoff itself counted as idle *)
ActiveClients_after ==
    {rows[t].client : t \in {x \in DOMAIN rows : born[x].at + ClientIdle > now}}

ActiveClients ==
    {rows[t].client : t \in {x \in DOMAIN rows : born[x].at + ClientIdle >= now}}

PruneReads ==
    /\ pruning = None
    /\ pruning' = [at |-> now, active |-> ActiveClients]
    /\ crossed' = crossed \cup {a \in Attempt : attempt[a] # None}
    /\ UNCHANGED <<vars, clients, ids, attempt, excused>>

Idle(c) ==
    /\ ~clients[c].static
    /\ clients[c].created + ClientIdle < pruning.at
    /\ c \notin pruning.active

PruneDeletes ==
    /\ pruning # None
    /\ rows' = [x \in {y \in DOMAIN rows :
                         Live(y) \/ rows[y].revoked + KeepRevoked >= pruning.at} |-> rows[x]]
    /\ clients' = [c \in {x \in Registered : ~Idle(x)} |-> clients[c]]
    /\ pruning' = None
    /\ UNCHANGED <<now, born, killed, ids, attempt, crossed, excused>>

(* --dry-run, or the command fails: the transaction changes nothing.       *)
PruneEnds ==
    /\ pruning # None
    /\ pruning' = None
    /\ UNCHANGED <<vars, clients, ids, attempt, crossed, excused>>

RNext ==
    \/ \E c \in Client : RegisterClient(c)
    \/ SeedStatics
    \/ \E a \in Attempt, c \in Client : AuthorizeClient(a, c)
    \/ \E a \in Attempt : AbandonAttempt(a)
    \/ \E a \in Attempt, u \in User : GrantAttempt(a, u)
    \/ \E t \in Token : Refresh(t)
    \/ \E u \in User : RevokeTokens(u) /\ UNCHANGED rvars
    \/ PruneReads \/ PruneDeletes \/ PruneEnds
    \/ Tick /\ UNCHANGED rvars

RSpec == RInit /\ [][RNext]_<<vars, rvars>>

-----------------------------------------------------------------------------
(* Properties *)

(* With an idle time of at least a refresh token's lifetime, pruning never *)
(* takes the client from under a session that can still be refreshed,      *)
(* however often it rotates and however long the prune runs                *)
(* (cli.py:245-264), unless the sign-in itself overlapped the prune: its   *)
(* user would be told "Unknown client_id" at the next one.                 *)
NoOrphanedSession ==
    \A t \in DOMAIN rows :
        Live(t) /\ ~Expired(t) /\ rows[t].client \notin Registered
            => born[t].root \in excused
=============================================================================
