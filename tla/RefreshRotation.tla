--------------------------- MODULE RefreshRotation ---------------------------
(***************************************************************************)
(* The oauth_refresh_tokens table of the authorization server              *)
(* (auth/auth_server/codes.py) and the two operator commands that write it *)
(* (auth/cli.py), one atomic step per database transaction.  That is how   *)
(* SQLite runs them, where the first UPDATE takes the only write lock;     *)
(* RefreshTx splits the same transactions into their statements.           *)
(*                                                                         *)
(* Abstracted: a token is identified with its SHA-256 hash and numbered in *)
(* the order of minting (48 random bytes never repeat), resource and scope *)
(* travel with client and user and are left out, and the clock is a        *)
(* counter whose unit the constants share.  A refused presentation rolls   *)
(* its transaction back, so here it is no step at all: Verdict says which  *)
(* presentations are refused and why.                                      *)
(*                                                                         *)
(* Definitions named <operator>_<bug> are the operator with a bug in it:   *)
(* the mutations that show which slip each property would catch.           *)
(***************************************************************************)
EXTENDS Integers, Sequences

CONSTANTS Client, User,
          None,          \* SQL NULL
          NotAnInt,      \* a setting int() rejects
          GraceEnv,      \* BOND_MCPS_AS_REFRESH_GRACE_SECONDS: an integer,
                         \* NotAnInt, or None when unset or blank
          TTL,           \* REFRESH_TOKEN_TTL_SECONDS
          DefaultGrace,  \* _DEFAULT_REFRESH_GRACE_SECONDS
          SweepAfter,    \* how long past expiry _sweep_refresh_tokens waits
          Day,           \* 86400 seconds
          MaxNow,        \* bound: the last instant the model reaches
          MaxTokens      \* bound: how many tokens the model mints

ASSUME TimeAssumption ==
    /\ TTL \in Nat /\ SweepAfter \in Nat
    /\ MaxNow \in Nat /\ MaxTokens \in Nat
    /\ Day \in Nat \ {0}
    /\ DefaultGrace \in 0 .. TTL

ASSUME NullAssumption ==
    /\ None \notin Int
    /\ NotAnInt \notin Int
    /\ GraceEnv \in Int \cup {None, NotAnInt}

VARIABLES now,     \* the clock
          rows,    \* the table: hash -> row
          born,    \* history: the birth of every token, in minting order
          killed   \* history: families an operator has revoked

vars == <<now, rows, born, killed>>

-----------------------------------------------------------------------------
(* Settings *)

refresh_grace_seconds ==
    IF GraceEnv \notin Int THEN DefaultGrace
    ELSE IF GraceEnv < 0 THEN DefaultGrace
    ELSE IF GraceEnv > TTL THEN TTL
    ELSE GraceEnv

(* Python's -(-n // d): integer division rounding up. *)
CeilDiv(n, d) == -((-n) \div d)

(* rounding down: the retention no longer covers a grace of a few seconds. *)
_default_revoked_grace_days_floor == refresh_grace_seconds \div Day

_default_revoked_grace_days == CeilDiv(refresh_grace_seconds, Day) + 1

KeepRevoked == _default_revoked_grace_days * Day

-----------------------------------------------------------------------------
(* The table *)

Token == 1 .. MaxTokens

Row == [client : Client, user : User, expires : Nat,
        revoked : Nat \cup {None},     \* revoked_at
        next : Token \cup {None}]      \* replaced_by_hash

Birth == [root : Token,                \* the first token of the family
          parent : Token \cup {None},  \* the token presented to obtain it
          at : Nat]

Live(t) == t \in DOMAIN rows /\ rows[t].revoked = None
Expired(t) == rows[t].expires < now
Minted == 1 .. Len(born)

(* The token generate_opaque_secret returns next. *)
Fresh == Len(born) + 1

(* the retiring UPDATE without revoked_at IS NULL, or its rowcount ignored *)
SuccessorUnused_exists(t) == rows[t].next \in DOMAIN rows

(* The row the presented one's successor is, if it is still unused. *)
SuccessorUnused(t) == rows[t].next \in DOMAIN rows /\ Live(rows[t].next)

(* the last second of the window missed *)
WindowOpen_short(t) ==
    refresh_grace_seconds > 0 /\ now - rows[t].revoked < refresh_grace_seconds

WindowOpen(t) ==
    refresh_grace_seconds > 0 /\ now - rows[t].revoked <= refresh_grace_seconds

(* rotate_refresh_token's decision, in the order the code takes it: two    *)
(* verdicts mint a successor, the other four refuse.                       *)
Verdict(t, c) ==
    IF t \notin DOMAIN rows THEN "unknown"
    ELSE IF ~Live(t) /\ (rows[t].next = None \/ ~WindowOpen(t)) THEN "revoked"
    ELSE IF Expired(t) THEN "expired"
    ELSE IF rows[t].client # c THEN "client_mismatch"
    ELSE IF Live(t) THEN "live"
    ELSE IF SuccessorUnused(t) THEN "graced" ELSE "revoked"

(* the lifetime subtracted *)
NewRow_past(c, u) == [client |-> c, user |-> u, expires |-> now - TTL,
                      revoked |-> None, next |-> None]

NewRow(c, u) == [client |-> c, user |-> u, expires |-> now + TTL,
                 revoked |-> None, next |-> None]

(* _sweep_refresh_tokens, which every mint runs before it inserts. *)
Swept(r) == [x \in {y \in DOMAIN r : r[y].expires + SweepAfter >= now} |-> r[x]]

Inserted(r, row) ==
    [x \in DOMAIN r \cup {Fresh} |-> IF x = Fresh THEN row ELSE r[x]]

Bear(root, parent) ==
    /\ Fresh \in Token
    /\ born' = Append(born, [root |-> root, parent |-> parent, at |-> now])

-----------------------------------------------------------------------------
(* Transactions *)

Init ==
    /\ now = 0
    /\ rows = << >>
    /\ born = << >>
    /\ killed = {}

(* issue_refresh_token, run by the code grant. *)
SignIn(u, c) ==
    /\ Bear(Fresh, None)
    /\ rows' = Inserted(Swept(rows), NewRow(c, u))
    /\ UNCHANGED <<now, killed>>

(* replaced_by_hash left NULL *)
RotateLive_unlinked(t, c) ==
    /\ Verdict(t, c) = "live"
    /\ Bear(born[t].root, t)
    /\ rows' = Inserted(Swept([rows EXCEPT ![t].revoked = now]),
                        NewRow(rows[t].client, rows[t].user))
    /\ UNCHANGED <<now, killed>>

(* rotate_refresh_token on a live token. *)
RotateLive(t, c) ==
    /\ Verdict(t, c) = "live"
    /\ Bear(born[t].root, t)
    /\ rows' = Inserted(Swept([rows EXCEPT ![t].revoked = now, ![t].next = Fresh]),
                        NewRow(rows[t].client, rows[t].user))
    /\ UNCHANGED <<now, killed>>

(* the successor left live *)
RotateGraced_unretired(t, c) ==
    /\ Verdict(t, c) = "graced"
    /\ Bear(born[t].root, t)
    /\ rows' = Inserted(Swept([rows EXCEPT ![t].next = Fresh]),
                        NewRow(rows[t].client, rows[t].user))
    /\ UNCHANGED <<now, killed>>

(* the presented row revoked anew, as the live branch does *)
RotateGraced_restamped(t, c) ==
    /\ Verdict(t, c) = "graced"
    /\ Bear(born[t].root, t)
    /\ rows' = Inserted(Swept([rows EXCEPT ![rows[t].next].revoked = now,
                                           ![t].revoked = now, ![t].next = Fresh]),
                        NewRow(rows[t].client, rows[t].user))
    /\ UNCHANGED <<now, killed>>

(* rotate_refresh_token on a revoked token whose successor is unused: the  *)
(* successor is retired, the presented row keeps its revoked_at.           *)
RotateGraced(t, c) ==
    /\ Verdict(t, c) = "graced"
    /\ Bear(born[t].root, t)
    /\ rows' = Inserted(Swept([rows EXCEPT ![rows[t].next].revoked = now,
                                           ![t].next = Fresh]),
                        NewRow(rows[t].client, rows[t].user))
    /\ UNCHANGED <<now, killed>>

(* bond-mcps revoke-tokens. *)
RevokeTokens(u) ==
    /\ rows' = [x \in DOMAIN rows |->
                  IF rows[x].user = u /\ Live(x)
                  THEN [rows[x] EXCEPT !.revoked = now] ELSE rows[x]]
    /\ killed' = killed \cup {born[x].root : x \in {y \in DOMAIN rows : rows[y].user = u}}
    /\ UNCHANGED <<now, born>>

(* bond-mcps prune-oauth, its delete on this table, with the default       *)
(* retention.                                                              *)
Prunable(x) == ~Live(x) /\ rows[x].revoked + KeepRevoked < now

PruneOAuth ==
    /\ rows' = [x \in {y \in DOMAIN rows : ~Prunable(y)} |-> rows[x]]
    /\ UNCHANGED <<now, born, killed>>

Tick ==
    /\ now < MaxNow
    /\ now' = now + 1
    /\ UNCHANGED <<rows, born, killed>>

Next ==
    \/ \E u \in User, c \in Client : SignIn(u, c)
    \/ \E t \in Token, c \in Client : RotateLive(t, c) \/ RotateGraced(t, c)
    \/ \E u \in User : RevokeTokens(u)
    \/ PruneOAuth
    \/ Tick

Spec == Init /\ [][Next]_vars

-----------------------------------------------------------------------------
(* Properties *)

(* Every row and every history entry has its type, every stored token was *)
(* minted, and a row's successor and a token's parent were minted too.    *)
TypeOK ==
    /\ now \in Nat
    /\ born \in Seq(Birth) /\ Minted \subseteq Token
    /\ DOMAIN rows \subseteq Minted
    /\ rows \in [DOMAIN rows -> Row]
    /\ killed \subseteq Minted
    /\ \A t \in Minted : born[t].root \in Minted
    /\ \A t \in DOMAIN rows : rows[t].next \in Minted \cup {None}

(* A sign-in never has two usable tokens: the session cannot fork into two *)
(* clients that both hold an unused token (codes.py, rotate_refresh_token).*)
OneLivePerFamily ==
    \A s, t \in DOMAIN rows :
        Live(s) /\ Live(t) /\ born[s].root = born[t].root => s = t

(* A token that is live, or that was once accepted, is the only such token *)
(* minted for the token presented: whatever a lost reply or a thief gets   *)
(* retried, one lineage at most goes on ("a stolen token cannot be graced  *)
(* once the real client has moved on", codes.py refresh_grace_seconds).    *)
HasChild(t) == \E x \in Minted : born[x].parent = t

NoFork ==
    \A s, t \in Minted :
        /\ born[s].parent = born[t].parent
        /\ born[s].parent # None
        /\ Live(s) \/ HasChild(s)
        /\ Live(t) \/ HasChild(t)
        => s = t

(* All the successors one token ever yields are minted within the grace    *)
(* window: a client stuck offline cannot renew the offer (codes.py:481).   *)
GraceCountsFromFirst ==
    \A s, t \in Minted :
        born[s].parent = born[t].parent /\ born[s].parent # None
            => born[s].at - born[t].at <= refresh_grace_seconds

(* After revoke-tokens none of the user's sign-ins of that moment can      *)
(* refresh again (cli.py cmd_revoke_tokens).                               *)
RevokedStaysDead ==
    \A t \in DOMAIN rows : Live(t) => born[t].root \notin killed

(* A row some client could still present with success: the deletes of the  *)
(* insert-time sweep and of prune-oauth never take one, so the grace       *)
(* "never promises something the database has already forgotten"           *)
(* (codes.py refresh_grace_seconds, cli.py _default_revoked_grace_days).   *)
Presentable(t) == \E c \in Client : Verdict(t, c) \in {"live", "graced"}

NothingPromisedForgotten ==
    [][\A t \in DOMAIN rows : Presentable(t) => t \in DOMAIN rows']_vars

(* The table implements the contract: the live token of a family is its    *)
(* unrevoked row, the prior token the row that names it as successor.      *)
AnyOf(S) == IF S = {} THEN None ELSE CHOOSE t \in S : TRUE

LiveToken(f) == AnyOf({t \in DOMAIN rows : Live(t) /\ born[t].root = f})

PriorToken(f) ==
    LET l == LiveToken(f)
    IN  IF l = None THEN None ELSE AnyOf({t \in DOMAIN rows : rows[t].next = l})

C == INSTANCE RefreshContract WITH
        minted <- Minted,
        live <- [f \in Token |-> LiveToken(f)],
        prior <- [f \in Token |-> PriorToken(f)]

ImplementsContract == C!Contract
=============================================================================
