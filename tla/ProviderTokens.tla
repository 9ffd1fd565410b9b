---------------------------- MODULE ProviderTokens ----------------------------
(***************************************************************************)
(* The stored credentials of one user at one provider: the provider_tokens *)
(* row that every MCP reads (auth/token_store.py, auth/db/repository.py)   *)
(* and the provider's token endpoint, which may or may not rotate its      *)
(* refresh tokens.                                                         *)
(*                                                                         *)
(* A tool call, or the status route, refreshes an expired access token in  *)
(* a transaction that holds the row's lock across the POST to the          *)
(* provider.  The connect callback and the CLI logins upsert the row, a    *)
(* disconnect deletes it; both wait for the lock, on SQLite for at most    *)
(* busy_timeout.  Processes die at any point, requests and replies of the  *)
(* provider get lost.                                                      *)
(*                                                                         *)
(* Abstracted: an access token is its age, encryption, scopes and extras   *)
(* are left out.                                                           *)
(*                                                                         *)
(* Definitions named <operator>_<bug> are mutations, as in RefreshRotation.*)
(***************************************************************************)
EXTENDS Naturals

CONSTANTS Caller,     \* tool calls and status requests
          Connector,  \* connect callbacks, CLI logins and disconnects
          None,       \* SQL NULL, no row, no reply
          MaxTokens   \* bound: refresh tokens the provider issues

Proc == Caller \cup Connector

ASSUME ProviderAssumption ==
    /\ MaxTokens \in Nat
    /\ Caller \cap Connector = {}
    /\ None \notin Caller \cup Connector \cup Nat

RefreshToken == 1 .. MaxTokens

(* An access token is stale from 60 s before its expires_at on.            *)
Credential == [refresh : RefreshToken \cup {None}, age : {"fresh", "stale"}]

ASSUME NullAssumption == None \notin Credential

VARIABLES row,       \* the row: a Credential, or None
          lock,      \* who holds its lock: a process or None
          pc,        \* pc[p]: what p does next
          seen,      \* seen[p]: locked.data, what p read under the lock
          answer,    \* answer[p]: the provider's reply, as a Credential
          rotates,   \* does this provider replace a refresh token on use?
          live,      \* refresh tokens the provider accepts
          issued,    \* how many refresh tokens it has issued
          replayed,  \* history: spent refresh tokens presented to it again
          lost       \* history: refresh tokens whose exchange was cut off
                     \* from the row, by a lost reply, a death or a dropped
                     \* connection

vars == <<row, lock, pc, seen, answer, rotates, live, issued, replayed, lost>>
provider == <<rotates, live, issued, replayed>>

Init ==
    /\ row = None /\ lock = None
    /\ pc = [p \in Proc |-> "idle"]
    /\ seen = [p \in Proc |-> None]
    /\ answer = [p \in Proc |-> None]
    /\ rotates \in BOOLEAN
    /\ live = {} /\ issued = 0 /\ replayed = {} /\ lost = {}

Goto(p, label) == pc' = [pc EXCEPT ![p] = label]

Finish(p) ==
    /\ Goto(p, "idle")
    /\ seen' = [seen EXCEPT ![p] = None]
    /\ answer' = [answer EXCEPT ![p] = None]
    /\ lock' = IF lock = p THEN None ELSE lock

is_expired(c) == c.age = "stale"

-----------------------------------------------------------------------------
(* refresh_if_needed *)

(* A tool call asks for a token, or the status route has read an expired   *)
(* one that can be refreshed.                                              *)
Call(p) ==
    /\ pc[p] = "idle"
    /\ Goto(p, "lock")
    /\ UNCHANGED <<row, lock, seen, answer, provider, lost>>

(* no FOR UPDATE: the row is read and nobody else is kept out *)
LockToken_unlocked(p) ==
    /\ pc[p] = "lock"
    /\ IF row # None /\ is_expired(row) /\ row.refresh # None
       THEN /\ Goto(p, "post")
            /\ seen' = [seen EXCEPT ![p] = row]
            /\ UNCHANGED <<lock, answer>>
       ELSE Finish(p)
    /\ UNCHANGED <<row, provider, lost>>

(* locked_token: no row, a token that is still good (another process may   *)
(* have refreshed it meanwhile) or one without a refresh token ends the    *)
(* transaction; otherwise the lock is kept.                                *)
LockToken(p) ==
    /\ pc[p] = "lock" /\ lock = None
    /\ IF row # None /\ is_expired(row) /\ row.refresh # None
       THEN /\ lock' = p
            /\ Goto(p, "post")
            /\ seen' = [seen EXCEPT ![p] = row]
            /\ UNCHANGED answer
       ELSE Finish(p)
    /\ UNCHANGED <<row, provider, lost>>

(* The provider's side of the POST: it takes a live refresh token, and one *)
(* that rotates spends it for a new one.                                   *)
Exchanged(rt) ==
    IF rotates
    THEN /\ issued < MaxTokens
         /\ issued' = issued + 1
         /\ live' = (live \ {rt}) \cup {issued + 1}
    ELSE UNCHANGED <<issued, live>>

Reply(age) == [refresh |-> IF rotates THEN issued + 1 ELSE None, age |-> age]

(* _do_refresh: a reply with a new access token, whose lifetime may be     *)
(* shorter than the 60 s margin; a reply that is lost; or an error, always *)
(* if the token is not live, otherwise because the provider was not        *)
(* reached.                                                                *)
DoRefresh(p) ==
    LET rt == seen[p].refresh
    IN  /\ pc[p] = "post"
        /\ Goto(p, "update")
        /\ \/ \E age \in {"fresh", "stale"} :
                 /\ rt \in live
                 /\ Exchanged(rt)
                 /\ answer' = [answer EXCEPT ![p] = Reply(age)]
                 /\ UNCHANGED <<lost, replayed>>
           \/ /\ rt \in live
              /\ Exchanged(rt)
              /\ lost' = IF rotates THEN lost \cup {rt} ELSE lost
              /\ UNCHANGED <<answer, replayed>>
           \/ /\ replayed' = IF rt \in live THEN replayed ELSE replayed \cup {rt}
              /\ UNCHANGED <<answer, live, issued, lost>>
        /\ UNCHANGED <<row, lock, seen, rotates>>

(* the reply stored as it is, its missing refresh_token as NULL *)
Merged_overwritten(c, reply) == reply

(* the stored refresh token preferred to the reply's *)
Merged_prior(c, reply) ==
    [reply EXCEPT !.refresh = IF c.refresh = None THEN @ ELSE c.refresh]

(* LockedToken.update: what the reply omits is kept from the row read.     *)
Merged(c, reply) ==
    [reply EXCEPT !.refresh = IF @ = None THEN c.refresh ELSE @]

Update(p) ==
    /\ pc[p] = "update" /\ answer[p] # None
    /\ lock = p
    /\ row' = Merged(seen[p], answer[p])
    /\ Finish(p)
    /\ UNCHANGED <<provider, lost>>

(* The error branch: the transaction ends without a write.                 *)
RefreshFailed(p) ==
    /\ pc[p] = "update" /\ answer[p] = None
    /\ Finish(p)
    /\ UNCHANGED <<row, provider, lost>>

-----------------------------------------------------------------------------
(* Connecting and disconnecting *)

(* The code exchange of the connect callback or of a CLI login succeeded:  *)
(* a new grant, with or without a refresh token.                           *)
ExchangeCode(p) ==
    /\ pc[p] = "idle"
    /\ Goto(p, "save")
    /\ \/ /\ issued < MaxTokens
          /\ issued' = issued + 1
          /\ live' = live \cup {issued + 1}
          /\ answer' = [answer EXCEPT ![p] = [refresh |-> issued + 1, age |-> "fresh"]]
       \/ /\ answer' = [answer EXCEPT ![p] = [refresh |-> None, age |-> "fresh"]]
          /\ UNCHANGED <<issued, live>>
    /\ UNCHANGED <<row, lock, seen, rotates, replayed, lost>>

(* save_token: INSERT ... ON CONFLICT DO UPDATE.                           *)
SaveToken(p) ==
    /\ pc[p] = "save" /\ lock = None
    /\ row' = answer[p]
    /\ Finish(p)
    /\ UNCHANGED <<provider, lost>>

(* clear_token: the row is looked up, then deleted by its key.             *)
ClearToken(p) ==
    /\ pc[p] = "idle" /\ row # None
    /\ Goto(p, "delete")
    /\ UNCHANGED <<row, lock, seen, answer, provider, lost>>

DeleteRow(p) ==
    /\ pc[p] = "delete" /\ lock = None
    /\ row' = None
    /\ Finish(p)
    /\ UNCHANGED <<provider, lost>>

-----------------------------------------------------------------------------
(* Time and failures *)

Grow ==
    /\ row # None
    /\ row' = [row EXCEPT !.age = "stale"]
    /\ UNCHANGED <<lock, pc, seen, answer, provider, lost>>

(* the process dies with its lock still held *)
Fail_holding(p) ==
    /\ pc[p] # "idle"
    /\ Goto(p, "idle")
    /\ seen' = [seen EXCEPT ![p] = None]
    /\ answer' = [answer EXCEPT ![p] = None]
    /\ lost' = IF pc[p] = "update" /\ answer[p] # None /\ rotates
               THEN lost \cup {seen[p].refresh} ELSE lost
    /\ UNCHANGED <<row, lock, provider>>

(* p dies, its database fails, or (SQLite) it waited longer than           *)
(* busy_timeout for the lock: its transaction rolls back.  A rotation the  *)
(* provider has made by then is lost.                                      *)
Fail(p) ==
    /\ pc[p] # "idle"
    /\ Finish(p)
    /\ lost' = IF pc[p] = "update" /\ answer[p] # None /\ rotates
               THEN lost \cup {seen[p].refresh} ELSE lost
    /\ UNCHANGED <<row, provider>>

(* The database drops p's connection: the lock is free, and p, waiting for *)
(* the provider, does not notice before it writes.                         *)
DropConnection(p) ==
    /\ lock = p /\ seen[p] # None
    /\ lock' = None
    /\ lost' = lost \cup {seen[p].refresh}
    /\ UNCHANGED <<row, pc, seen, answer, provider>>

(* The write on the dropped connection fails.                              *)
UpdateFailed(p) == pc[p] = "update" /\ lock # p /\ Fail(p)

Run(p) == DoRefresh(p) \/ Update(p) \/ UpdateFailed(p) \/ RefreshFailed(p)

Acquire(p) == LockToken(p) \/ SaveToken(p) \/ DeleteRow(p)

Next ==
    \/ \E p \in Caller : Call(p)
    \/ \E p \in Connector : ExchangeCode(p) \/ ClearToken(p)
    \/ \E p \in Proc : Run(p) \/ Acquire(p) \/ Fail(p) \/ DropConnection(p)
    \/ Grow

(* A process that can go on does (the POST answers or times out after 30   *)
(* seconds), and the queue for the row lock is served in order.            *)
Fairness == \A p \in Proc : WF_vars(Run(p)) /\ SF_vars(Acquire(p))

Spec == Init /\ [][Next]_vars /\ Fairness

-----------------------------------------------------------------------------
(* Properties *)

(* Every variable has its type, and only a refresh in progress holds the   *)
(* lock.                                                                   *)
TypeOK ==
    /\ row \in Credential \cup {None}
    /\ lock # None => lock \in Caller /\ pc[lock] \in {"post", "update"}
    /\ pc \in [Proc -> {"idle", "lock", "post", "update", "save", "delete"}]
    /\ \A p \in Proc :
          /\ seen[p] \in Credential \cup {None}
          /\ seen[p] # None <=> pc[p] \in {"post", "update"}
          /\ answer[p] \in Credential \cup {None}
          /\ answer[p] # None => pc[p] \in {"update", "save"}
    /\ live \subseteq 1 .. issued /\ issued \in 0 .. MaxTokens
    /\ replayed \cup lost \subseteq 1 .. issued

(* Two processes never call the provider with the same refresh token       *)
(* (token_store.py:7-10): a token it has spent comes back to it only when  *)
(* an exchange of it was cut off, never because two calls overlapped.      *)
NoDuplicateRefresh == replayed \subseteq lost

(* The stored refresh token is one the provider accepts: neither an        *)
(* overlapping refresh, a connect nor a failure leaves a superseded one    *)
(* behind, except where the exchange was cut off.                          *)
StoredTokenIsUsable ==
    row # None /\ row.refresh # None /\ row.refresh \notin lost
        => \/ row.refresh \in live
           \/ lock # None /\ pc[lock] = "update" /\ answer[lock] # None

(* Refreshing never brings back what a disconnect has deleted, and never   *)
(* loses the ability to refresh (repository.py:450-459): a row appears,    *)
(* and a stored refresh token disappears, only when a user connects.       *)
Connecting == \E p \in Proc : pc[p] = "save" /\ pc'[p] = "idle"

OnlyConnectingReplaces ==
    [][/\ row = None /\ row' # None => Connecting
       /\ row # None /\ row' # None /\ row.refresh # None /\ row'.refresh = None
              => Connecting]_vars

(* No call hangs on the lock, whoever holds it and however it ends.        *)
EveryCallEnds == \A p \in Proc : pc[p] # "idle" ~> pc[p] = "idle"
=============================================================================
