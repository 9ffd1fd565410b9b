------------------------------- MODULE MsalCache -------------------------------
(***************************************************************************)
(* The MSAL token cache of one user: the msal_token_caches row             *)
(* (auth/db/repository.py), which the Microsoft tools read and write       *)
(* through ms_graph/local_auth.py, and a Microsoft that spends a refresh   *)
(* token when it is used, as that file has it.                             *)
(*                                                                         *)
(* A silent acquisition keeps the row locked from its read to its write    *)
(* and tries every cached account.  When none answers, the interactive     *)
(* flow reads the row, lets the user sign in and writes what it read plus  *)
(* the new tokens, without a lock in between.  A disconnect deletes the    *)
(* row.                                                                    *)
(*                                                                         *)
(* Abstracted: a cache is the refresh token of each account it holds, and  *)
(* whether an account has the scopes of the tool that asks is left open.   *)
(*                                                                         *)
(* Definitions named <operator>_<bug> are mutations, as in RefreshRotation.*)
(***************************************************************************)
EXTENDS Naturals

CONSTANTS Caller,     \* tool calls of the Graph and Power BI servers, CLIs
          Remover,    \* requests that disconnect the provider
          Account,    \* Microsoft accounts
          None,       \* SQL NULL: no row, or an account not in the cache
          MaxTokens   \* bound: refresh tokens Microsoft issues

Proc == Caller \cup Remover

ASSUME MsalAssumption ==
    /\ MaxTokens \in Nat
    /\ Caller \cap Remover = {}
    /\ None \notin Caller \cup Remover \cup Nat

RefreshToken == 1 .. MaxTokens
Cache == [Account -> RefreshToken \cup {None}]
EmptyCache == [a \in Account |-> None]

ASSUME RowAssumption == None \notin Cache

VARIABLES row,       \* the row: a Cache, or None
          lock,      \* who holds its lock
          pc,        \* pc[p]: what p does next
          cache,     \* cache[p]: p's SerializableTokenCache
          left,      \* left[p]: accounts p has yet to try silently
          found,     \* found[p]: has p a token to return?
          spent,     \* refresh tokens Microsoft has invalidated
          issued,    \* how many refresh tokens it has issued
          replayed,  \* history: spent tokens presented again
          lost,      \* history: tokens spent for a cache never stored
          undone     \* history: tokens spent when a save stored them anew

vars == <<row, lock, pc, cache, left, found, spent, issued, replayed, lost, undone>>
microsoft == <<spent, issued, replayed>>

Init ==
    /\ row = None /\ lock = None
    /\ pc = [p \in Proc |-> "idle"]
    /\ cache = [p \in Proc |-> EmptyCache]
    /\ left = [p \in Proc |-> {}]
    /\ found = [p \in Proc |-> FALSE]
    /\ spent = {} /\ issued = 0 /\ replayed = {} /\ lost = {} /\ undone = {}

Goto(p, label) == pc' = [pc EXCEPT ![p] = label]

Finish(p) ==
    /\ Goto(p, "idle")
    /\ cache' = [cache EXCEPT ![p] = EmptyCache]
    /\ left' = [left EXCEPT ![p] = {}]
    /\ found' = [found EXCEPT ![p] = FALSE]
    /\ lock' = IF lock = p THEN None ELSE lock

Stored == IF row = None THEN EmptyCache ELSE row
Accounts(c) == {a \in Account : c[a] # None}
Tokens(c) == {c[a] : a \in Accounts(c)}

-----------------------------------------------------------------------------
(* get_local_token: silently first *)

Call(p) ==
    /\ pc[p] = "idle"
    /\ Goto(p, "lock")
    /\ UNCHANGED <<row, lock, cache, left, found, microsoft, lost, undone>>

(* no FOR UPDATE: two silent acquisitions read the same blob *)
LockCache_unlocked(p) ==
    /\ pc[p] = "lock"
    /\ cache' = [cache EXCEPT ![p] = Stored]
    /\ left' = [left EXCEPT ![p] = Accounts(Stored)]
    /\ Goto(p, "silent")
    /\ UNCHANGED <<row, lock, found, microsoft, lost, undone>>

(* locked_msal_cache.  A row that does not exist cannot be locked.         *)
LockCache(p) ==
    /\ pc[p] = "lock" /\ lock = None
    /\ lock' = IF row = None THEN None ELSE p
    /\ cache' = [cache EXCEPT ![p] = Stored]
    /\ left' = [left EXCEPT ![p] = Accounts(Stored)]
    /\ Goto(p, "silent")
    /\ UNCHANGED <<row, found, microsoft, lost, undone>>

(* acquire_token_silent on one account: a cached access token; a refresh,  *)
(* which spends the refresh token; or None, always if it is spent already. *)
TrySilent(p, a) ==
    /\ pc[p] = "silent" /\ ~found[p] /\ a \in left[p]
    /\ left' = [left EXCEPT ![p] = @ \ {a}]
    /\ LET rt == cache[p][a]
       IN  \/ /\ found' = [found EXCEPT ![p] = TRUE]
              /\ UNCHANGED <<cache, microsoft>>
           \/ /\ rt \notin spent /\ issued < MaxTokens
              /\ spent' = spent \cup {rt}
              /\ issued' = issued + 1
              /\ cache' = [cache EXCEPT ![p][a] = issued + 1]
              /\ found' = [found EXCEPT ![p] = TRUE]
              /\ UNCHANGED replayed
           \/ /\ replayed' = IF rt \in spent THEN replayed \cup {rt} ELSE replayed
              /\ UNCHANGED <<cache, found, spent, issued>>
    /\ UNCHANGED <<row, lock, pc, lost, undone>>

(* the cache written back whether or not it changed, or was there          *)
EndSilent_always(p) ==
    /\ pc[p] = "silent"
    /\ found[p] \/ left[p] = {}
    /\ row' = cache[p]
    /\ IF found[p]
       THEN Finish(p)
       ELSE /\ Goto(p, "load")
            /\ lock' = IF lock = p THEN None ELSE lock
            /\ UNCHANGED <<cache, left, found>>
    /\ UNCHANGED <<microsoft, lost, undone>>

(* The lock ends: a changed cache is persisted and the transaction commits.*)
(* Without a token the call goes on to the interactive flow.               *)
EndSilent(p) ==
    /\ pc[p] = "silent"
    /\ found[p] \/ left[p] = {}
    /\ row' = IF lock = p THEN cache[p] ELSE row
    /\ IF found[p]
       THEN Finish(p)
       ELSE /\ Goto(p, "load")
            /\ lock' = IF lock = p THEN None ELSE lock
            /\ UNCHANGED <<cache, left, found>>
    /\ UNCHANGED <<microsoft, lost, undone>>

-----------------------------------------------------------------------------
(* _acquire_token_interactive *)

LoadCache(p) ==
    /\ pc[p] = "load"
    /\ cache' = [cache EXCEPT ![p] = Stored]
    /\ Goto(p, "signin")
    /\ UNCHANGED <<row, lock, left, found, microsoft, lost, undone>>

(* In the browser or by device code, the user signs in to some account.    *)
SignIn(p, a) ==
    /\ pc[p] = "signin"
    /\ issued < MaxTokens
    /\ issued' = issued + 1
    /\ cache' = [cache EXCEPT ![p][a] = issued + 1]
    /\ found' = [found EXCEPT ![p] = TRUE]
    /\ Goto(p, "save")
    /\ UNCHANGED <<row, lock, left, spent, replayed, lost, undone>>

(* Both flows fail or time out: PermissionError.                           *)
SignInFailed(p) ==
    /\ pc[p] = "signin"
    /\ Finish(p)
    /\ UNCHANGED <<row, microsoft, lost, undone>>

(* save_msal_cache: an upsert of the whole cache, whatever is stored now.  *)
SaveCache(p) ==
    /\ pc[p] = "save" /\ lock = None
    /\ row' = cache[p]
    /\ undone' = undone \cup (Tokens(cache[p]) \cap spent)
    /\ Finish(p)
    /\ UNCHANGED <<microsoft, lost>>

-----------------------------------------------------------------------------
(* Disconnecting, and failures *)

(* clear_msal_cache: the row is looked up, then deleted by its key.        *)
ClearCache(p) ==
    /\ pc[p] = "idle" /\ row # None
    /\ Goto(p, "delete")
    /\ UNCHANGED <<row, lock, cache, left, found, microsoft, lost, undone>>

DeleteRow(p) ==
    /\ pc[p] = "delete" /\ lock = None
    /\ row' = None
    /\ Finish(p)
    /\ UNCHANGED <<microsoft, lost, undone>>

(* the process dies with its lock still held *)
Fail_holding(p) ==
    /\ pc[p] # "idle"
    /\ Goto(p, "idle")
    /\ cache' = [cache EXCEPT ![p] = EmptyCache]
    /\ left' = [left EXCEPT ![p] = {}]
    /\ found' = [found EXCEPT ![p] = FALSE]
    /\ lost' = IF lock = p THEN lost \cup (Tokens(row) \cap spent) ELSE lost
    /\ UNCHANGED <<row, lock, microsoft, undone>>

(* p dies, or loses its database: the transaction rolls back, and a        *)
(* refresh token spent in it stays in the row.                             *)
Fail(p) ==
    /\ pc[p] # "idle"
    /\ Finish(p)
    /\ lost' = IF lock = p THEN lost \cup (Tokens(row) \cap spent) ELSE lost
    /\ UNCHANGED <<row, microsoft, undone>>

Run(p) ==
    \/ \E a \in Account : TrySilent(p, a)
    \/ EndSilent(p)
    \/ LoadCache(p)
    \/ SignInFailed(p)

Acquire(p) == LockCache(p) \/ SaveCache(p) \/ DeleteRow(p)

Next ==
    \/ \E p \in Caller : Call(p)
    \/ \E p \in Remover : ClearCache(p)
    \/ \E p \in Proc : Run(p) \/ Acquire(p) \/ Fail(p)
    \/ \E p \in Caller, a \in Account : SignIn(p, a)

(* Calls go on, the sign-in's own timeouts included (120 s for the browser,*)
(* the device code's lifetime after that); the lock is granted in order.   *)
Fairness == \A p \in Proc : WF_vars(Run(p)) /\ SF_vars(Acquire(p))

Spec == Init /\ [][Next]_vars /\ Fairness

-----------------------------------------------------------------------------
(* Properties *)

(* Every variable has its type, and only a silent acquisition holds the    *)
(* lock, of a row that exists.                                             *)
TypeOK ==
    /\ row \in Cache \cup {None}
    /\ lock # None => lock \in Caller /\ pc[lock] = "silent" /\ row # None
    /\ pc \in [Proc -> {"idle", "lock", "silent", "load", "signin", "save", "delete"}]
    /\ cache \in [Proc -> Cache]
    /\ left \in [Proc -> SUBSET Account]
    /\ found \in [Proc -> BOOLEAN]
    /\ issued \in 0 .. MaxTokens
    /\ spent \cup replayed \cup lost \cup undone \subseteq 1 .. issued

(* Silent acquisitions do not invalidate each other's refresh tokens       *)
(* (test_msal_race.py): a spent one is presented again only after a        *)
(* failure inside the lock or a save that stored it anew.                  *)
SilentIsSerialized == replayed \subseteq lost \cup undone

(* What repository.py:314-318 and local_auth.py:153-157 say of the lock:   *)
(* whoever acquires silently next sees the rotated token, so that only a   *)
(* failure makes Microsoft see a spent one.                                *)
RotationIsSeen == replayed \subseteq lost

(* A silent acquisition never brings back the cache a disconnect dropped:  *)
(* "the provider silently reconnects itself on the next tool call"         *)
(* (connect_routes.py:276-277) is what must not happen.                    *)
SilentNeverReconnects ==
    [][row = None /\ row' # None
          => \E p \in Caller : pc[p] = "save" /\ pc'[p] = "idle"]_vars

(* No call hangs on the lock of the row.                                   *)
EveryCallEnds == \A p \in Proc : pc[p] # "idle" ~> pc[p] = "idle"
=============================================================================
