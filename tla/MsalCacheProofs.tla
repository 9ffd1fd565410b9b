--------------------------- MODULE MsalCacheProofs ---------------------------
(***************************************************************************)
(* Proofs about MsalCache for any number of calls, disconnects, Microsoft  *)
(* accounts and refresh tokens.                                            *)
(*                                                                         *)
(* Only the holder of the row's lock has accounts to try; what it spends,  *)
(* its cache no longer has and its row still does until it writes.         *)
(***************************************************************************)
EXTENDS MsalCache, TLAPS

\* Requests that disconnect do nothing else.
OnlyCallersAcquire ==
  \A p \in Proc : pc[p] \notin {"idle", "delete"} => p \in Caller

Typed == TypeOK /\ OnlyCallersAcquire

\* c holds issued tokens, each for one account.
Sound(c) ==
  \A a \in Account : c[a] # None =>
    /\ c[a] \in 1 .. issued
    /\ \A b \in Account : c[b] = c[a] => b = a

AllAreSound ==
  /\ row # None => Sound(row)
  /\ \A p \in Proc : Sound(cache[p])

OnlyHolderTries ==
  \A p \in Proc, a \in Account : a \in left[p] => lock = p /\ cache[p][a] # None

\* Spent in a cache only by a failure or a save that stored it anew.
Excused(c) == \A a \in Account : c[a] \in spent => c[a] \in lost \cup undone

HolderIsExcused == lock # None => Excused(cache[lock])

\* What the holder has not replaced in its cache is not spent in the row.
RowIsExcused ==
  row # None =>
    \A a \in Account : row[a] \in spent =>
      \/ row[a] \in lost \cup undone
      \/ lock # None /\ cache[lock][a] # row[a]

CInv == /\ Typed /\ AllAreSound /\ OnlyHolderTries
        /\ HolderIsExcused /\ RowIsExcused /\ SilentIsSerialized

-----------------------------------------------------------------------------
(* Each step keeps the invariant. *)

LEMMA CallKeeps ==
  ASSUME CInv, NEW p \in Caller, Call(p)
  PROVE  CInv'
<1> USE MsalAssumption, RowAssumption
    DEF CInv, Proc, Call, Goto, microsoft,
        Typed, TypeOK, OnlyCallersAcquire
<1>1. Typed'
  BY DEF Cache, RefreshToken, AllAreSound, Sound, OnlyHolderTries
<1>2. AllAreSound'
  BY DEF AllAreSound, Sound, Cache, RefreshToken
<1>3. OnlyHolderTries'
  BY DEF OnlyHolderTries, Cache
<1>4. HolderIsExcused'
  BY DEF HolderIsExcused, Excused, RowIsExcused, AllAreSound, Sound,
         OnlyHolderTries
<1>5. RowIsExcused'
  BY DEF RowIsExcused, HolderIsExcused, Excused, AllAreSound, Sound,
         OnlyHolderTries, Cache
<1>6. SilentIsSerialized'
  BY DEF SilentIsSerialized, HolderIsExcused, Excused, OnlyHolderTries
<1> QED  BY <1>1, <1>2, <1>3, <1>4, <1>5, <1>6

LEMMA LockCacheKeeps ==
  ASSUME CInv, NEW p \in Proc, LockCache(p)
  PROVE  CInv'
<1> USE MsalAssumption, RowAssumption
    DEF CInv, Proc, LockCache, Goto, microsoft,
        Typed, TypeOK, OnlyCallersAcquire
<1>0. /\ Stored \in Cache /\ Sound(Stored)
      /\ row # None => Stored = row
      /\ row = None => Stored = EmptyCache
      /\ Accounts(Stored) = {a \in Account : Stored[a] # None}
      /\ row = None => Accounts(Stored) = {}
  BY DEF Stored, EmptyCache, Cache, AllAreSound, Sound, Accounts
<1>1. Typed'
  BY <1>0
<1>2. AllAreSound'
  BY <1>0 DEF AllAreSound, Sound
<1>3. OnlyHolderTries'
  BY <1>0 DEF OnlyHolderTries
<1>4. HolderIsExcused'
  BY <1>0 DEF HolderIsExcused, Excused, RowIsExcused
<1>5. RowIsExcused'
  BY <1>0 DEF RowIsExcused
<1>6. SilentIsSerialized'
  BY DEF SilentIsSerialized, HolderIsExcused, Excused, OnlyHolderTries
<1> QED  BY <1>1, <1>2, <1>3, <1>4, <1>5, <1>6

LEMMA TrySilentKeeps ==
  ASSUME CInv, NEW p \in Proc, NEW a \in Account, TrySilent(p, a)
  PROVE  CInv'
<1> USE MsalAssumption, RowAssumption
    DEF CInv, Proc, TrySilent, Goto, microsoft,
        Typed, TypeOK, OnlyCallersAcquire
<1>1. Typed'
  <2>1. /\ cache[p] \in Cache /\ lock = p
        /\ pc' = pc /\ row' = row /\ lock' = lock
        /\ lost' = lost /\ undone' = undone
        /\ cache[p][a] \in 1 .. issued
    BY DEF AllAreSound, Sound, OnlyHolderTries, Cache, RefreshToken
  <2>2. /\ left' \in [Proc -> SUBSET Account] /\ found' \in [Proc -> BOOLEAN]
    OBVIOUS
  <2>3. \/ issued' = issued /\ spent' = spent /\ cache' = cache
        \/ /\ issued < MaxTokens /\ issued' = issued + 1
           /\ spent' = spent \cup {cache[p][a]}
           /\ cache' = [cache EXCEPT ![p][a] = issued + 1]
    OBVIOUS
  <2>4. replayed' \subseteq replayed \cup {cache[p][a]}
    OBVIOUS
  <2>5. cache' \in [Proc -> Cache]
    BY <2>1, <2>3 DEF Cache, RefreshToken
  <2>6. issued \in Nat /\ issued' \in 0 .. MaxTokens /\ issued <= issued'
    BY <2>3
  <2>7. spent' \cup replayed' \cup lost' \cup undone' \subseteq 1 .. issued'
    BY <2>1, <2>3, <2>4, <2>6
  <2> QED  BY <2>1, <2>2, <2>5, <2>6, <2>7
<1>2. AllAreSound'
  BY DEF AllAreSound, Sound, Cache, RefreshToken
<1>3. OnlyHolderTries'
  BY DEF OnlyHolderTries, Cache
<1>4. HolderIsExcused'
  <2>1. /\ lock = p /\ lock' = p /\ p \in Proc /\ p # None
        /\ lost' = lost /\ undone' = undone
    BY DEF OnlyHolderTries
  <2>2. CASE spent' = spent /\ cache' = cache
    BY <2>1, <2>2 DEF HolderIsExcused, Excused
  <2>3. CASE /\ issued' = issued + 1 /\ spent' = spent \cup {cache[p][a]}
             /\ cache' = [cache EXCEPT ![p][a] = issued + 1]
    <3>1. ASSUME NEW b \in Account, b # a  PROVE cache[p][b] # cache[p][a]
      BY <3>1, <2>1 DEF AllAreSound, Sound, OnlyHolderTries
    <3>2. cache'[p][a] \notin spent'
      BY <2>1, <2>3 DEF AllAreSound, Sound, OnlyHolderTries, Cache
    <3>3. ASSUME NEW b \in Account, b # a  PROVE cache'[p][b] = cache[p][b]
      BY <3>3, <2>3 DEF Cache
    <3> QED  BY <2>1, <2>3, <3>1, <3>2, <3>3 DEF HolderIsExcused, Excused
  <2> QED  BY <2>2, <2>3
<1>5. RowIsExcused'
  BY DEF RowIsExcused, HolderIsExcused, Excused, AllAreSound, Sound,
         OnlyHolderTries, Cache
<1>6. SilentIsSerialized'
  BY DEF SilentIsSerialized, HolderIsExcused, Excused, OnlyHolderTries
<1> QED  BY <1>1, <1>2, <1>3, <1>4, <1>5, <1>6

LEMMA EndSilentKeeps ==
  ASSUME CInv, NEW p \in Proc, EndSilent(p)
  PROVE  CInv'
<1> USE MsalAssumption, RowAssumption
    DEF CInv, Proc, EndSilent, Goto, microsoft, Finish, EmptyCache,
        Typed, TypeOK, OnlyCallersAcquire
<1>1. Typed'
  <2>1. row' \in Cache \cup {None} /\ (row # None => row' # None)
    OBVIOUS
  <2>2. /\ pc[p] = "silent" /\ lock' = IF lock = p THEN None ELSE lock
        /\ pc' = [pc EXCEPT ![p] = "idle"] \/ pc' = [pc EXCEPT ![p] = "load"]
    OBVIOUS
  <2>3. lock' # None => lock' \in Caller /\ pc'[lock'] = "silent" /\ row' # None
    BY <2>1, <2>2
  <2>4. /\ cache' \in [Proc -> Cache] /\ left' \in [Proc -> SUBSET Account]
        /\ found' \in [Proc -> BOOLEAN]
    <3>1. EmptyCache \in Cache
      BY DEF EmptyCache, Cache
    <3>2. cache \in [Proc -> Cache] /\ left \in [Proc -> SUBSET Account]
          /\ found \in [Proc -> BOOLEAN]
      OBVIOUS
    <3>3. cache' = cache \/ cache' = [cache EXCEPT ![p] = EmptyCache]
      OBVIOUS
    <3>4. cache' \in [Proc -> Cache]
      BY <3>1, <3>2, <3>3, ZenonT(30)
    <3>5. left' \in [Proc -> SUBSET Account] /\ found' \in [Proc -> BOOLEAN]
      OBVIOUS
    <3> QED  BY <3>4, <3>5
  <2>5. issued' = issued /\ spent' = spent /\ replayed' = replayed
        /\ lost' = lost /\ undone' = undone
    OBVIOUS
  <2> QED  BY <2>1, <2>2, <2>3, <2>4, <2>5
<1>2. AllAreSound'
  BY DEF AllAreSound, Sound, Cache, RefreshToken
<1>3. OnlyHolderTries'
  BY DEF OnlyHolderTries, Cache
<1>4. HolderIsExcused'
  BY DEF HolderIsExcused, Excused, RowIsExcused, AllAreSound, Sound,
         OnlyHolderTries
<1>5. RowIsExcused'
  BY DEF RowIsExcused, HolderIsExcused, Excused, AllAreSound, Sound,
         OnlyHolderTries, Cache
<1>6. SilentIsSerialized'
  BY DEF SilentIsSerialized, HolderIsExcused, Excused, OnlyHolderTries
<1> QED  BY <1>1, <1>2, <1>3, <1>4, <1>5, <1>6

LEMMA LoadCacheKeeps ==
  ASSUME CInv, NEW p \in Proc, LoadCache(p)
  PROVE  CInv'
<1> USE MsalAssumption, RowAssumption
    DEF CInv, Proc, LoadCache, Goto, microsoft, Stored, EmptyCache,
        Typed, TypeOK, OnlyCallersAcquire
<1>1. Typed'
  BY DEF Cache, RefreshToken, AllAreSound, Sound, OnlyHolderTries
<1>2. AllAreSound'
  BY DEF AllAreSound, Sound, Cache, RefreshToken
<1>3. OnlyHolderTries'
  BY DEF OnlyHolderTries, Cache
<1>4. HolderIsExcused'
  BY DEF HolderIsExcused, Excused, RowIsExcused, AllAreSound, Sound,
         OnlyHolderTries
<1>5. RowIsExcused'
  BY DEF RowIsExcused, HolderIsExcused, Excused, AllAreSound, Sound,
         OnlyHolderTries, Cache
<1>6. SilentIsSerialized'
  BY DEF SilentIsSerialized, HolderIsExcused, Excused, OnlyHolderTries
<1> QED  BY <1>1, <1>2, <1>3, <1>4, <1>5, <1>6

LEMMA SignInKeeps ==
  ASSUME CInv, NEW p \in Caller, NEW a \in Account, SignIn(p, a)
  PROVE  CInv'
<1> USE MsalAssumption, RowAssumption
    DEF CInv, Proc, SignIn, Goto, microsoft,
        Typed, TypeOK, OnlyCallersAcquire
<1>1. Typed'
  BY DEF Cache, RefreshToken, AllAreSound, Sound, OnlyHolderTries
<1>2. AllAreSound'
  BY DEF AllAreSound, Sound, Cache, RefreshToken
<1>3. OnlyHolderTries'
  BY DEF OnlyHolderTries, Cache
<1>4. HolderIsExcused'
  BY DEF HolderIsExcused, Excused, RowIsExcused, AllAreSound, Sound,
         OnlyHolderTries
<1>5. RowIsExcused'
  BY DEF RowIsExcused, HolderIsExcused, Excused, AllAreSound, Sound,
         OnlyHolderTries, Cache
<1>6. SilentIsSerialized'
  BY DEF SilentIsSerialized, HolderIsExcused, Excused, OnlyHolderTries
<1> QED  BY <1>1, <1>2, <1>3, <1>4, <1>5, <1>6

LEMMA SignInFailedKeeps ==
  ASSUME CInv, NEW p \in Proc, SignInFailed(p)
  PROVE  CInv'
<1> USE MsalAssumption, RowAssumption
    DEF CInv, Proc, SignInFailed, Goto, microsoft, Finish, EmptyCache,
        Typed, TypeOK, OnlyCallersAcquire
<1>1. Typed'
  BY DEF Cache, RefreshToken, AllAreSound, Sound, OnlyHolderTries
<1>2. AllAreSound'
  BY DEF AllAreSound, Sound, Cache, RefreshToken
<1>3. OnlyHolderTries'
  BY DEF OnlyHolderTries, Cache
<1>4. HolderIsExcused'
  BY DEF HolderIsExcused, Excused, RowIsExcused, AllAreSound, Sound,
         OnlyHolderTries
<1>5. RowIsExcused'
  BY DEF RowIsExcused, HolderIsExcused, Excused, AllAreSound, Sound,
         OnlyHolderTries, Cache
<1>6. SilentIsSerialized'
  BY DEF SilentIsSerialized, HolderIsExcused, Excused, OnlyHolderTries
<1> QED  BY <1>1, <1>2, <1>3, <1>4, <1>5, <1>6

LEMMA SaveCacheKeeps ==
  ASSUME CInv, NEW p \in Proc, SaveCache(p)
  PROVE  CInv'
<1> USE MsalAssumption, RowAssumption
    DEF CInv, Proc, SaveCache, Goto, microsoft, Finish, EmptyCache, Tokens,
        Accounts, Typed, TypeOK, OnlyCallersAcquire
<1>1. Typed'
  BY DEF Cache, RefreshToken, AllAreSound, Sound, OnlyHolderTries
<1>2. AllAreSound'
  BY DEF AllAreSound, Sound, Cache, RefreshToken
<1>3. OnlyHolderTries'
  BY DEF OnlyHolderTries, Cache
<1>4. HolderIsExcused'
  BY DEF HolderIsExcused, Excused, RowIsExcused, AllAreSound, Sound,
         OnlyHolderTries
<1>5. RowIsExcused'
  BY DEF RowIsExcused, HolderIsExcused, Excused, AllAreSound, Sound,
         OnlyHolderTries, Cache
<1>6. SilentIsSerialized'
  BY DEF SilentIsSerialized, HolderIsExcused, Excused, OnlyHolderTries
<1> QED  BY <1>1, <1>2, <1>3, <1>4, <1>5, <1>6

LEMMA ClearCacheKeeps ==
  ASSUME CInv, NEW p \in Remover, ClearCache(p)
  PROVE  CInv'
<1> USE MsalAssumption, RowAssumption
    DEF CInv, Proc, ClearCache, Goto, microsoft,
        Typed, TypeOK, OnlyCallersAcquire
<1>1. Typed'
  BY DEF Cache, RefreshToken, AllAreSound, Sound, OnlyHolderTries
<1>2. AllAreSound'
  BY DEF AllAreSound, Sound, Cache, RefreshToken
<1>3. OnlyHolderTries'
  BY DEF OnlyHolderTries, Cache
<1>4. HolderIsExcused'
  BY DEF HolderIsExcused, Excused, RowIsExcused, AllAreSound, Sound,
         OnlyHolderTries
<1>5. RowIsExcused'
  BY DEF RowIsExcused, HolderIsExcused, Excused, AllAreSound, Sound,
         OnlyHolderTries, Cache
<1>6. SilentIsSerialized'
  BY DEF SilentIsSerialized, HolderIsExcused, Excused, OnlyHolderTries
<1> QED  BY <1>1, <1>2, <1>3, <1>4, <1>5, <1>6

LEMMA DeleteRowKeeps ==
  ASSUME CInv, NEW p \in Proc, DeleteRow(p)
  PROVE  CInv'
<1> USE MsalAssumption, RowAssumption
    DEF CInv, Proc, DeleteRow, Goto, microsoft, Finish, EmptyCache,
        Typed, TypeOK, OnlyCallersAcquire
<1>1. Typed'
  BY DEF Cache, RefreshToken, AllAreSound, Sound, OnlyHolderTries
<1>2. AllAreSound'
  BY DEF AllAreSound, Sound, Cache, RefreshToken
<1>3. OnlyHolderTries'
  BY DEF OnlyHolderTries, Cache
<1>4. HolderIsExcused'
  BY DEF HolderIsExcused, Excused, RowIsExcused, AllAreSound, Sound,
         OnlyHolderTries
<1>5. RowIsExcused'
  BY DEF RowIsExcused, HolderIsExcused, Excused, AllAreSound, Sound,
         OnlyHolderTries, Cache
<1>6. SilentIsSerialized'
  BY DEF SilentIsSerialized, HolderIsExcused, Excused, OnlyHolderTries
<1> QED  BY <1>1, <1>2, <1>3, <1>4, <1>5, <1>6

LEMMA FailKeeps ==
  ASSUME CInv, NEW p \in Proc, Fail(p)
  PROVE  CInv'
<1> USE MsalAssumption, RowAssumption
    DEF CInv, Proc, Fail, Goto, microsoft, Finish, EmptyCache, Tokens, Accounts,
        Typed, TypeOK, OnlyCallersAcquire
<1>1. Typed'
  BY DEF Cache, RefreshToken, AllAreSound, Sound, OnlyHolderTries
<1>2. AllAreSound'
  BY DEF AllAreSound, Sound, Cache, RefreshToken
<1>3. OnlyHolderTries'
  BY DEF OnlyHolderTries, Cache
<1>4. HolderIsExcused'
  BY DEF HolderIsExcused, Excused, RowIsExcused, AllAreSound, Sound,
         OnlyHolderTries
<1>5. RowIsExcused'
  BY DEF RowIsExcused, HolderIsExcused, Excused, AllAreSound, Sound,
         OnlyHolderTries, Cache
<1>6. SilentIsSerialized'
  BY DEF SilentIsSerialized, HolderIsExcused, Excused, OnlyHolderTries
<1> QED  BY <1>1, <1>2, <1>3, <1>4, <1>5, <1>6

\* CInv holds in every reachable state.
THEOREM CacheInvariance == Spec => []CInv
<1> USE DEF CInv, Typed, TypeOK, OnlyCallersAcquire, AllAreSound, Sound,
            OnlyHolderTries, HolderIsExcused, RowIsExcused, Excused,
            SilentIsSerialized
<1>1. Init => CInv
  BY MsalAssumption, RowAssumption DEF Init, Proc, EmptyCache, Cache
<1>2. CInv /\ [Next]_vars => CInv'
  <2> SUFFICES ASSUME CInv, [Next]_vars  PROVE CInv'
    OBVIOUS
  <2>1. CASE UNCHANGED vars
    BY <2>1 DEF vars
  <2> HIDE DEF CInv
  <2>2. CASE \E p \in Caller : Call(p)
    BY <2>2, CallKeeps
  <2>3. CASE \E p \in Remover : ClearCache(p)
    BY <2>3, ClearCacheKeeps
  <2>4. CASE \E p \in Proc : Run(p)
    BY <2>4, TrySilentKeeps, EndSilentKeeps, LoadCacheKeeps, SignInFailedKeeps
    DEF Run
  <2>5. CASE \E p \in Proc : Acquire(p)
    BY <2>5, LockCacheKeeps, SaveCacheKeeps, DeleteRowKeeps DEF Acquire
  <2>6. CASE \E p \in Proc : Fail(p)
    BY <2>6, FailKeeps
  <2>7. CASE \E p \in Caller, a \in Account : SignIn(p, a)
    BY <2>7, SignInKeeps
  <2> QED  BY <2>1, <2>2, <2>3, <2>4, <2>5, <2>6, <2>7 DEF Next
<1> QED  BY <1>1, <1>2, PTL DEF Spec

(* However many silent acquisitions run at once, Microsoft sees a spent    *)
(* refresh token again only after a failure inside the lock or a save of   *)
(* an interactive sign-in that stored it anew (local_auth.py:147-165).     *)
THEOREM SilentSerialized == Spec => []SilentIsSerialized
<1>1. CInv => SilentIsSerialized
  BY DEF CInv
<1> QED  BY <1>1, CacheInvariance, PTL

(* A cache that a disconnect has deleted comes back only when a user signs *)
(* in, never from a silent acquisition in flight (connect_routes.py:276).  *)
THEOREM OnlySignInReconnects == Spec => SilentNeverReconnects
<1> DEFINE Kept == row = None /\ row' # None
                     => \E p \in Caller : pc[p] = "save" /\ pc'[p] = "idle"
<1>1. ASSUME CInv, [Next]_vars  PROVE Kept
  <2> SUFFICES ASSUME row = None, row' # None
               PROVE  \E p \in Caller : pc[p] = "save" /\ pc'[p] = "idle"
    OBVIOUS
  <2>1. ASSUME NEW p \in Proc, EndSilent(p)  PROVE FALSE
    <3>1. lock # p
      BY <1>1, MsalAssumption DEF CInv, Typed, TypeOK, Proc
    <3> QED  BY <2>1, <3>1 DEF EndSilent
  <2>2. ASSUME NEW p \in Proc, DeleteRow(p)  PROVE FALSE
    BY <2>2 DEF DeleteRow
  <2>3. PICK p \in Proc : SaveCache(p)
    BY <1>1, <2>1, <2>2
    DEF Next, vars, Run, Acquire, Call, ClearCache, TrySilent, LoadCache,
        SignInFailed, LockCache, Fail, SignIn
  <2>4. pc[p] = "save" /\ pc' = [pc EXCEPT ![p] = "idle"]
    BY <2>3 DEF SaveCache, Finish, Goto
  <2>5. p \in Caller /\ pc'[p] = "idle"
    BY <1>1, <2>4 DEF CInv, Typed, TypeOK, OnlyCallersAcquire
  <2> QED  BY <2>4, <2>5
<1> QED  BY <1>1, CacheInvariance, PTL DEF Spec, SilentNeverReconnects
=============================================================================
