------------------------ MODULE ProviderTokensProofs ------------------------
(***************************************************************************)
(* Proofs about ProviderTokens for any number of callers, connecting users  *)
(* and refresh tokens, and for a provider that rotates them or does not.    *)
(***************************************************************************)
EXTENDS ProviderTokens, TLAPS

Refreshing(p) == pc[p] \in {"post", "update"}

\* c carries a refresh token.
Has(c) == c # None /\ c.refresh # None

AllAreIssued ==
  /\ Has(row) => row.refresh \in 1 .. issued
  /\ \A p \in Proc : /\ Has(seen[p]) => seen[p].refresh \in 1 .. issued
                     /\ Has(answer[p]) => answer[p].refresh \in 1 .. issued

SeenCanRefresh == \A p \in Proc : Refreshing(p) => Has(seen[p])

\* Whoever holds the lock presents what the row has.
HolderHasRow == lock # None => row # None /\ row.refresh = seen[lock].refresh

\* Whoever goes on without it presents a token whose exchange was cut off.
CutOffIsLost ==
  \A p \in Proc : Refreshing(p) /\ lock # p => seen[p].refresh \in lost

\* The row's token is live until the holder of the lock has rotated it.
RowIsUsable ==
  Has(row) /\ row.refresh \notin lost
    => \/ row.refresh \in live
       \/ rotates /\ lock # None /\ pc[lock] = "update" /\ answer[lock] # None

\* A token in a reply is live and nowhere else.
AnswerIsNew ==
  \A p \in Proc : Has(answer[p]) =>
    /\ answer[p].refresh \in live
    /\ Has(row) => row.refresh # answer[p].refresh
    /\ \A q \in Proc :
         /\ Has(seen[q]) => seen[q].refresh # answer[p].refresh
         /\ q # p /\ Has(answer[q]) => answer[q].refresh # answer[p].refresh

RotationAnswers ==
  \A p \in Proc :
    pc[p] = "update" /\ answer[p] # None => (rotates <=> Has(answer[p]))

OnlyCallersLock == \A p \in Proc : pc[p] = "lock" => p \in Caller

Typed == /\ TypeOK /\ rotates \in BOOLEAN /\ OnlyCallersLock
         /\ seen \in [Proc -> Credential \cup {None}]
         /\ answer \in [Proc -> Credential \cup {None}]

PInv == /\ Typed /\ AllAreIssued /\ SeenCanRefresh /\ HolderHasRow
        /\ CutOffIsLost /\ RowIsUsable /\ AnswerIsNew /\ RotationAnswers
        /\ NoDuplicateRefresh

-----------------------------------------------------------------------------
(* Each step keeps the invariant. *)

LEMMA CallKeeps ==
  ASSUME PInv, NEW p \in Caller, Call(p)
  PROVE  PInv'
<1> USE ProviderAssumption, NullAssumption
    DEF PInv, Proc, Call, Goto, provider,
        Typed, TypeOK, OnlyCallersLock, Credential, RefreshToken
<1>1. Typed'
  OBVIOUS
<1>2. AllAreIssued'
  BY DEF AllAreIssued, Has
<1>3. SeenCanRefresh'
  BY DEF SeenCanRefresh, Refreshing, Has
<1>4. HolderHasRow'
  BY DEF HolderHasRow
<1>5. CutOffIsLost'
  BY DEF CutOffIsLost, Refreshing, Has, SeenCanRefresh
<1>6. RowIsUsable'
  BY DEF RowIsUsable, HolderHasRow, SeenCanRefresh, Refreshing, Has
<1>7. AnswerIsNew'
  BY DEF AnswerIsNew, AllAreIssued, Has
<1>8. RotationAnswers'
  BY DEF RotationAnswers, Has
<1>9. NoDuplicateRefresh'
  BY DEF NoDuplicateRefresh
<1> QED  BY <1>1, <1>2, <1>3, <1>4, <1>5, <1>6, <1>7, <1>8, <1>9

LEMMA LockTokenKeeps ==
  ASSUME PInv, NEW p \in Proc, LockToken(p)
  PROVE  PInv'
<1> USE ProviderAssumption, NullAssumption
    DEF PInv, Proc, LockToken, Goto, provider, Finish, is_expired,
        Typed, TypeOK, OnlyCallersLock, Credential, RefreshToken
<1>1. Typed'
  OBVIOUS
<1>2. AllAreIssued'
  BY DEF AllAreIssued, Has
<1>3. SeenCanRefresh'
  BY DEF SeenCanRefresh, Refreshing, Has
<1>4. HolderHasRow'
  BY DEF HolderHasRow
<1>5. CutOffIsLost'
  BY DEF CutOffIsLost, Refreshing, Has, SeenCanRefresh
<1>6. RowIsUsable'
  BY DEF RowIsUsable, HolderHasRow, SeenCanRefresh, Refreshing, Has
<1>7. AnswerIsNew'
  BY DEF AnswerIsNew, AllAreIssued, Has
<1>8. RotationAnswers'
  BY DEF RotationAnswers, Has
<1>9. NoDuplicateRefresh'
  BY DEF NoDuplicateRefresh
<1> QED  BY <1>1, <1>2, <1>3, <1>4, <1>5, <1>6, <1>7, <1>8, <1>9

LEMMA DoRefreshKeeps ==
  ASSUME PInv, NEW p \in Proc, DoRefresh(p)
  PROVE  PInv'
<1> USE ProviderAssumption, NullAssumption DEF PInv, Proc
<1>1. Typed'
  <2>1. seen[p] \in Credential /\ seen[p].refresh \in 1 .. issued
    BY DEF DoRefresh, Typed, TypeOK, SeenCanRefresh, AllAreIssued,
           Refreshing, Has
  <2>2. /\ issued' \in 0 .. MaxTokens /\ issued <= issued'
        /\ live' \subseteq 1 .. issued'
        /\ replayed' \cup lost' \subseteq 1 .. issued'
    <3>1. issued \in 0 .. MaxTokens /\ issued \in Nat
          /\ live \subseteq 1 .. issued
          /\ replayed \cup lost \subseteq 1 .. issued
      BY DEF Typed, TypeOK
    <3>2. /\ \/ issued' = issued /\ live' \subseteq live
             \/ /\ issued < MaxTokens /\ issued' = issued + 1
                /\ live' \subseteq live \cup {issued + 1}
          /\ replayed' \cup lost'
               \subseteq replayed \cup lost \cup {seen[p].refresh}
      BY DEF DoRefresh, Exchanged
    <3> HIDE DEF PInv
    <3>3. issued' \in Nat /\ issued' <= MaxTokens /\ issued <= issued'
      BY <3>1, <3>2
    <3>4. ASSUME NEW t \in live'  PROVE t \in 1 .. issued'
      <4>1. t \in live \/ (t = issued + 1 /\ issued' = issued + 1)
        BY <3>2, <3>4
      <4>2. t \in live => t \in 1 .. issued
        BY <3>1
      <4> QED  BY <4>1, <4>2, <3>1, <3>3
    <3>5. 1 .. issued \subseteq 1 .. issued'
      BY <3>1, <3>3
    <3> QED  BY <2>1, <3>1, <3>2, <3>3, <3>4, <3>5
  <2>3. answer' \in [Proc -> Credential \cup {None}]
    BY DEF DoRefresh, Exchanged, Reply, Typed, TypeOK, Credential, RefreshToken
  <2>4. /\ row' = row /\ lock' = lock /\ seen' = seen /\ rotates' = rotates
        /\ pc[p] = "post" /\ pc' = [pc EXCEPT ![p] = "update"]
    BY DEF DoRefresh, Goto
  <2>5. \A q \in Proc : q # p => answer'[q] = answer[q]
    BY DEF DoRefresh, Typed
  <2> HIDE DEF Proc
  <2> QED  BY <2>2, <2>3, <2>4, <2>5 DEF Typed, TypeOK, OnlyCallersLock
<1>2. AllAreIssued'
  BY DEF DoRefresh, Goto, provider, Exchanged, Reply, Typed, TypeOK,
         OnlyCallersLock, Credential, RefreshToken, AllAreIssued, Has
<1>3. SeenCanRefresh'
  BY DEF DoRefresh, Goto, provider, Exchanged, Reply, Typed, TypeOK,
         OnlyCallersLock, Credential, RefreshToken, SeenCanRefresh,
         Refreshing, Has
<1>4. HolderHasRow'
  BY DEF DoRefresh, Goto, provider, Exchanged, Reply, Typed, TypeOK,
         OnlyCallersLock, Credential, RefreshToken, HolderHasRow
<1>5. CutOffIsLost'
  BY DEF DoRefresh, Goto, provider, Exchanged, Reply, Typed, TypeOK,
         OnlyCallersLock, Credential, RefreshToken, CutOffIsLost,
         Refreshing, Has, SeenCanRefresh
<1>6. RowIsUsable'
  BY DEF DoRefresh, Goto, provider, Exchanged, Reply, Typed, TypeOK,
         OnlyCallersLock, Credential, RefreshToken, RowIsUsable,
         HolderHasRow, SeenCanRefresh, Refreshing, Has, CutOffIsLost
<1>7. AnswerIsNew'
  BY DEF DoRefresh, Goto, provider, Exchanged, Reply, Typed, TypeOK,
         OnlyCallersLock, Credential, RefreshToken, AnswerIsNew,
         AllAreIssued, Has
<1>8. RotationAnswers'
  BY DEF DoRefresh, Goto, provider, Exchanged, Reply, Typed, TypeOK,
         OnlyCallersLock, Credential, RefreshToken, RotationAnswers, Has
<1>9. NoDuplicateRefresh'
  BY DEF DoRefresh, Goto, provider, Exchanged, Reply, NoDuplicateRefresh,
         Typed, TypeOK, SeenCanRefresh, HolderHasRow, CutOffIsLost,
         RowIsUsable, Refreshing, Has
<1> QED  BY <1>1, <1>2, <1>3, <1>4, <1>5, <1>6, <1>7, <1>8, <1>9

LEMMA UpdateKeeps ==
  ASSUME PInv, NEW p \in Proc, Update(p)
  PROVE  PInv'
<1> USE ProviderAssumption, NullAssumption
    DEF PInv, Proc, Update, Goto, provider, Finish, Merged,
        Typed, TypeOK, OnlyCallersLock, Credential, RefreshToken
<1>1. Typed'
  OBVIOUS
<1>2. AllAreIssued'
  BY DEF AllAreIssued, Has
<1>3. SeenCanRefresh'
  BY DEF SeenCanRefresh, Refreshing, Has
<1>4. HolderHasRow'
  BY DEF HolderHasRow
<1>5. CutOffIsLost'
  BY DEF CutOffIsLost, Refreshing, Has, SeenCanRefresh
<1>6. RowIsUsable'
  BY DEF RowIsUsable, HolderHasRow, SeenCanRefresh, Refreshing, Has,
         AnswerIsNew, RotationAnswers
<1>7. AnswerIsNew'
  BY DEF AnswerIsNew, AllAreIssued, Has
<1>8. RotationAnswers'
  BY DEF RotationAnswers, Has
<1>9. NoDuplicateRefresh'
  BY DEF NoDuplicateRefresh
<1> QED  BY <1>1, <1>2, <1>3, <1>4, <1>5, <1>6, <1>7, <1>8, <1>9

LEMMA RefreshFailedKeeps ==
  ASSUME PInv, NEW p \in Proc, RefreshFailed(p)
  PROVE  PInv'
<1> USE ProviderAssumption, NullAssumption
    DEF PInv, Proc, RefreshFailed, Goto, provider, Finish,
        Typed, TypeOK, OnlyCallersLock, Credential, RefreshToken
<1>1. Typed'
  OBVIOUS
<1>2. AllAreIssued'
  BY DEF AllAreIssued, Has
<1>3. SeenCanRefresh'
  BY DEF SeenCanRefresh, Refreshing, Has
<1>4. HolderHasRow'
  BY DEF HolderHasRow
<1>5. CutOffIsLost'
  BY DEF CutOffIsLost, Refreshing, Has, SeenCanRefresh
<1>6. RowIsUsable'
  BY DEF RowIsUsable, HolderHasRow, SeenCanRefresh, Refreshing, Has
<1>7. AnswerIsNew'
  BY DEF AnswerIsNew, AllAreIssued, Has
<1>8. RotationAnswers'
  BY DEF RotationAnswers, Has
<1>9. NoDuplicateRefresh'
  BY DEF NoDuplicateRefresh
<1> QED  BY <1>1, <1>2, <1>3, <1>4, <1>5, <1>6, <1>7, <1>8, <1>9

LEMMA ExchangeCodeKeeps ==
  ASSUME PInv, NEW p \in Connector, ExchangeCode(p)
  PROVE  PInv'
<1> USE ProviderAssumption, NullAssumption DEF PInv, Proc
<1>1. Typed'
  <2>1. /\ issued' \in 0 .. MaxTokens /\ issued <= issued'
        /\ live' \subseteq 1 .. issued'
    <3>1. issued \in 0 .. MaxTokens /\ issued \in Nat
          /\ live \subseteq 1 .. issued
      BY DEF Typed, TypeOK
    <3>2. \/ issued' = issued /\ live' = live
          \/ /\ issued < MaxTokens /\ issued' = issued + 1
             /\ live' = live \cup {issued + 1}
      BY DEF ExchangeCode
    <3> HIDE DEF PInv
    <3>3. issued' \in Nat /\ issued' <= MaxTokens /\ issued <= issued'
      BY <3>1, <3>2
    <3>4. ASSUME NEW t \in live'  PROVE t \in 1 .. issued'
      <4>1. t \in live \/ (t = issued + 1 /\ issued' = issued + 1)
        BY <3>2, <3>4
      <4>2. t \in live => t \in 1 .. issued
        BY <3>1
      <4> QED  BY <4>1, <4>2, <3>1, <3>3
    <3> QED  BY <3>3, <3>4
  <2>2. answer' \in [Proc -> Credential \cup {None}]
    BY DEF ExchangeCode, Typed, TypeOK, Credential, RefreshToken
  <2>3. /\ row' = row /\ lock' = lock /\ seen' = seen /\ rotates' = rotates
        /\ replayed' = replayed /\ lost' = lost
        /\ pc[p] = "idle" /\ pc' = [pc EXCEPT ![p] = "save"]
    BY DEF ExchangeCode, Goto
  <2>4. \A q \in Proc : q # p => answer'[q] = answer[q]
    BY DEF ExchangeCode, Typed
  <2> QED  BY <2>1, <2>2, <2>3, <2>4 DEF Typed, TypeOK, OnlyCallersLock
<1>2. AllAreIssued'
  BY DEF ExchangeCode, Goto, provider, Typed, TypeOK, OnlyCallersLock,
         Credential, RefreshToken, AllAreIssued, Has
<1>3. SeenCanRefresh'
  BY DEF ExchangeCode, Goto, provider, Typed, TypeOK, OnlyCallersLock,
         Credential, RefreshToken, SeenCanRefresh, Refreshing, Has
<1>4. HolderHasRow'
  BY DEF ExchangeCode, Goto, provider, Typed, TypeOK, OnlyCallersLock,
         Credential, RefreshToken, HolderHasRow
<1>5. CutOffIsLost'
  BY DEF ExchangeCode, Goto, provider, Typed, TypeOK, OnlyCallersLock,
         Credential, RefreshToken, CutOffIsLost, Refreshing, Has,
         SeenCanRefresh
<1>6. RowIsUsable'
  BY DEF ExchangeCode, Goto, provider, Typed, TypeOK, OnlyCallersLock,
         Credential, RefreshToken, RowIsUsable, HolderHasRow,
         SeenCanRefresh, Refreshing, Has
<1>7. AnswerIsNew'
  BY DEF ExchangeCode, Goto, provider, Typed, TypeOK, OnlyCallersLock,
         Credential, RefreshToken, AnswerIsNew, AllAreIssued, Has
<1>8. RotationAnswers'
  BY DEF ExchangeCode, Goto, provider, Typed, TypeOK, OnlyCallersLock,
         Credential, RefreshToken, RotationAnswers, Has
<1>9. NoDuplicateRefresh'
  BY DEF ExchangeCode, Goto, provider, NoDuplicateRefresh
<1> QED  BY <1>1, <1>2, <1>3, <1>4, <1>5, <1>6, <1>7, <1>8, <1>9

LEMMA SaveTokenKeeps ==
  ASSUME PInv, NEW p \in Proc, SaveToken(p)
  PROVE  PInv'
<1> USE ProviderAssumption, NullAssumption
    DEF PInv, Proc, SaveToken, Goto, provider, Finish,
        Typed, TypeOK, OnlyCallersLock, Credential, RefreshToken
<1>1. Typed'
  OBVIOUS
<1>2. AllAreIssued'
  BY DEF AllAreIssued, Has
<1>3. SeenCanRefresh'
  BY DEF SeenCanRefresh, Refreshing, Has
<1>4. HolderHasRow'
  BY DEF HolderHasRow
<1>5. CutOffIsLost'
  BY DEF CutOffIsLost, Refreshing, Has, SeenCanRefresh
<1>6. RowIsUsable'
  BY DEF RowIsUsable, HolderHasRow, SeenCanRefresh, Refreshing, Has, AnswerIsNew
<1>7. AnswerIsNew'
  BY DEF AnswerIsNew, AllAreIssued, Has
<1>8. RotationAnswers'
  BY DEF RotationAnswers, Has
<1>9. NoDuplicateRefresh'
  BY DEF NoDuplicateRefresh
<1> QED  BY <1>1, <1>2, <1>3, <1>4, <1>5, <1>6, <1>7, <1>8, <1>9

LEMMA ClearTokenKeeps ==
  ASSUME PInv, NEW p \in Connector, ClearToken(p)
  PROVE  PInv'
<1> USE ProviderAssumption, NullAssumption
    DEF PInv, Proc, ClearToken, Goto, provider,
        Typed, TypeOK, OnlyCallersLock, Credential, RefreshToken
<1>1. Typed'
  OBVIOUS
<1>2. AllAreIssued'
  BY DEF AllAreIssued, Has
<1>3. SeenCanRefresh'
  BY DEF SeenCanRefresh, Refreshing, Has
<1>4. HolderHasRow'
  BY DEF HolderHasRow
<1>5. CutOffIsLost'
  BY DEF CutOffIsLost, Refreshing, Has, SeenCanRefresh
<1>6. RowIsUsable'
  BY DEF RowIsUsable, HolderHasRow, SeenCanRefresh, Refreshing, Has
<1>7. AnswerIsNew'
  BY DEF AnswerIsNew, AllAreIssued, Has
<1>8. RotationAnswers'
  BY DEF RotationAnswers, Has
<1>9. NoDuplicateRefresh'
  BY DEF NoDuplicateRefresh
<1> QED  BY <1>1, <1>2, <1>3, <1>4, <1>5, <1>6, <1>7, <1>8, <1>9

LEMMA DeleteRowKeeps ==
  ASSUME PInv, NEW p \in Proc, DeleteRow(p)
  PROVE  PInv'
<1> USE ProviderAssumption, NullAssumption
    DEF PInv, Proc, DeleteRow, Goto, provider, Finish,
        Typed, TypeOK, OnlyCallersLock, Credential, RefreshToken
<1>1. Typed'
  OBVIOUS
<1>2. AllAreIssued'
  BY DEF AllAreIssued, Has
<1>3. SeenCanRefresh'
  BY DEF SeenCanRefresh, Refreshing, Has
<1>4. HolderHasRow'
  BY DEF HolderHasRow
<1>5. CutOffIsLost'
  BY DEF CutOffIsLost, Refreshing, Has, SeenCanRefresh
<1>6. RowIsUsable'
  BY DEF RowIsUsable, HolderHasRow, SeenCanRefresh, Refreshing, Has
<1>7. AnswerIsNew'
  BY DEF AnswerIsNew, AllAreIssued, Has
<1>8. RotationAnswers'
  BY DEF RotationAnswers, Has
<1>9. NoDuplicateRefresh'
  BY DEF NoDuplicateRefresh
<1> QED  BY <1>1, <1>2, <1>3, <1>4, <1>5, <1>6, <1>7, <1>8, <1>9

LEMMA FailKeeps ==
  ASSUME PInv, NEW p \in Proc, Fail(p)
  PROVE  PInv'
<1> USE ProviderAssumption, NullAssumption
    DEF PInv, Proc, Fail, Goto, provider, Finish,
        Typed, TypeOK, OnlyCallersLock, Credential, RefreshToken
<1>1. Typed'
  BY DEF AllAreIssued, SeenCanRefresh, Refreshing, Has
<1>2. AllAreIssued'
  BY DEF AllAreIssued, Has
<1>3. SeenCanRefresh'
  BY DEF SeenCanRefresh, Refreshing, Has
<1>4. HolderHasRow'
  BY DEF HolderHasRow
<1>5. CutOffIsLost'
  BY DEF CutOffIsLost, Refreshing, Has, SeenCanRefresh
<1>6. RowIsUsable'
  BY DEF RowIsUsable, HolderHasRow, SeenCanRefresh, Refreshing, Has
<1>7. AnswerIsNew'
  BY DEF AnswerIsNew, AllAreIssued, Has
<1>8. RotationAnswers'
  BY DEF RotationAnswers, Has
<1>9. NoDuplicateRefresh'
  BY DEF NoDuplicateRefresh
<1> QED  BY <1>1, <1>2, <1>3, <1>4, <1>5, <1>6, <1>7, <1>8, <1>9

LEMMA DropConnectionKeeps ==
  ASSUME PInv, NEW p \in Proc, DropConnection(p)
  PROVE  PInv'
<1> USE ProviderAssumption, NullAssumption
    DEF PInv, Proc, DropConnection, Goto, provider,
        Typed, TypeOK, OnlyCallersLock, Credential, RefreshToken
<1>1. Typed'
  BY DEF AllAreIssued, SeenCanRefresh, Refreshing, Has
<1>2. AllAreIssued'
  BY DEF AllAreIssued, Has
<1>3. SeenCanRefresh'
  BY DEF SeenCanRefresh, Refreshing, Has
<1>4. HolderHasRow'
  BY DEF HolderHasRow
<1>5. CutOffIsLost'
  BY DEF CutOffIsLost, Refreshing, Has, SeenCanRefresh
<1>6. RowIsUsable'
  BY DEF RowIsUsable, HolderHasRow, SeenCanRefresh, Refreshing, Has
<1>7. AnswerIsNew'
  BY DEF AnswerIsNew, AllAreIssued, Has
<1>8. RotationAnswers'
  BY DEF RotationAnswers, Has
<1>9. NoDuplicateRefresh'
  BY DEF NoDuplicateRefresh
<1> QED  BY <1>1, <1>2, <1>3, <1>4, <1>5, <1>6, <1>7, <1>8, <1>9

LEMMA GrowKeeps == ASSUME PInv, Grow  PROVE PInv'
<1> USE ProviderAssumption, NullAssumption DEF PInv, Proc, Grow, provider
<1>1. Typed'
  BY DEF Typed, TypeOK, OnlyCallersLock, Credential, RefreshToken
<1>2. AllAreIssued' /\ SeenCanRefresh' /\ HolderHasRow' /\ CutOffIsLost'
  BY DEF Typed, TypeOK, Credential, AllAreIssued, SeenCanRefresh, HolderHasRow,
         CutOffIsLost, Refreshing, Has
<1>3. RowIsUsable' /\ AnswerIsNew' /\ RotationAnswers' /\ NoDuplicateRefresh'
  BY DEF Typed, TypeOK, Credential, RowIsUsable, AnswerIsNew, RotationAnswers,
         NoDuplicateRefresh, Has
<1> QED  BY <1>1, <1>2, <1>3

\* PInv holds in every reachable state.
THEOREM TokenInvariance == Spec => []PInv
<1>1. Init => PInv
  BY ProviderAssumption, NullAssumption
  DEF Init, PInv, Proc, Typed, TypeOK, OnlyCallersLock, AllAreIssued,
      SeenCanRefresh, HolderHasRow, CutOffIsLost, RowIsUsable, AnswerIsNew,
      RotationAnswers, NoDuplicateRefresh, Refreshing, Has
<1>2. PInv /\ [Next]_vars => PInv'
  <2> SUFFICES ASSUME PInv, [Next]_vars  PROVE PInv'
    OBVIOUS
  <2>1. CASE UNCHANGED vars
    BY <2>1
    DEF vars, PInv, Typed, TypeOK, OnlyCallersLock, AllAreIssued,
        SeenCanRefresh, HolderHasRow, CutOffIsLost, RowIsUsable, AnswerIsNew,
        RotationAnswers, NoDuplicateRefresh, Refreshing, Has
  <2>2. CASE \E p \in Caller : Call(p)
    BY <2>2, CallKeeps
  <2>3. CASE \E p \in Connector : ExchangeCode(p) \/ ClearToken(p)
    BY <2>3, ExchangeCodeKeeps, ClearTokenKeeps
  <2>4. CASE \E p \in Proc : Run(p)
    BY <2>4, DoRefreshKeeps, UpdateKeeps, RefreshFailedKeeps, FailKeeps
    DEF Run, UpdateFailed
  <2>5. CASE \E p \in Proc : Acquire(p)
    BY <2>5, LockTokenKeeps, SaveTokenKeeps, DeleteRowKeeps DEF Acquire
  <2>6. CASE \E p \in Proc : Fail(p) \/ DropConnection(p)
    BY <2>6, FailKeeps, DropConnectionKeeps
  <2>7. CASE Grow
    BY <2>7, GrowKeeps
  <2> QED  BY <2>1, <2>2, <2>3, <2>4, <2>5, <2>6, <2>7 DEF Next
<1> QED  BY <1>1, <1>2, PTL DEF Spec

(* Every variable keeps its type, and only a refresh in progress holds the *)
(* lock of the row (repository.py, locked_token).                          *)
THEOREM TypeCorrect == Spec => []TypeOK
<1>1. PInv => TypeOK
  BY DEF PInv, Typed
<1> QED  BY <1>1, TokenInvariance, PTL

(* However many calls refresh at once, the provider sees a spent refresh   *)
(* token again only if an exchange of it was cut off (token_store.py:7-10).*)
THEOREM RefreshedOnce == Spec => []NoDuplicateRefresh
<1>1. PInv => NoDuplicateRefresh
  BY DEF PInv
<1> QED  BY <1>1, TokenInvariance, PTL

(* The stored refresh token is one the provider accepts, or its exchange   *)
(* was cut off, or the refresh that replaces it is about to be written.    *)
THEOREM RowStaysUsable == Spec => []StoredTokenIsUsable
<1>1. PInv => StoredTokenIsUsable
  BY DEF PInv, RowIsUsable, StoredTokenIsUsable, Has
<1> QED  BY <1>1, TokenInvariance, PTL

(* A refresh in flight never brings back a row that was deleted meanwhile, *)
(* and never drops the stored refresh token (repository.py:450-459): both  *)
(* take a user who connects.                                               *)
THEOREM OnlyUsersReplace == Spec => OnlyConnectingReplaces
<1> DEFINE Kept ==
      /\ row = None /\ row' # None => Connecting
      /\ row # None /\ row' # None /\ row.refresh # None /\ row'.refresh = None
           => Connecting
<1>1. ASSUME PInv, [Next]_vars  PROVE Kept
  <2> USE ProviderAssumption, NullAssumption
      DEF PInv, Proc, Typed, TypeOK, Credential, RefreshToken
  <2>1. CASE row' = row
    BY <2>1
  <2>2. ASSUME NEW p \in Proc, SaveToken(p)  PROVE Connecting
    <3>1. pc[p] = "save" /\ pc' = [pc EXCEPT ![p] = "idle"]
      BY <2>2 DEF SaveToken, Finish, Goto
    <3>2. pc'[p] = "idle"
      BY <1>1, <3>1
    <3> QED  BY <3>1, <3>2 DEF Connecting
  <2>3. ASSUME NEW p \in Proc, Update(p)  PROVE Kept
    <3>1. row # None /\ seen[p] \in Credential /\ seen[p].refresh # None
      BY <1>1, <2>3 DEF Update, HolderHasRow, SeenCanRefresh, Refreshing, Has
    <3>2. answer[p] \in Credential /\ row' = Merged(seen[p], answer[p])
      BY <1>1, <2>3 DEF Update
    <3>3. row'.refresh # None
      BY <3>1, <3>2 DEF Merged
    <3> QED  BY <3>1, <3>3
  <2>4. ASSUME NEW p \in Proc, DeleteRow(p)  PROVE Kept
    BY <2>4 DEF DeleteRow
  <2>5. CASE Grow
    BY <2>5 DEF Grow
  <2>6. row' # row =>
          \/ \E p \in Proc : SaveToken(p) \/ Update(p) \/ DeleteRow(p)
          \/ Grow
    BY <1>1 DEF Next, vars, Run, Acquire, Call, ExchangeCode, ClearToken,
                DoRefresh, UpdateFailed, RefreshFailed, LockToken, Fail,
                DropConnection
  <2> QED  BY <2>1, <2>2, <2>3, <2>4, <2>5, <2>6
<1> QED  BY <1>1, TokenInvariance, PTL DEF Spec, OnlyConnectingReplaces
=============================================================================
