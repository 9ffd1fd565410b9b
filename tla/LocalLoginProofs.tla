---------------------------- MODULE LocalLoginProofs ----------------------------
(***************************************************************************)
(* Proofs about LocalLogin, for any logins, providers and lifetimes that   *)
(* let a login stop polling before the proxy forgets its state.            *)
(***************************************************************************)
EXTENDS LocalLogin, TLAPS

Entry == [provider : Provider, redirect : BOOLEAN, age : Nat, result : Answer \cup {None}]

Shape ==
    /\ DOMAIN pending \subseteq Login
    /\ \A s \in DOMAIN pending : pending[s] \in Entry
    /\ pc \in [Login -> Working \cup {"idle", "relayed", "done", "failed"}]
    /\ provider \in [Login -> Provider \cup {None}]
    /\ left \in [Login -> Nat]
    /\ presented \in [Login -> Nat]
    /\ answered \in [Login -> Answer \cup {None}]
    /\ stored \in [Provider -> Login \cup {None}]
    /\ stash \subseteq Login /\ connect \subseteq Login

(* A state the proxy forgot does not come back.                            *)
NoReturn ==
    /\ \A l \in Login : l \in DOMAIN pending \/ l \in forgotten => pc[l] # "idle"
    /\ DOMAIN pending \cap forgotten = {}

(* While a login polls, its state's age and its time left make no more     *)
(* than its timeout.                                                       *)
KeptWhilePolled ==
    \A l \in Login : pc[l] = "waiting" /\ left[l] > 0 =>
        \/ l \in forgotten
        \/ l \in DOMAIN pending /\ pending[l].age + left[l] <= Timeout

ResultIsLatest ==
    \A s \in DOMAIN pending : pending[s].result # None => pending[s].result = answered[s]

(* Before the exchange no code is presented, and what is called back       *)
(* through the server has its stash until then.                            *)
NotYetPresented ==
    /\ \A l \in Login : pc[l] \in {"idle", "waiting", "relayed", "exchange"} => presented[l] = 0
    /\ \A l \in stash : pc[l] = "relayed"
    /\ \A l \in Login : pc[l] \in Working \cup {"relayed"} => provider[l] \in Provider
    /\ \A l \in connect : pc[l] # "idle"

(* Where a credential comes from.                                          *)
SavedOnce ==
    /\ \A l \in Login : presented[l] <= 1
    /\ \A l \in Login : pc[l] \in {"device", "polling"} =>
          provider[l] \in FallsBack /\ l \notin connect
    /\ \A l \in Login : pc[l] = "save" =>
          presented[l] = 1 \/ (provider[l] \in FallsBack /\ l \notin connect)
    /\ \A p \in Provider : stored[p] # None =>
          /\ pc[stored[p]] = "done"
          /\ provider[stored[p]] = p
          /\ presented[stored[p]] = 1 \/ (p \in FallsBack /\ stored[p] \notin connect)

IInv ==
    /\ Shape
    /\ NoReturn
    /\ KeptWhilePolled
    /\ ResultIsLatest
    /\ NotYetPresented
    /\ SavedOnce

USE LoginAssumption

(* The cleanup of any request spares the state of a login that polls.      *)
LEMMA CleanedSparesPolled ==
    ASSUME IInv, NEW l \in Login, pc[l] = "waiting", left[l] > 0
    PROVE  l \in forgotten \/ l \in DOMAIN Cleaned
<1>1. CASE l \in DOMAIN pending /\ pending[l].age + left[l] <= Timeout
  <2>1. pending[l].age \in Nat /\ left[l] \in Nat
    BY <1>1 DEF IInv, Shape, Entry
  <2> QED BY <1>1, <2>1 DEF Cleaned, Stale
<1> QED BY <1>1 DEF IInv, KeptWhilePolled

(* Every step of a login, a poll or the sweep keeps the invariant.         *)
LEMMA Step == IInv /\ [Next]_vars => IInv'
<1> SUFFICES ASSUME IInv, [Next]_vars PROVE IInv'
  OBVIOUS
<1> USE DEF IInv, Shape, Entry, NoReturn, KeptWhilePolled, ResultIsLatest, NotYetPresented,
            SavedOnce, GoTo, BrowserFails, Working, Answer
<1>1. ASSUME NEW l \in Login, NEW p \in Provider, Register(l, p) PROVE IInv'
  <2>1. Shape'
    BY <1>1 DEF Register, Registered, Cleaned
  <2>2. NoReturn'
    BY <1>1 DEF Register, Registered, Cleaned
  <2>3. KeptWhilePolled'
    BY <1>1, CleanedSparesPolled DEF Register, Registered, Cleaned
  <2>4. ResultIsLatest'
    BY <1>1 DEF Register, Registered, Cleaned
  <2>5. NotYetPresented'
    BY <1>1 DEF Register
  <2>6. SavedOnce'
    BY <1>1 DEF Register
  <2> QED BY <2>1, <2>2, <2>3, <2>4, <2>5, <2>6
<1>2. ASSUME NEW l \in Login, NEW p \in Provider, RegisterFails(l, p) PROVE IInv'
  <2>1. Shape'
    <3>1. /\ DOMAIN pending' \subseteq Login
          /\ \A s \in DOMAIN pending' : pending'[s] \in Entry
      <4>1. CASE UNCHANGED pending
        BY <4>1
      <4>2. CASE pending' = Registered(l, p, FALSE)
        BY <4>2 DEF Registered, Cleaned
      <4> QED BY <1>2, <4>1, <4>2 DEF RegisterFails
    <3> QED BY <1>2, <3>1 DEF RegisterFails
  <2>2. NoReturn'
    BY <1>2 DEF RegisterFails, Registered, Cleaned
  <2>3. KeptWhilePolled'
    BY <1>2, CleanedSparesPolled DEF RegisterFails, Registered, Cleaned
  <2>4. ResultIsLatest'
    BY <1>2 DEF RegisterFails, Registered, Cleaned
  <2>5. NotYetPresented'
    BY <1>2 DEF RegisterFails
  <2>6. SavedOnce'
    BY <1>2 DEF RegisterFails
  <2> QED BY <2>1, <2>2, <2>3, <2>4, <2>5, <2>6
<1>3. ASSUME NEW l \in Login, NEW p \in Provider, StartConnect(l, p) PROVE IInv'
  <2>1. Shape'
    <3>1. /\ DOMAIN pending' \subseteq Login
          /\ \A s \in DOMAIN pending' : pending'[s] \in Entry
      <4>1. CASE UNCHANGED pending
        BY <4>1
      <4>2. CASE pending' = Registered(l, p, TRUE)
        BY <4>2 DEF Registered, Cleaned
      <4> QED BY <1>3, <4>1, <4>2 DEF StartConnect
    <3> QED BY <1>3, <3>1 DEF StartConnect
  <2>2. NoReturn'
    BY <1>3 DEF StartConnect, Registered, Cleaned
  <2>3. KeptWhilePolled'
    BY <1>3, CleanedSparesPolled DEF StartConnect, Registered, Cleaned
  <2>4. ResultIsLatest'
    BY <1>3 DEF StartConnect, Registered, Cleaned
  <2>5. NotYetPresented'
    BY <1>3 DEF StartConnect
  <2>6. SavedOnce'
    BY <1>3 DEF StartConnect
  <2> QED BY <2>1, <2>2, <2>3, <2>4, <2>5, <2>6
<1>4. ASSUME NEW l \in Login, NEW p \in Provider, NEW a \in Answer, Callback(l, p, a) PROVE IInv'
  <2>1. Shape'
    BY <1>4 DEF Callback, Cleaned
  <2>2. NoReturn'
    BY <1>4 DEF Callback, Cleaned
  <2>3. KeptWhilePolled'
    BY <1>4, CleanedSparesPolled DEF Callback, Cleaned
  <2>4. ResultIsLatest'
    BY <1>4 DEF Callback, Cleaned
  <2>5. NotYetPresented'
    BY <1>4 DEF Callback
  <2>6. SavedOnce'
    BY <1>4 DEF Callback
  <2> QED BY <2>1, <2>2, <2>3, <2>4, <2>5, <2>6
<1>5. ASSUME NEW l \in Login, CachedToken(l) PROVE IInv'
  BY <1>5 DEF CachedToken
<1>6. ASSUME NEW l \in Login, FinishConnect(l) PROVE IInv'
  <2>1. pc[l] = "relayed" /\ presented[l] = 0 /\ provider[l] \in Provider
    BY <1>6 DEF FinishConnect
  <2>2. Shape' /\ NoReturn' /\ KeptWhilePolled' /\ ResultIsLatest'
    BY <1>6, <2>1 DEF FinishConnect, Consumed
  <2>3. NotYetPresented'
    BY <1>6, <2>1 DEF FinishConnect, Consumed
  <2>4. SavedOnce'
    BY <1>6, <2>1 DEF FinishConnect, Consumed
  <2> QED BY <2>2, <2>3, <2>4
<1>7. ASSUME NEW l \in Login, Poll(l) PROVE IInv'
  <2>1. Shape'
    BY <1>7 DEF Poll, Cleaned
  <2>2. NoReturn'
    BY <1>7 DEF Poll, Cleaned
  <2>3. KeptWhilePolled'
    BY <1>7, CleanedSparesPolled DEF Poll, Cleaned
  <2>4. ResultIsLatest'
    BY <1>7 DEF Poll, Cleaned
  <2>5. NotYetPresented'
    <3>1. \/ UNCHANGED pc
          \/ pc' = [pc EXCEPT ![l] = "exchange"]
          \/ pc' = [pc EXCEPT ![l] = "device"]
          \/ pc' = [pc EXCEPT ![l] = "failed"]
      BY <1>7 DEF Poll
    <3>2. pc[l] = "waiting" /\ presented[l] = 0 /\ provider[l] \in Provider /\ l \notin stash
      BY <1>7 DEF Poll
    <3>3. UNCHANGED <<provider, stash, presented, connect>>
      BY <1>7 DEF Poll
    <3>4. \A x \in Login : x # l => pc'[x] = pc[x]
      BY <3>1
    <3>5. pc'[l] \in {"waiting", "exchange", "device", "failed"}
      BY <3>1, <3>2
    <3> HIDE DEF GoTo, BrowserFails, Entry, NoReturn, KeptWhilePolled, ResultIsLatest, SavedOnce
    <3> QED BY <3>2, <3>3, <3>4, <3>5
  <2>6. SavedOnce'
    BY <1>7 DEF Poll
  <2> QED BY <2>1, <2>2, <2>3, <2>4, <2>5, <2>6
<1>8. ASSUME NEW l \in Login, PollFails(l) PROVE IInv'
  <2>1. Shape'
    BY <1>8 DEF PollFails, Cleaned
  <2>2. NoReturn'
    BY <1>8 DEF PollFails, Cleaned
  <2>3. KeptWhilePolled'
    BY <1>8, CleanedSparesPolled DEF PollFails, Cleaned
  <2>4. ResultIsLatest'
    BY <1>8 DEF PollFails, Cleaned
  <2>5. NotYetPresented'
    BY <1>8 DEF PollFails
  <2>6. SavedOnce'
    BY <1>8 DEF PollFails
  <2> QED BY <2>1, <2>2, <2>3, <2>4, <2>5, <2>6
<1>9. ASSUME NEW l \in Login, GiveUp(l) PROVE IInv'
  BY <1>9 DEF GiveUp
<1>10. ASSUME NEW l \in Login, ExchangeCode(l) PROVE IInv'
  <2>1. Shape' /\ NoReturn' /\ KeptWhilePolled' /\ ResultIsLatest'
    BY <1>10 DEF ExchangeCode
  <2>2. NotYetPresented'
    <3>1. \/ pc' = [pc EXCEPT ![l] = "save"]
          \/ pc' = [pc EXCEPT ![l] = "device"]
          \/ pc' = [pc EXCEPT ![l] = "failed"]
      BY <1>10 DEF ExchangeCode
    <3>2. pc[l] = "exchange" /\ provider[l] \in Provider /\ l \notin stash
      BY <1>10 DEF ExchangeCode
    <3>3. UNCHANGED <<provider, stash, connect>> /\ \A x \in Login : x # l => presented'[x] = presented[x]
      BY <1>10 DEF ExchangeCode
    <3>4. \A x \in Login : x # l => pc'[x] = pc[x]
      BY <3>1
    <3>5. pc'[l] \in {"save", "device", "failed"}
      BY <3>1
    <3> HIDE DEF GoTo, BrowserFails, Entry, NoReturn, KeptWhilePolled, ResultIsLatest, SavedOnce
    <3> QED BY <3>2, <3>3, <3>4, <3>5
  <2>3. SavedOnce'
    BY <1>10 DEF ExchangeCode
  <2> QED BY <2>1, <2>2, <2>3
<1>11. ASSUME NEW l \in Login, DeviceStart(l) PROVE IInv'
  BY <1>11 DEF DeviceStart
<1>12. ASSUME NEW l \in Login, DevicePoll(l) PROVE IInv'
  BY <1>12 DEF DevicePoll, Remaining
<1>13. ASSUME NEW l \in Login, DeviceTimeout(l) PROVE IInv'
  BY <1>13 DEF DeviceTimeout
<1>14. ASSUME NEW l \in Login, Save(l) PROVE IInv'
  <2>1. Shape' /\ NoReturn' /\ KeptWhilePolled' /\ ResultIsLatest'
    BY <1>14 DEF Save
  <2>2. NotYetPresented'
    BY <1>14 DEF Save
  <2>3. SavedOnce'
    BY <1>14 DEF Save
  <2> QED BY <2>1, <2>2, <2>3
<1>15. ASSUME NEW l \in Login, Fail(l) PROVE IInv'
  BY <1>15 DEF Fail
<1>16. CASE StopProxy
  BY <1>16 DEF StopProxy
<1>17. CASE StartProxy
  BY <1>17 DEF StartProxy
<1>18. CASE Tick
  <2>0. ASSUME NEW s \in DOMAIN pending
        PROVE  pending'[s] \in Entry /\ pending'[s].result = pending[s].result
    <3>1. pending[s] \in Entry
      OBVIOUS
    <3>2. pending'[s] = pending[s] \/ pending'[s] = [pending[s] EXCEPT !.age = @ + 1]
      BY <1>18 DEF Tick
    <3> QED BY <3>1, <3>2
  <2>1. Shape' /\ NoReturn' /\ ResultIsLatest'
    BY <1>18, <2>0 DEF Tick
  <2>2. KeptWhilePolled'
    BY <1>18 DEF Tick
  <2>3. NotYetPresented' /\ SavedOnce'
    BY <1>18 DEF Tick
  <2> QED BY <2>1, <2>2, <2>3
<1>19. CASE UNCHANGED vars
  BY <1>19 DEF vars
<1> HIDE DEF IInv, Shape, Entry, NoReturn, KeptWhilePolled, ResultIsLatest, NotYetPresented,
             SavedOnce, GoTo, BrowserFails, Working, Answer
<1> QED BY <1>1, <1>2, <1>3, <1>4, <1>5, <1>6, <1>7, <1>8, <1>9, <1>10, <1>11, <1>12,
           <1>13, <1>14, <1>15, <1>16, <1>17, <1>18, <1>19 DEF Next

(* The inductive invariant holds in every reachable state: the pending     *)
(* logins, their threads and the polls agree on what has been presented.   *)
THEOREM Invariance == Spec => []IInv
<1>1. Init => IInv
  BY DEF Init, IInv, Shape, NoReturn, KeptWhilePolled, ResultIsLatest, NotYetPresented,
         SavedOnce, Working
<1> QED BY <1>1, Step, PTL DEF Spec

(* A poll ends a login's wait with its user's latest answer, and with an   *)
(* unknown state only if the proxy was stopped since the login registered, *)
(* for all lifetimes with Timeout <= StateTTL.                             *)
THEOREM LatestCounts == Spec => LatestAnswerCounts
<1> DEFINE A == \A l \in Login :
              Poll(l) /\ pc'[l] # "waiting" =>
                 IF l \in DOMAIN pending
                 THEN pc'[l] = "exchange" <=> answered[l] = "code"
                 ELSE l \in forgotten
<1>1. IInv /\ [Next]_vars => [A]_vars
  <2> SUFFICES ASSUME IInv, NEW l \in Login, Poll(l), pc'[l] # "waiting"
               PROVE  IF l \in DOMAIN pending
                      THEN pc'[l] = "exchange" <=> answered[l] = "code"
                      ELSE l \in forgotten
    OBVIOUS
  <2>1. l \in forgotten \/ l \in DOMAIN Cleaned
    BY CleanedSparesPolled DEF Poll
  <2>2. pc[l] = "waiting" /\ pc \in [Login -> Working \cup {"idle", "relayed", "done", "failed"}]
    BY DEF Poll, IInv, Shape
  <2>3. CASE l \notin DOMAIN pending
    BY <2>1, <2>3 DEF Cleaned
  <2>4. CASE l \in DOMAIN pending
    <3>1. l \in DOMAIN Cleaned
      BY <2>1, <2>4 DEF IInv, NoReturn
    <3>2. pending[l].result # None
      BY <2>2, <3>1 DEF Poll
    <3>3. pending[l].result = answered[l]
      BY <2>4, <3>2 DEF IInv, ResultIsLatest
    <3>4. IF pending[l].result = "code" THEN GoTo(l, "exchange") ELSE BrowserFails(l, provider[l])
      BY <3>1, <3>2 DEF Poll
    <3> QED BY <2>2, <2>4, <3>3, <3>4 DEF GoTo, BrowserFails
  <2> QED BY <2>3, <2>4
<1> QED BY <1>1, Invariance, PTL DEF Spec, LatestAnswerCounts

(* A code is presented once, and every credential is from an exchanged     *)
(* code or a device flow of its own provider.                              *)
THEOREM OneExchange == Spec => []OneExchangePerLogin
<1>1. IInv => OneExchangePerLogin
  BY DEF IInv, SavedOnce, OneExchangePerLogin
<1> QED BY <1>1, Invariance, PTL

(* What the type invariant says beyond IInv.  A state redirects exactly if *)
(* a connect route registered it.                                          *)
EntriesTyped ==
    \A s \in DOMAIN pending :
        /\ pending[s].age <= StateTTL + 1
        /\ pending[s].redirect <=> s \in connect

RestTyped ==
    /\ up \in BOOLEAN
    /\ left \in [Login -> 0 .. Timeout \cup 0 .. DeviceTTL]
    /\ stash \subseteq connect
    /\ url \in [Login -> Answer \cup {None}]

(* A request that registers nothing at most takes entries away.            *)
LEMMA EntriesRemain ==
    ASSUME EntriesTyped, connect' = connect,
           \A s \in DOMAIN pending' : s \in DOMAIN pending /\ pending'[s] = pending[s]
    PROVE  EntriesTyped'
BY DEF EntriesTyped

(* A registration is new, and is a connect route's if it redirects.        *)
LEMMA EntriesRegistered ==
    ASSUME EntriesTyped, NEW l, NEW p, NEW redirect \in BOOLEAN,
           pending' = Registered(l, p, redirect),
           redirect <=> l \in connect',
           \A s : s # l => (s \in connect' <=> s \in connect)
    PROVE  EntriesTyped'
<1>1. DOMAIN pending' = DOMAIN Cleaned \cup {l}
  BY DEF Registered
<1>2. ASSUME NEW s \in DOMAIN pending', s # l
      PROVE  s \in DOMAIN pending /\ pending'[s] = pending[s]
  BY <1>1, <1>2 DEF Registered, Cleaned
<1>3. pending'[l] = [provider |-> p, redirect |-> redirect, age |-> 0, result |-> None]
  BY DEF Registered
<1>4. ASSUME NEW s \in DOMAIN pending'
      PROVE  pending'[s].age <= StateTTL + 1
  BY <1>2, <1>3, <1>4 DEF EntriesTyped
<1>5. ASSUME NEW s \in DOMAIN pending'
      PROVE  pending'[s].redirect <=> s \in connect'
  <2>1. CASE s = l
    BY <1>3, <2>1
  <2>2. CASE s # l
    BY <1>2, <2>2 DEF EntriesTyped
  <2> QED BY <2>1, <2>2
<1> QED BY <1>4, <1>5 DEF EntriesTyped

(* Every request of the proxy, and every step of the clock, keeps the      *)
(* entries' types.                                                         *)
LEMMA EntriesStep == IInv /\ EntriesTyped /\ [Next]_vars => EntriesTyped'
<1> SUFFICES ASSUME IInv, EntriesTyped, [Next]_vars PROVE EntriesTyped'
  OBVIOUS
<1>0. /\ \A l \in Login : pc[l] = "idle" => l \notin DOMAIN pending /\ l \notin connect
      /\ DOMAIN pending \subseteq Login
      /\ \A s \in DOMAIN pending : pending[s] \in Entry
  BY DEF IInv, Shape, NoReturn, NotYetPresented
<1>1. ASSUME NEW l \in Login, NEW p \in Provider, Register(l, p) \/ RegisterFails(l, p)
      PROVE  EntriesTyped'
  <2>1. l \notin connect /\ connect' = connect
    BY <1>0, <1>1 DEF Register, RegisterFails
  <2>2. CASE pending' = Registered(l, p, FALSE)
    BY <2>1, <2>2, EntriesRegistered
  <2>3. CASE UNCHANGED pending
    BY <2>1, <2>3, EntriesRemain
  <2> QED BY <1>1, <2>2, <2>3 DEF Register, RegisterFails
<1>2. ASSUME NEW l \in Login, NEW p \in Provider, StartConnect(l, p) PROVE EntriesTyped'
  <2>1. l \notin DOMAIN pending /\ connect' = connect \cup {l}
    BY <1>0, <1>2 DEF StartConnect
  <2>2. CASE pending' = Registered(l, p, TRUE)
    BY <2>1, <2>2, EntriesRegistered
  <2>3. CASE UNCHANGED pending
    BY <2>1, <2>3 DEF EntriesTyped
  <2> QED BY <1>2, <2>2, <2>3 DEF StartConnect
<1>3. ASSUME NEW l \in Login, NEW p \in Provider, NEW a \in Answer, Callback(l, p, a)
      PROVE  EntriesTyped'
  <2>1. pending' = [Cleaned EXCEPT ![l].result = a] /\ connect' = connect
    BY <1>3 DEF Callback
  <2>2. ASSUME NEW s \in DOMAIN pending'
        PROVE  /\ s \in DOMAIN pending
               /\ pending'[s].age = pending[s].age
               /\ pending'[s].redirect = pending[s].redirect
    <3>1. s \in DOMAIN Cleaned /\ s \in DOMAIN pending /\ Cleaned[s] = pending[s]
      BY <2>1, <2>2 DEF Cleaned
    <3>2. pending[s] \in Entry
      BY <1>0, <3>1
    <3>3. pending'[s] = pending[s] \/ pending'[s] = [pending[s] EXCEPT !.result = a]
      BY <2>1, <3>1
    <3> QED BY <3>1, <3>2, <3>3 DEF Entry
  <2> QED BY <2>1, <2>2 DEF EntriesTyped
<1>4. ASSUME NEW l \in Login, Poll(l) \/ PollFails(l) PROVE EntriesTyped'
  <2>1. connect' = connect
    BY <1>4 DEF Poll, PollFails
  <2>2. \A s \in DOMAIN pending' : s \in DOMAIN pending /\ pending'[s] = pending[s]
    BY <1>4 DEF Poll, PollFails, Cleaned
  <2> QED BY <2>1, <2>2, EntriesRemain
<1>5. CASE StopProxy
  BY <1>5 DEF StopProxy, EntriesTyped
<1>6. CASE Tick
  <2>1. DOMAIN pending' = DOMAIN pending /\ connect' = connect
    BY <1>6 DEF Tick
  <2>2. ASSUME NEW s \in DOMAIN pending
        PROVE  /\ pending'[s].age <= StateTTL + 1
               /\ pending'[s].redirect = pending[s].redirect
    <3>1. pending[s] \in Entry
      BY <1>0
    <3>2. CASE Stale(pending[s])
      <4>1. pending'[s] = pending[s]
        BY <1>6, <3>2 DEF Tick
      <4> QED BY <4>1 DEF EntriesTyped
    <3>3. CASE ~Stale(pending[s])
      <4>1. pending'[s] = [pending[s] EXCEPT !.age = @ + 1]
        BY <1>6, <3>3 DEF Tick
      <4>2. pending[s].age \in Nat /\ pending[s].age <= StateTTL
        BY <3>1, <3>3 DEF Entry, Stale
      <4>3. pending'[s].age = pending[s].age + 1 /\ pending'[s].redirect = pending[s].redirect
        BY <3>1, <4>1 DEF Entry
      <4> QED BY <4>2, <4>3
    <3> QED BY <3>2, <3>3
  <2> QED BY <2>1, <2>2 DEF EntriesTyped
<1>7. CASE UNCHANGED <<pending, connect>>
  BY <1>7, EntriesRemain
<1> QED
  BY <1>1, <1>2, <1>3, <1>4, <1>5, <1>6, <1>7
     DEF Next, CachedToken, FinishConnect, GiveUp, ExchangeCode, Save, Fail, DeviceStart,
         DevicePoll, DeviceTimeout, StartProxy, vars

(* No step gives another variable a value of another kind.                 *)
LEMMA RestStep == IInv /\ RestTyped /\ [Next]_vars => RestTyped'
<1> SUFFICES ASSUME IInv, RestTyped, [Next]_vars PROVE RestTyped'
  OBVIOUS
<1> USE DEF RestTyped
<1>1. up' \in BOOLEAN
  BY DEF Next, Register, RegisterFails, StartConnect, Callback, CachedToken, FinishConnect,
         Poll, PollFails, GiveUp, ExchangeCode, Save, Fail, DeviceStart, DevicePoll,
         DeviceTimeout, StopProxy, StartProxy, Tick, vars
<1>2. left' \in [Login -> 0 .. Timeout \cup 0 .. DeviceTTL]
  <2>1. ASSUME NEW l \in Login, NEW n \in {Timeout, DeviceTTL}, left' = [left EXCEPT ![l] = n]
        PROVE  <1>2!:
    <3>1. n \in 0 .. Timeout \cup 0 .. DeviceTTL
      OBVIOUS
    <3> QED BY <2>1, <3>1
  <2>2. CASE Tick
    <3>1. \A l \in Login :
              (IF left[l] > 0 THEN left[l] - 1 ELSE 0) \in 0 .. Timeout \cup 0 .. DeviceTTL
      OBVIOUS
    <3> QED BY <2>2, <3>1 DEF Tick
  <2>3. ASSUME NEW l \in Login, DevicePoll(l) PROVE left' = left
    BY <2>3 DEF DevicePoll, Remaining
  <2>4. CASE left' = left
    BY <2>4
  <2> QED
    BY <2>1, <2>2, <2>3, <2>4
       DEF Next, Register, RegisterFails, StartConnect, Callback, CachedToken, FinishConnect,
           Poll, PollFails, GiveUp, ExchangeCode, Save, Fail, DeviceStart, DeviceTimeout,
           StopProxy, StartProxy, vars
<1>3. stash' \subseteq connect'
  BY DEF Next, Register, RegisterFails, StartConnect, Callback, CachedToken, FinishConnect,
         Consumed, Poll, PollFails, GiveUp, ExchangeCode, Save, Fail, DeviceStart, DevicePoll,
         DeviceTimeout, StopProxy, StartProxy, Tick, vars
<1>4. url' \in [Login -> Answer \cup {None}]
  <2>1. ASSUME NEW l \in Login, NEW p \in Provider, NEW a \in Answer, Callback(l, p, a)
        PROVE  <1>4!:
    <3>1. url' = [url EXCEPT ![l] = a] \/ url' = url
      BY <2>1 DEF Callback
    <3> QED BY <3>1
  <2>2. CASE url' = url
    BY <2>2
  <2> QED
    BY <2>1, <2>2
       DEF Next, Register, RegisterFails, StartConnect, CachedToken, FinishConnect, Poll,
           PollFails, GiveUp, ExchangeCode, Save, Fail, DeviceStart, DevicePoll,
           DeviceTimeout, StopProxy, StartProxy, Tick, vars
<1> QED BY <1>1, <1>2, <1>3, <1>4

(* Every variable has its type: the proxy redirects the browser of the     *)
(* connect routes' logins and of no others, and no entry or deadline       *)
(* outgrows its lifetime.                                                  *)
THEOREM TypeCorrect == Spec => []TypeOK
<1>1. Init => EntriesTyped /\ RestTyped
  BY DEF Init, EntriesTyped, RestTyped
<1>2. IInv /\ EntriesTyped /\ RestTyped /\ [Next]_vars => EntriesTyped' /\ RestTyped'
  BY EntriesStep, RestStep
<1>3. IInv /\ EntriesTyped /\ RestTyped => TypeOK
  <2> SUFFICES ASSUME IInv, EntriesTyped, RestTyped PROVE TypeOK
    OBVIOUS
  <2>1. ASSUME NEW s \in DOMAIN pending
        PROVE  pending[s] \in [provider : Provider, redirect : BOOLEAN,
                               age : 0 .. StateTTL + 1, result : Answer \cup {None}]
    <3>1. pending[s] \in Entry
      BY DEF IInv, Shape
    <3>2. pending[s].age <= StateTTL + 1
      BY DEF EntriesTyped
    <3> QED BY <3>1, <3>2 DEF Entry
  <2> QED BY <2>1 DEF IInv, Shape, NotYetPresented, EntriesTyped, RestTyped, TypeOK, Working
<1> QED BY <1>1, <1>2, <1>3, Invariance, PTL DEF Spec
==============================================================================
