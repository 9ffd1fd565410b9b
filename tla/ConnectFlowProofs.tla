--------------------------- MODULE ConnectFlowProofs ---------------------------
(***************************************************************************)
(* Proofs about ConnectFlow, for any number of handlers, users, providers, *)
(* tickets and states and any lifetimes.                                   *)
(***************************************************************************)
EXTENDS ConnectFlow, SequenceTheorems, TLAPS

Wish == [user : User, provider : Provider]
TicketRow == [user : User, provider : Provider, used : Nat \cup {None}, expires : Nat]
Origin == [ticket : Nat, user : User, provider : Provider]
SignInOrigin == [ticket |-> None, user |-> None, provider |-> None]

Starting == {w \in Worker : pc[w] = "start"}
CallingBack == {w \in Worker : pc[w] \in {"matched", "exchange", "save"}}

(* What the type invariant leaves out.                                     *)
Shape ==
    /\ now \in Nat
    /\ minted \in Seq(Wish)
    /\ started \in Seq(Origin \cup {SignInOrigin})
    /\ DOMAIN code = 1 .. Len(started)
    /\ pc \in [Worker -> {"idle", "start", "matched", "exchange", "save"}]
    /\ DOMAIN taken = Worker
    /\ DOMAIN tickets \subseteq 1 .. Len(minted)
    /\ DOMAIN pending \subseteq 1 .. Len(started)
    /\ stored \in [User -> [Provider -> 1 .. Len(started) \cup {None}]]

(* A ticket's row says whom and what it was minted for.                    *)
TicketsAreMinted ==
    \A t \in DOMAIN tickets :
        /\ tickets[t] \in TicketRow
        /\ tickets[t].user = minted[t].user
        /\ tickets[t].provider = minted[t].provider

(* A state's flow is for the user and the provider of its ticket.          *)
OriginsAreMinted ==
    \A s \in 1 .. Len(started) : IsConnect(s) =>
        /\ started[s].ticket \in 1 .. Len(minted)
        /\ started[s].user = minted[started[s].ticket].user
        /\ started[s].provider = minted[started[s].ticket].provider

StartsAreMinted ==
    \A w \in Starting :
        /\ taken[w] \in Origin
        /\ taken[w].ticket \in 1 .. Len(minted)
        /\ taken[w].user = minted[taken[w].ticket].user
        /\ taken[w].provider = minted[taken[w].ticket].provider

(* A connect row is the stash of its state's flow.                         *)
RowsAreStashes ==
    \A s \in DOMAIN pending : \A p \in Provider : pending[s].client = connect(p) =>
        /\ IsConnect(s)
        /\ started[s].provider = p
        /\ started[s].user = pending[s].user

(* A callback carries the user and the provider of its state's flow, and   *)
(* has exchanged that flow's code when it saves.                           *)
CallbacksAreFlows ==
    \A w \in CallingBack :
        /\ taken[w].state \in 1 .. Len(started)
        /\ taken[w].code \in 1 .. Len(started)
        /\ IsConnect(taken[w].state)
        /\ taken[w].provider = started[taken[w].state].provider
        /\ taken[w].user = started[taken[w].state].user
        /\ pc[w] = "save" => code[taken[w].state] = "spent"

(* What is stored is a flow of that user at that provider.                 *)
StoredAreFlows ==
    \A u \in User, p \in Provider : stored[u][p] # None =>
        /\ stored[u][p] \in 1 .. Len(started)
        /\ IsConnect(stored[u][p])
        /\ started[stored[u][p]].user = u
        /\ started[stored[u][p]].provider = p
        /\ code[stored[u][p]] = "spent"

(* The ticket of a flow, started or starting, cannot be claimed again.     *)
StartedAreClaimed ==
    /\ \A s \in 1 .. Len(started) : IsConnect(s) => ~Claimable(started[s].ticket)
    /\ \A w \in Starting : ~Claimable(taken[w].ticket)

(* A ticket that a handler is starting with has no flow, and no other      *)
(* handler starts with it.                                                 *)
OneStartPerTicket ==
    \A w \in Starting :
        /\ \A s \in 1 .. Len(started) : IsConnect(s) => started[s].ticket # taken[w].ticket
        /\ \A v \in Starting : taken[v].ticket = taken[w].ticket => v = w

Binding ==
    /\ Shape
    /\ TicketsAreMinted
    /\ OriginsAreMinted
    /\ StartsAreMinted
    /\ RowsAreStashes
    /\ CallbacksAreFlows
    /\ StoredAreFlows

Claiming ==
    /\ StartedAreClaimed
    /\ OneStartPerTicket
    /\ OneFlowPerTicket

IInv == Binding /\ Claiming

USE ConnectAssumption DEF Wish, TicketRow, Origin, SignInOrigin, Starting, CallingBack,
                          IsConnect

(* The table tells connect flows of different providers, and sign-ins,     *)
(* apart.                                                                  *)
LEMMA ClientsDiffer ==
    /\ \A p, q \in Provider : connect(p) = connect(q) => p = q
    /\ \A p \in Provider : connect(p) # signIn
<1>1. \A p \in Provider \cup {None} : [connect |-> p].connect = p
  OBVIOUS
<1> QED BY <1>1 DEF connect, signIn

(* Using a ticket changes no field of its row but used.                    *)
LEMMA UsedTicket ==
    \A row \in TicketRow, n \in Nat :
        /\ [row EXCEPT !.used = n] \in TicketRow
        /\ [row EXCEPT !.used = n].user = row.user
        /\ [row EXCEPT !.used = n].provider = row.provider
OBVIOUS

(* No step breaks the binding of what a flow holds to the ticket's user.   *)
LEMMA BindingStep == Binding /\ [Next]_vars => Binding'
<1> SUFFICES ASSUME Binding, [Next]_vars PROVE Binding'
  OBVIOUS
<1> USE DEF Shape, TicketsAreMinted, OriginsAreMinted, StartsAreMinted, RowsAreStashes, CallbacksAreFlows, StoredAreFlows, Binding
<1>1. ASSUME NEW u \in User, NEW p \in Provider, MintTicket(u, p) PROVE Binding'
  <2>1. Shape'
    BY <1>1 DEF MintTicket, Put, Remove, Expired
  <2>2. TicketsAreMinted'
    BY <1>1 DEF MintTicket, Put, Remove, Expired
  <2>3. OriginsAreMinted'
    BY <1>1 DEF MintTicket, Put, Remove, Expired
  <2>4. StartsAreMinted'
    BY <1>1 DEF MintTicket, Put, Remove, Expired
  <2>5. RowsAreStashes'
    BY <1>1, ClientsDiffer DEF MintTicket, Put, Remove, Expired
  <2>6. CallbacksAreFlows'
    BY <1>1 DEF MintTicket, Put, Remove, Expired
  <2>7. StoredAreFlows'
    BY <1>1 DEF MintTicket, Put, Remove, Expired
  <2> QED BY <2>1, <2>2, <2>3, <2>4, <2>5, <2>6, <2>7
<1>2. ASSUME NEW u \in User, NEW p \in Provider, Disconnect(u, p) PROVE Binding'
  <2>1. Shape'
    BY <1>2 DEF Disconnect
  <2>2. TicketsAreMinted'
    BY <1>2 DEF Disconnect
  <2>3. OriginsAreMinted'
    BY <1>2 DEF Disconnect
  <2>4. StartsAreMinted'
    BY <1>2 DEF Disconnect
  <2>5. RowsAreStashes'
    BY <1>2, ClientsDiffer DEF Disconnect
  <2>6. CallbacksAreFlows'
    BY <1>2 DEF Disconnect
  <2>7. StoredAreFlows'
    BY <1>2 DEF Disconnect
  <2> QED BY <2>1, <2>2, <2>3, <2>4, <2>5, <2>6, <2>7
<1>3. ASSUME NEW w \in Worker, NEW t \in 1 .. MaxTickets, NEW p \in Provider, ConsumeTicket(w, t, p) PROVE Binding'
  <2> UNCHANGED <<now, pending, stored, code, minted, started>> /\ t \in DOMAIN tickets
    BY <1>3 DEF ConsumeTicket, Claimable
  <2>1. CASE ~TicketMatches(t, p)
    <3>1. UNCHANGED vars
      BY <1>3, <2>1 DEF ConsumeTicket, vars
    <3> QED BY <3>1 DEF vars
  <2>2. CASE TicketMatches(t, p)
    <3>0. /\ pc[w] = "idle"
          /\ tickets' = [tickets EXCEPT ![t].used = now]
          /\ taken' = [taken EXCEPT ![w] = [ticket |-> t, user |-> tickets[t].user, provider |-> p]]
          /\ pc' = [pc EXCEPT ![w] = "start"]
          /\ tickets[t].provider = p
      BY <1>3, <2>2 DEF ConsumeTicket, TicketMatches
    <3>1. Shape'
      BY <3>0
    <3>2. TicketsAreMinted'
      <4>1. ASSUME NEW x \in DOMAIN tickets
            PROVE  /\ tickets'[x] \in TicketRow
                   /\ tickets'[x].user = minted[x].user
                   /\ tickets'[x].provider = minted[x].provider
        <5>1. /\ tickets[x] \in TicketRow
              /\ tickets[x].user = minted[x].user /\ tickets[x].provider = minted[x].provider
          OBVIOUS
        <5>2. CASE x = t
          <6>1. tickets'[x] = [tickets[x] EXCEPT !.used = now]
            BY <3>0, <5>2
          <6> QED BY <5>1, <6>1, UsedTicket
        <5>3. CASE x # t
          BY <3>0, <5>1, <5>3
        <5> QED BY <5>2, <5>3
      <4>2. DOMAIN tickets' = DOMAIN tickets
        BY <3>0
      <4> QED BY <4>1, <4>2
    <3>3. OriginsAreMinted'
      BY <3>0
    <3>4. StartsAreMinted'
      BY <3>0
    <3>5. RowsAreStashes'
      BY <3>0, ClientsDiffer
    <3>6. CallbacksAreFlows'
      BY <3>0
    <3>7. StoredAreFlows'
      BY <3>0
    <3> QED BY <3>1, <3>2, <3>3, <3>4, <3>5, <3>6, <3>7
  <2> QED BY <2>1, <2>2
<1>4. ASSUME NEW w \in Worker, StartFails(w) PROVE Binding'
  <2>1. Shape'
    BY <1>4 DEF StartFails, Return
  <2>2. TicketsAreMinted'
    BY <1>4 DEF StartFails, Return
  <2>3. OriginsAreMinted'
    BY <1>4 DEF StartFails, Return
  <2>4. StartsAreMinted'
    BY <1>4 DEF StartFails, Return
  <2>5. RowsAreStashes'
    BY <1>4, ClientsDiffer DEF StartFails, Return
  <2>6. CallbacksAreFlows'
    BY <1>4 DEF StartFails, Return
  <2>7. StoredAreFlows'
    BY <1>4 DEF StartFails, Return
  <2> QED BY <2>1, <2>2, <2>3, <2>4, <2>5, <2>6, <2>7
<1>5. ASSUME NEW w \in Worker, Stash(w) PROVE Binding'
  <2>1. Shape'
    BY <1>5 DEF Stash, Return, Put
  <2>2. TicketsAreMinted'
    BY <1>5 DEF Stash, Return, Put
  <2>3. OriginsAreMinted'
    BY <1>5 DEF Stash, Return, Put
  <2>4. StartsAreMinted'
    BY <1>5 DEF Stash, Return, Put
  <2>5. RowsAreStashes'
    BY <1>5, ClientsDiffer DEF Stash, Return, Put
  <2>6. CallbacksAreFlows'
    BY <1>5 DEF Stash, Return, Put
  <2>7. StoredAreFlows'
    BY <1>5 DEF Stash, Return, Put
  <2> QED BY <2>1, <2>2, <2>3, <2>4, <2>5, <2>6, <2>7
<1>6. ASSUME NEW w \in Worker, DeleteStash(w) PROVE Binding'
  <2>1. Shape'
    BY <1>6 DEF DeleteStash, Remove
  <2>2. TicketsAreMinted'
    BY <1>6 DEF DeleteStash, Remove
  <2>3. OriginsAreMinted'
    BY <1>6 DEF DeleteStash, Remove
  <2>4. StartsAreMinted'
    BY <1>6 DEF DeleteStash, Remove
  <2>5. RowsAreStashes'
    BY <1>6, ClientsDiffer DEF DeleteStash, Remove
  <2>6. CallbacksAreFlows'
    BY <1>6 DEF DeleteStash, Remove
  <2>7. StoredAreFlows'
    BY <1>6 DEF DeleteStash, Remove
  <2> QED BY <2>1, <2>2, <2>3, <2>4, <2>5, <2>6, <2>7
<1>7. ASSUME NEW w \in Worker, ExchangeCode(w) PROVE Binding'
  <2>1. Shape'
    BY <1>7 DEF ExchangeCode, Exchangeable
  <2>2. TicketsAreMinted'
    BY <1>7 DEF ExchangeCode, Exchangeable
  <2>3. OriginsAreMinted'
    BY <1>7 DEF ExchangeCode, Exchangeable
  <2>4. StartsAreMinted'
    BY <1>7 DEF ExchangeCode, Exchangeable
  <2>5. RowsAreStashes'
    BY <1>7, ClientsDiffer DEF ExchangeCode, Exchangeable
  <2>6. CallbacksAreFlows'
    BY <1>7 DEF ExchangeCode, Exchangeable
  <2>7. StoredAreFlows'
    BY <1>7 DEF ExchangeCode, Exchangeable
  <2> QED BY <2>1, <2>2, <2>3, <2>4, <2>5, <2>6, <2>7
<1>8. ASSUME NEW w \in Worker, ExchangeFails(w) PROVE Binding'
  <2>1. Shape'
    BY <1>8 DEF ExchangeFails, Return
  <2>2. TicketsAreMinted'
    BY <1>8 DEF ExchangeFails, Return
  <2>3. OriginsAreMinted'
    BY <1>8 DEF ExchangeFails, Return
  <2>4. StartsAreMinted'
    BY <1>8 DEF ExchangeFails, Return
  <2>5. RowsAreStashes'
    BY <1>8, ClientsDiffer DEF ExchangeFails, Return
  <2>6. CallbacksAreFlows'
    BY <1>8 DEF ExchangeFails, Return
  <2>7. StoredAreFlows'
    BY <1>8 DEF ExchangeFails, Return
  <2> QED BY <2>1, <2>2, <2>3, <2>4, <2>5, <2>6, <2>7
<1>9. ASSUME NEW w \in Worker, SaveToken(w) PROVE Binding'
  <2>1. Shape'
    BY <1>9 DEF SaveToken, Return
  <2>2. TicketsAreMinted'
    BY <1>9 DEF SaveToken, Return
  <2>3. OriginsAreMinted'
    BY <1>9 DEF SaveToken, Return
  <2>4. StartsAreMinted'
    BY <1>9 DEF SaveToken, Return
  <2>5. RowsAreStashes'
    BY <1>9, ClientsDiffer DEF SaveToken, Return
  <2>6. CallbacksAreFlows'
    BY <1>9 DEF SaveToken, Return
  <2>7. StoredAreFlows'
    BY SMTT(30), <1>9 DEF SaveToken, Return
  <2> QED BY <2>1, <2>2, <2>3, <2>4, <2>5, <2>6, <2>7
<1>10. ASSUME NEW w \in Worker, Crash(w) PROVE Binding'
  <2>1. Shape'
    BY <1>10 DEF Crash, Return
  <2>2. TicketsAreMinted'
    BY <1>10 DEF Crash, Return
  <2>3. OriginsAreMinted'
    BY <1>10 DEF Crash, Return
  <2>4. StartsAreMinted'
    BY <1>10 DEF Crash, Return
  <2>5. RowsAreStashes'
    BY <1>10, ClientsDiffer DEF Crash, Return
  <2>6. CallbacksAreFlows'
    BY <1>10 DEF Crash, Return
  <2>7. StoredAreFlows'
    BY <1>10 DEF Crash, Return
  <2> QED BY <2>1, <2>2, <2>3, <2>4, <2>5, <2>6, <2>7
<1>11. ASSUME NEW w \in Worker, NEW s \in 1 .. MaxStates, NEW c \in 1 .. MaxStates, NEW p \in Provider, ReadStash(w, s, c, p) PROVE Binding'
  <2>1. Shape'
    BY <1>11 DEF ReadStash, StashMatches, StashUser
  <2>2. TicketsAreMinted'
    BY <1>11 DEF ReadStash, StashMatches, StashUser
  <2>3. OriginsAreMinted'
    BY <1>11 DEF ReadStash, StashMatches, StashUser
  <2>4. StartsAreMinted'
    BY <1>11 DEF ReadStash, StashMatches, StashUser
  <2>5. RowsAreStashes'
    BY <1>11, ClientsDiffer DEF ReadStash, StashMatches, StashUser
  <2>6. CallbacksAreFlows'
    BY <1>11 DEF ReadStash, StashMatches, StashUser
  <2>7. StoredAreFlows'
    BY <1>11 DEF ReadStash, StashMatches, StashUser
  <2> QED BY <2>1, <2>2, <2>3, <2>4, <2>5, <2>6, <2>7
<1>12. ASSUME NEW s \in 1 .. MaxStates, Approve(s) PROVE Binding'
  <2>1. Shape'
    BY <1>12 DEF Approve
  <2>2. TicketsAreMinted'
    BY <1>12 DEF Approve
  <2>3. OriginsAreMinted'
    BY <1>12 DEF Approve
  <2>4. StartsAreMinted'
    BY <1>12 DEF Approve
  <2>5. RowsAreStashes'
    BY <1>12, ClientsDiffer DEF Approve
  <2>6. CallbacksAreFlows'
    BY <1>12 DEF Approve
  <2>7. StoredAreFlows'
    BY <1>12 DEF Approve
  <2> QED BY <2>1, <2>2, <2>3, <2>4, <2>5, <2>6, <2>7
<1>13. ASSUME NEW s \in 1 .. MaxStates, ConsumePendingAuth(s) PROVE Binding'
  <2>1. Shape'
    BY <1>13 DEF ConsumePendingAuth, Remove, Decrypts
  <2>2. TicketsAreMinted'
    BY <1>13 DEF ConsumePendingAuth, Remove, Decrypts
  <2>3. OriginsAreMinted'
    BY <1>13 DEF ConsumePendingAuth, Remove, Decrypts
  <2>4. StartsAreMinted'
    BY <1>13 DEF ConsumePendingAuth, Remove, Decrypts
  <2>5. RowsAreStashes'
    BY <1>13, ClientsDiffer DEF ConsumePendingAuth, Remove, Decrypts
  <2>6. CallbacksAreFlows'
    BY <1>13 DEF ConsumePendingAuth, Remove, Decrypts
  <2>7. StoredAreFlows'
    BY <1>13 DEF ConsumePendingAuth, Remove, Decrypts
  <2> QED BY <2>1, <2>2, <2>3, <2>4, <2>5, <2>6, <2>7
<1>14. CASE StorePendingAuth
  <2>1. Shape'
    BY <1>14 DEF StorePendingAuth, Put, Remove, Expired
  <2>2. TicketsAreMinted'
    BY <1>14 DEF StorePendingAuth, Put, Remove, Expired
  <2>3. OriginsAreMinted'
    BY <1>14 DEF StorePendingAuth, Put, Remove, Expired
  <2>4. StartsAreMinted'
    BY <1>14 DEF StorePendingAuth, Put, Remove, Expired
  <2>5. RowsAreStashes'
    BY <1>14, ClientsDiffer DEF StorePendingAuth, Put, Remove, Expired
  <2>6. CallbacksAreFlows'
    BY <1>14 DEF StorePendingAuth, Put, Remove, Expired
  <2>7. StoredAreFlows'
    BY <1>14 DEF StorePendingAuth, Put, Remove, Expired
  <2> QED BY <2>1, <2>2, <2>3, <2>4, <2>5, <2>6, <2>7
<1>15. CASE PruneOAuth
  <2>1. Shape'
    BY <1>15 DEF PruneOAuth, Remove
  <2>2. TicketsAreMinted'
    BY <1>15 DEF PruneOAuth, Remove
  <2>3. OriginsAreMinted'
    BY <1>15 DEF PruneOAuth, Remove
  <2>4. StartsAreMinted'
    BY <1>15 DEF PruneOAuth, Remove
  <2>5. RowsAreStashes'
    BY <1>15, ClientsDiffer DEF PruneOAuth, Remove
  <2>6. CallbacksAreFlows'
    BY <1>15 DEF PruneOAuth, Remove
  <2>7. StoredAreFlows'
    BY <1>15 DEF PruneOAuth, Remove
  <2> QED BY <2>1, <2>2, <2>3, <2>4, <2>5, <2>6, <2>7
<1>16. CASE Tick
  BY <1>16 DEF Tick
<1>17. CASE UNCHANGED vars
  BY <1>17 DEF vars
<1> QED BY <1>1, <1>2, <1>3, <1>4, <1>5, <1>6, <1>7, <1>8, <1>9, <1>10, <1>11, <1>12, <1>13, <1>14, <1>15, <1>16, <1>17 DEF Next

(* No step lets a ticket or a pending row be claimed twice.                *)
LEMMA ClaimingStep == IInv /\ [Next]_vars => Claiming'
<1> SUFFICES ASSUME Binding, Claiming, [Next]_vars PROVE Claiming'
  BY DEF IInv
<1> USE DEF Binding, Shape, Claiming, StartedAreClaimed, OneStartPerTicket, OneFlowPerTicket
<1>1. ASSUME NEW u \in User, NEW p \in Provider, MintTicket(u, p) PROVE Claiming'
  <2>1. StartedAreClaimed'
    BY <1>1 DEF MintTicket, Put, Remove, Expired, Claimable, OriginsAreMinted, StartsAreMinted
  <2>2. OneStartPerTicket'
    BY <1>1 DEF MintTicket, Put, Remove, Expired, Claimable, OriginsAreMinted, StartsAreMinted
  <2>3. OneFlowPerTicket'
    BY <1>1 DEF MintTicket, Put, Remove, Expired, Claimable, OriginsAreMinted, StartsAreMinted
  <2> QED BY <2>1, <2>2, <2>3
<1>2. ASSUME NEW u \in User, NEW p \in Provider, Disconnect(u, p) PROVE Claiming'
  <2>1. StartedAreClaimed'
    BY <1>2 DEF Disconnect, Claimable
  <2>2. OneStartPerTicket'
    BY <1>2 DEF Disconnect, Claimable
  <2>3. OneFlowPerTicket'
    BY <1>2 DEF Disconnect, Claimable
  <2> QED BY <2>1, <2>2, <2>3
<1>3. ASSUME NEW w \in Worker, NEW t \in 1 .. MaxTickets, NEW p \in Provider, ConsumeTicket(w, t, p) PROVE Claiming'
  <2>1. CASE ~TicketMatches(t, p)
    <3>1. UNCHANGED vars
      BY <1>3, <2>1 DEF ConsumeTicket, vars
    <3> QED BY <3>1 DEF vars, Claimable
  <2>2. CASE TicketMatches(t, p)
    <3>1. /\ t \in DOMAIN tickets /\ Claimable(t) /\ UNCHANGED started
          /\ tickets' = [tickets EXCEPT ![t].used = now]
          /\ taken' = [taken EXCEPT ![w] = [ticket |-> t, user |-> tickets[t].user, provider |-> p]]
          /\ pc' = [pc EXCEPT ![w] = "start"]
      BY <1>3, <2>2 DEF ConsumeTicket, Claimable
    <3>2. tickets[t] \in TicketRow
      BY <3>1 DEF TicketsAreMinted
    <3>3. tickets'[t].used = now
      BY <3>1, <3>2
    <3>4. \A x : x = t \/ ~Claimable(x) => ~(x \in DOMAIN tickets' /\ tickets'[x].used = None)
      <4>1. now # None
        BY ConnectAssumption
      <4> QED BY <3>1, <3>3, <4>1 DEF Claimable
    <3>5. StartedAreClaimed'
      <4>1. ASSUME NEW s \in 1 .. Len(started), IsConnect(s)
            PROVE  ~Claimable(started[s].ticket)'
        <5>1. ~Claimable(started[s].ticket)
          BY <4>1
        <5> QED BY <3>1, <3>4, <5>1 DEF Claimable
      <4>2. \A v \in Starting' : ~Claimable(taken[v].ticket)'
        <5> SUFFICES ASSUME NEW v \in Starting' PROVE ~Claimable(taken[v].ticket)'
          OBVIOUS
        <5>1. CASE v = w
          <6>1. taken'[v].ticket = t
            BY <3>1, <5>1
          <6> QED BY <3>4, <6>1 DEF Claimable
        <5>2. CASE v # w
          <6>1. v \in Starting /\ taken'[v] = taken[v]
            BY <3>1, <5>2
          <6>2. ~Claimable(taken[v].ticket)
            BY <6>1
          <6> QED BY <3>4, <6>1, <6>2 DEF Claimable
        <5> QED BY <5>1, <5>2
      <4> QED BY <3>1, <4>1, <4>2
    <3>6. OneStartPerTicket'
      <4> SUFFICES ASSUME NEW v \in Starting'
                   PROVE  /\ \A s \in 1 .. Len(started) :
                                IsConnect(s) => started[s].ticket # taken'[v].ticket
                          /\ \A x \in Starting' : taken'[x].ticket = taken'[v].ticket => x = v
        BY <3>1
      <4>1. CASE v = w
        BY <3>1, <4>1
      <4>2. CASE v # w
        BY <3>1, <4>2
      <4> QED BY <4>1, <4>2
    <3>7. OneFlowPerTicket'
      BY <3>1
    <3> QED BY <3>5, <3>6, <3>7
  <2> QED BY <2>1, <2>2
<1>4. ASSUME NEW w \in Worker, StartFails(w) PROVE Claiming'
  <2>1. StartedAreClaimed'
    BY <1>4 DEF StartFails, Return, Claimable
  <2>2. OneStartPerTicket'
    BY <1>4 DEF StartFails, Return, Claimable
  <2>3. OneFlowPerTicket'
    BY <1>4 DEF StartFails, Return, Claimable
  <2> QED BY <2>1, <2>2, <2>3
<1>5. ASSUME NEW w \in Worker, Stash(w) PROVE Claiming'
  <2>1. StartedAreClaimed'
    BY <1>5 DEF Stash, Return, Put, Claimable
  <2>2. OneStartPerTicket'
    BY <1>5 DEF Stash, Return, Put, Claimable
  <2>3. OneFlowPerTicket'
    BY <1>5 DEF Stash, Return, Put, Claimable
  <2> QED BY <2>1, <2>2, <2>3
<1>6. ASSUME NEW w \in Worker, DeleteStash(w) PROVE Claiming'
  <2>1. StartedAreClaimed'
    BY <1>6 DEF DeleteStash, Claimable
  <2>2. OneStartPerTicket'
    BY <1>6 DEF DeleteStash, Claimable
  <2>3. OneFlowPerTicket'
    BY <1>6 DEF DeleteStash, Claimable
  <2> QED BY <2>1, <2>2, <2>3
<1>7. ASSUME NEW w \in Worker, ExchangeCode(w) PROVE Claiming'
  <2>1. StartedAreClaimed'
    BY <1>7 DEF ExchangeCode, Claimable
  <2>2. OneStartPerTicket'
    BY <1>7 DEF ExchangeCode, Claimable
  <2>3. OneFlowPerTicket'
    BY <1>7 DEF ExchangeCode, Claimable
  <2> QED BY <2>1, <2>2, <2>3
<1>8. ASSUME NEW w \in Worker, ExchangeFails(w) PROVE Claiming'
  <2>1. StartedAreClaimed'
    BY <1>8 DEF ExchangeFails, Return, Claimable
  <2>2. OneStartPerTicket'
    BY <1>8 DEF ExchangeFails, Return, Claimable
  <2>3. OneFlowPerTicket'
    BY <1>8 DEF ExchangeFails, Return, Claimable
  <2> QED BY <2>1, <2>2, <2>3
<1>9. ASSUME NEW w \in Worker, SaveToken(w) PROVE Claiming'
  <2>1. StartedAreClaimed'
    BY <1>9 DEF SaveToken, Return, Claimable
  <2>2. OneStartPerTicket'
    BY <1>9 DEF SaveToken, Return, Claimable
  <2>3. OneFlowPerTicket'
    BY <1>9 DEF SaveToken, Return, Claimable
  <2> QED BY <2>1, <2>2, <2>3
<1>10. ASSUME NEW w \in Worker, Crash(w) PROVE Claiming'
  <2>1. StartedAreClaimed'
    BY <1>10 DEF Crash, Return, Claimable
  <2>2. OneStartPerTicket'
    BY <1>10 DEF Crash, Return, Claimable
  <2>3. OneFlowPerTicket'
    BY <1>10 DEF Crash, Return, Claimable
  <2> QED BY <2>1, <2>2, <2>3
<1>11. ASSUME NEW w \in Worker, NEW s \in 1 .. MaxStates, NEW c \in 1 .. MaxStates, NEW p \in Provider, ReadStash(w, s, c, p) PROVE Claiming'
  <2>1. StartedAreClaimed'
    BY <1>11 DEF ReadStash, Claimable
  <2>2. OneStartPerTicket'
    BY <1>11 DEF ReadStash, Claimable
  <2>3. OneFlowPerTicket'
    BY <1>11 DEF ReadStash, Claimable
  <2> QED BY <2>1, <2>2, <2>3
<1>12. ASSUME NEW s \in 1 .. MaxStates, Approve(s) PROVE Claiming'
  <2>1. StartedAreClaimed'
    BY <1>12 DEF Approve, Claimable
  <2>2. OneStartPerTicket'
    BY <1>12 DEF Approve, Claimable
  <2>3. OneFlowPerTicket'
    BY <1>12 DEF Approve, Claimable
  <2> QED BY <2>1, <2>2, <2>3
<1>13. ASSUME NEW s \in 1 .. MaxStates, ConsumePendingAuth(s) PROVE Claiming'
  <2>1. StartedAreClaimed'
    BY <1>13 DEF ConsumePendingAuth, Claimable
  <2>2. OneStartPerTicket'
    BY <1>13 DEF ConsumePendingAuth, Claimable
  <2>3. OneFlowPerTicket'
    BY <1>13 DEF ConsumePendingAuth, Claimable
  <2> QED BY <2>1, <2>2, <2>3
<1>14. CASE StorePendingAuth
  <2>1. StartedAreClaimed'
    BY <1>14 DEF StorePendingAuth, Claimable
  <2>2. OneStartPerTicket'
    BY <1>14 DEF StorePendingAuth, Claimable
  <2>3. OneFlowPerTicket'
    BY <1>14 DEF StorePendingAuth, Claimable
  <2> QED BY <2>1, <2>2, <2>3
<1>15. CASE PruneOAuth
  <2>1. StartedAreClaimed'
    BY <1>15 DEF PruneOAuth, Remove, Claimable
  <2>2. OneStartPerTicket'
    BY <1>15 DEF PruneOAuth, Remove, Claimable
  <2>3. OneFlowPerTicket'
    BY <1>15 DEF PruneOAuth, Remove, Claimable
  <2> QED BY <2>1, <2>2, <2>3
<1>16. CASE Tick
  <2>1. StartedAreClaimed'
    BY <1>16 DEF Tick, Claimable
  <2>2. OneStartPerTicket'
    BY <1>16 DEF Tick, Claimable
  <2>3. OneFlowPerTicket'
    BY <1>16 DEF Tick, Claimable
  <2> QED BY <2>1, <2>2, <2>3
<1>17. CASE UNCHANGED vars
  BY <1>17 DEF vars, Claimable
<1> QED BY <1>1, <1>2, <1>3, <1>4, <1>5, <1>6, <1>7, <1>8, <1>9, <1>10, <1>11, <1>12, <1>13, <1>14, <1>15, <1>16, <1>17 DEF Next

(* The inductive invariant holds in every reachable state: what the        *)
(* connect routes claim once and bind to a user stays claimed and bound.   *)
THEOREM Invariance == Spec => []IInv
<1>1. Init => IInv
  BY DEF Init, IInv, Binding, Shape, TicketsAreMinted, OriginsAreMinted, StartsAreMinted,
         RowsAreStashes, CallbacksAreFlows, StoredAreFlows, Claiming, StartedAreClaimed,
         OneStartPerTicket, OneFlowPerTicket
<1>2. IInv /\ [Next]_vars => IInv'
  BY BindingStep, ClaimingStep DEF IInv
<1> QED BY <1>1, <1>2, PTL DEF Spec

(* A stored credential is of the user and the provider its ticket was      *)
(* minted for, from that flow's own approval, whatever handlers interleave *)
(* and whichever states and codes they are sent.                           *)
THEOREM LandsWithItsUser == Spec => []CredentialLandsWithItsUser
<1>1. IInv => CredentialLandsWithItsUser
  <2> SUFFICES ASSUME IInv, NEW u \in User, NEW p \in Provider, stored[u][p] # None
               PROVE  /\ IsConnect(stored[u][p])
                      /\ minted[started[stored[u][p]].ticket] = [user |-> u, provider |-> p]
                      /\ code[stored[u][p]] = "spent"
    BY DEF CredentialLandsWithItsUser
  <2> DEFINE s == stored[u][p]
  <2>1. /\ s \in 1 .. Len(started) /\ IsConnect(s) /\ code[s] = "spent"
        /\ started[s].user = u /\ started[s].provider = p
    BY DEF IInv, Binding, StoredAreFlows
  <2>2. /\ started[s].ticket \in 1 .. Len(minted)
        /\ minted[started[s].ticket].user = u /\ minted[started[s].ticket].provider = p
    BY <2>1 DEF IInv, Binding, OriginsAreMinted
  <2>3. minted[started[s].ticket] \in Wish
    <3>1. minted \in Seq(Wish)
      BY DEF IInv, Binding, Shape
    <3> QED BY <2>2, <3>1, ElementOfSeq
  <2> QED BY <2>1, <2>2, <2>3
<1> QED BY <1>1, Invariance, PTL

(* A ticket starts one flow, however many handlers its link reaches.       *)
THEOREM OneFlow == Spec => []OneFlowPerTicket
BY Invariance, PTL DEF IInv, Claiming

(* A connect flow's row does not look like a sign-in's, so the sign-in's   *)
(* callback cannot use it up; and a row a sign-in's callback has got does  *)
(* not come back.                                                          *)
KeptApart ==
    /\ \A s \in DOMAIN pending :
          /\ pending[s].expires \in Nat
          /\ IsConnect(s) => pending[s].client # signIn
          /\ s \notin signedIn
    /\ signedIn \subseteq 1 .. Len(started)

(* No step makes a connect flow's row look like a sign-in's, or stores a   *)
(* sign-in again.                                                          *)
LEMMA KeptApartStep == Binding /\ KeptApart /\ [Next]_vars => KeptApart'
<1> SUFFICES ASSUME Binding, KeptApart, [Next]_vars PROVE KeptApart'
  OBVIOUS
<1> USE DEF Binding, Shape, KeptApart
<1>1. ASSUME NEW S, pending' = Remove(pending, S), started' = started,
             signedIn' \in {signedIn, signedIn \cup (S \cap DOMAIN pending)}
      PROVE  KeptApart'
  BY <1>1 DEF Remove
<1>2. ASSUME NEW w \in Worker, Stash(w) PROVE KeptApart'
  <2>1. /\ \A s \in DOMAIN pending : started'[s] = started[s]
        /\ Len(started') = Len(started) + 1
        /\ signedIn' = signedIn
        /\ pending' = Put(pending, Len(started) + 1,
                          [client |-> connect(taken[w].provider), user |-> taken[w].user,
                           expires |-> now + StateTTL])
    BY <1>2 DEF Stash
  <2>2. connect(taken[w].provider) # signIn
    <3>1. taken[w] \in Origin
      BY <1>2 DEF Stash, StartsAreMinted
    <3> QED BY <3>1, ClientsDiffer
  <2>3. Len(started) + 1 \notin signedIn /\ signedIn \subseteq 1 .. Len(started')
    BY <2>1
  <2>4. ASSUME NEW s \in DOMAIN pending'
        PROVE  /\ pending'[s].expires \in Nat
               /\ IsConnect(s)' => pending'[s].client # signIn
               /\ s \notin signedIn
    <3>1. CASE s = Len(started) + 1
      BY <2>1, <2>2, <2>3, <3>1 DEF Put
    <3>2. CASE s \in DOMAIN pending
      BY <2>1, <3>2 DEF Put
    <3> QED BY <2>1, <2>4, <3>1, <3>2 DEF Put
  <2> QED BY <2>1, <2>3, <2>4
<1>3. CASE StorePendingAuth
  BY <1>3 DEF StorePendingAuth, Put, Remove
<1>4. ASSUME NEW w \in Worker, DeleteStash(w) PROVE KeptApart'
  BY <1>1, <1>4 DEF DeleteStash
<1>5. ASSUME NEW s, ConsumePendingAuth(s) PROVE KeptApart'
  <2>1. /\ s \in DOMAIN pending
        /\ pending' = Remove(pending, {s}) /\ started' = started
        /\ signedIn' = signedIn \cup {s}
    BY <1>5 DEF ConsumePendingAuth
  <2>2. signedIn' = signedIn \cup ({s} \cap DOMAIN pending)
    BY <2>1
  <2> QED BY <1>1, <2>1, <2>2
<1>6. CASE PruneOAuth
  BY <1>1, <1>6 DEF PruneOAuth
<1>7. ASSUME UNCHANGED <<pending, started, signedIn>> PROVE KeptApart'
  BY <1>7
<1> QED
  BY <1>2, <1>3, <1>4, <1>5, <1>6, <1>7
     DEF Next, vars, MintTicket, Disconnect, ConsumeTicket, StartFails, ExchangeCode,
         ExchangeFails, SaveToken, Crash, ReadStash, Approve, Tick

(* So the two kinds of row are told apart in every reachable state.        *)
LEMMA KeptApartAlways == Spec => [](IInv /\ KeptApart)
<1>1. Init => KeptApart
  BY DEF Init, KeptApart
<1>2. IInv /\ KeptApart /\ [Next]_vars => KeptApart'
  BY KeptApartStep DEF IInv
<1> QED BY <1>1, <1>2, Invariance, PTL DEF Spec

(* A row that has not expired is in no sweep of the expired ones.          *)
LEMMA NotExpired ==
    ASSUME NEW f, NEW x \in DOMAIN f, f[x].expires \in Nat, now \in Nat,
           f[x].expires >= now, NEW age \in Nat
    PROVE  x \notin Expired(f, age)
BY DEF Expired

(* A ticket is spent by the start of its own flow only, and a row of the   *)
(* shared table by its own callback only.                                  *)
THEOREM OwnersSpend == Spec => OnlyOwnersSpend
<1>1. ASSUME IInv, KeptApart, Next, NEW t \in DOMAIN tickets,
             tickets[t].expires >= now, Claimable(t), ~Claimable(t)'
      PROVE  \E w \in Worker : /\ pc[w] = "idle" /\ pc'[w] = "start"
                               /\ taken'[w].ticket = t
                               /\ taken'[w].provider = tickets[t].provider
  <2>1. /\ tickets[t].expires \in Nat /\ now \in Nat
        /\ pc \in [Worker -> {"idle", "start", "matched", "exchange", "save"}]
        /\ DOMAIN taken = Worker
        /\ DOMAIN tickets \subseteq 1 .. Len(minted)
    BY <1>1 DEF IInv, Binding, Shape, TicketsAreMinted
  <2>2. t \notin Expired(tickets, TenMinutes)
    BY <1>1, <2>1, NotExpired
  <2>3. ASSUME NEW u \in User, NEW p \in Provider, MintTicket(u, p) PROVE FALSE
    <3>1. t # Len(minted) + 1
      BY <2>1
    <3>2. t \in DOMAIN tickets' /\ tickets'[t] = tickets[t]
      BY <1>1, <2>2, <2>3, <3>1 DEF MintTicket, Put, Remove
    <3> QED BY <1>1, <3>2 DEF Claimable
  <2>4. CASE PruneOAuth
    BY <1>1, <2>2, <2>4 DEF PruneOAuth, Remove, Claimable
  <2>5. ASSUME NEW w \in Worker, NEW x \in 1 .. MaxTickets, NEW p \in Provider,
               ConsumeTicket(w, x, p)
        PROVE  /\ pc[w] = "idle" /\ pc'[w] = "start"
               /\ taken'[w].ticket = t /\ taken'[w].provider = tickets[t].provider
    <3>1. x = t /\ TicketMatches(x, p)
      BY <1>1, <2>5 DEF ConsumeTicket, Claimable
    <3> QED BY <2>1, <2>5, <3>1 DEF ConsumeTicket, TicketMatches
  <2>6. tickets' # tickets
    BY <1>1 DEF Claimable
  <2> QED
    BY <1>1, <2>3, <2>4, <2>5, <2>6
       DEF Next, Disconnect, StartFails, Stash, DeleteStash, ExchangeCode, ExchangeFails,
           SaveToken, Crash, ReadStash, Approve, ConsumePendingAuth, StorePendingAuth, Tick
<1>2. ASSUME IInv, KeptApart, Next, NEW s \in DOMAIN pending,
             pending[s].expires >= now, s \notin DOMAIN pending'
      PROVE  IF IsConnect(s)
             THEN \E w \in Worker : /\ pc[w] = "matched" /\ pc'[w] = "exchange"
                                    /\ taken[w].state = s
                                    /\ taken[w].provider = started[s].provider
             ELSE s \in signedIn' \ signedIn
  <2>1. /\ pending[s].expires \in Nat /\ now \in Nat
        /\ pc \in [Worker -> {"idle", "start", "matched", "exchange", "save"}]
    BY <1>2 DEF IInv, Binding, Shape, KeptApart
  <2>2. \A age \in Nat : s \notin Expired(pending, age)
    BY <1>2, <2>1, NotExpired
  <2>3. ~StorePendingAuth /\ ~PruneOAuth /\ \A w \in Worker : ~Stash(w)
    BY <1>2, <2>2 DEF StorePendingAuth, PruneOAuth, Stash, Put, Remove
  <2>4. ASSUME NEW w \in Worker, DeleteStash(w)
        PROVE  /\ IsConnect(s) /\ pc[w] = "matched" /\ pc'[w] = "exchange"
               /\ taken[w].state = s /\ taken[w].provider = started[s].provider
    <3>1. taken[w].state = s
      BY <1>2, <2>4 DEF DeleteStash, Remove
    <3>2. pc[w] = "matched" /\ pc'[w] = "exchange"
      BY <2>1, <2>4 DEF DeleteStash
    <3> QED BY <1>2, <3>1, <3>2 DEF IInv, Binding, CallbacksAreFlows
  <2>5. ASSUME NEW x \in 1 .. MaxStates, ConsumePendingAuth(x)
        PROVE  s \in signedIn' \ signedIn /\ ~IsConnect(s)
    <3>1. x = s /\ Decrypts(s) /\ signedIn' = signedIn \cup {s}
      BY <1>2, <2>5 DEF ConsumePendingAuth, Remove
    <3> QED BY <1>2, <3>1 DEF Decrypts, KeptApart
  <2>6. pending' # pending
    BY <1>2
  <2> HIDE DEF IsConnect
  <2> QED
    BY <1>2, <2>3, <2>4, <2>5, <2>6
       DEF Next, MintTicket, Disconnect, ConsumeTicket, StartFails, ExchangeCode,
           ExchangeFails, SaveToken, Crash, ReadStash, Approve, Tick
<1>3. IInv /\ KeptApart /\ [Next]_vars =>
        [/\ \A t \in DOMAIN tickets :
              tickets[t].expires >= now /\ Claimable(t) /\ ~Claimable(t)'
                 => \E w \in Worker : /\ pc[w] = "idle" /\ pc'[w] = "start"
                                      /\ taken'[w].ticket = t
                                      /\ taken'[w].provider = tickets[t].provider
         /\ \A s \in DOMAIN pending :
              pending[s].expires >= now /\ s \notin DOMAIN pending' =>
                 IF IsConnect(s)
                 THEN \E w \in Worker : /\ pc[w] = "matched" /\ pc'[w] = "exchange"
                                        /\ taken[w].state = s
                                        /\ taken[w].provider = started[s].provider
                 ELSE s \in signedIn' \ signedIn]_vars
  <2> HIDE DEF IsConnect
  <2> QED BY <1>1, <1>2
<1> QED BY <1>3, KeptApartAlways, PTL DEF Spec, OnlyOwnersSpend

(* What the type invariant says beyond Shape and TicketsAreMinted.         *)
RowsAndHandsTyped ==
    /\ now <= MaxNow
    /\ \A s \in DOMAIN pending :
          /\ pending[s].client \in {connect(p) : p \in Provider} \cup {signIn}
          /\ pending[s].user \in User \cup {None}
    /\ \A w \in Worker : pc[w] = "idle" <=> taken[w] = None

(* A connect flow's row has a user.                                        *)
LEMMA StashHasUser ==
    ASSUME Binding, NEW s \in DOMAIN pending, NEW p \in Provider,
           pending[s].client = connect(p)
    PROVE  pending[s].user \in User
<1>1. IsConnect(s) /\ started[s].user = pending[s].user
  BY DEF Binding, RowsAreStashes
<1>2. started[s] \in Origin \cup {SignInOrigin}
  BY ElementOfSeq DEF Binding, Shape
<1> QED BY <1>1, <1>2

(* No step stores a row of another kind, or returns with something in hand. *)
LEMMA RowsAndHandsStep ==
    Binding /\ RowsAndHandsTyped /\ [Next]_vars => RowsAndHandsTyped'
<1> SUFFICES ASSUME Binding, RowsAndHandsTyped, [Next]_vars PROVE RowsAndHandsTyped'
  OBVIOUS
<1> USE DEF RowsAndHandsTyped
<1>0. /\ now \in Nat /\ DOMAIN taken = Worker
      /\ pc \in [Worker -> {"idle", "start", "matched", "exchange", "save"}]
  BY DEF Binding, Shape
<1>1. now' <= MaxNow
  <2>1. CASE Tick
    BY <1>0, <2>1 DEF Tick
  <2>2. CASE ~Tick
    <3>1. now' = now
      BY <2>2 DEF Next, MintTicket, Disconnect, ConsumeTicket, StartFails, Stash, DeleteStash,
                  ExchangeCode, ExchangeFails, SaveToken, Crash, ReadStash, Approve,
                  ConsumePendingAuth, StorePendingAuth, PruneOAuth, vars
    <3> QED BY <3>1
  <2> QED BY <2>1, <2>2
<1>2. \A s \in DOMAIN pending' :
          /\ pending'[s].client \in {connect(p) : p \in Provider} \cup {signIn}
          /\ pending'[s].user \in User \cup {None}
  <2>1. CASE \E S : pending' = Remove(pending, S)
    BY <2>1 DEF Remove
  <2>2. ASSUME NEW w \in Worker, Stash(w) PROVE <1>2!:
    <3>1. taken[w] \in Origin
      BY <2>2 DEF Stash, Binding, StartsAreMinted
    <3> QED BY <2>2, <3>1 DEF Stash, Put
  <2>3. CASE StorePendingAuth
    BY <2>3 DEF StorePendingAuth, Put, Remove
  <2>4. CASE pending' = pending
    BY <2>4
  <2> QED
    BY <2>1, <2>2, <2>3, <2>4
       DEF Next, MintTicket, Disconnect, ConsumeTicket, StartFails, DeleteStash,
           ExchangeCode, ExchangeFails, SaveToken, Crash, ReadStash, Approve,
           ConsumePendingAuth, PruneOAuth, Tick, vars
<1>3. \A w \in Worker : pc'[w] = "idle" <=> taken'[w] = None
  <2>1. ASSUME NEW w \in Worker, Return(w) PROVE <1>3!:
    BY <1>0, <2>1 DEF Return
  <2>2. ASSUME NEW w \in Worker, NEW t \in 1 .. MaxTickets, NEW p \in Provider,
               ConsumeTicket(w, t, p)
        PROVE  <1>3!:
    <3>1. CASE TicketMatches(t, p)
      <4>1. /\ taken' = [taken EXCEPT ![w] = [ticket |-> t, user |-> tickets[t].user,
                                              provider |-> p]]
            /\ pc' = [pc EXCEPT ![w] = "start"]
        BY <2>2, <3>1 DEF ConsumeTicket
      <4>2. tickets[t].user \in User
        BY <2>2 DEF ConsumeTicket, Claimable, Binding, TicketsAreMinted
      <4>3. [ticket |-> t, user |-> tickets[t].user, provider |-> p] # None
        BY <4>2, NullIsNothingHeld
      <4> QED BY <1>0, <4>1, <4>3
    <3>2. CASE ~TicketMatches(t, p)
      BY <2>2, <3>2 DEF ConsumeTicket
    <3> QED BY <3>1, <3>2
  <2>3. ASSUME NEW w \in Worker, NEW s \in 1 .. MaxStates, NEW c \in 1 .. MaxStates,
               NEW p \in Provider, ReadStash(w, s, c, p)
        PROVE  <1>3!:
    <3>1. pending[s].user \in User
      BY <2>3, StashHasUser DEF ReadStash, StashMatches
    <3>2. [state |-> s, code |-> c, provider |-> p, user |-> pending[s].user] # None
      BY <3>1, NullIsNothingHeld
    <3> QED BY <1>0, <2>3, <3>2 DEF ReadStash, StashUser
  <2>4. ASSUME NEW w \in Worker, NEW next \in {"exchange", "save"}, pc[w] # "idle",
               pc' = [pc EXCEPT ![w] = next], taken' = taken
        PROVE  <1>3!:
    BY <1>0, <2>4
  <2>5. CASE UNCHANGED <<pc, taken>>
    BY <2>5
  <2>6. ASSUME NEW w \in Worker, DeleteStash(w) \/ ExchangeCode(w) PROVE <1>3!:
    BY <2>4, <2>6 DEF DeleteStash, ExchangeCode
  <2> QED
    BY <2>1, <2>2, <2>3, <2>5, <2>6
       DEF Next, MintTicket, Disconnect, StartFails, Stash, ExchangeFails, SaveToken, Crash,
           Approve, ConsumePendingAuth, StorePendingAuth, PruneOAuth, Tick, vars
<1> QED BY <1>1, <1>2, <1>3

(* Every variable has its type: a handler holds something exactly while    *)
(* it works, and a row of the shared table is a sign-in's or names the     *)
(* provider of its flow.                                                   *)
THEOREM TypeCorrect == Spec => []TypeOK
<1>1. Init => RowsAndHandsTyped
  BY DEF Init, RowsAndHandsTyped
<1>2. IInv /\ RowsAndHandsTyped /\ [Next]_vars => RowsAndHandsTyped'
  BY RowsAndHandsStep DEF IInv
<1>3. IInv /\ KeptApart /\ RowsAndHandsTyped => TypeOK
  BY DEF IInv, Binding, Shape, TicketsAreMinted, KeptApart, RowsAndHandsTyped, TypeOK
<1> QED BY <1>1, <1>2, <1>3, KeptApartAlways, PTL DEF Spec
==============================================================================
