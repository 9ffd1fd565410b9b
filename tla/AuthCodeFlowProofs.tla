------------------------- MODULE AuthCodeFlowProofs -------------------------
(***************************************************************************)
(* Proofs about AuthCodeFlow for any number of handlers, clients, users,    *)
(* sign-ins and codes, and any lifetimes.                                   *)
(*                                                                          *)
(* A sign-in is at one place at a time: its request is pending, or a        *)
(* handler exchanges it, or it has a code; its code is claimable, or a      *)
(* handler grants it, or it has a family.  What is carried from place to    *)
(* place is what the request asked for.                                     *)
(*                                                                          *)
(* And about SigningKeys, the last section: any number of replicas, keys    *)
(* and tokens, and any window that covers both lifetimes.                   *)
(***************************************************************************)
EXTENDS AuthCodeFlow, SigningKeys, TLAPS

Requests == 1 .. Len(asked)
Issues == 1 .. Len(issued)
Grants == 1 .. Len(families)

Typed ==
  /\ TypeOK
  /\ asked \in Seq([client : Client, uri : Uri, verifier : Verifier])
  /\ issued \in Seq([state : Nat, user : User])
  /\ families \in Seq([code : Nat, by : Verifier, client : Client, user : User])
  /\ DOMAIN taken = Worker

\* The row carries what request s asked for.
IsOf(row, s) ==
  /\ row.client = asked[s].client
  /\ row.uri = asked[s].uri
  /\ row.challenge = S256(asked[s].verifier)

AskedIsAllowed ==
  \A s \in Requests : is_redirect_uri_allowed(asked[s].client, asked[s].uri)

PendingIsAsked == \A s \in DOMAIN pending : s \in Requests /\ IsOf(pending[s], s)

ExchangeIsAsked ==
  \A w \in Worker : pc[w] = "exchange" =>
    taken[w].state \in Requests /\ IsOf(taken[w].row, taken[w].state)

CodesAreIssued ==
  /\ \A k \in Issues : StateOf(k) \in Requests
  /\ \A k \in DOMAIN codes :
       k \in Issues /\ IsOf(codes[k], StateOf(k)) /\ codes[k].user = issued[k].user

\* Code k was asked for with verifier v by client c and is of user u.
Proved(k, v, c, u) ==
  /\ k \in Issues
  /\ v = asked[StateOf(k)].verifier
  /\ c = asked[StateOf(k)].client
  /\ u = issued[k].user

GrantIsProved ==
  \A w \in Worker : pc[w] = "grant" =>
    Proved(taken[w].code, taken[w].by, taken[w].row.client, taken[w].row.user)

FamiliesAreProved ==
  \A i \in Grants :
    Proved(families[i].code, families[i].by, families[i].client, families[i].user)

Binding == /\ AskedIsAllowed /\ PendingIsAsked /\ ExchangeIsAsked
           /\ CodesAreIssued /\ GrantIsProved /\ FamiliesAreProved

StateHasOnePlace ==
  /\ \A k \in Issues : StateOf(k) \notin DOMAIN pending
  /\ \A j, k \in Issues : StateOf(j) = StateOf(k) => j = k
  /\ \A w \in Worker : pc[w] = "exchange" =>
       /\ taken[w].state \notin DOMAIN pending
       /\ \A k \in Issues : StateOf(k) # taken[w].state
       /\ \A v \in Worker : pc[v] = "exchange" /\ taken[v].state = taken[w].state
                              => v = w

CodeHasOnePlace ==
  /\ \A i \in Grants : ~Claimable(families[i].code)
  /\ \A i, j \in Grants : families[i].code = families[j].code => i = j
  /\ \A w \in Worker : pc[w] = "grant" =>
       /\ ~Claimable(taken[w].code)
       /\ \A i \in Grants : families[i].code # taken[w].code
       /\ \A v \in Worker : pc[v] = "grant" /\ taken[v].code = taken[w].code => v = w

FInv == Typed /\ Binding /\ StateHasOnePlace /\ CodeHasOnePlace

-----------------------------------------------------------------------------
(* The operators on tables and histories                                    *)

LEMMA RemoveKeepsRows ==
  ASSUME NEW f, NEW S
  PROVE  /\ DOMAIN Remove(f, S) = DOMAIN f \ S
         /\ \A x \in DOMAIN f \ S : Remove(f, S)[x] = f[x]
PROOF
  BY DEF Remove

\* Appending keeps what is there and ends with the new element.
LEMMA Appended ==
  ASSUME NEW S, NEW s \in Seq(S), NEW e \in S
  PROVE  /\ Append(s, e) \in Seq(S)
         /\ Len(s) \in Nat /\ Len(Append(s, e)) = Len(s) + 1
         /\ Append(s, e)[Len(s) + 1] = e
         /\ \A i \in 1 .. Len(s) : Append(s, e)[i] = s[i]
PROOF
  OBVIOUS

\* Every index of a sequence holds one of its elements.
LEMMA Element ==
  ASSUME NEW S, NEW s \in Seq(S), NEW i \in 1 .. Len(s)
  PROVE  s[i] \in S
PROOF
  OBVIOUS

(* The challenge tells verifiers apart.                                     *)
LEMMA ChallengeIsInjective ==
  ASSUME NEW u, NEW v, S256(u) = S256(v)
  PROVE  u = v
PROOF
  BY DEF S256

-----------------------------------------------------------------------------
(* A request is stored under a state nothing else has.                      *)
LEMMA AuthorizeKeepsInv ==
  ASSUME FInv, NEW c \in Client, NEW uri \in Uri, NEW v \in Verifier,
         Authorize(c, uri, v)
  PROVE  FInv'
PROOF
  <1> DEFINE n == Len(asked) + 1
             row == [client |-> c, uri |-> uri, challenge |-> S256(v),
                     expires |-> now + PendingTTL]
             e == [client |-> c, uri |-> uri, verifier |-> v]
             Recs == [client : Client, uri : Uri, verifier : Verifier]
             gone == Expired(pending, 0)
  <1> USE DEF FInv
  <1>1. /\ is_redirect_uri_allowed(c, uri)
        /\ asked' = Append(asked, e)
        /\ pending' = Put(Remove(pending, gone), n, row)
        /\ UNCHANGED <<now, codes, pc, taken, issued, families>>
    BY DEF Authorize
  <1>2. /\ asked' \in Seq(Recs) /\ Len(asked) \in Nat
        /\ Requests' = Requests \cup {n} /\ n \notin Requests
        /\ asked'[n] = e
        /\ \A s \in Requests : asked'[s] = asked[s]
    <2>1. asked \in Seq(Recs) /\ e \in Recs
      BY DEF Typed
    <2> HIDE DEF Recs, e
    <2>2. /\ asked' \in Seq(Recs) /\ Len(asked) \in Nat /\ Len(asked') = Len(asked) + 1
          /\ asked'[n] = e /\ \A s \in 1 .. Len(asked) : asked'[s] = asked[s]
      BY <1>1, <2>1, Appended
    <2> QED
      BY <2>2 DEF Requests
  <1>3. /\ DOMAIN pending' = (DOMAIN pending \ gone) \cup {n}
        /\ pending'[n] = row
        /\ \A s \in DOMAIN pending' \ {n} :
             s \in DOMAIN pending /\ pending'[s] = pending[s]
    <2> DEFINE left == Remove(pending, gone)
    <2> HIDE DEF row, n, gone
    <2>1. /\ DOMAIN left = DOMAIN pending \ gone
          /\ \A s \in DOMAIN pending \ gone : left[s] = pending[s]
      BY RemoveKeepsRows
    <2> HIDE DEF left
    <2>2. pending' = Put(left, n, row)
      BY <1>1 DEF left
    <2>3. /\ DOMAIN pending' = DOMAIN left \cup {n}
          /\ pending'[n] = row
          /\ \A s \in DOMAIN left \ {n} : pending'[s] = left[s]
      BY <2>2 DEF Put
    <2> QED
      BY <2>1, <2>3
  <1>4. DOMAIN pending \subseteq Requests
    BY DEF Binding, PendingIsAsked
  <1>5. Typed'
    <2>1. row \in [client : Client, uri : Uri, challenge : Challenge, expires : Nat]
      BY FlowAssumption DEF Challenge, Typed, TypeOK
    <2>2. \A s \in DOMAIN pending' :
            pending'[s] \in [client : Client, uri : Uri, challenge : Challenge,
                             expires : Nat]
      <3> HIDE DEF row
      <3> QED
        BY <1>3, <2>1 DEF Typed, TypeOK
    <2>3. DOMAIN pending' \subseteq 1 .. Len(asked')
      BY <1>2, <1>3, <1>4 DEF Requests
    <2>4. \A k \in 1 .. Len(issued) : StateOf(k) \in 1 .. Len(asked')
      BY <1>2 DEF Typed, TypeOK, Requests
    <2> QED
      BY <1>1, <1>2, <2>2, <2>3, <2>4 DEF Typed, TypeOK, StateOf
  <1>6. Binding'
    <2>1. AskedIsAllowed'
      <3> SUFFICES ASSUME NEW s \in Requests'
                   PROVE  is_redirect_uri_allowed(asked'[s].client, asked'[s].uri)
        BY DEF AskedIsAllowed, is_redirect_uri_allowed
      <3>1. CASE s = n
        BY <1>1, <1>2, <3>1
      <3>2. CASE s \in Requests
        BY <1>2, <3>2 DEF Binding, AskedIsAllowed
      <3> QED
        BY <1>2, <3>1, <3>2
    <2>2. PendingIsAsked'
      BY <1>2, <1>3, <1>4 DEF Binding, PendingIsAsked, IsOf
    <2>3. ExchangeIsAsked' /\ CodesAreIssued'
      <3>1. ASSUME NEW x, NEW y \in Requests, IsOf(x, y)
            PROVE  y \in Requests' /\ IsOf(x, y)'
        BY <1>2, <3>1 DEF IsOf
      <3>2. ExchangeIsAsked'
        BY <1>1, <3>1 DEF Binding, ExchangeIsAsked
      <3>3. CodesAreIssued'
        <4>1. Issues' = Issues /\ \A j \in Issues : StateOf(j)' = StateOf(j)
          BY <1>1 DEF Issues, StateOf
        <4>2. /\ \A j \in Issues : StateOf(j) \in Requests
              /\ \A j \in DOMAIN codes :
                   /\ j \in Issues /\ StateOf(j) \in Requests
                   /\ IsOf(codes[j], StateOf(j)) /\ codes[j].user = issued[j].user
          BY DEF Binding, CodesAreIssued
        <4>3. \A j \in DOMAIN codes : IsOf(codes[j], StateOf(j))'
          BY <1>1, <3>1, <4>1, <4>2
        <4> QED
          BY <1>1, <1>2, <4>1, <4>2, <4>3 DEF CodesAreIssued
      <3> QED
        BY <3>2, <3>3
    <2>4. GrantIsProved' /\ FamiliesAreProved'
      <3>1. ASSUME NEW k, NEW by, NEW x, NEW u, Proved(k, by, x, u)
            PROVE  Proved(k, by, x, u)'
        <4>1. k \in Issues /\ k \in Issues' /\ StateOf(k) \in Requests /\ StateOf(k)' = StateOf(k)
          BY <1>1, <3>1 DEF Proved, Binding, CodesAreIssued, StateOf, Issues
        <4>2. asked'[StateOf(k)] = asked[StateOf(k)]
          BY <1>2, <4>1
        <4> QED
          BY <1>1, <3>1, <4>1, <4>2 DEF Proved
      <3>2. GrantIsProved'
        BY <1>1, <3>1 DEF Binding, GrantIsProved
      <3>3. FamiliesAreProved'
        BY <1>1, <3>1 DEF Binding, FamiliesAreProved, Grants
      <3> QED
        BY <3>2, <3>3
    <2> QED
      BY <2>1, <2>2, <2>3, <2>4 DEF Binding
  <1>7. StateHasOnePlace'
    BY <1>1, <1>2, <1>3 DEF StateHasOnePlace, Binding, ExchangeIsAsked, CodesAreIssued,
                            StateOf, Issues
  <1>8. CodeHasOnePlace'
    BY <1>1 DEF CodeHasOnePlace, Claimable, Grants
  <1> QED
    BY <1>5, <1>6, <1>7, <1>8


(* A handler takes the request off the table: it is the only one to have it. *)
LEMMA ConsumePendingKeepsInv ==
  ASSUME FInv, NEW w \in Worker, NEW s \in 1 .. MaxStates, ConsumePending(w, s)
  PROVE  FInv'
PROOF
  <1> DEFINE t == [state |-> s, row |-> pending[s]]
  <1> USE DEF FInv
  <1>1. /\ pc[w] = "idle" /\ s \in DOMAIN pending
        /\ pending' = Remove(pending, {s})
        /\ taken' = [taken EXCEPT ![w] = t]
        /\ pc' = [pc EXCEPT ![w] = "exchange"]
        /\ UNCHANGED <<now, codes, asked, issued, families>>
    BY DEF ConsumePending
  <1>2. /\ DOMAIN taken = Worker /\ pc \in [Worker -> {"idle", "exchange", "grant"}]
        /\ DOMAIN pending \subseteq Requests
    BY DEF Typed, TypeOK, Requests
  <1>3. /\ DOMAIN taken' = Worker /\ pc' \in [Worker -> {"idle", "exchange", "grant"}]
        /\ taken'[w] = t /\ pc'[w] = "exchange"
        /\ \A v \in Worker \ {w} : taken'[v] = taken[v] /\ pc'[v] = pc[v]
    BY <1>1, <1>2
  <1>4. /\ DOMAIN pending' = DOMAIN pending \ {s}
        /\ \A x \in DOMAIN pending' : pending'[x] = pending[x]
    BY <1>1 DEF Remove
  <1>5. Typed'
    BY <1>1, <1>3, <1>4 DEF Typed, TypeOK, StateOf
  <1>6. Binding'
    <2>1. AskedIsAllowed'
      BY <1>1 DEF Binding, AskedIsAllowed, is_redirect_uri_allowed, Requests
    <2>2. PendingIsAsked'
      BY <1>1, <1>4 DEF Binding, PendingIsAsked, IsOf, Requests
    <2>3. ExchangeIsAsked'
      <3>1. t.state \in Requests /\ IsOf(t.row, t.state)
        BY <1>1 DEF Binding, PendingIsAsked, IsOf
      <3> QED
        BY <1>1, <1>3, <3>1 DEF Binding, ExchangeIsAsked, IsOf, Requests
    <2>4. CodesAreIssued'
      BY <1>1 DEF Binding, CodesAreIssued, IsOf, StateOf, Issues, Requests
    <2>5. GrantIsProved' /\ FamiliesAreProved'
      BY <1>1, <1>3 DEF Binding, GrantIsProved, FamiliesAreProved, Proved, StateOf,
                        Issues, Grants
    <2> QED
      BY <2>1, <2>2, <2>3, <2>4, <2>5 DEF Binding
  <1>7. StateHasOnePlace'
    <2>1. \A k \in Issues : StateOf(k) # s /\ StateOf(k) \notin DOMAIN pending'
      BY <1>1, <1>4 DEF StateHasOnePlace
    <2>2. \A v \in Worker \ {w} : pc[v] = "exchange" => taken[v].state # s
      BY <1>1 DEF StateHasOnePlace
    <2>3. t.state = s
      OBVIOUS
    <2> HIDE DEF t
    <2>4. ASSUME NEW v \in Worker, pc'[v] = "exchange"
          PROVE  /\ taken'[v].state \notin DOMAIN pending'
                 /\ \A k \in Issues : StateOf(k) # taken'[v].state
                 /\ \A x \in Worker : pc'[x] = "exchange"
                                         /\ taken'[x].state = taken'[v].state => x = v
      <3>1. CASE v = w
        BY <1>3, <1>4, <2>1, <2>2, <2>3, <3>1
      <3>2. CASE v # w
        BY <1>3, <1>4, <2>2, <2>3, <2>4, <3>2 DEF StateHasOnePlace
      <3> QED
        BY <3>1, <3>2
    <2> QED
      BY <1>1, <2>1, <2>4 DEF StateHasOnePlace, StateOf, Issues
  <1>8. CodeHasOnePlace'
    BY <1>1, <1>3 DEF CodeHasOnePlace, Claimable, Grants
  <1> QED
    BY <1>5, <1>6, <1>7, <1>8

(* A handler that returns, or dies, leaves the rest as it is.               *)
LEMMA ReturningKeepsInv ==
  ASSUME FInv, NEW w \in Worker, Return(w),
         UNCHANGED <<now, pending, codes, asked, issued, families>>
  PROVE  FInv'
PROOF
  <1> USE DEF FInv
  <1>1. /\ DOMAIN taken' = Worker /\ pc' \in [Worker -> {"idle", "exchange", "grant"}]
        /\ taken'[w] = None /\ pc'[w] = "idle"
        /\ \A v \in Worker \ {w} : taken'[v] = taken[v] /\ pc'[v] = pc[v]
    BY DEF Typed, TypeOK, Return
  <1>2. Typed'
    BY <1>1 DEF Typed, TypeOK, StateOf
  <1>3. Binding'
    <2>1. AskedIsAllowed' /\ PendingIsAsked' /\ CodesAreIssued' /\ FamiliesAreProved'
      BY DEF Binding, AskedIsAllowed, is_redirect_uri_allowed, Requests, PendingIsAsked,
             IsOf, CodesAreIssued, StateOf, Issues, FamiliesAreProved, Proved, Grants
    <2>2. ExchangeIsAsked' /\ GrantIsProved'
      BY <1>1 DEF Binding, ExchangeIsAsked, IsOf, Requests, GrantIsProved, Proved,
                  StateOf, Issues
    <2> QED
      BY <2>1, <2>2 DEF Binding
  <1>4. StateHasOnePlace' /\ CodeHasOnePlace'
    BY <1>1 DEF StateHasOnePlace, StateOf, Issues, CodeHasOnePlace, Claimable, Grants
  <1> QED
    BY <1>2, <1>3, <1>4

(* The exchange ends in a code nothing else has; the request is off the     *)
(* table and in no other handler.                                           *)
LEMMA IssueCodeKeepsInv ==
  ASSUME FInv, NEW w \in Worker, NEW u \in User, IssueCode(w, u)
  PROVE  FInv'
PROOF
  <1> DEFINE k == Len(issued) + 1
             s == taken[w].state
             row == [client |-> taken[w].row.client, user |-> u,
                     uri |-> taken[w].row.uri, challenge |-> taken[w].row.challenge,
                     used |-> None, expires |-> now + CodeTTL]
             e == [state |-> s, user |-> u]
             Recs == [state : Nat, user : User]
             gone == Expired(codes, TenMinutes)
  <1> USE DEF FInv
  <1>1. /\ pc[w] = "exchange" /\ Return(w)
        /\ codes' = Put(Remove(codes, gone), k, row)
        /\ issued' = Append(issued, e)
        /\ UNCHANGED <<now, pending, asked, families>>
    BY DEF IssueCode
  <1>2. s \in Requests /\ IsOf(taken[w].row, s)
    BY <1>1 DEF Binding, ExchangeIsAsked
  <1>3. /\ issued' \in Seq(Recs) /\ Len(issued) \in Nat
        /\ Issues' = Issues \cup {k} /\ k \notin Issues
        /\ issued'[k] = e
        /\ \A i \in Issues : issued'[i] = issued[i]
    <2>1. issued \in Seq(Recs) /\ e \in Recs
      BY <1>2 DEF Typed, Requests
    <2> HIDE DEF Recs, e
    <2>2. /\ issued' \in Seq(Recs) /\ Len(issued) \in Nat
          /\ Len(issued') = Len(issued) + 1
          /\ issued'[k] = e /\ \A i \in 1 .. Len(issued) : issued'[i] = issued[i]
      BY <1>1, <2>1, Appended
    <2> QED
      BY <2>2 DEF Issues
  <1>4. /\ DOMAIN codes' = (DOMAIN codes \ gone) \cup {k}
        /\ codes'[k] = row
        /\ \A i \in DOMAIN codes' \ {k} :
             i \in DOMAIN codes /\ codes'[i] = codes[i]
    <2> DEFINE left == Remove(codes, gone)
    <2> HIDE DEF row, k, gone
    <2>1. /\ DOMAIN left = DOMAIN codes \ gone
          /\ \A i \in DOMAIN codes \ gone : left[i] = codes[i]
      BY RemoveKeepsRows
    <2> HIDE DEF left
    <2>2. codes' = Put(left, k, row)
      BY <1>1 DEF left
    <2>3. /\ DOMAIN codes' = DOMAIN left \cup {k}
          /\ codes'[k] = row
          /\ \A i \in DOMAIN left \ {k} : codes'[i] = left[i]
      BY <2>2 DEF Put
    <2> QED
      BY <2>1, <2>3
  <1>5. DOMAIN codes \subseteq Issues
    BY DEF Binding, CodesAreIssued
  <1>6. /\ DOMAIN taken' = Worker /\ pc' \in [Worker -> {"idle", "exchange", "grant"}]
        /\ taken'[w] = None /\ pc'[w] = "idle"
        /\ \A v \in Worker \ {w} : taken'[v] = taken[v] /\ pc'[v] = pc[v]
    BY <1>1 DEF Typed, TypeOK, Return
  <1>7. /\ \A i \in Issues : issued'[i].state = StateOf(i)
        /\ issued'[k].state = s
    BY <1>3 DEF StateOf
  <1>8. Typed'
    <2>1. asked[s] \in [client : Client, uri : Uri, verifier : Verifier]
      BY <1>2, Element DEF Typed, Requests
    <2>2. row \in [client : Client, user : User, uri : Uri, challenge : Challenge,
                   used : Nat \cup {None}, expires : Nat]
      BY <1>2, <2>1, FlowAssumption DEF Challenge, IsOf, Typed, TypeOK
    <2>3. \A i \in DOMAIN codes' :
            codes'[i] \in [client : Client, user : User, uri : Uri,
                           challenge : Challenge, used : Nat \cup {None},
                           expires : Nat]
      <3> HIDE DEF row
      <3> QED
        BY <1>4, <2>2 DEF Typed, TypeOK
    <2>4. DOMAIN codes' \subseteq 1 .. Len(issued')
      BY <1>3, <1>4, <1>5 DEF Issues
    <2>5. \A i \in 1 .. Len(issued') : issued'[i].state \in 1 .. Len(asked')
      BY <1>1, <1>2, <1>3, <1>7 DEF Typed, TypeOK, Issues, Requests
    <2> QED
      BY <1>1, <1>3, <1>6, <2>3, <2>4, <2>5 DEF Typed, TypeOK, StateOf
  <1>9. Binding'
    <2>1. AskedIsAllowed' /\ PendingIsAsked'
      BY <1>1 DEF Binding, AskedIsAllowed, is_redirect_uri_allowed, Requests,
                  PendingIsAsked, IsOf
    <2>2. ExchangeIsAsked'
      BY <1>1, <1>6 DEF Binding, ExchangeIsAsked, IsOf, Requests
    <2>3. CodesAreIssued'
      <3>1. \A i \in Issues' : issued'[i].state \in Requests'
        BY <1>1, <1>2, <1>3, <1>7 DEF Binding, CodesAreIssued, Requests
      <3>2. ASSUME NEW i \in DOMAIN codes'
            PROVE  /\ i \in Issues' /\ codes'[i].user = issued'[i].user
                   /\ codes'[i].client = asked[issued'[i].state].client
                   /\ codes'[i].uri = asked[issued'[i].state].uri
                   /\ codes'[i].challenge = S256(asked[issued'[i].state].verifier)
        <4>1. CASE i = k
          <5>1. /\ row.client = taken[w].row.client /\ row.uri = taken[w].row.uri
                /\ row.challenge = taken[w].row.challenge /\ row.user = u /\ e.user = u
            OBVIOUS
          <5>2. /\ row.client = asked[s].client /\ row.uri = asked[s].uri
                /\ row.challenge = S256(asked[s].verifier)
            BY <1>2, <5>1 DEF IsOf
          <5>3. /\ codes'[i] = row /\ issued'[i] = e /\ issued'[i].state = s
                /\ i \in Issues'
            BY <1>3, <1>4, <1>7, <4>1
          <5> HIDE DEF row, e, s, k, FInv
          <5> QED
            BY <5>1, <5>2, <5>3
        <4>2. CASE i # k
          <5>1. i \in DOMAIN codes /\ codes'[i] = codes[i]
            BY <1>4, <4>2
          <5>2. i \in Issues /\ IsOf(codes[i], StateOf(i)) /\ codes[i].user = issued[i].user
            BY <5>1 DEF Binding, CodesAreIssued
          <5>3. issued'[i].state = StateOf(i) /\ issued'[i].user = issued[i].user
            BY <1>3, <1>7, <5>2
          <5> QED
            BY <1>3, <5>1, <5>2, <5>3 DEF IsOf
        <4> QED
          BY <4>1, <4>2
      <3> QED
        BY <1>1, <3>1, <3>2 DEF CodesAreIssued, IsOf, S256, StateOf
    <2>4. GrantIsProved' /\ FamiliesAreProved'
      <3>1. ASSUME NEW i, NEW v, NEW c, NEW x, Proved(i, v, c, x)
            PROVE  /\ i \in Issues' /\ v = asked[issued'[i].state].verifier
                   /\ c = asked[issued'[i].state].client /\ x = issued'[i].user
        BY <1>3, <1>7, <3>1 DEF Proved
      <3>2. GrantIsProved'
        <4> SUFFICES ASSUME NEW v \in Worker, pc'[v] = "grant"
                     PROVE  /\ taken'[v].code \in Issues'
                            /\ taken'[v].by = asked[issued'[taken'[v].code].state].verifier
                            /\ taken'[v].row.client
                                 = asked[issued'[taken'[v].code].state].client
                            /\ taken'[v].row.user = issued'[taken'[v].code].user
          BY <1>1 DEF GrantIsProved, Proved, StateOf
        <4>1. taken'[v] = taken[v] /\ pc[v] = "grant"
          BY <1>6
        <4>2. Proved(taken[v].code, taken[v].by, taken[v].row.client, taken[v].row.user)
          BY <4>1 DEF Binding, GrantIsProved
        <4> QED
          BY <4>1, <4>2, <3>1
      <3>3. FamiliesAreProved'
        <4> SUFFICES ASSUME NEW i \in Grants
                     PROVE  /\ families[i].code \in Issues'
                            /\ families[i].by = asked[issued'[families[i].code].state].verifier
                            /\ families[i].client
                                 = asked[issued'[families[i].code].state].client
                            /\ families[i].user = issued'[families[i].code].user
          BY <1>1 DEF FamiliesAreProved, Proved, StateOf, Grants
        <4>1. Proved(families[i].code, families[i].by, families[i].client,
                     families[i].user)
          BY DEF Binding, FamiliesAreProved
        <4> QED
          BY <4>1, <3>1
      <3> QED
        BY <3>2, <3>3
    <2> QED
      BY <2>1, <2>2, <2>3, <2>4 DEF Binding
  <1>10. StateHasOnePlace'
    <2>1. s \notin DOMAIN pending /\ \A i \in Issues : StateOf(i) # s
      BY <1>1 DEF StateHasOnePlace
    <2>2. \A v \in Worker : pc'[v] = "exchange" => taken'[v].state # s
      BY <1>1, <1>6 DEF StateHasOnePlace
    <2>3. \A i, j \in Issues' : issued'[i].state = issued'[j].state => i = j
      BY <1>3, <1>7, <2>1 DEF StateHasOnePlace
    <2> QED
      <3>1. \A i \in Issues' : issued'[i].state \notin DOMAIN pending'
        BY <1>1, <1>3, <1>7, <2>1 DEF StateHasOnePlace
      <3>2. ASSUME NEW v \in Worker, pc'[v] = "exchange"
            PROVE  /\ taken'[v].state \notin DOMAIN pending'
                   /\ \A i \in Issues' : issued'[i].state # taken'[v].state
                   /\ \A x \in Worker : pc'[x] = "exchange"
                                           /\ taken'[x].state = taken'[v].state => x = v
        <4>1. v # w /\ taken'[v] = taken[v] /\ pc[v] = "exchange"
          BY <1>6, <3>2
        <4> QED
          <5>1. taken[v].state \notin DOMAIN pending
                /\ \A i \in Issues : StateOf(i) # taken[v].state
            BY <4>1 DEF StateHasOnePlace
          <5>2. \A i \in Issues' : issued'[i].state # taken[v].state
            BY <1>3, <1>7, <2>2, <3>2, <4>1, <5>1
          <5>3. ASSUME NEW x \in Worker, pc'[x] = "exchange",
                       taken'[x].state = taken'[v].state
                PROVE  x = v
            <6>1. taken'[x] = taken[x] /\ pc[x] = "exchange"
              BY <1>6, <5>3
            <6> QED
              BY <4>1, <5>3, <6>1 DEF StateHasOnePlace
          <5> QED
            BY <1>1, <4>1, <5>1, <5>2, <5>3
      <3> QED
        BY <2>3, <3>1, <3>2 DEF StateHasOnePlace, StateOf
  <1>11. CodeHasOnePlace'
    <2>1. \A i \in Issues : Claimable(i)' => Claimable(i)
      BY <1>3, <1>4 DEF Claimable
    <2>2. \A i \in Grants : families[i].code \in Issues
      BY DEF Binding, FamiliesAreProved, Proved
    <2>3. \A v \in Worker : pc[v] = "grant" => taken[v].code \in Issues
      BY DEF Binding, GrantIsProved, Proved
    <2>4. \A i \in Grants : ~Claimable(families[i].code)'
      BY <1>1, <2>1, <2>2 DEF CodeHasOnePlace, Claimable
    <2>5. \A v \in Worker : pc'[v] = "grant" => ~Claimable(taken[v].code)'
      BY <1>6, <2>1, <2>3 DEF CodeHasOnePlace, Claimable
    <2>6. ASSUME NEW v \in Worker, pc'[v] = "grant"
          PROVE  pc[v] = "grant" /\ taken'[v] = taken[v]
      BY <1>6, <2>6
    <2>7. /\ \A i, j \in Grants' : families'[i].code = families'[j].code => i = j
          /\ \A i \in Grants' : ~Claimable(families[i].code)' /\ i \in Grants
      BY <1>1, <2>4 DEF CodeHasOnePlace, Grants
    <2>8. ASSUME NEW v \in Worker, pc'[v] = "grant"
          PROVE  /\ \A i \in Grants' : families'[i].code # taken'[v].code
                 /\ \A x \in Worker : pc'[x] = "grant" /\ taken'[x].code = taken'[v].code
                                          => x = v
      BY <1>1, <2>6, <2>8 DEF CodeHasOnePlace, Grants
    <2> QED
      BY <1>1, <2>5, <2>6, <2>7, <2>8 DEF CodeHasOnePlace, Claimable
  <1> QED
    BY <1>8, <1>9, <1>10, <1>11


(* A claimed code is claimable no more, and one handler has it; a refused   *)
(* claim changes nothing.                                                   *)
LEMMA ConsumeCodeKeepsInv ==
  ASSUME FInv, NEW w \in Worker, NEW k \in 1 .. MaxCodes, NEW c \in Client,
         NEW uri \in Uri, NEW v \in Verifier, ConsumeCode(w, k, c, uri, v),
         Matches(k, c, uri, v)
  PROVE  FInv'
PROOF
  <1> DEFINE t == [code |-> k, row |-> codes[k], by |-> v]
  <1> USE DEF FInv
  <1>1. /\ pc[w] = "idle" /\ Claimable(k)
        /\ codes' = [codes EXCEPT ![k].used = now]
        /\ taken' = [taken EXCEPT ![w] = t]
        /\ pc' = [pc EXCEPT ![w] = "grant"]
        /\ UNCHANGED <<now, pending, asked, issued, families>>
    BY DEF ConsumeCode
  <1>2. /\ DOMAIN taken' = Worker /\ pc' \in [Worker -> {"idle", "exchange", "grant"}]
        /\ taken'[w] = t /\ pc'[w] = "grant"
        /\ \A x \in Worker \ {w} : taken'[x] = taken[x] /\ pc'[x] = pc[x]
    BY <1>1 DEF Typed, TypeOK
  <1>3. /\ k \in DOMAIN codes /\ DOMAIN codes' = DOMAIN codes
        /\ codes'[k] = [codes[k] EXCEPT !.used = now]
        /\ \A i \in DOMAIN codes \ {k} : codes'[i] = codes[i]
    BY <1>1 DEF Claimable
  <1>4. codes[k] \in [client : Client, user : User, uri : Uri, challenge : Challenge,
                      used : Nat \cup {None}, expires : Nat]
    BY <1>3 DEF Typed, TypeOK
  <1>5. now \in Nat
    BY FlowAssumption DEF Typed, TypeOK
  <1>6. /\ codes'[k].client = codes[k].client /\ codes'[k].user = codes[k].user
        /\ codes'[k].uri = codes[k].uri /\ codes'[k].challenge = codes[k].challenge
        /\ codes'[k].used = now
        /\ codes'[k] \in [client : Client, user : User, uri : Uri,
                           challenge : Challenge, used : Nat \cup {None}, expires : Nat]
    BY <1>3, <1>4, <1>5
  <1>11. ASSUME NEW i, i \in DOMAIN codes' /\ codes'[i].used = None
         PROVE  Claimable(i) /\ i # k
    BY <1>3, <1>5, <1>6, <1>11, FlowAssumption DEF Claimable
  <1>7. Typed'
    <2>1. \A i \in DOMAIN codes' :
            codes'[i] \in [client : Client, user : User, uri : Uri,
                           challenge : Challenge, used : Nat \cup {None},
                           expires : Nat]
      BY <1>3, <1>6 DEF Typed, TypeOK
    <2> QED
      BY <1>1, <1>2, <1>3, <2>1 DEF Typed, TypeOK, StateOf
  <1>8. Binding'
    <2>1. AskedIsAllowed' /\ PendingIsAsked' /\ FamiliesAreProved'
      BY <1>1 DEF Binding, AskedIsAllowed, is_redirect_uri_allowed, Requests,
                  PendingIsAsked, IsOf, FamiliesAreProved, Proved, StateOf, Issues,
                  Grants
    <2>2. ExchangeIsAsked'
      BY <1>1, <1>2 DEF Binding, ExchangeIsAsked, IsOf, Requests
    <2>3. CodesAreIssued'
      BY <1>1, <1>3, <1>6 DEF Binding, CodesAreIssued, IsOf, StateOf, Issues, Requests
    <2>4. GrantIsProved'
      <3>1. k \in Issues /\ IsOf(codes[k], StateOf(k)) /\ codes[k].user = issued[k].user
        BY <1>3 DEF Binding, CodesAreIssued
      <3>2. v = asked[StateOf(k)].verifier
        BY <3>1, ChallengeIsInjective DEF Matches, IsOf
      <3>3. Proved(k, v, codes[k].client, codes[k].user)
        BY <3>1, <3>2 DEF Proved, IsOf
      <3> QED
        BY SMTT(30), <1>1, <1>2, <3>3 DEF Binding, GrantIsProved, Proved, StateOf, Issues
    <2> QED
      BY <2>1, <2>2, <2>3, <2>4 DEF Binding
  <1>9. StateHasOnePlace'
    BY <1>1, <1>2 DEF StateHasOnePlace, StateOf, Issues
  <1>10. CodeHasOnePlace'
    <2>1. \A i \in Grants : families[i].code # k
      BY <1>1 DEF CodeHasOnePlace
    <2>2. \A x \in Worker \ {w} : pc'[x] = "grant" => taken'[x].code # k
      BY <1>1, <1>2 DEF CodeHasOnePlace
    <2>3. \A i \in Grants : ~Claimable(families[i].code)'
      BY <1>1, <1>11 DEF CodeHasOnePlace, Claimable
    <2>4. \A x \in Worker : pc'[x] = "grant" => ~Claimable(taken[x].code)'
      BY <1>2, <2>2, <1>11 DEF CodeHasOnePlace, Claimable
    <2> QED
      BY <1>1, <1>2, <2>1, <2>2, <2>3, <2>4 DEF CodeHasOnePlace, Claimable, Grants
  <1> QED
    BY <1>7, <1>8, <1>9, <1>10

(* The one handler that has a code grants its one family.                   *)
LEMMA GrantKeepsInv ==
  ASSUME FInv, NEW w \in Worker, GrantFamily(w)
  PROVE  FInv'
PROOF
  <1> DEFINE n == Len(families) + 1
             e == [code |-> taken[w].code, by |-> taken[w].by,
                   client |-> taken[w].row.client, user |-> taken[w].row.user]
             Recs == [code : Nat, by : Verifier, client : Client, user : User]
  <1> USE DEF FInv
  <1>1. /\ pc[w] = "grant" /\ Return(w)
        /\ families' = Append(families, e)
        /\ UNCHANGED <<now, pending, codes, asked, issued>>
    BY DEF GrantFamily
  <1>2. Proved(e.code, e.by, e.client, e.user)
    BY <1>1 DEF Binding, GrantIsProved
  <1>3. e \in Recs
    <2>1. e.code \in Issues /\ StateOf(e.code) \in Requests
      BY <1>2 DEF Proved, Binding, CodesAreIssued
    <2>2. asked[StateOf(e.code)] \in [client : Client, uri : Uri, verifier : Verifier]
      BY <2>1, Element DEF Typed, Requests
    <2>3. issued[e.code] \in [state : Nat, user : User]
      BY <2>1, Element DEF Typed, Issues
    <2> QED
      BY <1>2, <2>1, <2>2, <2>3 DEF Proved, Issues
  <1>4. /\ families' \in Seq(Recs) /\ Len(families) \in Nat
        /\ Grants' = Grants \cup {n} /\ n \notin Grants
        /\ families'[n] = e
        /\ \A i \in Grants : families'[i] = families[i]
    <2>1. families \in Seq(Recs)
      BY DEF Typed
    <2> HIDE DEF Recs, e
    <2>2. /\ families' \in Seq(Recs) /\ Len(families) \in Nat
          /\ Len(families') = Len(families) + 1
          /\ families'[n] = e
          /\ \A i \in 1 .. Len(families) : families'[i] = families[i]
      BY <1>1, <1>3, <2>1, Appended
    <2> QED
      BY <2>2 DEF Grants
  <1>5. /\ DOMAIN taken' = Worker /\ pc' \in [Worker -> {"idle", "exchange", "grant"}]
        /\ taken'[w] = None /\ pc'[w] = "idle"
        /\ \A v \in Worker \ {w} : taken'[v] = taken[v] /\ pc'[v] = pc[v]
    BY <1>1 DEF Typed, TypeOK, Return
  <1>6. Typed'
    BY <1>1, <1>4, <1>5 DEF Typed, TypeOK, StateOf
  <1>7. Binding'
    <2>1. AskedIsAllowed' /\ PendingIsAsked' /\ CodesAreIssued'
      BY <1>1 DEF Binding, AskedIsAllowed, is_redirect_uri_allowed, Requests,
                  PendingIsAsked, IsOf, CodesAreIssued, StateOf, Issues
    <2>2. ExchangeIsAsked' /\ GrantIsProved'
      <3>1. ExchangeIsAsked'
        BY <1>1, <1>5 DEF Binding, ExchangeIsAsked, IsOf, Requests
      <3>2. GrantIsProved'
        BY <1>1, <1>5 DEF Binding, GrantIsProved, Proved, StateOf, Issues
      <3> QED
        BY <3>1, <3>2
    <2>3. FamiliesAreProved'
      <3> SUFFICES ASSUME NEW i \in Grants'
                   PROVE  Proved(families'[i].code, families'[i].by,
                                 families'[i].client, families'[i].user)
        BY <1>1 DEF FamiliesAreProved, Proved, StateOf, Issues
      <3>1. CASE i = n
        BY <1>2, <1>4, <3>1
      <3>2. CASE i # n
        BY <1>4, <3>2 DEF Binding, FamiliesAreProved
      <3> QED
        BY <3>1, <3>2
    <2> QED
      BY <2>1, <2>2, <2>3 DEF Binding
  <1>8. StateHasOnePlace'
    BY <1>1, <1>5 DEF StateHasOnePlace, StateOf, Issues
  <1>9. CodeHasOnePlace'
    <2>1. /\ \A i \in Grants : families[i].code # e.code
          /\ \A v \in Worker \ {w} : pc[v] = "grant" => taken[v].code # e.code
          /\ ~Claimable(e.code)
      BY <1>1 DEF CodeHasOnePlace
    <2>2. \A i \in Grants' : ~Claimable(families'[i].code)
      BY <1>4, <2>1 DEF CodeHasOnePlace
    <2> HIDE DEF e
    <2>3. ASSUME NEW i \in Grants', NEW j \in Grants',
                 families'[i].code = families'[j].code
          PROVE  i = j
      <3>1. CASE i = n \/ j = n
        BY <1>4, <2>1, <2>3, <3>1
      <3>2. CASE i # n /\ j # n
        BY <1>4, <2>3, <3>2 DEF CodeHasOnePlace
      <3> QED
        BY <3>1, <3>2
    <2>4. ASSUME NEW v \in Worker, pc'[v] = "grant"
          PROVE  /\ \A i \in Grants' : families'[i].code # taken'[v].code
                 /\ ~Claimable(taken'[v].code)
                 /\ \A x \in Worker : pc'[x] = "grant"
                                         /\ taken'[x].code = taken'[v].code => x = v
      <3>1. v # w /\ taken'[v] = taken[v] /\ pc[v] = "grant"
        BY <1>5, <2>4
      <3> QED
        BY <1>4, <1>5, <2>1, <3>1 DEF CodeHasOnePlace
    <2> QED
      BY <1>1, <2>2, <2>3, <2>4 DEF CodeHasOnePlace, Claimable
  <1> QED
    BY <1>6, <1>7, <1>8, <1>9

(* A prune only takes rows, and the clock touches none.                     *)
LEMMA PruneKeepsInv ==
  ASSUME FInv, PruneOAuth
  PROVE  FInv'
PROOF
  <1> USE DEF FInv
  <1>1. /\ DOMAIN pending' \subseteq DOMAIN pending
        /\ \A x \in DOMAIN pending' : pending'[x] = pending[x]
        /\ DOMAIN codes' \subseteq DOMAIN codes
        /\ \A x \in DOMAIN codes' : codes'[x] = codes[x]
        /\ UNCHANGED <<now, pc, taken, asked, issued, families>>
    BY DEF PruneOAuth, Remove
  <1>2. Typed'
    BY <1>1 DEF Typed, TypeOK, StateOf
  <1>3. Binding'
    <2>1. AskedIsAllowed' /\ ExchangeIsAsked' /\ GrantIsProved' /\ FamiliesAreProved'
      BY <1>1 DEF Binding, AskedIsAllowed, is_redirect_uri_allowed, Requests,
                  ExchangeIsAsked, IsOf, GrantIsProved, FamiliesAreProved, Proved,
                  StateOf, Issues, Grants
    <2>2. PendingIsAsked' /\ CodesAreIssued'
      BY <1>1 DEF Binding, PendingIsAsked, CodesAreIssued, IsOf, StateOf, Issues,
                  Requests
    <2> QED
      BY <2>1, <2>2 DEF Binding
  <1>4. StateHasOnePlace' /\ CodeHasOnePlace'
    BY <1>1 DEF StateHasOnePlace, StateOf, Issues, CodeHasOnePlace, Claimable, Grants
  <1> QED
    BY <1>2, <1>3, <1>4

LEMMA TickKeepsInv ==
  ASSUME FInv, Tick \/ UNCHANGED vars
  PROVE  FInv'
PROOF
  <1> USE DEF FInv
  <1>1. /\ now' \in 0 .. MaxNow
        /\ UNCHANGED <<pending, codes, pc, taken, asked, issued, families>>
    BY FlowAssumption DEF Tick, vars, Typed, TypeOK
  <1>2. Typed'
    BY <1>1 DEF Typed, TypeOK, StateOf
  <1>3. Binding'
    BY <1>1 DEF Binding, AskedIsAllowed, is_redirect_uri_allowed, Requests,
                PendingIsAsked, ExchangeIsAsked, IsOf, CodesAreIssued, StateOf, Issues,
                GrantIsProved, FamiliesAreProved, Proved, Grants
  <1>4. StateHasOnePlace' /\ CodeHasOnePlace'
    BY <1>1 DEF StateHasOnePlace, StateOf, Issues, CodeHasOnePlace, Claimable, Grants
  <1> QED
    BY <1>2, <1>3, <1>4

(* The invariant holds of every behaviour.                                  *)
THEOREM FlowInvariance == Spec => []FInv
PROOF
  <1>1. Init => FInv
    <2> SUFFICES ASSUME Init PROVE FInv
      OBVIOUS
    <2>1. /\ DOMAIN pending = {} /\ DOMAIN codes = {}
          /\ Requests = {} /\ Issues = {} /\ Grants = {}
      BY DEF Init, Requests, Issues, Grants
    <2>2. Typed
      BY <2>1, FlowAssumption DEF Init, Typed, TypeOK, Requests, Issues
    <2>3. Binding /\ StateHasOnePlace /\ CodeHasOnePlace
      BY <2>1 DEF Init, Binding, AskedIsAllowed, PendingIsAsked, ExchangeIsAsked,
                  CodesAreIssued, GrantIsProved, FamiliesAreProved, StateHasOnePlace,
                  CodeHasOnePlace
    <2> QED
      BY <2>2, <2>3 DEF FInv
  <1>2. FInv /\ [Next]_vars => FInv'
    <2> SUFFICES ASSUME FInv, [Next]_vars
                 PROVE  FInv'
      OBVIOUS
    <2>1. ASSUME NEW c \in Client, NEW uri \in Uri, NEW v \in Verifier,
                 Authorize(c, uri, v)
          PROVE  FInv'
      BY <2>1, AuthorizeKeepsInv
    <2>2. ASSUME NEW w \in Worker, NEW s \in 1 .. MaxStates, ConsumePending(w, s)
          PROVE  FInv'
      BY <2>2, ConsumePendingKeepsInv
    <2>3. ASSUME NEW w \in Worker, AbandonSignIn(w) \/ CrashBeforeGrant(w)
          PROVE  FInv'
      BY <2>3, ReturningKeepsInv DEF AbandonSignIn, CrashBeforeGrant
    <2>4. ASSUME NEW w \in Worker, GrantFamily(w)
          PROVE  FInv'
      BY <2>4, GrantKeepsInv
    <2>5. ASSUME NEW w \in Worker, NEW u \in User, IssueCode(w, u)
          PROVE  FInv'
      BY <2>5, IssueCodeKeepsInv
    <2>6. ASSUME NEW w \in Worker, NEW k \in 1 .. MaxCodes, NEW c \in Client,
                 NEW uri \in Uri, NEW v \in Verifier, ConsumeCode(w, k, c, uri, v)
          PROVE  FInv'
      <3>1. CASE Matches(k, c, uri, v)
        BY <2>6, <3>1, ConsumeCodeKeepsInv
      <3>2. CASE ~Matches(k, c, uri, v)
        <4>1. UNCHANGED vars
          BY <2>6, <3>2 DEF ConsumeCode, RefusedClaim, vars
        <4> QED
          BY <4>1, TickKeepsInv
      <3> QED
        BY <3>1, <3>2
    <2>7. CASE PruneOAuth
      BY <2>7, PruneKeepsInv
    <2>8. CASE Tick \/ UNCHANGED vars
      BY <2>8, TickKeepsInv
    <2> QED
      BY <2>1, <2>2, <2>3, <2>4, <2>5, <2>6, <2>7, <2>8 DEF Next
  <1> QED
    BY <1>1, <1>2, PTL DEF Spec

(* Type correctness of the tables, the handlers and the histories.          *)
THEOREM TypeCorrect == Spec => []TypeOK
PROOF
  BY FlowInvariance, PTL DEF FInv, Typed

(* One sign-in yields at most one refresh family (codes.py                  *)
(* consume_pending_auth and consume_auth_code).                             *)
THEOREM OneFamily == Spec => []OneFamilyPerSignIn
PROOF
  <1>1. FInv => OneFamilyPerSignIn
    BY DEF FInv, Binding, FamiliesAreProved, Proved, StateHasOnePlace, CodeHasOnePlace,
           OneFamilyPerSignIn, Grants
  <1> QED
    BY <1>1, FlowInvariance, PTL

(* A family is of the client, the user and the verifier of its own request. *)
THEOREM FamilyIsOfItsSignIn == Spec => []FamilyBelongsToSignIn
PROOF
  <1>1. FInv => FamilyBelongsToSignIn
    BY DEF FInv, Binding, FamiliesAreProved, Proved, CodesAreIssued, AskedIsAllowed,
           FamilyBelongsToSignIn, Grants
  <1> QED
    BY <1>1, FlowInvariance, PTL

\* A row that has not expired is in no sweep of the expired ones.
LEMMA NotExpired ==
  ASSUME NEW f, NEW x \in DOMAIN f, f[x].expires \in Nat, now \in Nat,
         f[x].expires >= now, NEW age \in Nat
  PROVE  x \notin Expired(f, age)
PROOF
  BY DEF Expired

(* A pending row or a code that has not expired is only used up by the      *)
(* handler that goes on with it: no sweep, no prune and no refused claim    *)
(* takes it.                                                                *)
THEOREM OwnersSpend == Spec => OnlyOwnersSpend
PROOF
  <1>1. ASSUME FInv, Next, NEW s \in DOMAIN pending,
               pending[s].expires >= now, s \notin DOMAIN pending'
        PROVE  \E w \in Worker : /\ pc[w] = "idle" /\ pc'[w] = "exchange"
                                 /\ taken'[w].state = s
    <2>1. /\ pending[s].expires \in Nat /\ now \in Nat
          /\ pc \in [Worker -> {"idle", "exchange", "grant"}] /\ DOMAIN taken = Worker
      BY <1>1 DEF FInv, Typed, TypeOK
    <2>2. s \notin Expired(pending, 0) /\ s \notin Expired(pending, TenMinutes)
      BY <1>1, <2>1, NotExpired, FlowAssumption
    <2>3. /\ ~PruneOAuth
          /\ \A c \in Client, uri \in Uri, v \in Verifier : ~Authorize(c, uri, v)
      BY <1>1, <2>2 DEF PruneOAuth, Authorize, Put, Remove
    <2>4. ASSUME NEW w \in Worker, NEW x \in 1 .. MaxStates, ConsumePending(w, x)
          PROVE  /\ pc[w] = "idle" /\ pc'[w] = "exchange" /\ taken'[w].state = s
      <3>1. x = s
        BY <1>1, <2>4 DEF ConsumePending, Remove
      <3> QED
        BY <2>1, <2>4, <3>1 DEF ConsumePending
    <2>5. pending' # pending
      BY <1>1
    <2> QED
      BY <1>1, <2>3, <2>4, <2>5
         DEF Next, AbandonSignIn, GrantFamily, CrashBeforeGrant, IssueCode, ConsumeCode, Tick
  <1>2. ASSUME FInv, Next, NEW k \in DOMAIN codes,
               codes[k].expires >= now, Claimable(k), ~Claimable(k)'
        PROVE  \E w \in Worker : /\ pc[w] = "idle" /\ pc'[w] = "grant"
                                 /\ taken'[w].code = k
    <2>1. /\ codes[k].expires \in Nat /\ now \in Nat
          /\ pc \in [Worker -> {"idle", "exchange", "grant"}] /\ DOMAIN taken = Worker
          /\ k \in 1 .. Len(issued)
      BY <1>1, <1>2 DEF FInv, Typed, TypeOK
    <2>2. k \notin Expired(codes, TenMinutes)
      BY <1>2, <2>1, NotExpired, FlowAssumption
    <2>3. ASSUME NEW w \in Worker, NEW u \in User, IssueCode(w, u) PROVE FALSE
      <3>1. k # Len(issued) + 1
        BY <2>1
      <3>2. k \in DOMAIN codes' /\ codes'[k] = codes[k]
        BY <1>2, <2>2, <2>3, <3>1 DEF IssueCode, Put, Remove
      <3> QED
        BY <1>2, <3>2 DEF Claimable
    <2>4. ~PruneOAuth
      <3>1. PruneOAuth => k \in DOMAIN codes' /\ codes'[k] = codes[k]
        BY <1>2, <2>2 DEF PruneOAuth, Remove
      <3> QED
        BY <1>2, <3>1 DEF Claimable
    <2>5. ASSUME NEW w \in Worker, NEW x \in 1 .. MaxCodes, NEW c \in Client,
                 NEW uri \in Uri, NEW v \in Verifier, ConsumeCode(w, x, c, uri, v)
          PROVE  /\ pc[w] = "idle" /\ pc'[w] = "grant" /\ taken'[w].code = k
      <3>1. Matches(x, c, uri, v)
        BY <1>2, <2>5 DEF ConsumeCode, RefusedClaim, Claimable
      <3>2. codes' = [codes EXCEPT ![x].used = now]
        BY <2>5, <3>1 DEF ConsumeCode
      <3>3. x = k
        BY <1>2, <3>2 DEF Claimable
      <3> QED
        BY <2>1, <2>5, <3>1, <3>3 DEF ConsumeCode
    <2>6. codes' # codes
      BY <1>2 DEF Claimable
    <2> QED
      BY <1>2, <2>3, <2>4, <2>5, <2>6
         DEF Next, Authorize, ConsumePending, AbandonSignIn, GrantFamily, CrashBeforeGrant,
             Tick
  <1>3. FInv /\ [Next]_vars =>
          [/\ \A s \in DOMAIN pending :
                pending[s].expires >= now /\ s \notin DOMAIN pending'
                   => \E w \in Worker : pc[w] = "idle" /\ pc'[w] = "exchange" /\ taken'[w].state = s
           /\ \A k \in DOMAIN codes :
                codes[k].expires >= now /\ Claimable(k) /\ ~Claimable(k)'
                   => \E w \in Worker : pc[w] = "idle" /\ pc'[w] = "grant" /\ taken'[w].code = k]_vars
    BY <1>1, <1>2
  <1> QED
    BY <1>3, FlowInvariance, PTL DEF Spec, OnlyOwnersSpend

-----------------------------------------------------------------------------
(* SigningKeys *)

\* The previous key is in the secret from its replacement until its retirement.
PreviousIsPredecessor ==
  /\ stage \in {"rolling", "overlap"} =>
       secret.key > 1 /\ secret.previous = secret.key - 1
  /\ stage \in {"steady", "retiring"} => secret.previous = Unset
  /\ stage = "retiring" => secret.key > 1

\* What a replica that has not restarted yet was started with.
Former == IF stage = "rolling"
          THEN [key |-> secret.key - 1, previous |-> Unset]
          ELSE [key |-> secret.key, previous |-> secret.key - 1]

EnvIsRecent ==
  \A r \in Replica :
    \/ env[r] = secret
    \/ stage \in {"rolling", "retiring"} /\ env[r] = Former

\* Tokens of the previous key are about while it is published, no more of them
\* once every replica has restarted, and they expire within the window.
LiveKeys ==
  \A t \in signed :
    /\ t.exp <= clock + Window
    /\ t.exp > clock =>
         \/ t.kid = secret.key
         \/ stage = "rolling" /\ t.kid = secret.key - 1
         \/ stage = "overlap" /\ t.kid = secret.key - 1 /\ t.exp <= since + Window

KInv == KTypeOK /\ PreviousIsPredecessor /\ EnvIsRecent /\ LiveKeys

-----------------------------------------------------------------------------
(* Both lifetimes are natural numbers within the window.                    *)
LEMMA LifetimesFitWindow ==
  /\ _access_token_ttl_seconds \in Nat /\ _access_token_ttl_seconds <= Window
  /\ _exchange_ttl_seconds \in Nat /\ _exchange_ttl_seconds <= Window
PROOF
  <1>1. ASSUME NEW env0, NEW d \in Nat, NEW hi \in Nat
        PROVE  TTLSetting(env0, d, hi) \in Nat
    BY KeyAssumption DEF TTLSetting, Clamp
  <1> QED
    BY <1>1, KeyAssumption DEF _access_token_ttl_seconds, _exchange_ttl_seconds

(* Whatever a replica signs, now or before its restart, fits LiveKeys: its  *)
(* own key is the current one, or the previous one during the first restart. *)
LEMMA SignerIsRecent ==
  ASSUME KInv, NEW r \in Replica
  PROVE  /\ env[r].key \in 1..MaxKeys
         /\ \/ env[r].key = secret.key
            \/ stage = "rolling" /\ env[r].key = secret.key - 1
PROOF
  <1>1. env[r] \in [key : 1..MaxKeys, previous : 0..MaxKeys]
    BY DEF KInv, KTypeOK
  <1>2. env[r].key \in 1..MaxKeys
    BY <1>1
  <1>3. CASE env[r] = secret
    BY <1>2, <1>3
  <1>4. CASE env[r] # secret
    BY <1>2, <1>4 DEF KInv, EnvIsRecent, Former
  <1> QED
    BY <1>3, <1>4

LEMMA SigningKeepsInv ==
  ASSUME KInv, NEW r \in Replica, NEW ttl \in Nat, ttl <= Window,
         _sign_access_token(r, ttl)
  PROVE  KInv'
PROOF
  <1> DEFINE new == [kid |-> env[r].key, exp |-> clock + ttl]
  <1> USE DEF KInv
  <1>1. /\ signed' = signed \cup {new}
        /\ UNCHANGED <<secret, env, stage, since, clock>>
    BY DEF _sign_access_token
  <1>2. new.kid \in 1..MaxKeys /\ new.exp \in Nat
    BY SignerIsRecent DEF KTypeOK
  <1>3. new \in [kid : 1..MaxKeys, exp : Nat]
    BY <1>2
  <1>4. KTypeOK'
    BY <1>1, <1>3 DEF KTypeOK
  <1>5. PreviousIsPredecessor' /\ EnvIsRecent'
    BY <1>1 DEF PreviousIsPredecessor, EnvIsRecent, Former
  <1>6. new.exp <= clock + Window
    BY KeyAssumption DEF KTypeOK
  <1>7. new.kid = secret.key \/ (stage = "rolling" /\ new.kid = secret.key - 1)
    BY SignerIsRecent
  <1>8. LiveKeys'
    <2> SUFFICES ASSUME NEW t \in signed \cup {new}
                 PROVE  /\ t.exp <= clock + Window
                        /\ t.exp > clock =>
                             \/ t.kid = secret.key
                             \/ stage = "rolling" /\ t.kid = secret.key - 1
                             \/ /\ stage = "overlap" /\ t.kid = secret.key - 1
                                /\ t.exp <= since + Window
      BY <1>1 DEF LiveKeys
    <2>1. CASE t \in signed
      BY <2>1 DEF LiveKeys
    <2>2. CASE t = new
      BY <2>2, <1>6, <1>7
    <2> QED
      BY <2>1, <2>2
  <1> QED
    BY <1>4, <1>5, <1>8

(* A new pair is put when every replica runs with the current key alone.    *)
LEMMA PuttingKeepsInv ==
  ASSUME KInv, PutNewKey
  PROVE  KInv'
PROOF
  <1> USE DEF KInv
  <1>1. /\ stage = "steady" /\ stage' = "rolling" /\ secret.key < MaxKeys
        /\ secret' = [key |-> secret.key + 1, previous |-> secret.key]
        /\ UNCHANGED <<env, since, clock, signed>>
    BY DEF PutNewKey
  <1>2. secret \in [key : 1..MaxKeys, previous : 0..MaxKeys]
    BY DEF KTypeOK
  <1>3. /\ secret.key \in 1..MaxKeys
        /\ secret = [key |-> secret.key, previous |-> Unset]
    BY <1>1, <1>2 DEF PreviousIsPredecessor
  <1>4. /\ secret'.key = secret.key + 1 /\ secret'.previous = secret.key
        /\ secret'.key - 1 = secret.key
    BY <1>1, <1>3
  <1>5. KTypeOK'
    BY <1>1, <1>3, KeyAssumption DEF KTypeOK
  <1>6. PreviousIsPredecessor'
    BY <1>1, <1>3, <1>4 DEF PreviousIsPredecessor
  <1>7. EnvIsRecent'
    BY <1>1, <1>3, <1>4 DEF EnvIsRecent, Former
  <1>8. LiveKeys'
    BY <1>1, <1>4 DEF LiveKeys
  <1> QED
    BY <1>5, <1>6, <1>7, <1>8

(* Once every replica has restarted, no more tokens of the previous key are *)
(* signed, and those about expire within the window from then.              *)
LEMMA CompletingKeepsInv ==
  ASSUME KInv, RollComplete
  PROVE  KInv'
PROOF
  <1> USE DEF KInv
  <1>1. /\ \A r \in Replica : env[r] = secret
        /\ \/ stage = "rolling" /\ stage' = "overlap"
           \/ stage = "retiring" /\ stage' = "steady"
        /\ since' = clock
        /\ UNCHANGED <<secret, env, clock, signed>>
    BY DEF RollComplete
  <1>2. KTypeOK'
    BY <1>1 DEF KTypeOK
  <1>3. PreviousIsPredecessor'
    BY <1>1 DEF PreviousIsPredecessor
  <1>4. EnvIsRecent'
    BY <1>1 DEF EnvIsRecent
  <1>5. LiveKeys'
    BY <1>1 DEF LiveKeys
  <1> QED
    BY <1>2, <1>3, <1>4, <1>5

(* When the window has passed, every token of the previous key has expired. *)
LEMMA RetiringKeepsInv ==
  ASSUME KInv, RetirePrevious
  PROVE  KInv'
PROOF
  <1> USE DEF KInv
  <1>1. /\ stage = "overlap" /\ stage' = "retiring" /\ clock >= since + Window
        /\ secret' = [secret EXCEPT !.previous = Unset]
        /\ UNCHANGED <<env, since, clock, signed>>
    BY DEF RetirePrevious
  <1>2. secret \in [key : 1..MaxKeys, previous : 0..MaxKeys]
    BY DEF KTypeOK
  <1>3. /\ secret.key > 1
        /\ secret = [key |-> secret.key, previous |-> secret.key - 1]
    BY <1>1, <1>2 DEF PreviousIsPredecessor
  <1>4. secret'.key = secret.key /\ secret'.previous = Unset
    BY <1>1, <1>2
  <1>5. secret' \in [key : 1..MaxKeys, previous : 0..MaxKeys]
    BY <1>1, <1>2, KeyAssumption DEF Unset
  <1>6. KTypeOK'
    BY <1>1, <1>5 DEF KTypeOK
  <1>7. PreviousIsPredecessor'
    BY <1>1, <1>3, <1>4 DEF PreviousIsPredecessor
  <1>8. EnvIsRecent'
    BY <1>1, <1>3, <1>4 DEF EnvIsRecent, Former
  <1>9. LiveKeys'
    <2> SUFFICES ASSUME NEW t \in signed
                 PROVE  /\ t.exp <= clock + Window
                        /\ t.exp > clock => t.kid = secret.key
      BY <1>1, <1>4 DEF LiveKeys
    <2>1. t.exp \in Nat /\ clock \in Nat /\ since \in Nat /\ Window \in Nat
      BY KeyAssumption DEF KTypeOK
    <2> QED
      BY <1>1, <2>1 DEF LiveKeys
  <1> QED
    BY <1>6, <1>7, <1>8, <1>9

LEMMA RestartKeepsInv ==
  ASSUME KInv, NEW r \in Replica, Restart(r)
  PROVE  KInv'
PROOF
  <1> USE DEF KInv
  <1>1. /\ env' = [env EXCEPT ![r] = secret]
        /\ UNCHANGED <<secret, stage, since, clock, signed>>
    BY DEF Restart
  <1>2. KTypeOK'
    BY <1>1 DEF KTypeOK
  <1>3. EnvIsRecent'
    BY <1>1 DEF EnvIsRecent, Former, KTypeOK
  <1>4. PreviousIsPredecessor' /\ LiveKeys'
    BY <1>1 DEF PreviousIsPredecessor, LiveKeys
  <1> QED
    BY <1>2, <1>3, <1>4

LEMMA TimeKeepsInv ==
  ASSUME KInv, TimePasses
  PROVE  KInv'
PROOF
  <1> USE DEF KInv
  <1>1. /\ clock' = clock + 1
        /\ UNCHANGED <<secret, env, stage, since, signed>>
    BY DEF TimePasses
  <1>2. KTypeOK'
    BY <1>1 DEF KTypeOK
  <1>3. EnvIsRecent' /\ PreviousIsPredecessor'
    BY <1>1 DEF EnvIsRecent, Former, PreviousIsPredecessor
  <1>4. LiveKeys'
    <2> SUFFICES ASSUME NEW t \in signed
                 PROVE  /\ t.exp <= clock + 1 + Window
                        /\ t.exp > clock + 1 =>
                             \/ t.kid = secret.key
                             \/ stage = "rolling" /\ t.kid = secret.key - 1
                             \/ /\ stage = "overlap" /\ t.kid = secret.key - 1
                                /\ t.exp <= since + Window
      BY <1>1 DEF LiveKeys
    <2>1. t.exp \in Nat /\ clock \in Nat /\ Window \in Nat
      BY KeyAssumption DEF KTypeOK
    <2> QED
      BY <2>1 DEF LiveKeys
  <1> QED
    BY <1>2, <1>3, <1>4

(* The invariant holds of every behaviour.                                  *)
THEOREM KeyInvariance == KSpec => []KInv
PROOF
  <1>1. KInit => KInv
    <2> SUFFICES ASSUME KInit PROVE KInv
      OBVIOUS
    <2>1. KTypeOK
      BY KeyAssumption DEF KInit, KTypeOK, Unset
    <2> QED
      BY <2>1 DEF KInit, KInv, PreviousIsPredecessor, EnvIsRecent, LiveKeys
  <1>2. KInv /\ [KNext]_kvars => KInv'
    <2> SUFFICES ASSUME KInv, [KNext]_kvars
                 PROVE  KInv'
      OBVIOUS
    <2>1. ASSUME NEW r \in Replica, SignAccess(r)
          PROVE  KInv'
      BY <2>1, SigningKeepsInv, LifetimesFitWindow DEF SignAccess
    <2>2. ASSUME NEW r \in Replica, SignExchanged(r)
          PROVE  KInv'
      BY <2>2, SigningKeepsInv, LifetimesFitWindow DEF SignExchanged
    <2>3. ASSUME NEW r \in Replica, Restart(r)
          PROVE  KInv'
      BY <2>3, RestartKeepsInv
    <2>4. CASE PutNewKey
      BY <2>4, PuttingKeepsInv
    <2>5. CASE RollComplete
      BY <2>5, CompletingKeepsInv
    <2>6. CASE RetirePrevious
      BY <2>6, RetiringKeepsInv
    <2>7. CASE TimePasses
      BY <2>7, TimeKeepsInv
    <2>8. CASE UNCHANGED kvars
      BY <2>8 DEF kvars, KInv, KTypeOK, PreviousIsPredecessor, EnvIsRecent, Former,
                  LiveKeys
    <2> QED
      BY <2>1, <2>2, <2>3, <2>4, <2>5, <2>6, <2>7, <2>8 DEF KNext
  <1> QED
    BY <1>1, <1>2, PTL DEF KSpec

(* Type correctness: keys stay within their generations.                    *)
THEOREM KeyTypes == KSpec => []KTypeOK
PROOF
  BY KeyInvariance, PTL DEF KInv

(* A token verifies at every replica until it expires, through every         *)
(* rotation, save for a token of the new key at a replica that is still to   *)
(* restart (endpoints.py jwks, keys.py build_jwks_document).                 *)
THEOREM RotationSparesTokens == KSpec => []TokensVerifyUntilExpiry
PROOF
  <1>1. KInv => TokensVerifyUntilExpiry
    <2> SUFFICES ASSUME KInv, NEW t \in signed, t.exp > clock,
                        ~(stage = "rolling" /\ t.kid = secret.key),
                        NEW r \in Replica
                 PROVE  t.kid \in build_jwks_document(r)
      BY DEF TokensVerifyUntilExpiry
    <2> USE DEF KInv
    <2>1. secret \in [key : 1..MaxKeys, previous : 0..MaxKeys]
      BY DEF KTypeOK
    <2>2. stage \in {"steady", "rolling", "overlap", "retiring"}
      BY DEF KTypeOK
    <2>3. CASE env[r] = secret
      <3>1. t.kid = secret.key \/ (t.kid = secret.key - 1 /\ t.kid = secret.previous)
        BY <2>1 DEF LiveKeys, PreviousIsPredecessor
      <3>2. secret.key # Unset
        BY <2>1 DEF Unset
      <3>3. t.kid # Unset
        BY DEF KTypeOK, Unset
      <3> QED
        BY <2>3, <3>1, <3>2, <3>3 DEF build_jwks_document
    <2>4. CASE stage = "rolling" /\ env[r] = Former
      BY <2>1, <2>4 DEF LiveKeys, build_jwks_document, Former, PreviousIsPredecessor,
                        Unset
    <2>5. CASE stage = "retiring" /\ env[r] = Former
      BY <2>1, <2>5 DEF LiveKeys, build_jwks_document, Former, Unset
    <2> QED
      BY <2>3, <2>4, <2>5 DEF EnvIsRecent
  <1> QED
    BY <1>1, KeyInvariance, PTL
=============================================================================
