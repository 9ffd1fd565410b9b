---------------------------- MODULE RefreshTxProofs ----------------------------
(***************************************************************************)
(* Proofs about RefreshTx, for any number of replicas, operators, users    *)
(* and tokens: the committed table keeps the contract of one transaction   *)
(* at a time, although the statements of several overlap.                  *)
(*                                                                         *)
(* A transaction may rely on what it has locked, because nobody else       *)
(* writes it, and on the successor it has read as long as that is live,    *)
(* because whoever moves the row's successor on retires the old one.       *)
(***************************************************************************)
EXTENDS RefreshTx, TLAPS

Birth == [root : Token, parent : Token \cup {None}]
Row == [user : User, revoked : BOOLEAN, next : Minted \cup {None}]

Shape ==
    /\ born \in Seq(Birth) /\ Minted \subseteq Token
    /\ \A t \in Minted : born[t].root \in Minted
    /\ DOMAIN rows \subseteq Minted
    /\ \A t \in DOMAIN rows : rows[t] \in Row
    /\ stale \in 0 .. Len(born)
    /\ killed \subseteq Minted

Lineage ==
    \A t \in Minted :
        \/ born[t].parent = None /\ born[t].root = t
        \/ /\ born[t].parent \in Minted /\ born[t].parent < t
           /\ born[born[t].parent].root = born[t].root

SuccessorIsChild ==
    \A t \in DOMAIN rows : rows[t].next # None =>
        born[rows[t].next].parent = t /\ ~Live(t)

OneLivePerFamily ==
    \A s, t \in DOMAIN rows :
        Live(s) /\ Live(t) /\ born[s].root = born[t].root => s = t

(* The committed table.                                                    *)
Table == Shape /\ Lineage /\ SuccessorIsChild /\ OneLivePerFamily

(* The variables of the transactions.                                      *)
Presenting == {"revoke", "refuse", "mint", "read", "retire", "regrant"}

Procs ==
    /\ lock \in [Token -> Proc \cup {None}]
    /\ pc \in [Proc -> Presenting \cup {"idle", "issue", "revokeAll", "prune"}]
    /\ \A p \in Replica : pc[p] \notin {"revokeAll", "prune"}
    /\ \A p \in Operator : pc[p] \in {"idle", "revokeAll", "prune"}
    /\ DOMAIN tok = Proc /\ DOMAIN succ = Proc /\ DOMAIN todo = Proc
    /\ asked \in [Proc -> SUBSET Minted]

(* A replica's locks are that of the UPDATE it has run and those of the    *)
(* stale rows its sweep has deleted.                                       *)
HasWritten(p, t) ==
    \/ pc[p] \in {"refuse", "mint"} /\ t = tok[p]
    \/ pc[p] = "regrant" /\ t = succ[p]

HoldsItsWrites(p) ==
    \A t \in Token :
        /\ HasWritten(p, t) => lock[t] = p
        /\ lock[t] = p => HasWritten(p, t) \/ (pc[p] \in Minting /\ t <= stale)

(* What a replica's sweep has yet to visit is stale.                       *)
SweepsStale(p) ==
    /\ todo[p] \subseteq 1 .. stale
    /\ pc[p] \notin Minting => todo[p] = {}

(* What a replica has written is still there; a stale row was so from the  *)
(* start, and its token is refused.                                        *)
WritesAreLive(p) ==
    /\ pc[p] \in Presenting => tok[p] \in Minted
    /\ pc[p] = "refuse" => tok[p] <= stale \/ Live(tok[p])
    /\ pc[p] = "mint" => tok[p] > stale /\ Live(tok[p])
    /\ pc[p] = "regrant" => Live(succ[p])

(* The successor a replica has read is the row's, as long as it is live.   *)
ReadIsCurrent(p) ==
    pc[p] \in {"retire", "regrant"} =>
        /\ succ[p] \in Minted /\ born[succ[p]].parent = tok[p]
        /\ tok[p] > stale /\ ~Live(tok[p])
        /\ tok[p] \in DOMAIN rows /\ Live(succ[p]) => rows[tok[p]].next = succ[p]

Hand(p) == HoldsItsWrites(p) /\ SweepsStale(p) /\ WritesAreLive(p) /\ ReadIsCurrent(p)

TxInv == Table /\ Procs /\ \A p \in Replica : Hand(p)

(* None is no number, hence no token.                                      *)
LEMMA NoneIsNoToken == None \notin Token /\ None \notin Minted /\ None \notin Proc
BY TxAssumption DEF Token, Minted, Proc

-----------------------------------------------------------------------------
(* The committed table: what a commit that mints does to it, for a token t *)
(* presented and the live token l of its family, and what every step that  *)
(* mints nothing does.                                                     *)

KeepsUnstale ==
    /\ Fresh \in DOMAIN rows' /\ DOMAIN rows' \subseteq DOMAIN rows \cup {Fresh}
    /\ \A y \in DOMAIN rows : y > stale => y \in DOMAIN rows'

MintsAfter(t, l) ==
    /\ t \in DOMAIN rows /\ t > stale /\ Live(l)
    /\ l = t \/ (~Live(t) /\ rows[t].next = l)
    /\ Fresh \in Token
    /\ born' = Append(born, [root |-> born[t].root, parent |-> t])
    /\ KeepsUnstale /\ rows'[Fresh] = NewRow(rows[t].user)
    /\ \A x \in DOMAIN rows' \ {Fresh} :
          /\ rows'[x] \in [user : User, revoked : BOOLEAN, next : Token \cup {None}]
          /\ rows'[x].user = rows[x].user
          /\ x = l => rows'[x].revoked
          /\ x # l => rows'[x].revoked = rows[x].revoked
          /\ x = t => rows'[x].next = Fresh
          /\ x # t => rows'[x].next = rows[x].next
    /\ UNCHANGED <<stale, killed>>

IssuesAfter(u) ==
    /\ Fresh \in Token
    /\ born' = Append(born, [root |-> Fresh, parent |-> None])
    /\ KeepsUnstale /\ rows'[Fresh] = NewRow(u)
    /\ \A x \in DOMAIN rows' \ {Fresh} : rows'[x] = rows[x]
    /\ UNCHANGED <<stale, killed>>

Loses ==
    /\ DOMAIN rows' \subseteq DOMAIN rows
    /\ \A x \in DOMAIN rows' :
          /\ rows'[x].user = rows[x].user /\ rows'[x].next = rows[x].next
          /\ rows'[x] \in Row
    /\ \A x : Live(x)' => Live(x)
    /\ stale' \in 0 .. Len(born) /\ killed' \subseteq Minted
    /\ born' = born

(* What a fresh token is: newer than every other, and named by no row.     *)
LEMMA FreshIsNew ==
    ASSUME Table, Fresh \in Token, NEW b \in Birth, born' = Append(born, b)
    PROVE  /\ Fresh \notin Minted /\ Fresh \notin DOMAIN rows /\ Fresh # None
           /\ Minted' = Minted \cup {Fresh} /\ \A x \in Minted : x < Fresh
           /\ Len(born') = Len(born) + 1
           /\ \A x \in Minted : born'[x] = born[x] /\ born[x].root # Fresh
           /\ born'[Fresh] = b /\ born' \in Seq(Birth)
           /\ \A x \in DOMAIN rows : rows[x].next # Fresh
<1>1. /\ born \in Seq(Birth) /\ \A t \in Minted : born[t].root \in Minted
      /\ DOMAIN rows \subseteq Minted /\ \A t \in DOMAIN rows : rows[t].next \in Minted \cup {None}
  BY DEF Table, Shape, Row
<1>2. Len(born) \in Nat
  BY <1>1
<1>3. Fresh \notin Minted /\ \A x \in Minted : x < Fresh
  BY <1>2 DEF Fresh, Minted
<1>4. Fresh # None
  BY NoneIsNoToken
<1>5. /\ Len(born') = Len(born) + 1 /\ born' \in Seq(Birth) /\ born'[Fresh] = b
      /\ \A x \in Minted : born'[x] = born[x]
  BY <1>1 DEF Fresh, Minted
<1>6. Minted' = Minted \cup {Fresh}
  BY <1>2, <1>5 DEF Fresh, Minted
<1> QED BY <1>1, <1>3, <1>4, <1>5, <1>6

(* What a step that mints nothing leaves is still a table.                 *)
LEMMA LosingIsSafe == Table /\ Loses => Table'
<1> SUFFICES ASSUME Table, Loses PROVE Table'
  OBVIOUS
<1>1. Minted' = Minted
  BY DEF Loses, Minted
<1>2. Shape'
  BY <1>1 DEF Table, Shape, Loses, Row
<1>3. Lineage'
  BY <1>1 DEF Table, Lineage, Loses
<1>4. SuccessorIsChild'
  BY DEF Table, SuccessorIsChild, Loses
<1>5. OneLivePerFamily'
  BY DEF Table, OneLivePerFamily, Loses
<1> QED BY <1>2, <1>3, <1>4, <1>5 DEF Table

(* A sign-in starts a family of one row.                                   *)
LEMMA SigningInIsSafe ==
    ASSUME Table, NEW u \in User, IssuesAfter(u)
    PROVE  Table'
<1>0. PICK n : n = Fresh
  OBVIOUS
<1>1. n \in Token /\ born' = Append(born, [root |-> n, parent |-> None])
  BY <1>0 DEF IssuesAfter, KeepsUnstale
<1>2. [root |-> n, parent |-> None] \in Birth
  BY <1>1 DEF Birth
<1>3. /\ n \notin Minted /\ n \notin DOMAIN rows /\ n # None
      /\ Minted' = Minted \cup {n}
      /\ Len(born') = Len(born) + 1
      /\ \A x \in Minted : born'[x] = born[x] /\ born[x].root # n
      /\ born'[n] = [root |-> n, parent |-> None] /\ born' \in Seq(Birth)
      /\ \A x \in DOMAIN rows : rows[x].next # n
  BY <1>0, <1>1, <1>2, FreshIsNew
<1>4. /\ n \in DOMAIN rows' /\ DOMAIN rows' \subseteq DOMAIN rows \cup {n}
      /\ \A y \in DOMAIN rows : y > stale => y \in DOMAIN rows'
      /\ rows'[n] = NewRow(u)
      /\ \A x \in DOMAIN rows' \ {n} : x \in DOMAIN rows /\ rows'[x] = rows[x]
      /\ stale' = stale /\ killed' = killed
  BY <1>0 DEF IssuesAfter, KeepsUnstale
<1>5. /\ born \in Seq(Birth) /\ Minted \subseteq Token
      /\ DOMAIN rows \subseteq Minted
      /\ \A t \in DOMAIN rows : rows[t] \in Row
      /\ stale \in 0 .. Len(born) /\ killed \subseteq Minted
      /\ \A t \in Minted : born[t].root \in Minted
  BY DEF Table, Shape
<1>6. Shape'
  <2>1. \A t \in DOMAIN rows' : rows'[t] \in Row'
    <3>1. rows'[n] \in Row'
      BY <1>4 DEF Row, NewRow
    <3>2. ASSUME NEW x \in DOMAIN rows' \ {n} PROVE rows'[x] \in Row'
      BY <1>3, <1>4, <1>5 DEF Row
    <3> QED BY <3>1, <3>2
  <2>2. stale' \in 0 .. Len(born')
    BY <1>3, <1>4, <1>5
  <2>3. \A t \in Minted' : born'[t].root \in Minted'
    BY <1>3, <1>5
  <2> QED BY <2>1, <2>2, <2>3, <1>1, <1>3, <1>4, <1>5 DEF Shape
<1>7. Lineage'
  BY <1>3 DEF Table, Lineage
<1>8. SuccessorIsChild'
  <2> SUFFICES ASSUME NEW t \in DOMAIN rows', rows'[t].next # None
               PROVE  born'[rows'[t].next].parent = t /\ ~Live(t)'
    BY DEF SuccessorIsChild
  <2>1. t # n
    BY <1>4 DEF NewRow
  <2>2. t \in DOMAIN rows /\ rows'[t] = rows[t] /\ rows[t].next \in Minted
    BY <2>1, <1>4, <1>5 DEF Row
  <2> QED BY <2>2, <1>3 DEF Table, SuccessorIsChild, Live
<1>9. OneLivePerFamily'
  BY <1>3, <1>4, <1>5 DEF Table, OneLivePerFamily, Live
<1> QED BY <1>6, <1>7, <1>8, <1>9 DEF Table

(* A mint inside a family leaves it one live row, the fresh one.           *)
LEMMA MintingIsSafe ==
    ASSUME Table, NEW t, NEW l, MintsAfter(t, l)
    PROVE  Table'
<1>0. PICK n : n = Fresh
  OBVIOUS
<1>1. PICK b : b = [root |-> born[t].root, parent |-> t]
  OBVIOUS
<1>2. /\ born \in Seq(Birth) /\ Minted \subseteq Token
      /\ DOMAIN rows \subseteq Minted
      /\ \A x \in DOMAIN rows : rows[x] \in Row
      /\ stale \in 0 .. Len(born) /\ killed \subseteq Minted
      /\ \A x \in Minted : born[x].root \in Minted
      /\ t \in Minted /\ t \in DOMAIN rows /\ l \in DOMAIN rows /\ Live(l)
  BY DEF Table, Shape, MintsAfter, Live
<1>3. b \in Birth
  BY <1>1, <1>2 DEF Birth
<1>4. /\ n \notin Minted /\ n \notin DOMAIN rows /\ n # None /\ n \in Token
      /\ Minted' = Minted \cup {n} /\ \A x \in Minted : x < n
      /\ Len(born') = Len(born) + 1
      /\ \A x \in Minted : born'[x] = born[x] /\ born[x].root # n
      /\ born'[n] = b /\ born' \in Seq(Birth)
      /\ \A x \in DOMAIN rows : rows[x].next # n
  BY <1>0, <1>1, <1>3, FreshIsNew DEF MintsAfter
<1>5. /\ n \in DOMAIN rows' /\ DOMAIN rows' \subseteq DOMAIN rows \cup {n}
      /\ \A y \in DOMAIN rows : y > stale => y \in DOMAIN rows'
      /\ rows'[n] = NewRow(rows[t].user)
      /\ \A x \in DOMAIN rows' \ {n} :
            /\ x \in DOMAIN rows
            /\ rows'[x] \in [user : User, revoked : BOOLEAN, next : Token \cup {None}]
            /\ rows'[x].user = rows[x].user
            /\ x = l => rows'[x].revoked
            /\ x # l => rows'[x].revoked = rows[x].revoked
            /\ x = t => rows'[x].next = n
            /\ x # t => rows'[x].next = rows[x].next
      /\ stale' = stale /\ killed' = killed
  BY <1>0 DEF MintsAfter, KeepsUnstale
<1>6. born[l].root = born[t].root
  <2>1. CASE l = t
    BY <2>1
  <2>2. CASE l # t
    <3>1. rows[t].next = l /\ l # None
      BY <2>2, <1>2, NoneIsNoToken DEF MintsAfter
    <3>2. born[l].parent = t
      BY <3>1, <1>2 DEF Table, SuccessorIsChild
    <3>3. l \in Minted
      BY <1>2
    <3>4. t # None
      BY <1>2, NoneIsNoToken
    <3> QED BY <3>2, <3>3, <3>4 DEF Table, Lineage
  <2> QED BY <2>1, <2>2
<1>7. \A x : Live(x)' => x = n \/ (Live(x) /\ x # l)
  <2> SUFFICES ASSUME NEW x, Live(x)', x # n PROVE Live(x) /\ x # l
    OBVIOUS
  <2>1. x \in DOMAIN rows' \ {n} /\ ~rows'[x].revoked
    BY DEF Live
  <2>2. x # l /\ x \in DOMAIN rows /\ rows'[x].revoked = rows[x].revoked
    BY <2>1, <1>5
  <2> QED BY <2>1, <2>2 DEF Live
<1>8. Shape'
  <2>1. \A x \in DOMAIN rows' : rows'[x] \in Row'
    <3>1. rows'[n] \in Row'
      BY <1>2, <1>5 DEF Row, NewRow
    <3>2. ASSUME NEW x \in DOMAIN rows' \ {n} PROVE rows'[x] \in Row'
      <4>1. rows[x].next \in Minted \cup {None} /\ rows'[x].next \in {n, rows[x].next}
        BY <1>2, <1>5 DEF Row
      <4> QED BY <4>1, <1>4, <1>5 DEF Row
    <3> QED BY <3>1, <3>2
  <2>2. stale' \in 0 .. Len(born')
    BY <1>2, <1>4, <1>5
  <2>3. \A x \in Minted' : born'[x].root \in Minted'
    BY <1>1, <1>2, <1>4
  <2> QED BY <2>1, <2>2, <2>3, <1>2, <1>4, <1>5 DEF Shape
<1>9. Lineage'
  <2>1. ASSUME NEW x \in Minted
        PROVE  \/ born'[x].parent = None /\ born'[x].root = x
               \/ /\ born'[x].parent \in Minted' /\ born'[x].parent < x
                  /\ born'[born'[x].parent].root = born'[x].root
    BY <1>4 DEF Table, Lineage
  <2>2. /\ born'[n].parent \in Minted' /\ born'[n].parent < n
        /\ born'[born'[n].parent].root = born'[n].root
    BY <1>1, <1>2, <1>4
  <2> QED BY <2>1, <2>2, <1>4 DEF Lineage
<1>10. SuccessorIsChild'
  <2> SUFFICES ASSUME NEW x \in DOMAIN rows', rows'[x].next # None
               PROVE  born'[rows'[x].next].parent = x /\ ~Live(x)'
    BY DEF SuccessorIsChild
  <2>1. x # n /\ x \in DOMAIN rows
    BY <1>5 DEF NewRow
  <2>2. CASE x = t
    <3>1. rows'[x].next = n /\ born'[n].parent = t
      BY <2>1, <2>2, <1>1, <1>4, <1>5
    <3>2. ~Live(t)'
      BY <1>4, <1>7, <1>2, <2>1, <2>2 DEF MintsAfter
    <3> QED BY <3>1, <3>2, <2>2
  <2>3. CASE x # t
    <3>1. rows'[x].next = rows[x].next /\ rows[x].next \in Minted
      BY <2>1, <2>3, <1>2, <1>5 DEF Row
    <3> QED BY <3>1, <2>1, <1>4, <1>7 DEF Table, SuccessorIsChild
  <2> QED BY <2>2, <2>3
<1>11. OneLivePerFamily'
  <2> SUFFICES ASSUME NEW x \in DOMAIN rows', NEW y \in DOMAIN rows',
                      Live(x)', Live(y)', born'[x].root = born'[y].root
               PROVE  x = y
    BY DEF OneLivePerFamily
  <2>1. \A z : Live(z)' /\ z # n => /\ Live(z) /\ z # l /\ z \in DOMAIN rows
                                    /\ born'[z].root = born[z].root
                                    /\ born[z].root # born[t].root
    <3> SUFFICES ASSUME NEW z, Live(z)', z # n
                 PROVE  /\ Live(z) /\ z # l /\ z \in DOMAIN rows
                        /\ born'[z].root = born[z].root
                        /\ born[z].root # born[t].root
      OBVIOUS
    <3>1. Live(z) /\ z # l /\ z \in DOMAIN rows /\ z \in Minted
      BY <1>7, <1>2 DEF Live
    <3> QED BY <3>1, <1>2, <1>4, <1>6 DEF Table, OneLivePerFamily
  <2>2. born'[n].root = born[t].root
    BY <1>1, <1>4
  <2> QED BY <2>1, <2>2 DEF Table, OneLivePerFamily
<1> QED BY <1>8, <1>9, <1>10, <1>11 DEF Table

-----------------------------------------------------------------------------
(* What another's step leaves of a replica's hold: its own variables and   *)
(* locks, the rows it has written, and the successor it has read as long   *)
(* as that is live.                                                        *)

Unmoved(p) ==
    /\ pc'[p] = pc[p] /\ tok'[p] = tok[p] /\ succ'[p] = succ[p] /\ todo'[p] = todo[p]
    /\ \A t \in Token : lock'[t] = p <=> lock[t] = p

SparesRowsOf(p) ==
    /\ Minted \subseteq Minted' /\ \A x \in Minted : born'[x] = born[x]
    /\ \A x \in Minted : Live(x)' => Live(x)
    /\ \A x \in Minted : Live(x) /\ lock[x] = p => Live(x)' \/ x <= stale
    /\ \A t \in DOMAIN rows' \cap Minted :
          /\ t \in DOMAIN rows
          /\ \A x : rows[t].next = x => rows'[t].next = x \/ Live(t) \/ ~Live(x)'
    /\ \/ stale' = stale
       \/ stale' = stale + 1 /\ stale' # tok[p]

(* A replica's hold survives the steps of others.                          *)
LEMMA OthersSpareHand ==
    ASSUME Table, NEW p \in Replica, Hand(p), Unmoved(p), SparesRowsOf(p)
    PROVE  Hand(p)'
<1>0. PICK t, l : t = tok[p] /\ l = succ[p]
  OBVIOUS
<1>1. /\ Minted \subseteq Token /\ Minted \subseteq Nat /\ stale \in Nat
      /\ DOMAIN rows \subseteq Minted
      /\ pc'[p] = pc[p] /\ tok'[p] = t /\ succ'[p] = l
  BY <1>0 DEF Table, Shape, Minted, Token, Unmoved
<1>2. HoldsItsWrites(p)' /\ SweepsStale(p)'
  <2>1. stale' \in Nat /\ stale <= stale'
    BY <1>1 DEF SparesRowsOf
  <2>2. HoldsItsWrites(p)'
    BY <1>1, <2>1 DEF Token, Hand, HoldsItsWrites, HasWritten, Unmoved
  <2>3. SweepsStale(p)'
    BY <1>1, <2>1 DEF Hand, SweepsStale, Unmoved
  <2> QED BY <2>2, <2>3
<1>3. ASSUME pc[p] \in {"retire", "regrant"}
      PROVE  /\ l \in Minted /\ t \in Minted /\ born[l].parent = t /\ l > stale /\ t > stale
             /\ ~Live(t) /\ (t \in DOMAIN rows /\ Live(l) => rows[t].next = l)
  <2>1. /\ l \in Minted /\ born[l].parent = t /\ t \in Minted /\ t > stale
        /\ ~Live(t) /\ (t \in DOMAIN rows /\ Live(l) => rows[t].next = l)
    BY <1>0, <1>3 DEF Hand, ReadIsCurrent, WritesAreLive, Presenting
  <2>2. t < l
    BY <2>1, NoneIsNoToken DEF Table, Lineage
  <2> QED BY <2>1, <2>2, <1>1
<1>4. WritesAreLive(p)'
  <2>1. pc[p] \in Presenting => t \in Minted /\ t \in Minted'
    BY <1>0 DEF Hand, WritesAreLive, SparesRowsOf
  <2>2. ASSUME pc[p] \in {"refuse", "mint"}
        PROVE  /\ t <= stale' \/ Live(t)'
               /\ t > stale => t > stale' /\ Live(t)'
    <3>1. t \in Minted /\ t \in Nat /\ lock[t] = p
      BY <2>1, <2>2, <1>0, <1>1 DEF Hand, HoldsItsWrites, HasWritten, Presenting
    <3>2. t <= stale \/ Live(t)
      BY <2>2, <1>0 DEF Hand, WritesAreLive
    <3>3. t <= stale \/ Live(t)'
      BY <3>1, <3>2 DEF SparesRowsOf
    <3>4. stale' \in Nat /\ (t <= stale => t <= stale') /\ (t > stale => t > stale')
      BY <3>1, <1>0, <1>1 DEF SparesRowsOf
    <3> QED BY <3>1, <3>3, <3>4, <1>1
  <2>3. ASSUME pc[p] = "regrant" PROVE Live(l)'
    <3>1. l \in Minted /\ l > stale
      BY <1>3, <2>3
    <3>2. lock[l] = p /\ Live(l)
      BY <2>3, <3>1, <1>0, <1>1 DEF Hand, HoldsItsWrites, HasWritten, WritesAreLive
    <3>3. Live(l)' \/ l <= stale
      BY <3>1, <3>2 DEF SparesRowsOf
    <3>4. l \in Nat
      BY <3>1, <1>1
    <3> QED BY <3>1, <3>3, <3>4, <1>1
  <2>4. pc[p] = "mint" => t > stale
    BY <1>0 DEF Hand, WritesAreLive
  <2> QED BY <2>1, <2>2, <2>3, <2>4, <1>1 DEF WritesAreLive, Live
<1>5. ReadIsCurrent(p)'
  <2> SUFFICES ASSUME pc[p] \in {"retire", "regrant"}
               PROVE  /\ l \in Minted' /\ born'[l].parent = t
                      /\ t > stale' /\ ~Live(t)'
                      /\ t \in DOMAIN rows' /\ Live(l)' => rows'[t].next = l
    BY <1>1 DEF ReadIsCurrent, Live
  <2>1. /\ l \in Minted /\ t \in Minted /\ born[l].parent = t /\ t > stale
        /\ ~Live(t) /\ (t \in DOMAIN rows /\ Live(l) => rows[t].next = l)
    BY <1>3
  <2>2. l \in Minted' /\ born'[l].parent = t
    BY <2>1 DEF SparesRowsOf
  <2>3. t > stale'
    BY <2>1, <1>0, <1>1 DEF SparesRowsOf
  <2>4. ~Live(t)'
    BY <2>1 DEF SparesRowsOf
  <2>5. t \in DOMAIN rows' /\ Live(l)' => rows'[t].next = l
    BY <2>1 DEF SparesRowsOf
  <2> QED BY <2>2, <2>3, <2>4, <2>5
<1> QED BY <1>2, <1>4, <1>5 DEF Hand

(* The variables of the others when one transaction ends: it frees its own *)
(* locks and nobody else's.                                                *)
LEMMA EndingSparesOthers ==
    ASSUME Procs, NEW q \in Proc, End(q), NEW p \in Replica \ {q}
    PROVE  Unmoved(p)
<1>1. p \in Proc /\ None # p
  BY NoneIsNoToken DEF Proc
<1>2. /\ pc'[p] = pc[p] /\ tok'[p] = tok[p] /\ succ'[p] = succ[p]
      /\ todo'[p] = todo[p]
  BY <1>1 DEF End, Goto, Procs
<1>3. ASSUME NEW t \in Token PROVE lock'[t] = p <=> lock[t] = p
  BY <1>1 DEF End, Release
<1> QED BY <1>2, <1>3 DEF Unmoved

(* A transaction that has ended holds nothing.                             *)
LEMMA EndingEmptiesHand ==
    ASSUME Procs, NEW p \in Replica, End(p)
    PROVE  Hand(p)'
<1>1. p \in Proc /\ None # p
  BY NoneIsNoToken DEF Proc
<1>2. pc'[p] = "idle" /\ todo'[p] = {}
  BY <1>1 DEF End, Goto, Procs
<1>3. \A t \in Token : lock'[t] # p
  BY <1>1 DEF End, Release
<1> QED BY <1>2, <1>3 DEF Hand, HoldsItsWrites, HasWritten, Minting, SweepsStale,
     WritesAreLive, Presenting, ReadIsCurrent

(* The variables keep their types when a transaction ends.                 *)
LEMMA EndingKeepsTypes ==
    ASSUME Procs, NEW p \in Proc, End(p), Minted \subseteq Minted'
    PROVE  Procs'
<1>1. lock' \in [Token -> Proc \cup {None}]
  <2>1. \A t \in Token : lock[t] \in Proc \cup {None}
    BY DEF Procs
  <2> QED BY <2>1 DEF End, Release
<1>2. pc' \in [Proc -> Presenting \cup {"idle", "issue", "revokeAll", "prune"}]
  BY DEF Procs, End, Goto
<1>3. /\ \A q \in Replica : pc'[q] \notin {"revokeAll", "prune"}
      /\ \A q \in Operator : pc'[q] \in {"idle", "revokeAll", "prune"}
  BY DEF Procs, End, Goto, Proc
<1>4. DOMAIN tok' = Proc /\ DOMAIN succ' = Proc /\ DOMAIN todo' = Proc
  BY DEF Procs, End
<1>5. asked' \in [Proc -> SUBSET Minted']
  <2>1. asked \in [Proc -> SUBSET Minted'] /\ {} \in SUBSET Minted'
    BY DEF Procs
  <2> QED BY <2>1 DEF End
<1> QED BY <1>1, <1>2, <1>3, <1>4, <1>5 DEF Procs

(* A step that changes no row spares every replica's.                      *)
LEMMA SameRowsSpared ==
    ASSUME UNCHANGED <<rows, born, stale>>, Table, NEW p \in Replica
    PROVE  SparesRowsOf(p)
BY DEF SparesRowsOf, Minted, Live

(* A mint spares the rows of everybody but the one who holds l.            *)
LEMMA MintingSparesOthers ==
    ASSUME Table, NEW t, NEW l, MintsAfter(t, l), NEW p \in Replica, lock[l] # p
    PROVE  SparesRowsOf(p)
<1>0. PICK n : n = Fresh
  OBVIOUS
<1>1. PICK b : b = [root |-> born[t].root, parent |-> t]
  OBVIOUS
<1>2. t \in Minted /\ DOMAIN rows \subseteq Minted /\ stale \in Nat /\ Minted \subseteq Nat
  BY DEF Table, Shape, MintsAfter, Minted
<1>3. b \in Birth
  BY <1>1, <1>2 DEF Birth, Table, Shape
<1>4. /\ n \notin Minted /\ Minted' = Minted \cup {n}
      /\ \A x \in Minted : born'[x] = born[x]
  BY <1>0, <1>1, <1>3, FreshIsNew DEF MintsAfter
<1>5. /\ n \in DOMAIN rows' /\ DOMAIN rows' \subseteq DOMAIN rows \cup {n}
      /\ \A y \in DOMAIN rows : y > stale => y \in DOMAIN rows'
      /\ \A x \in DOMAIN rows' \ {n} :
            /\ x \in DOMAIN rows
            /\ x = l => rows'[x].revoked
            /\ x # l => rows'[x].revoked = rows[x].revoked
            /\ x # t => rows'[x].next = rows[x].next
      /\ stale' = stale
  BY <1>0 DEF MintsAfter, KeepsUnstale
<1>6. ASSUME NEW x \in Minted, Live(x)' PROVE Live(x) /\ x # l
  <2>1. x \in DOMAIN rows' \ {n} /\ ~rows'[x].revoked
    BY <1>4, <1>6 DEF Live
  <2> QED BY <2>1, <1>5 DEF Live
<1>7. ASSUME NEW x \in Minted, Live(x), lock[x] = p PROVE Live(x)' \/ x <= stale
  <2>1. x \in DOMAIN rows /\ ~rows[x].revoked /\ x # l /\ x # n
    BY <1>7, <1>4 DEF Live
  <2>2. CASE x > stale
    BY <2>1, <2>2, <1>5 DEF Live
  <2> QED BY <2>2, <1>2
<1>8. ASSUME NEW x \in DOMAIN rows' \cap Minted
      PROVE  /\ x \in DOMAIN rows
             /\ \A y : rows[x].next = y => rows'[x].next = y \/ Live(x) \/ ~Live(y)'
  <2>1. x \in DOMAIN rows /\ (x # t => rows'[x].next = rows[x].next)
    BY <1>4, <1>5
  <2>2. CASE x = t
    <3>1. Live(t) \/ (rows[t].next = l /\ l \in DOMAIN rows)
      BY DEF MintsAfter, Live
    <3>2. l \in DOMAIN rows => ~Live(l)'
      BY <1>2, <1>6
    <3> QED BY <2>1, <2>2, <3>1, <3>2
  <2> QED BY <2>1, <2>2
<1> QED BY <1>4, <1>5, <1>6, <1>7, <1>8 DEF SparesRowsOf

(* A sign-in spares everybody's rows.                                      *)
LEMMA SigningInSpares ==
    ASSUME Table, NEW u \in User, IssuesAfter(u), NEW p \in Replica
    PROVE  SparesRowsOf(p)
<1>0. PICK n : n = Fresh
  OBVIOUS
<1>1. n \in Token /\ born' = Append(born, [root |-> n, parent |-> None])
  BY <1>0 DEF IssuesAfter, KeepsUnstale
<1>2. [root |-> n, parent |-> None] \in Birth
  BY <1>1 DEF Birth
<1>3. n \notin Minted /\ Minted' = Minted \cup {n} /\ \A x \in Minted : born'[x] = born[x]
  BY <1>0, <1>1, <1>2, FreshIsNew
<1>4. /\ n \in DOMAIN rows' /\ DOMAIN rows' \subseteq DOMAIN rows \cup {n}
      /\ \A y \in DOMAIN rows : y > stale => y \in DOMAIN rows'
      /\ \A x \in DOMAIN rows' \ {n} : x \in DOMAIN rows /\ rows'[x] = rows[x]
      /\ stale' = stale
  BY <1>0 DEF IssuesAfter, KeepsUnstale
<1>5. stale \in Nat /\ Minted \subseteq Nat
  BY DEF Table, Shape, Minted
<1> QED BY <1>3, <1>4, <1>5 DEF SparesRowsOf, Live

-----------------------------------------------------------------------------
(* Every statement keeps the invariant.                                    *)

(* A step that ends transaction p keeps the invariant if it leaves a table *)
(* and spares the rows of the other replicas.                              *)
LEMMA EndingIsSafe ==
    ASSUME TxInv, NEW p \in Proc, End(p), Table', Minted \subseteq Minted',
           \A r \in Replica \ {p} : SparesRowsOf(r)
    PROVE  TxInv'
<1>1. Procs'
  BY EndingKeepsTypes DEF TxInv
<1>2. ASSUME NEW r \in Replica PROVE Hand(r)'
  <2>1. CASE r = p
    BY <2>1, EndingEmptiesHand DEF TxInv
  <2>2. CASE r # p
    BY <2>2, EndingSparesOthers, OthersSpareHand DEF TxInv
  <2> QED BY <2>1, <2>2
<1> QED BY <1>1, <1>2 DEF TxInv

(* A step of p that changes no row and keeps p's transaction going keeps   *)
(* the invariant if the variables keep their types, p's hold is right and  *)
(* it touches nobody else's variables or locks.                            *)
LEMMA GoingOnIsSafe ==
    ASSUME TxInv, NEW p \in Proc, UNCHANGED <<rows, born, stale, killed>>,
           Procs', p \in Replica => Hand(p)', \A r \in Replica \ {p} : Unmoved(r)
    PROVE  TxInv'
<1>1. Table'
  <2>1. Loses
    BY DEF Loses, Live, Minted, TxInv, Table, Shape
  <2> QED BY <2>1, LosingIsSafe DEF TxInv
<1>2. ASSUME NEW r \in Replica \ {p} PROVE Hand(r)'
  BY <1>2, SameRowsSpared, OthersSpareHand DEF TxInv
<1> QED BY <1>1, <1>2 DEF TxInv

(* A rollback changes no row.                                              *)
LEMMA RollingBackIsSafe ==
    ASSUME TxInv, NEW p \in Proc, Rollback(p)
    PROVE  TxInv'
<1>1. End(p) /\ UNCHANGED <<rows, born, stale, killed>>
  BY DEF Rollback
<1>2. Loses
  BY <1>1 DEF Loses, Live, Minted, TxInv, Table, Shape
<1>3. Table' /\ Minted' = Minted
  BY <1>1, <1>2, LosingIsSafe DEF TxInv, Minted
<1>4. \A r \in Replica \ {p} : SparesRowsOf(r)
  BY <1>1, SameRowsSpared DEF TxInv
<1> QED BY <1>1, <1>3, <1>4, EndingIsSafe

(* Presenting a token writes nothing yet.                                  *)
LEMMA PresentingIsSafe ==
    ASSUME TxInv, NEW p \in Replica, NEW t \in Minted, Present(p, t)
    PROVE  TxInv'
<1>1. p \in Proc /\ UNCHANGED <<rows, born, stale, killed, lock, succ, todo, asked>>
  BY DEF Present, Proc
<1>2. pc[p] = "idle" /\ pc'[p] = "revoke" /\ tok'[p] = t
  BY <1>1 DEF Present, Goto, TxInv, Procs
<1>3. Procs'
  BY <1>1, TxAssumption DEF Present, Goto, TxInv, Procs, Presenting, Minted, Proc
<1>4. Hand(p)'
  BY <1>1, <1>2 DEF TxInv, Hand, HoldsItsWrites, HasWritten, Minting, SweepsStale,
     WritesAreLive, ReadIsCurrent, Minted
<1>5. \A r \in Replica \ {p} : Unmoved(r)
  BY <1>1 DEF Present, Goto, Unmoved, TxInv, Procs, Proc
<1> QED BY <1>1, <1>3, <1>4, <1>5, GoingOnIsSafe

(* Only a replica is at one of the statements of a rotation.               *)
LEMMA RotationsAreReplicas ==
    ASSUME TxInv, NEW p \in Proc, pc[p] \in Presenting
    PROVE  p \in Replica /\ tok[p] \in Minted /\ tok[p] \in Token
BY DEF TxInv, Procs, Presenting, Proc, Hand, WritesAreLive, Table, Shape

(* A sweep begins with the stale rows.                                     *)
LEMMA SweptAreStale == Table => StaleRows \subseteq 1 .. stale
BY DEF Table, Shape, StaleRows, Minted

(* The revoking UPDATE locks a live row.                                   *)
LEMMA RevokeMatchesIsSafe ==
    ASSUME TxInv, NEW p \in Proc, RevokeMatches(p)
    PROVE  TxInv'
<1>0. PICK t : t = tok[p]
  OBVIOUS
<1>1. /\ UNCHANGED <<rows, born, stale, killed, tok, succ, asked>>
      /\ pc[p] = "revoke" /\ Live(t) /\ lock[t] = None
      /\ \/ pc' = [pc EXCEPT ![p] = "refuse"] /\ todo' = todo
         \/ /\ pc' = [pc EXCEPT ![p] = "mint"] /\ t > stale
            /\ todo' = [todo EXCEPT ![p] = StaleRows]
      /\ lock' = [lock EXCEPT ![t] = p]
  BY <1>0 DEF RevokeMatches, Goto, Sweep
<1>2. p \in Replica /\ t \in Minted /\ t \in Token
  BY <1>0, <1>1, RotationsAreReplicas DEF Presenting
<1>3. Procs'
  BY <1>1, <1>2, TxAssumption DEF TxInv, Procs, Presenting, Minted, Proc
<1>4. /\ pc'[p] = "refuse" \/ (pc'[p] = "mint" /\ t > stale)
      /\ lock'[t] = p /\ \A x \in Token \ {t} : lock'[x] = lock[x]
  BY <1>1, <1>2 DEF TxInv, Procs
<1>5. Hand(p)'
  <2>1. HoldsItsWrites(p)'
    BY <1>0, <1>1, <1>2, <1>4 DEF TxInv, Hand, HoldsItsWrites, HasWritten, Minting
  <2>2. WritesAreLive(p)' /\ ReadIsCurrent(p)'
    BY <1>0, <1>1, <1>2, <1>4 DEF WritesAreLive, ReadIsCurrent, Live, Minted
  <2>3. SweepsStale(p)'
    <3>1. todo[p] = {}
      BY <1>1, <1>2 DEF TxInv, Hand, SweepsStale, Minting
    <3>2. CASE pc' = [pc EXCEPT ![p] = "refuse"] /\ todo' = todo
      BY <3>1, <3>2 DEF SweepsStale
    <3>3. CASE pc' = [pc EXCEPT ![p] = "mint"] /\ todo' = [todo EXCEPT ![p] = StaleRows]
      <4>1. pc'[p] = "mint" /\ todo'[p] = StaleRows
        BY <1>2, <3>3 DEF TxInv, Procs, Proc
      <4> QED BY <4>1, <1>1, SweptAreStale DEF TxInv, SweepsStale, Minting
    <3> QED BY <1>1, <3>2, <3>3
  <2> QED BY <2>1, <2>2, <2>3 DEF Hand
<1>6. \A r \in Replica \ {p} : Unmoved(r)
  BY <1>1, <1>2, <1>4, NoneIsNoToken DEF Unmoved, TxInv, Procs, Proc
<1> QED BY <1>1, <1>3, <1>5, <1>6, GoingOnIsSafe

(* The retiring UPDATE locks the live successor.                           *)
LEMMA RetireMatchesIsSafe ==
    ASSUME TxInv, NEW p \in Proc, RetireMatches(p)
    PROVE  TxInv'
<1>0. PICK l : l = succ[p]
  OBVIOUS
<1>1. /\ UNCHANGED <<rows, born, stale, killed, tok, succ, asked>>
      /\ pc[p] = "retire" /\ pc' = [pc EXCEPT ![p] = "regrant"] /\ Live(l) /\ lock[l] = None
      /\ lock' = [lock EXCEPT ![l] = p] /\ todo' = [todo EXCEPT ![p] = StaleRows]
  BY <1>0 DEF RetireMatches, Goto, Sweep
<1>2. p \in Replica /\ l \in Minted /\ l \in Token /\ tok[p] \in Minted
  BY <1>0, <1>1, RotationsAreReplicas DEF Presenting, TxInv, Hand, ReadIsCurrent, Table, Shape
<1>3. Procs'
  BY <1>1, <1>2, TxAssumption DEF TxInv, Procs, Presenting, Minted, Proc
<1>4. /\ pc'[p] = "regrant" /\ todo'[p] = StaleRows
      /\ lock'[l] = p /\ \A x \in Token \ {l} : lock'[x] = lock[x]
  BY <1>1, <1>2 DEF TxInv, Procs, Proc
<1>5. Hand(p)'
  <2>1. HoldsItsWrites(p)'
    BY <1>0, <1>1, <1>2, <1>4 DEF TxInv, Hand, HoldsItsWrites, HasWritten, Minting
  <2>2. WritesAreLive(p)'
    BY <1>0, <1>1, <1>2, <1>4 DEF WritesAreLive, Live, Minted
  <2>3. ReadIsCurrent(p)'
    BY <1>1, <1>2, <1>4 DEF TxInv, Hand, ReadIsCurrent, Live, Minted
  <2>4. SweepsStale(p)'
    BY <1>1, <1>4, SweptAreStale DEF TxInv, SweepsStale, Minting
  <2> QED BY <2>1, <2>2, <2>3, <2>4 DEF Hand
<1>6. \A r \in Replica \ {p} : Unmoved(r)
  BY <1>1, <1>2, <1>4, NoneIsNoToken DEF Unmoved, TxInv, Procs, Proc
<1> QED BY <1>1, <1>3, <1>5, <1>6, GoingOnIsSafe

(* The revoking UPDATE that matches nothing.                               *)
LEMMA RevokeMissesIsSafe ==
    ASSUME TxInv, NEW p \in Proc, RevokeMisses(p)
    PROVE  TxInv'
<1>1. /\ UNCHANGED <<rows, born, stale, killed, lock, tok, succ, todo, asked>>
      /\ pc[p] = "revoke" /\ pc' = [pc EXCEPT ![p] = "read"]
  BY DEF RevokeMisses, Goto, local
<1>2. p \in Replica /\ tok[p] \in Minted
  BY <1>1, RotationsAreReplicas DEF Presenting
<1>3. Procs' /\ pc'[p] = "read"
  BY <1>1, <1>2, TxAssumption DEF TxInv, Procs, Presenting, Minted, Proc
<1>4. Hand(p)'
  BY <1>1, <1>2, <1>3 DEF TxInv, Hand, HoldsItsWrites, HasWritten, Minting, SweepsStale,
     WritesAreLive, ReadIsCurrent, Minted
<1>5. \A r \in Replica \ {p} : Unmoved(r)
  BY <1>1 DEF Unmoved, TxInv, Procs, Proc
<1> QED BY <1>1, <1>3, <1>4, <1>5, GoingOnIsSafe

(* What session.get reads is a revoked row and the child it names.         *)
LEMMA ReadingIsSafe ==
    ASSUME TxInv, NEW p \in Proc, ReadRow(p)
    PROVE  TxInv'
<1>0. PICK t, l : t = tok[p] /\ l = rows[t].next
  OBVIOUS
<1>1. /\ UNCHANGED <<rows, born, stale, killed, lock, tok, todo, asked>>
      /\ pc[p] = "read" /\ pc' = [pc EXCEPT ![p] = "retire"]
      /\ t \in DOMAIN rows /\ t > stale /\ rows[t].revoked /\ l # None
      /\ succ' = [succ EXCEPT ![p] = l]
  BY <1>0 DEF ReadRow, Goto
<1>2. p \in Replica /\ t \in Minted
  BY <1>0, <1>1, RotationsAreReplicas DEF Presenting
<1>3. l \in Minted /\ born[l].parent = t /\ ~Live(t)
  BY <1>0, <1>1 DEF TxInv, Table, Shape, Row, SuccessorIsChild
<1>4. Procs' /\ pc'[p] = "retire" /\ succ'[p] = l
  BY <1>1, <1>2, TxAssumption DEF TxInv, Procs, Presenting, Minted, Proc
<1>5. Hand(p)'
  <2>1. HoldsItsWrites(p)' /\ SweepsStale(p)' /\ WritesAreLive(p)'
    BY <1>0, <1>1, <1>2, <1>4 DEF TxInv, Hand, HoldsItsWrites, HasWritten, Minting,
       SweepsStale, WritesAreLive, Minted
  <2>2. ReadIsCurrent(p)'
    BY <1>0, <1>1, <1>2, <1>3, <1>4 DEF ReadIsCurrent, Live, Minted
  <2> QED BY <2>1, <2>2 DEF Hand
<1>6. \A r \in Replica \ {p} : Unmoved(r)
  BY <1>1 DEF Unmoved, TxInv, Procs, Proc
<1> QED BY <1>1, <1>4, <1>5, <1>6, GoingOnIsSafe

(* issue_refresh_token begins with its sweep.                              *)
LEMMA BeginningIssueIsSafe ==
    ASSUME TxInv, NEW p \in Replica, BeginIssue(p)
    PROVE  TxInv'
<1>1. p \in Proc /\ UNCHANGED <<rows, born, stale, killed, lock, tok, succ, asked>>
  BY DEF BeginIssue, Proc
<1>2. /\ pc[p] = "idle" /\ pc'[p] = "issue" /\ todo'[p] = StaleRows
      /\ pc' = [pc EXCEPT ![p] = "issue"] /\ todo' = [todo EXCEPT ![p] = StaleRows]
  BY <1>1 DEF BeginIssue, Goto, Sweep, TxInv, Procs
<1>3. Procs'
  BY <1>1, <1>2, TxAssumption DEF TxInv, Procs, Minted, Proc
<1>4. Hand(p)'
  BY <1>1, <1>2, SweptAreStale DEF TxInv, Hand, HoldsItsWrites, HasWritten, Minting,
     SweepsStale, WritesAreLive, Presenting, ReadIsCurrent
<1>5. \A r \in Replica \ {p} : Unmoved(r)
  BY <1>1, <1>2 DEF Unmoved, TxInv, Procs, Proc
<1> QED BY <1>1, <1>3, <1>4, <1>5, GoingOnIsSafe

(* An operator's command takes its snapshot.                               *)
LEMMA BeginningRevokeIsSafe ==
    ASSUME TxInv, NEW p \in Operator, NEW u \in User, BeginRevoke(p, u)
    PROVE  TxInv'
<1>1. /\ UNCHANGED <<rows, born, stale, killed, lock, tok, succ>>
      /\ pc[p] = "idle" /\ pc' = [pc EXCEPT ![p] = "revokeAll"]
      /\ p \in Proc /\ p \notin Replica
  BY TxAssumption DEF BeginRevoke, Goto, Proc
<1>2. Procs'
  <2>1. {born[t].root : t \in {x \in DOMAIN rows : rows[x].user = u}} \in SUBSET Minted
    BY DEF TxInv, Table, Shape
  <2>2. asked' \in [Proc -> SUBSET Minted']
    BY <2>1, <1>1 DEF BeginRevoke, TxInv, Procs, Minted
  <2>3. DOMAIN todo' = Proc
    BY DEF BeginRevoke, TxInv, Procs
  <2> QED BY <2>2, <2>3, <1>1 DEF TxInv, Procs
<1>3. \A r \in Replica \ {p} : Unmoved(r)
  BY <1>1 DEF BeginRevoke, Unmoved, TxInv, Procs, Proc
<1> QED BY <1>1, <1>2, <1>3, GoingOnIsSafe

LEMMA BeginningPruneIsSafe ==
    ASSUME TxInv, NEW p \in Operator, NEW S, BeginPrune(p, S)
    PROVE  TxInv'
<1>1. /\ UNCHANGED <<rows, born, stale, killed, lock, tok, succ, asked>>
      /\ pc[p] = "idle" /\ pc' = [pc EXCEPT ![p] = "prune"]
      /\ todo' = [todo EXCEPT ![p] = S]
      /\ p \in Proc /\ p \notin Replica
  BY TxAssumption DEF BeginPrune, Goto, Proc
<1>2. Procs'
  BY <1>1 DEF TxInv, Procs, Minted
<1>3. \A r \in Replica \ {p} : Unmoved(r)
  BY <1>1 DEF Unmoved, TxInv, Procs, Proc
<1> QED BY <1>1, <1>2, <1>3, GoingOnIsSafe

(* A statement over many rows locks one nobody has; a sweep a stale one.   *)
LEMMA VisitingIsSafe ==
    ASSUME TxInv, NEW p \in Proc, NEW t \in Token, VisitRow(p, t)
    PROVE  TxInv'
<1>1. /\ UNCHANGED <<rows, born, stale, killed, pc, tok, succ, asked>>
      /\ t \in todo[p] /\ lock[t] = None
      /\ lock' \in {lock, [lock EXCEPT ![t] = p]}
      /\ todo' = [todo EXCEPT ![p] = @ \ {t}]
  BY DEF VisitRow
<1>2. Procs'
  BY <1>1 DEF TxInv, Procs, Minted
<1>3. /\ lock'[t] \in {None, p} /\ \A x \in Token \ {t} : lock'[x] = lock[x]
      /\ todo'[p] \subseteq todo[p] /\ \A x \in Token : lock[x] = p => lock'[x] = p
  BY <1>1, NoneIsNoToken DEF TxInv, Procs
<1>4. \A r \in Replica \ {p} : Unmoved(r)
  BY <1>1, <1>3, NoneIsNoToken DEF Unmoved, TxInv, Procs, Proc
<1>5. ASSUME p \in Replica PROVE Hand(p)'
  <2>1. pc[p] \in Minting /\ t \in 1 .. stale
    BY <1>1, <1>5 DEF TxInv, Hand, SweepsStale
  <2>2. HoldsItsWrites(p)'
    BY <1>1, <1>3, <1>5, <2>1 DEF TxInv, Hand, HoldsItsWrites, HasWritten
  <2>3. SweepsStale(p)'
    BY <1>1, <1>3, <1>5, <2>1 DEF TxInv, Hand, SweepsStale
  <2>4. WritesAreLive(p)' /\ ReadIsCurrent(p)'
    BY <1>1, <1>5 DEF TxInv, Hand, WritesAreLive, ReadIsCurrent, Live, Minted
  <2> QED BY <2>2, <2>3, <2>4 DEF Hand
<1> QED BY <1>1, <1>2, <1>4, <1>5, GoingOnIsSafe

(* The command's commit revokes the rows it has locked, nobody else's.     *)
LEMMA CommittingRevokeLoses ==
    ASSUME TxInv, NEW p \in Proc, CommitRevoke(p)
    PROVE  Loses /\ Minted' = Minted /\ p \notin Replica
<1>1. /\ DOMAIN rows' = DOMAIN rows
      /\ \A x \in DOMAIN rows : \/ rows'[x] = rows[x]
                                \/ /\ lock[x] = p
                                   /\ rows'[x] = [rows[x] EXCEPT !.revoked = TRUE]
      /\ UNCHANGED <<born, stale>> /\ pc[p] = "revokeAll"
      /\ killed' = killed \cup asked[p]
  BY DEF CommitRevoke
<1>2. \A x \in DOMAIN rows : rows[x] \in [user : User, revoked : BOOLEAN, next : Minted \cup {None}]
  BY DEF TxInv, Table, Shape, Row
<1>3. ASSUME NEW x \in DOMAIN rows
      PROVE  /\ rows'[x].user = rows[x].user /\ rows'[x].next = rows[x].next
             /\ rows'[x] \in Row /\ (~rows'[x].revoked => ~rows[x].revoked)
  BY <1>1, <1>2 DEF Row
<1>4. asked[p] \subseteq Minted /\ p \notin Replica
  BY <1>1 DEF TxInv, Procs
<1> QED BY <1>1, <1>3, <1>4 DEF Loses, Live, Minted, TxInv, Table, Shape

LEMMA CommittingRevokeIsSafe ==
    ASSUME TxInv, NEW p \in Proc, CommitRevoke(p)
    PROVE  TxInv'
<1>1. Loses /\ Minted' = Minted /\ p \notin Replica
  BY CommittingRevokeLoses
<1>2. End(p) /\ Table'
  BY <1>1, LosingIsSafe DEF CommitRevoke, TxInv
<1>3. ASSUME NEW r \in Replica \ {p} PROVE SparesRowsOf(r)
  <2>1. \A x \in Minted : Live(x) /\ lock[x] = r => Live(x)'
    <3>1. DOMAIN rows' = DOMAIN rows /\ \A x \in DOMAIN rows : lock[x] = r => rows'[x] = rows[x]
      BY DEF CommitRevoke
    <3> QED BY <3>1 DEF Live
  <2>2. stale' = stale
    BY DEF CommitRevoke
  <2> QED BY <2>1, <2>2, <1>1 DEF SparesRowsOf, Loses
<1> QED BY <1>1, <1>2, <1>3, EndingIsSafe

(* A step that moves no transaction (time, a stutter) keeps the invariant  *)
(* if it leaves a table and spares everybody's rows.                       *)
LEMMA BackgroundIsSafe ==
    ASSUME TxInv, UNCHANGED <<lock, pc, tok, succ, todo, asked>>, Table',
           Minted \subseteq Minted', \A r \in Replica : SparesRowsOf(r)
    PROVE  TxInv'
<1>1. Procs'
  BY DEF TxInv, Procs
<1>2. ASSUME NEW r \in Replica PROVE Hand(r)'
  <2>1. Unmoved(r)
    BY DEF Unmoved
  <2> QED BY <2>1, OthersSpareHand DEF TxInv
<1> QED BY <1>1, <1>2 DEF TxInv

(* prune-oauth's commit deletes the rows it has locked, nobody else's.     *)
LEMMA CommittingPruneLoses ==
    ASSUME TxInv, NEW p \in Proc, CommitPrune(p)
    PROVE  Loses /\ Minted' = Minted /\ p \notin Replica
<1>1. p \notin Replica
  BY DEF CommitPrune, TxInv, Procs
<1>2. Loses /\ Minted' = Minted
  BY DEF CommitPrune, Loses, Live, Minted, TxInv, Table, Shape
<1> QED BY <1>1, <1>2

LEMMA CommittingPruneIsSafe ==
    ASSUME TxInv, NEW p \in Proc, CommitPrune(p)
    PROVE  TxInv'
<1>1. Loses /\ Minted' = Minted /\ p \notin Replica
  BY CommittingPruneLoses
<1>2. End(p) /\ Table'
  BY <1>1, LosingIsSafe DEF CommitPrune, TxInv
<1>3. ASSUME NEW r \in Replica \ {p} PROVE SparesRowsOf(r)
  <2>1. \A x \in Minted : Live(x) /\ lock[x] = r => Live(x)'
    BY DEF CommitPrune, Held, Live
  <2>2. stale' = stale
    BY DEF CommitPrune
  <2> QED BY <2>1, <2>2, <1>1 DEF SparesRowsOf, Loses
<1> QED BY <1>1, <1>2, <1>3, EndingIsSafe

(* The passing of time.                                                    *)
LEMMA AgingIsSafe ==
    ASSUME TxInv, Age
    PROVE  TxInv'
<1>1. /\ UNCHANGED <<rows, born, killed, lock, pc, tok, succ, todo, asked>>
      /\ stale' = stale + 1 /\ stale < Len(born)
      /\ \A p \in Replica : stale + 1 # tok[p]
  BY DEF Age, local
<1>2. Loses /\ Minted' = Minted
  <2>1. stale' \in 0 .. Len(born)
    BY <1>1 DEF TxInv, Table, Shape
  <2> QED BY <2>1, <1>1 DEF Loses, Live, Minted, TxInv, Table, Shape
<1>3. Table'
  BY <1>2, LosingIsSafe DEF TxInv
<1>4. ASSUME NEW r \in Replica PROVE SparesRowsOf(r)
  BY <1>1, <1>2 DEF SparesRowsOf, Live, Proc
<1> QED BY <1>1, <1>2, <1>3, <1>4, BackgroundIsSafe

(* The live branch commits on the family's live token, which it has locked.*)
LEMMA LiveMints ==
    ASSUME TxInv, NEW p \in Proc, NEW t, t = tok[p], CommitLive(p)
    PROVE  MintsAfter(t, t) /\ lock[t] = p /\ t \in DOMAIN rows' /\ End(p)
<1>1. /\ pc[p] = "mint" /\ Fresh \in Token /\ End(p)
      /\ UNCHANGED <<stale, killed>>
      /\ born' = Append(born, [root |-> born[t].root, parent |-> t])
  BY DEF CommitLive, MintOn
<1>2. p \in Replica /\ t \in Minted /\ t \in Token
  BY <1>1, RotationsAreReplicas DEF Presenting
<1>3. stale \in Nat /\ t \in Nat /\ DOMAIN rows \subseteq Minted
      /\ \A x \in DOMAIN rows : rows[x] \in [user : User, revoked : BOOLEAN, next : Minted \cup {None}]
      /\ Minted \subseteq Token
  BY <1>2 DEF TxInv, Table, Shape, Minted, Row
<1>4. Live(t) /\ t > stale /\ lock[t] = p
  BY <1>1, <1>2, <1>3 DEF TxInv, Hand, WritesAreLive, HoldsItsWrites, HasWritten
<1>5. t \in DOMAIN rows
  BY <1>4 DEF Live
<1>6. PICK n, w : n = Fresh /\ w = [rows EXCEPT ![t].revoked = TRUE, ![t].next = n]
  OBVIOUS
<1> DEFINE D == {y \in StaleRows : lock[y] = p}
<1>7. rows' = [x \in (DOMAIN w \ D) \cup {n} |->
                  IF x = n THEN NewRow(rows[t].user) ELSE w[x]]
  BY <1>6 DEF CommitLive, MintOn
<1>8. /\ DOMAIN w = DOMAIN rows
      /\ \A x \in DOMAIN rows \ {t} : w[x] = rows[x]
      /\ w[t] = [rows[t] EXCEPT !.revoked = TRUE, !.next = n]
  BY <1>5, <1>6
<1>9. \A x \in DOMAIN rows :
          /\ w[x] \in [user : User, revoked : BOOLEAN, next : Token \cup {None}]
          /\ w[x].user = rows[x].user
          /\ x = t => w[x].revoked
          /\ x # t => w[x].revoked = rows[x].revoked
          /\ x = t => w[x].next = n
          /\ x # t => w[x].next = rows[x].next
  <2>1. n \in Token
    BY <1>1, <1>6
  <2>2. ASSUME NEW x \in DOMAIN rows, x # t
        PROVE  w[x] = rows[x] /\ w[x] \in [user : User, revoked : BOOLEAN, next : Token \cup {None}]
    BY <2>2, <1>3, <1>8
  <2>3. /\ w[t] \in [user : User, revoked : BOOLEAN, next : Token \cup {None}]
        /\ w[t].user = rows[t].user /\ w[t].revoked /\ w[t].next = n
    BY <2>1, <1>3, <1>5, <1>8
  <2> QED BY <2>2, <2>3
<1>10. /\ n \in DOMAIN rows' /\ DOMAIN rows' \subseteq DOMAIN rows \cup {n}
       /\ \A y \in DOMAIN rows : y > stale => y \in DOMAIN rows'
       /\ rows'[n] = NewRow(rows[t].user)
       /\ \A x \in DOMAIN rows' \ {n} : x \in DOMAIN rows /\ rows'[x] = w[x]
  <2>1. \A y \in D : ~(y > stale)
    BY <1>3 DEF StaleRows, Minted
  <2> HIDE DEF D
  <2> QED BY <2>1, <1>7, <1>8
<1>11. MintsAfter(t, t)
  <2>1. \A x \in DOMAIN rows' \ {n} :
          /\ rows'[x] \in [user : User, revoked : BOOLEAN, next : Token \cup {None}]
          /\ rows'[x].user = rows[x].user
          /\ x = t => rows'[x].revoked
          /\ x # t => rows'[x].revoked = rows[x].revoked
          /\ x = t => rows'[x].next = n
          /\ x # t => rows'[x].next = rows[x].next
    BY <1>9, <1>10
  <2>2. n = Fresh
    BY <1>6
  <2> QED BY <2>1, <2>2, <1>1, <1>4, <1>5, <1>10 DEF MintsAfter, KeepsUnstale
<1> QED BY <1>1, <1>4, <1>5, <1>10, <1>11

(* The graced branch commits on the successor it has locked, which is the  *)
(* one the presented row still names.                                      *)
LEMMA GracedMints ==
    ASSUME TxInv, NEW p \in Proc, NEW t, t = tok[p], NEW l, l = succ[p], CommitGraced(p)
    PROVE  MintsAfter(t, l) /\ lock[l] = p /\ t \in DOMAIN rows' /\ End(p)
<1>1. /\ pc[p] = "regrant" /\ t \in DOMAIN rows /\ Fresh \in Token /\ End(p)
      /\ UNCHANGED <<stale, killed>>
      /\ born' = Append(born, [root |-> born[t].root, parent |-> t])
  BY DEF CommitGraced, MintOn
<1>2. p \in Replica /\ t \in Minted /\ t \in Token
  BY <1>1, RotationsAreReplicas DEF Presenting
<1>3. stale \in Nat /\ t \in Nat /\ DOMAIN rows \subseteq Minted
      /\ \A x \in DOMAIN rows : rows[x] \in [user : User, revoked : BOOLEAN, next : Minted \cup {None}]
      /\ Minted \subseteq Token
  BY <1>2 DEF TxInv, Table, Shape, Minted, Row
<1>4. /\ l \in Minted /\ Live(l) /\ lock[l] = p /\ t > stale /\ ~Live(t)
      /\ rows[t].next = l
  BY <1>1, <1>2, <1>3 DEF TxInv, Hand, WritesAreLive, HoldsItsWrites, HasWritten, ReadIsCurrent
<1>5. l \in DOMAIN rows /\ l # t
  BY <1>4 DEF Live
<1>6. PICK n, w : n = Fresh /\ w = [rows EXCEPT ![l].revoked = TRUE, ![t].next = n]
  OBVIOUS
<1> DEFINE D == {y \in StaleRows : lock[y] = p}
<1>7. rows' = [x \in (DOMAIN w \ D) \cup {n} |->
                  IF x = n THEN NewRow(rows[t].user) ELSE w[x]]
  BY <1>6 DEF CommitGraced, MintOn
<1>8. /\ DOMAIN w = DOMAIN rows
      /\ \A x \in DOMAIN rows \ {t, l} : w[x] = rows[x]
      /\ w[t] = [rows[t] EXCEPT !.next = n]
      /\ w[l] = [rows[l] EXCEPT !.revoked = TRUE]
  BY <1>1, <1>5, <1>6
<1>9. \A x \in DOMAIN rows :
          /\ w[x] \in [user : User, revoked : BOOLEAN, next : Token \cup {None}]
          /\ w[x].user = rows[x].user
          /\ x = l => w[x].revoked
          /\ x # l => w[x].revoked = rows[x].revoked
          /\ x = t => w[x].next = n
          /\ x # t => w[x].next = rows[x].next
  <2>1. n \in Token
    BY <1>1, <1>6
  <2>2. ASSUME NEW x \in DOMAIN rows, x \notin {t, l}
        PROVE  w[x] = rows[x] /\ w[x] \in [user : User, revoked : BOOLEAN, next : Token \cup {None}]
    BY <2>2, <1>3, <1>8
  <2>3. /\ w[t] \in [user : User, revoked : BOOLEAN, next : Token \cup {None}]
        /\ w[t].user = rows[t].user /\ w[t].revoked = rows[t].revoked /\ w[t].next = n
    BY <2>1, <1>1, <1>3, <1>8
  <2>4. /\ w[l] \in [user : User, revoked : BOOLEAN, next : Token \cup {None}]
        /\ w[l].user = rows[l].user /\ w[l].revoked /\ w[l].next = rows[l].next
    BY <1>3, <1>5, <1>8
  <2> QED BY <2>2, <2>3, <2>4, <1>5
<1>10. /\ n \in DOMAIN rows' /\ DOMAIN rows' \subseteq DOMAIN rows \cup {n}
       /\ \A y \in DOMAIN rows : y > stale => y \in DOMAIN rows'
       /\ rows'[n] = NewRow(rows[t].user)
       /\ \A x \in DOMAIN rows' \ {n} : x \in DOMAIN rows /\ rows'[x] = w[x]
  <2>1. \A y \in D : ~(y > stale)
    BY <1>3 DEF StaleRows, Minted
  <2> HIDE DEF D
  <2> QED BY <2>1, <1>7, <1>8
<1>11. MintsAfter(t, l)
  <2>1. \A x \in DOMAIN rows' \ {n} :
          /\ rows'[x] \in [user : User, revoked : BOOLEAN, next : Token \cup {None}]
          /\ rows'[x].user = rows[x].user
          /\ x = l => rows'[x].revoked
          /\ x # l => rows'[x].revoked = rows[x].revoked
          /\ x = t => rows'[x].next = n
          /\ x # t => rows'[x].next = rows[x].next
    BY <1>9, <1>10
  <2>2. n = Fresh
    BY <1>6
  <2> QED BY <2>1, <2>2, <1>1, <1>4, <1>10 DEF MintsAfter, KeepsUnstale
<1> QED BY <1>1, <1>4, <1>10, <1>11

(* A commit that mints keeps the invariant.                                *)
LEMMA CommittingMintIsSafe ==
    ASSUME TxInv, NEW p \in Proc, NEW t, NEW l, MintsAfter(t, l), lock[l] = p, End(p)
    PROVE  TxInv'
<1>1. Table'
  BY MintingIsSafe DEF TxInv
<1>2. \A r \in Replica \ {p} : SparesRowsOf(r)
  BY MintingSparesOthers DEF TxInv
<1>3. Minted \subseteq Minted'
  <2>1. born \in Seq(Birth) /\ \E b \in Birth : born' = Append(born, b)
    BY DEF MintsAfter, TxInv, Table, Shape, Birth
  <2>2. Len(born) \in Nat /\ Len(born') = Len(born) + 1
    BY <2>1
  <2> QED BY <2>2 DEF Minted
<1> QED BY <1>1, <1>2, <1>3, EndingIsSafe

LEMMA IssueMints ==
    ASSUME TxInv, NEW p \in Proc, NEW u \in User, CommitIssue(p, u)
    PROVE  IssuesAfter(u) /\ End(p)
<1>0. PICK n : n = Fresh
  OBVIOUS
<1> DEFINE D == {y \in StaleRows : lock[y] = p}
<1>1. /\ n \in Token /\ End(p) /\ UNCHANGED <<stale, killed>>
      /\ born' = Append(born, [root |-> n, parent |-> None])
      /\ rows' = [x \in (DOMAIN rows \ D) \cup {n} |->
                     IF x = n THEN NewRow(u) ELSE rows[x]]
  BY <1>0 DEF CommitIssue, MintOn
<1>2. \A y \in D : ~(y > stale)
  BY DEF TxInv, Table, Shape, StaleRows, Minted
<1> HIDE DEF D
<1>3. /\ n \in DOMAIN rows' /\ DOMAIN rows' \subseteq DOMAIN rows \cup {n}
      /\ \A y \in DOMAIN rows : y > stale => y \in DOMAIN rows'
      /\ rows'[n] = NewRow(u)
      /\ \A x \in DOMAIN rows' \ {n} : rows'[x] = rows[x]
  BY <1>1, <1>2
<1> QED BY <1>0, <1>1, <1>3 DEF IssuesAfter, KeepsUnstale

LEMMA CommittingIssueIsSafe ==
    ASSUME TxInv, NEW p \in Proc, NEW u \in User, CommitIssue(p, u)
    PROVE  TxInv'
<1>1. IssuesAfter(u) /\ End(p)
  BY IssueMints
<1>2. Table' /\ \A r \in Replica \ {p} : SparesRowsOf(r)
  BY <1>1, SigningInIsSafe, SigningInSpares DEF TxInv
<1>3. Minted \subseteq Minted'
  <2>1. born \in Seq(Birth) /\ \E b \in Birth : born' = Append(born, b)
    BY <1>1 DEF IssuesAfter, TxInv, Table, Shape, Birth
  <2>2. Len(born) \in Nat /\ Len(born') = Len(born) + 1
    BY <2>1
  <2> QED BY <2>2 DEF Minted
<1> QED BY <1>1, <1>2, <1>3, EndingIsSafe

(* Every step is one of these: a mint, a step that mints nothing, or one   *)
(* that changes no committed row.                                          *)
LEMMA StatementIsSafe ==
    ASSUME TxInv, NEW p \in Proc, Statement(p) \/ Acquire(p) \/ Crash(p)
    PROVE  TxInv'
<1>1. CASE RefuseLive(p) \/ RefuseRead(p) \/ RetireMisses(p) \/ StaleData(p)
           \/ OutOfTokens(p) \/ AbortDeadlocked(p) \/ Crash(p)
  BY <1>1, RollingBackIsSafe DEF RefuseLive, RefuseRead, RetireMisses, StaleData,
     OutOfTokens, AbortDeadlocked, Crash
<1>2. CASE CommitLive(p)
  BY <1>2, LiveMints, CommittingMintIsSafe
<1>3. CASE CommitGraced(p)
  BY <1>3, GracedMints, CommittingMintIsSafe
<1>4. CASE RevokeMisses(p)
  BY <1>4, RevokeMissesIsSafe
<1>5. CASE ReadRow(p)
  BY <1>5, ReadingIsSafe
<1>6. CASE CommitRevoke(p)
  BY <1>6, CommittingRevokeIsSafe
<1>7. CASE RevokeMatches(p)
  BY <1>7, RevokeMatchesIsSafe
<1>8. CASE RetireMatches(p)
  BY <1>8, RetireMatchesIsSafe
<1>9. CASE \E t \in Token : VisitRow(p, t)
  BY <1>9, VisitingIsSafe
<1>10. CASE \E u \in User : CommitIssue(p, u)
  BY <1>10, CommittingIssueIsSafe
<1>11. CASE CommitPrune(p)
  BY <1>11, CommittingPruneIsSafe
<1> QED BY <1>1, <1>2, <1>3, <1>4, <1>5, <1>6, <1>7, <1>8, <1>9, <1>10, <1>11
     DEF Statement, Acquire

LEMMA InvariantStep == TxInv /\ [Next]_vars => TxInv'
<1> SUFFICES ASSUME TxInv, [Next]_vars PROVE TxInv'
  OBVIOUS
<1>1. CASE \E p \in Replica : BeginIssue(p)
  BY <1>1, BeginningIssueIsSafe
<1>2. CASE \E p \in Replica, t \in Minted : Present(p, t)
  BY <1>2, PresentingIsSafe
<1>3. CASE \E p \in Operator, u \in User : BeginRevoke(p, u)
  BY <1>3, BeginningRevokeIsSafe
<1>4. CASE \E p \in Proc : Statement(p) \/ Acquire(p) \/ Crash(p)
  BY <1>4, StatementIsSafe
<1>5. CASE \E p \in Operator, S \in SUBSET DOMAIN rows : BeginPrune(p, S)
  BY <1>5, BeginningPruneIsSafe
<1>6. CASE Age
  BY <1>6, AgingIsSafe
<1>7. CASE UNCHANGED vars
  <2>1. UNCHANGED <<rows, born, stale, killed, lock, pc, tok, succ, todo, asked>>
    BY <1>7 DEF vars
  <2>2. Loses /\ Minted' = Minted
    BY <2>1 DEF Loses, Live, Minted, TxInv, Table, Shape
  <2> QED BY <2>1, <2>2, LosingIsSafe, SameRowsSpared, BackgroundIsSafe DEF TxInv
<1> QED BY <1>1, <1>2, <1>3, <1>4, <1>5, <1>6, <1>7 DEF Next

LEMMA InvariantHoldsFirst == Init => TxInv
<1> SUFFICES ASSUME Init PROVE TxInv
  OBVIOUS
<1>1. Minted = {} /\ DOMAIN rows = {} /\ born = << >> /\ Len(born) = 0
  BY DEF Init, Minted
<1>2. Table
  BY <1>1 DEF Init, Table, Shape, Lineage, SuccessorIsChild, OneLivePerFamily
<1>3. Procs
  BY DEF Init, Procs, Proc
<1>4. \A p \in Replica : Hand(p)
  BY NoneIsNoToken DEF Init, Hand, HoldsItsWrites, HasWritten, Minting, SweepsStale,
     WritesAreLive, Presenting, ReadIsCurrent, Proc
<1> QED BY <1>2, <1>3, <1>4 DEF TxInv

(* Every reachable state satisfies the invariant.                          *)
THEOREM Invariance == Spec => []TxInv
BY InvariantHoldsFirst, InvariantStep, PTL DEF Spec

(* Every variable has its type; a replica holds the row its UPDATE has     *)
(* written and, once it sweeps, stale rows.                                *)
THEOREM TypeCorrect == Spec => []TypeOK
<1>1. TxInv => TypeOK
  <2> SUFFICES ASSUME TxInv PROVE TypeOK
    OBVIOUS
  <2>1. ASSUME NEW p \in Replica
        PROVE  /\ Written(p) \subseteq Held(p)
               /\ Held(p) \subseteq Written(p) \cup (IF pc[p] \in Minting THEN 1 .. stale ELSE {})
    <3>1. \A t \in Token : t \in Written(p) <=> HasWritten(p, t)
      BY DEF Written, HasWritten
    <3>2. pc[p] \in {"refuse", "mint"} => tok[p] \in Token
      BY DEF TxInv, Hand, WritesAreLive, Presenting, Table, Shape
    <3>3. pc[p] = "regrant" => succ[p] \in Token
      BY DEF TxInv, Hand, ReadIsCurrent, Table, Shape
    <3>4. Written(p) \subseteq Token
      BY <3>2, <3>3 DEF Written
    <3>5. Written(p) \subseteq Held(p)
      BY <3>1, <3>4 DEF TxInv, Hand, HoldsItsWrites, Held
    <3>6. ASSUME NEW t \in Held(p)
          PROVE  t \in Written(p) \/ (pc[p] \in Minting /\ t \in 1 .. stale)
      <4>1. /\ t \in Token /\ t \in Nat /\ 1 <= t /\ stale \in Nat
            /\ HasWritten(p, t) \/ (pc[p] \in Minting /\ t <= stale)
        BY DEF TxInv, Table, Shape, Hand, HoldsItsWrites, Held, Token
      <4> QED BY <4>1, <3>1
    <3> QED BY <3>5, <3>6
  <2> QED BY <2>1 DEF TxInv, Table, Shape, Row, Procs, Presenting, TypeOK
<1> QED BY <1>1, Invariance, PTL

(* A refused presentation changes nothing: a replica that goes back to     *)
(* idle without having minted leaves every row as it was.                  *)
THEOREM RefusalsChangeNothing == Spec => RefusalChangesNothing
<1>1. TxInv /\ [Next]_vars =>
        [\A p \in Replica : pc[p] # "idle" /\ pc'[p] = "idle" /\ born' = born
             => rows' = rows]_vars
  <2> SUFFICES ASSUME TxInv, Next, NEW p \in Replica,
                      pc[p] # "idle", pc'[p] = "idle", born' = born
               PROVE  rows' = rows
    OBVIOUS
  <2>1. \A b : born' # Append(born, b)
    <3> SUFFICES ASSUME NEW b, born' = Append(born, b) PROVE FALSE
      OBVIOUS
    <3>1. born \in Seq(Birth) /\ Len(born) \in Nat /\ born[Len(born) + 1] = born'[Len(born) + 1]
      BY DEF TxInv, Table, Shape
    <3>2. Len(Append(born, b)) = Len(born) + 1
      BY <3>1
    <3> QED BY <3>1, <3>2
  <2>2. p \in Proc /\ pc[p] \notin {"revokeAll", "prune"}
    BY DEF Proc, TxInv, Procs
  <2>3. ASSUME NEW q \in Proc, Statement(q) \/ Acquire(q) \/ Crash(q) PROVE rows' = rows
    <3>1. CASE CommitLive(q) \/ CommitGraced(q) \/ \E u \in User : CommitIssue(q, u)
      BY <3>1, <2>1 DEF CommitLive, CommitGraced, CommitIssue, MintOn
    <3>2. CASE CommitRevoke(q) \/ CommitPrune(q)
      <4>1. q # p /\ pc'[p] = pc[p]
        BY <3>2, <2>2 DEF CommitRevoke, CommitPrune, End, Goto, TxInv, Procs
      <4> QED BY <4>1
    <3> QED BY <2>3, <3>1, <3>2 DEF Statement, Acquire, Crash, RevokeMisses, RefuseLive,
         RefuseRead, ReadRow, RetireMisses, StaleData, OutOfTokens, AbortDeadlocked, RevokeMatches,
         RetireMatches, VisitRow, Rollback
  <2> QED BY <2>3 DEF Next, BeginIssue, Present, BeginRevoke, BeginPrune, Age
<1> QED BY <1>1, Invariance, PTL DEF Spec, RefusalChangesNothing

-----------------------------------------------------------------------------
(* Who waits for whom.                                                     *)

(* A replica that is waited for has written a row: it is refusing, or it   *)
(* mints.                                                                  *)
LEMMA WaitedForHasWritten ==
    ASSUME TxInv, NEW p, NEW q \in Replica, WaitsFor(p, q)
    PROVE  pc[q] \in Minting \cup {"refuse"}
<1>1. PICK t \in DOMAIN rows : lock[t] = q
  BY DEF WaitsFor
<1>2. t \in Token
  BY DEF TxInv, Table, Shape
<1> QED BY <1>1, <1>2 DEF TxInv, Hand, HoldsItsWrites, HasWritten, Minting

(* Who is refusing a token waits for nobody.                               *)
LEMMA RefusingDoesNotWait ==
    ASSUME TxInv, NEW p \in Replica, NEW q, pc[p] = "refuse"
    PROVE  ~WaitsFor(p, q)
BY DEF TxInv, Hand, SweepsStale, Minting, WaitsFor

(* A mint that has swept waits for no replica: the row it repoints is      *)
(* revoked and not stale, and those only prune-oauth writes.               *)
LEMMA SweptWaitsForNoReplica ==
    ASSUME TxInv, NEW p \in Replica, NEW q \in Replica, pc[p] \in Minting, todo[p] = {}
    PROVE  ~WaitsFor(p, q)
<1> SUFFICES ASSUME WaitsFor(p, q) PROVE FALSE
  OBVIOUS
<1>1. /\ pc[p] = "regrant" /\ tok[p] \in DOMAIN rows /\ lock[tok[p]] = q
  BY DEF WaitsFor, Minting
<1>2. PICK t : t = tok[p]
  OBVIOUS
<1>3. /\ t \in Token /\ t \in Nat /\ stale \in Nat /\ t > stale /\ ~Live(t)
  <2>1. t \in Minted /\ t \in Token /\ t \in Nat /\ stale \in Nat
    BY <1>1, <1>2 DEF TxInv, Table, Shape, Minted
  <2>2. t > stale /\ ~Live(t)
    BY <1>1, <1>2 DEF TxInv, Hand, ReadIsCurrent
  <2> QED BY <2>1, <2>2
<1>4. HasWritten(q, t)
  BY <1>1, <1>2, <1>3 DEF TxInv, Hand, HoldsItsWrites
<1>5. Live(t) \/ t <= stale
  BY <1>4 DEF HasWritten, TxInv, Hand, WritesAreLive
<1> QED BY <1>3, <1>5

(* However many replicas and operators overlap, and however many rows are  *)
(* stale: no presentation is in a cycle of row locks before it mints, and  *)
(* in a cycle without commands everybody is still sweeping.                *)
THEOREM DeadlocksNeedSweeps == Spec => []OnlySweepsDeadlock
<1>1. TxInv => OnlySweepsDeadlock
  <2> SUFFICES ASSUME TxInv, NEW S \in Knots, NEW p \in S \cap Replica
               PROVE  /\ pc[p] \in Minting
                      /\ S \cap Operator = {} => todo[p] # {}
    BY DEF OnlySweepsDeadlock
  <2>0. \A T \in SUBSET S : T # {} /\ T # S => \E x \in T, y \in S \ T : WaitsFor(x, y)
    BY DEF Knots
  <2>1. \E x, y \in S : x # y
    BY DEF Knots
  <2>2. S \subseteq Proc
    BY DEF Knots
  <2>3. PICK q \in S : WaitsFor(p, q)
    <3>1. {p} \in SUBSET S /\ {p} # {} /\ {p} # S
      BY <2>1
    <3>2. \E x \in {p}, y \in S \ {p} : WaitsFor(x, y)
      BY <2>0, <3>1, Zenon
    <3> QED BY <3>2
  <2>4. PICK r : WaitsFor(r, p)
    <3> DEFINE T == S \ {p}
    <3>1. T \in SUBSET S /\ T # {} /\ T # S
      BY <2>1
    <3>2. \E x \in T, y \in S \ T : WaitsFor(x, y)
      BY <2>0, <3>1, Zenon
    <3> QED BY <3>2
  <2>5. pc[p] \in Minting
    BY <2>3, <2>4, WaitedForHasWritten, RefusingDoesNotWait
  <2>6. ASSUME S \cap Operator = {} PROVE todo[p] # {}
    <3>1. q \in Replica
      BY <2>2, <2>6 DEF Proc
    <3> QED BY <3>1, <2>3, <2>5, SweptWaitsForNoReplica
  <2> QED BY <2>5, <2>6
<1> QED BY <1>1, Invariance, PTL

-----------------------------------------------------------------------------
(* The refinement of RefreshContract.  As in RefreshRotationProofs, except *)
(* that here only what is committed counts.                                *)

(* What the refinement mapping picks is determined by the table: the live  *)
(* token and the row that names it.                                        *)
MappingIsSound ==
    \A f :
      /\ LiveToken(f) \in Token \cup {None} /\ PriorToken(f) \in Token \cup {None}
      /\ \A x : Live(x) /\ born[x].root = f => LiveToken(f) = x
      /\ LiveToken(f) # None => Live(LiveToken(f)) /\ born[LiveToken(f)].root = f
      /\ LiveToken(f) = None => PriorToken(f) = None
      /\ LiveToken(f) # None => \A t \in DOMAIN rows :
            rows[t].next = LiveToken(f) => PriorToken(f) = t
      /\ PriorToken(f) # None => /\ PriorToken(f) \in DOMAIN rows
                                 /\ rows[PriorToken(f)].next = LiveToken(f)

(* Choosing from a set of at most one element.                             *)
LEMMA AnyOfOne ==
    ASSUME NEW S, \A x, y \in S : x = y
    PROVE  /\ \A x \in S : AnyOf(S) = x
           /\ AnyOf(S) # None => AnyOf(S) \in S
<1>1. S # {} => AnyOf(S) \in S
  BY DEF AnyOf
<1>2. S = {} => AnyOf(S) = None
  BY DEF AnyOf
<1> QED BY <1>1, <1>2

(* The invariant makes the mapping well defined: a family has at most one  *)
(* live token and one predecessor of it.                                   *)
LEMMA MappingSound == Table => MappingIsSound
<1> SUFFICES ASSUME Table, NEW f
             PROVE  /\ LiveToken(f) \in Token \cup {None}
                    /\ PriorToken(f) \in Token \cup {None}
                    /\ \A x : Live(x) /\ born[x].root = f => LiveToken(f) = x
                    /\ LiveToken(f) # None =>
                         Live(LiveToken(f)) /\ born[LiveToken(f)].root = f
                    /\ LiveToken(f) = None => PriorToken(f) = None
                    /\ LiveToken(f) # None => \A t \in DOMAIN rows :
                         rows[t].next = LiveToken(f) => PriorToken(f) = t
                    /\ PriorToken(f) # None => /\ PriorToken(f) \in DOMAIN rows
                                               /\ rows[PriorToken(f)].next = LiveToken(f)
  BY DEF MappingIsSound
<1>1. DOMAIN rows \subseteq Token
  BY DEF Table, Shape
<1> DEFINE S == {t \in DOMAIN rows : Live(t) /\ born[t].root = f}
<1>2. /\ \A x \in S : LiveToken(f) = x
      /\ LiveToken(f) # None => LiveToken(f) \in S
  <2>1. \A x, y \in S : x = y
    BY DEF Table, OneLivePerFamily
  <2>2. LiveToken(f) = AnyOf(S)
    BY DEF LiveToken
  <2> QED BY <2>1, <2>2, AnyOfOne
<1>3. \A x : Live(x) /\ born[x].root = f => x \in S
  BY DEF Live
<1>4. PICK l : l = LiveToken(f)
  OBVIOUS
<1> DEFINE P == {t \in DOMAIN rows : rows[t].next = l}
<1>5. CASE l = None
  <2>1. PriorToken(f) = None
    BY <1>4, <1>5 DEF PriorToken
  <2> QED BY <2>1, <1>2, <1>3, <1>4, <1>5
<1>6. CASE l # None
  <2>1. \A x, y \in P : x = y
    BY <1>6 DEF Table, SuccessorIsChild
  <2>2. PriorToken(f) = AnyOf(P)
    BY <1>4, <1>6 DEF PriorToken
  <2>3. /\ \A x \in P : PriorToken(f) = x
        /\ PriorToken(f) # None => PriorToken(f) \in P
    BY <2>1, <2>2, AnyOfOne
  <2> HIDE DEF S
  <2>4. l \in S /\ l \in DOMAIN rows /\ Live(l) /\ born[l].root = f
    BY <1>2, <1>4, <1>6 DEF S
  <2> QED BY <2>3, <2>4, <1>1, <1>2, <1>3, <1>4, <1>6
<1> QED BY <1>5, <1>6

(* The same in the next state.                                             *)
LEMMA MappingStaysSound == Table' => MappingIsSound'
BY MappingSound, PTL

(* A family that gets no new live row, and no new row naming its live one, *)
(* stays as it is or lapses.                                               *)
StaysOrLapses(f) ==
    /\ LiveToken(f)' \in {LiveToken(f), None}
    /\ PriorToken(f)' \in {PriorToken(f), None}
    /\ LiveToken(f)' = None => PriorToken(f)' = None

(* The condition under which a family's image may only stay or lapse.      *)
LEMMA FamilyLapses ==
    ASSUME Table, Table', NEW f,
           \A x : Live(x)' /\ born'[x].root = f =>
              /\ Live(x) /\ born[x].root = f
              /\ \A t \in DOMAIN rows' : rows'[t].next = x =>
                    t \in DOMAIN rows /\ rows[t].next = x
    PROVE  StaysOrLapses(f)
<1>1. /\ \A x : Live(x) /\ born[x].root = f => LiveToken(f) = x
      /\ LiveToken(f) # None => \A t \in DOMAIN rows :
            rows[t].next = LiveToken(f) => PriorToken(f) = t
  BY MappingSound DEF MappingIsSound
<1>2. /\ LiveToken(f)' # None => Live(LiveToken(f))' /\ born'[LiveToken(f)'].root = f
      /\ LiveToken(f)' = None => PriorToken(f)' = None
      /\ PriorToken(f)' # None => /\ PriorToken(f)' \in DOMAIN rows'
                                  /\ rows'[PriorToken(f)'].next = LiveToken(f)'
  BY MappingStaysSound DEF MappingIsSound
<1>3. LiveToken(f)' # None => LiveToken(f)' = LiveToken(f)
  BY <1>1, <1>2
<1>4. PriorToken(f)' # None => PriorToken(f)' = PriorToken(f)
  BY <1>1, <1>2, <1>3
<1> QED BY <1>2, <1>3, <1>4 DEF StaysOrLapses

(* All families but one staying or lapsing is the contract's OthersLapse.  *)
LEMMA OthersLapsing ==
    ASSUME Table, Table', NEW f, \A g \in Token \ {f} : StaysOrLapses(g)
    PROVE  C!OthersLapse(f)
<1>1. \A g \in Token : /\ LiveToken(g)' \in Token \cup {None}
                       /\ PriorToken(g)' \in Token \cup {None}
  BY MappingStaysSound DEF MappingIsSound, Token
<1> QED BY <1>1 DEF C!OthersLapse, C!Lapses, StaysOrLapses

(* Forgetting, waiting and revoking only let tokens lapse.                 *)
LEMMA LosingIsLapse ==
    ASSUME Table, Table', born' = born,
           \A x : Live(x)' => Live(x),
           \A t \in DOMAIN rows' : t \in DOMAIN rows /\ rows'[t].next = rows[t].next
    PROVE  C!Lapse
<1>1. \A f \in Token : StaysOrLapses(f)
  BY FamilyLapses
<1>2. \A g \in Token : /\ LiveToken(g)' \in Token \cup {None}
                       /\ PriorToken(g)' \in Token \cup {None}
  BY MappingStaysSound DEF MappingIsSound, Token
<1>3. Minted' = Minted
  BY DEF Minted
<1> QED BY <1>1, <1>2, <1>3 DEF C!Lapse, C!Lapses, StaysOrLapses

(* A sign-in starts a family.                                              *)
LEMMA SigningInStarts ==
    ASSUME Table, Table', NEW u \in User, IssuesAfter(u)
    PROVE  \E n \in Token : C!Start(n)
<1>0. PICK n : n = Fresh
  OBVIOUS
<1>1. /\ n \in Token /\ born' = Append(born, [root |-> n, parent |-> None])
      /\ [root |-> n, parent |-> None] \in Birth
  BY <1>0 DEF IssuesAfter, Birth
<1>2. /\ n \notin Minted /\ n \notin DOMAIN rows /\ n # None
      /\ Minted' = Minted \cup {n}
      /\ \A x \in Minted : born'[x] = born[x] /\ born[x].root # n
      /\ born'[n].root = n
      /\ \A x \in DOMAIN rows : x \in Minted /\ rows[x].next # n
  <2>1. PICK b : b = [root |-> n, parent |-> None]
    OBVIOUS
  <2>2. /\ n \notin Minted /\ n \notin DOMAIN rows /\ n # None
        /\ Minted' = Minted \cup {n} /\ born'[n] = b
        /\ \A x \in Minted : born'[x] = born[x] /\ born[x].root # n
        /\ \A x \in DOMAIN rows : rows[x].next # n
    BY <2>1, <1>0, <1>1, FreshIsNew
  <2> QED BY <2>1, <2>2 DEF Table, Shape
<1>3. /\ n \in DOMAIN rows' /\ DOMAIN rows' \subseteq DOMAIN rows \cup {n}
      /\ rows'[n] = NewRow(u)
      /\ \A x \in DOMAIN rows' \ {n} : x \in DOMAIN rows /\ rows'[x] = rows[x]
  BY <1>0 DEF IssuesAfter, KeepsUnstale
<1>4. /\ Live(n)' /\ rows'[n].next = None
      /\ \A x : Live(x)' => x = n \/ Live(x)
      /\ \A x : Live(x)' => x \in DOMAIN rows'
  BY <1>3 DEF Live, NewRow
<1>5. \A g \in Token \ {n} : StaysOrLapses(g)
  <2> SUFFICES ASSUME NEW g \in Token \ {n} PROVE StaysOrLapses(g)
    OBVIOUS
  <2>1. ASSUME NEW x, Live(x)', born'[x].root = g
        PROVE  /\ Live(x) /\ born[x].root = g
               /\ \A t \in DOMAIN rows' : rows'[t].next = x =>
                     t \in DOMAIN rows /\ rows[t].next = x
    <3>1. x # n /\ Live(x) /\ x \in DOMAIN rows /\ x \in Minted
      BY <2>1, <1>2, <1>4 DEF Live
    <3>2. x # None
      BY <3>1, NoneIsNoToken
    <3> QED BY <2>1, <3>1, <3>2, <1>2, <1>3, <1>4
  <2> QED BY <2>1, FamilyLapses
<1>6. LiveToken(n)' = n
  BY <1>2, <1>4, MappingStaysSound DEF MappingIsSound
<1>7. PriorToken(n)' = None
  <2>1. \A t \in DOMAIN rows' : rows'[t].next # n
    BY <1>2, <1>3, <1>4
  <2> QED BY <2>1, <1>6, MappingStaysSound DEF MappingIsSound
<1>8. C!Mint(n)
  BY <1>1, <1>2 DEF C!Mint
<1>9. C!OthersLapse(n)
  BY <1>5, OthersLapsing
<1>10. C!Start(n)
  BY <1>1, <1>6, <1>7, <1>8, <1>9 DEF C!Start
<1> QED BY <1>1, <1>10

(* A mint inside a family uses its live token, or retries its prior one:   *)
(* the presented row is still there, so the mapping finds it again.        *)
LEMMA MintingUsesOrRetries ==
    ASSUME Table, Table', NEW t, NEW l, MintsAfter(t, l), t \in DOMAIN rows'
    PROVE  \E f, n \in Token : C!Use(f, n) \/ C!Retry(f, n)
<1>1. PICK n, f : n = Fresh /\ f = born[t].root
  OBVIOUS
<1>2. /\ t \in DOMAIN rows /\ l \in DOMAIN rows /\ t \in Minted /\ l \in Minted
      /\ n \in Token /\ f \in Token /\ DOMAIN rows \subseteq Minted /\ None \notin Minted
      /\ born' = Append(born, [root |-> f, parent |-> t])
      /\ [root |-> f, parent |-> t] \in Birth
  BY <1>1, NoneIsNoToken DEF Table, Shape, MintsAfter, Live, Birth
<1>3. n \notin Minted /\ n \notin DOMAIN rows /\ n # None /\ t # n
  BY <1>1, <1>2, FreshIsNew
<1>4. /\ Minted' = Minted \cup {n}
      /\ \A x \in Minted : born'[x] = born[x]
      /\ born'[n].root = f
  <2>1. PICK b : b = [root |-> f, parent |-> t]
    OBVIOUS
  <2>2. Minted' = Minted \cup {n} /\ born'[n] = b /\ \A x \in Minted : born'[x] = born[x]
    BY <2>1, <1>1, <1>2, FreshIsNew
  <2> QED BY <2>1, <2>2
<1>5. /\ n \in DOMAIN rows' /\ DOMAIN rows' \subseteq DOMAIN rows \cup {n}
      /\ rows'[n].next = None /\ Live(n)'
  BY <1>1 DEF MintsAfter, KeepsUnstale, NewRow, Live
<1>6. \A x \in DOMAIN rows' \ {n} :
         /\ x \in DOMAIN rows
         /\ x = t => rows'[x].next = n
         /\ x # t => rows'[x].next = rows[x].next
         /\ x = l => rows'[x].revoked
         /\ x # l => rows'[x].revoked = rows[x].revoked
  BY <1>1, <1>3 DEF MintsAfter, KeepsUnstale
<1>7. \A x : Live(x)' => x = n \/ (Live(x) /\ x # l)
  BY <1>2, <1>3, <1>6 DEF Live
<1>8. /\ Live(l) /\ born[l].root = f
      /\ l = t \/ rows[t].next = l
  <2>1. Live(l) /\ (l = t \/ rows[t].next = l)
    BY DEF MintsAfter
  <2>2. l # t => born[l].parent = t
    BY <2>1, <1>2, <1>3 DEF Table, SuccessorIsChild
  <2> QED BY <2>1, <2>2, <1>1, <1>2, <1>3 DEF Table, Lineage
<1>9. LiveToken(f) = l /\ LiveToken(f)' = n
  BY <1>4, <1>5, <1>8, MappingSound, MappingStaysSound DEF MappingIsSound
<1>10. PriorToken(f)' = t /\ (l # t => PriorToken(f) = t)
  <2>1. rows'[t].next = n
    BY <1>2, <1>3, <1>6
  <2>2. PriorToken(f)' = t
    BY <2>1, <1>2, <1>3, <1>9, MappingStaysSound DEF MappingIsSound
  <2>3. l # t => PriorToken(f) = t
    BY <1>2, <1>3, <1>8, <1>9, MappingSound DEF MappingIsSound
  <2> QED BY <2>2, <2>3
<1>11. \A g \in Token \ {f} : StaysOrLapses(g)
  <2> SUFFICES ASSUME NEW g \in Token \ {f} PROVE StaysOrLapses(g)
    OBVIOUS
  <2>1. ASSUME NEW x, Live(x)', born'[x].root = g
        PROVE  /\ Live(x) /\ born[x].root = g
               /\ \A y \in DOMAIN rows' : rows'[y].next = x =>
                     y \in DOMAIN rows /\ rows[y].next = x
    <3>1. x # n /\ Live(x) /\ x \in Minted /\ x # None
      BY <2>1, <1>2, <1>3, <1>4, <1>7 DEF Live
    <3> QED BY <2>1, <3>1, <1>4, <1>5, <1>6
  <2> QED BY <2>1, FamilyLapses
<1>12. C!Mint(n) /\ C!OthersLapse(f)
  BY <1>2, <1>3, <1>4, <1>11, OthersLapsing DEF C!Mint
<1>13. CASE l = t
  <2>1. C!Use(f, n)
    BY <1>2, <1>3, <1>9, <1>10, <1>12, <1>13 DEF C!Use
  <2> QED BY <1>2, <1>3, <2>1
<1>14. CASE l # t
  <2>1. C!Retry(f, n)
    BY <1>2, <1>3, <1>9, <1>10, <1>12, <1>14 DEF C!Retry
  <2> QED BY <1>2, <1>3, <2>1
<1> QED BY <1>13, <1>14

(* The committed table implements the contract, statement by statement and *)
(* under any overlap: a sign-in starts a family, a commit of the live      *)
(* branch uses its live token, one of the graced branch retries its prior  *)
(* one, and everything else lets tokens lapse.                             *)
THEOREM Implements == Spec => ImplementsContract
<1>1. TxInv /\ Init => C!ContractInit
  <2> SUFFICES ASSUME Table, Init PROVE C!ContractInit
    BY DEF TxInv
  <2>1. Minted = {} /\ DOMAIN rows = {}
    BY DEF Init, Minted
  <2>2. \A f : LiveToken(f) = None
    BY <2>1, MappingSound DEF MappingIsSound, Live
  <2>3. \A f : PriorToken(f) = None
    BY <2>2, MappingSound DEF MappingIsSound
  <2> QED BY <2>1, <2>2, <2>3 DEF C!ContractInit
<1>2. TxInv /\ TxInv' /\ [Next]_vars => [C!ContractNext]_(C!contractVars)
  <2> SUFFICES ASSUME TxInv, TxInv', [Next]_vars
               PROVE  C!ContractNext \/ UNCHANGED C!contractVars
    OBVIOUS
  <2>1. Table /\ Table'
    BY DEF TxInv
  <2>2. Loses => C!ContractNext
    BY <2>1, LosingIsLapse DEF Loses, C!ContractNext
  <2>3. UNCHANGED <<rows, born, stale, killed>> => Loses
    BY <2>1 DEF Loses, Live, Minted, Table, Shape
  <2>4. CASE \E p \in Replica : BeginIssue(p)
    BY <2>2, <2>3, <2>4 DEF BeginIssue
  <2>5. ASSUME NEW p \in Proc, Statement(p) \/ Acquire(p) \/ Crash(p) PROVE C!ContractNext
    <3>1. CASE CommitLive(p)
      <4>1. PICK t : t = tok[p]
        OBVIOUS
      <4>2. MintsAfter(t, t) /\ t \in DOMAIN rows'
        BY <3>1, <4>1, LiveMints
      <4> QED BY <2>1, <4>2, MintingUsesOrRetries DEF C!ContractNext
    <3>2. CASE CommitGraced(p)
      <4>1. PICK t, l : t = tok[p] /\ l = succ[p]
        OBVIOUS
      <4>2. MintsAfter(t, l) /\ t \in DOMAIN rows'
        BY <3>2, <4>1, GracedMints
      <4> QED BY <2>1, <4>2, MintingUsesOrRetries DEF C!ContractNext
    <3>3. CASE CommitRevoke(p) \/ CommitPrune(p)
      BY <2>2, <3>3, CommittingRevokeLoses, CommittingPruneLoses
    <3>4. ASSUME NEW u \in User, CommitIssue(p, u) PROVE C!ContractNext
      <4>1. IssuesAfter(u)
        BY <3>4, IssueMints
      <4> QED BY <2>1, <4>1, SigningInStarts DEF C!ContractNext
    <3>5. ASSUME ~CommitLive(p), ~CommitGraced(p), ~CommitRevoke(p), ~CommitPrune(p),
                 \A u \in User : ~CommitIssue(p, u)
          PROVE  UNCHANGED <<rows, born, stale, killed>>
      BY <2>5, <3>5 DEF Statement, Acquire, Crash, RevokeMisses, RefuseLive, RefuseRead,
         ReadRow, RetireMisses, StaleData, OutOfTokens, AbortDeadlocked, RevokeMatches, RetireMatches,
         VisitRow, Rollback
    <3> QED BY <2>2, <2>3, <3>1, <3>2, <3>3, <3>4, <3>5
  <2>6. CASE \E p \in Operator, S \in SUBSET DOMAIN rows : BeginPrune(p, S)
    BY <2>2, <2>3, <2>6 DEF BeginPrune
  <2>7. CASE Age
    <3>1. rows' = rows /\ born' = born
      BY <2>7 DEF Age
    <3>2. \A x : Live(x)' => Live(x)
      BY <3>1 DEF Live
    <3> QED BY <2>1, <3>1, <3>2, LosingIsLapse DEF C!ContractNext
  <2>8. CASE \/ \E p \in Replica, t \in Minted : Present(p, t)
             \/ \E p \in Operator, u \in User : BeginRevoke(p, u)
             \/ UNCHANGED vars
    BY <2>2, <2>3, <2>8 DEF Present, BeginRevoke, vars
  <2> QED BY <2>4, <2>5, <2>6, <2>7, <2>8 DEF Next
<1> QED BY <1>1, <1>2, Invariance, InvariantHoldsFirst, PTL DEF Spec, ImplementsContract, C!Contract
=============================================================================
