------------------------ MODULE RefreshRotationProofs ------------------------
(***************************************************************************)
(* Proofs about RefreshRotation, for any sets of clients and users, any    *)
(* setting of the grace window and any length of history, and about        *)
(* ClientRegistry and RefreshClient, whose behaviours keep the same        *)
(* invariant of the table.                                                 *)
(***************************************************************************)
EXTENDS ClientRegistry, RefreshClient, TLAPS

Grace == refresh_grace_seconds

Lineage ==
    \A t \in Minted :
        \/ born[t].parent = None /\ born[t].root = t
        \/ /\ born[t].parent \in Minted /\ born[t].parent < t
           /\ born[born[t].parent].root = born[t].root

SuccessorIsChild ==
    \A t \in DOMAIN rows : rows[t].next # None =>
        /\ rows[t].next \in Minted
        /\ born[rows[t].next].parent = t
        /\ ~Live(t)

UsedIsDead == \A t \in Minted : HasChild(t) => ~Live(t)

ActiveIsSuccessor ==
    \A t \in DOMAIN rows : \A c \in Minted :
        born[c].parent = t /\ (Live(c) \/ HasChild(c)) => rows[t].next = c

OneUserPerFamily ==
    \A s, t \in DOMAIN rows : born[s].root = born[t].root => rows[s].user = rows[t].user

RevokedInThePast ==
    \A t \in DOMAIN rows : ~Live(t) => rows[t].revoked \in Nat /\ rows[t].revoked <= now

BornInWindow ==
    \A c \in Minted : \A t \in DOMAIN rows : born[c].parent = t =>
        /\ rows[t].revoked <= born[c].at
        /\ born[c].at <= rows[t].revoked + Grace

IInv ==
    /\ TypeOK
    /\ Lineage
    /\ SuccessorIsChild
    /\ UsedIsDead
    /\ ActiveIsSuccessor
    /\ OneUserPerFamily
    /\ RevokedInThePast
    /\ BornInWindow
    /\ OneLivePerFamily
    /\ NoFork
    /\ GraceCountsFromFirst
    /\ RevokedStaysDead

(* The grace window is a number, whatever the environment says.            *)
LEMMA GraceIsNat == Grace \in Nat /\ Grace <= TTL
BY TimeAssumption, NullAssumption DEF Grace, refresh_grace_seconds

(* Integer division as prune-oauth uses it rounds up.                      *)
LEMMA CeilDivRoundsUp ==
    ASSUME NEW n \in Int, NEW d \in Nat \ {0}
    PROVE  CeilDiv(n, d) \in Int /\ CeilDiv(n, d) * d >= n
<1> DEFINE q == (-n) \div d
<1>1. q \in Int /\ d * q <= -n
  OBVIOUS
<1>2. (-q) * d = -(d * q)
  BY <1>1
<1> QED
  BY <1>1, <1>2 DEF CeilDiv

(* prune-oauth keeps a revoked row a full day past the grace window, hence *)
(* at least as long as the window itself.                                  *)
LEMMA RetentionOutlastsGrace == KeepRevoked \in Int /\ KeepRevoked >= Grace + Day
<1> DEFINE days == CeilDiv(Grace, Day)
<1>1. days \in Int /\ days * Day >= Grace /\ Day \in Nat
  BY GraceIsNat, CeilDivRoundsUp, TimeAssumption
<1>2. KeepRevoked = (days + 1) * Day
  BY DEF KeepRevoked, _default_revoked_grace_days, Grace
<1>3. (days + 1) * Day = days * Day + Day
  BY <1>1
<1> QED
  BY <1>1, <1>2, <1>3, GraceIsNat

-----------------------------------------------------------------------------
(* The two shapes of a step that keeps the clock: a mint inside a family,  *)
(* which kills the family's live token l and makes t the parent of Fresh,  *)
(* and a step that only deletes rows or lets time pass.                    *)

MintsAfter(t, l) ==
    /\ t \in DOMAIN rows /\ l \in DOMAIN rows
    /\ Live(l)
    /\ l = t \/ (~Live(t) /\ rows[t].next = l /\ now <= rows[t].revoked + Grace)
    /\ Fresh \in Token
    /\ born' = Append(born, [root |-> born[t].root, parent |-> t, at |-> now])
    /\ DOMAIN rows' \subseteq DOMAIN rows \cup {Fresh}
    /\ Fresh \in DOMAIN rows'
    /\ rows' = [x \in DOMAIN rows' |-> rows'[x]]
    /\ rows'[Fresh] = NewRow(rows[t].client, rows[t].user)
    /\ \A x \in DOMAIN rows' \ {Fresh} :
         /\ rows'[x] \in Row
         /\ rows'[x].user = rows[x].user
         /\ rows'[x].client = rows[x].client /\ rows'[x].expires = rows[x].expires
         /\ rows'[x].next = IF x = t THEN Fresh ELSE rows[x].next
         /\ rows'[x].revoked = IF x = l THEN now ELSE rows[x].revoked
    /\ UNCHANGED <<now, killed>>

OnlyForgets ==
    /\ DOMAIN rows' \subseteq DOMAIN rows
    /\ rows' = [x \in DOMAIN rows' |-> rows[x]]
    /\ now' \in Nat /\ now <= now'
    /\ UNCHANGED <<born, killed>>

(* What a mint leaves in the table: what the sweep kept of r, and the row. *)
LEMMA MintedTable ==
    ASSUME NEW r, NEW row, Fresh \notin DOMAIN r,
           rows' = Inserted(Swept(r), row)
    PROVE  /\ DOMAIN rows' \subseteq DOMAIN r \cup {Fresh}
           /\ Fresh \in DOMAIN rows'
           /\ rows' = [x \in DOMAIN rows' |-> rows'[x]]
           /\ rows'[Fresh] = row
           /\ \A x \in DOMAIN rows' \ {Fresh} : x \in DOMAIN r /\ rows'[x] = r[x]
<1>1. DOMAIN Swept(r) \subseteq DOMAIN r /\ \A x \in DOMAIN Swept(r) : Swept(r)[x] = r[x]
  BY DEF Swept
<1>2. DOMAIN rows' = DOMAIN Swept(r) \cup {Fresh}
  BY DEF Inserted
<1>3. rows' = [x \in DOMAIN rows' |-> rows'[x]]
  BY DEF Inserted
<1>4. rows'[Fresh] = row
  BY DEF Inserted
<1>5. \A x \in DOMAIN rows' \ {Fresh} : rows'[x] = Swept(r)[x]
  BY <1>2 DEF Inserted
<1> QED
  BY <1>1, <1>2, <1>3, <1>4, <1>5

(* rotate_refresh_token on a live token mints after that token itself.     *)
LEMMA LiveMints ==
    ASSUME TypeOK, NEW t \in Token, NEW c \in Client, RotateLive(t, c)
    PROVE  MintsAfter(t, t)
<1>1. t \in DOMAIN rows /\ Live(t)
  BY DEF RotateLive, Verdict, Live
<1>2. /\ Fresh \in Token /\ Fresh \notin DOMAIN rows
      /\ UNCHANGED <<now, killed>>
      /\ born' = Append(born, [root |-> born[t].root, parent |-> t, at |-> now])
  BY DEF RotateLive, Bear, TypeOK, Minted, Fresh
<1> DEFINE r == [rows EXCEPT ![t].revoked = now, ![t].next = Fresh]
<1>3. /\ DOMAIN r = DOMAIN rows
      /\ r[t] = [rows[t] EXCEPT !.revoked = now, !.next = Fresh]
      /\ \A x \in DOMAIN rows \ {t} : r[x] = rows[x]
  BY <1>1
<1>4. rows' = Inserted(Swept(r), NewRow(rows[t].client, rows[t].user))
  BY DEF RotateLive
<1> HIDE DEF r
<1>5. \A x \in DOMAIN rows : rows[x] \in Row
  BY DEF TypeOK
<1>6. \A x \in DOMAIN rows :
        /\ r[x] \in Row
        /\ r[x].user = rows[x].user
        /\ r[x].client = rows[x].client /\ r[x].expires = rows[x].expires
        /\ r[x].next = IF x = t THEN Fresh ELSE rows[x].next
        /\ r[x].revoked = IF x = t THEN now ELSE rows[x].revoked
  <2> SUFFICES ASSUME NEW x \in DOMAIN rows
               PROVE /\ r[x] \in Row
                     /\ r[x].user = rows[x].user
                     /\ r[x].client = rows[x].client /\ r[x].expires = rows[x].expires
                     /\ r[x].next = IF x = t THEN Fresh ELSE rows[x].next
                     /\ r[x].revoked = IF x = t THEN now ELSE rows[x].revoked
    OBVIOUS
  <2>1. CASE x = t
    BY <2>1, <1>2, <1>3, <1>5 DEF Row, TypeOK
  <2>2. CASE x # t
    BY <2>2, <1>3, <1>5
  <2> QED BY <2>1, <2>2
<1>7. /\ DOMAIN rows' \subseteq DOMAIN r \cup {Fresh}
      /\ Fresh \in DOMAIN rows'
      /\ rows' = [x \in DOMAIN rows' |-> rows'[x]]
      /\ rows'[Fresh] = NewRow(rows[t].client, rows[t].user)
      /\ \A x \in DOMAIN rows' \ {Fresh} : x \in DOMAIN r /\ rows'[x] = r[x]
  <2> HIDE DEF Fresh, NewRow, Inserted, Swept
  <2>1. Fresh \notin DOMAIN r
    BY <1>2, <1>3
  <2> QED BY <1>4, <2>1, MintedTable
<1>8. \A x \in DOMAIN rows' \ {Fresh} :
         /\ rows'[x] \in Row
         /\ rows'[x].user = rows[x].user
         /\ rows'[x].client = rows[x].client /\ rows'[x].expires = rows[x].expires
         /\ rows'[x].next = IF x = t THEN Fresh ELSE rows[x].next
         /\ rows'[x].revoked = IF x = t THEN now ELSE rows[x].revoked
  BY <1>3, <1>6, <1>7
<1> QED
  BY <1>1, <1>2, <1>3, <1>7, <1>8 DEF MintsAfter

(* rotate_refresh_token on a graced token mints after it and kills the     *)
(* unused successor.                                                       *)
LEMMA GracedMints ==
    ASSUME TypeOK, RevokedInThePast,
           NEW t \in Token, NEW c \in Client, RotateGraced(t, c)
    PROVE  MintsAfter(t, rows[t].next)
<1> DEFINE l == rows[t].next
<1>1. /\ t \in DOMAIN rows /\ ~Live(t)
      /\ l \in DOMAIN rows /\ Live(l)
      /\ WindowOpen(t)
  BY DEF RotateGraced, Verdict, Live, SuccessorUnused
<1>2. /\ Fresh \in Token /\ Fresh \notin DOMAIN rows
      /\ UNCHANGED <<now, killed>>
      /\ born' = Append(born, [root |-> born[t].root, parent |-> t, at |-> now])
  BY DEF RotateGraced, Bear, TypeOK, Minted, Fresh
<1>3. now <= rows[t].revoked + Grace
  BY <1>1, GraceIsNat DEF WindowOpen, Grace, RevokedInThePast, TypeOK
<1> DEFINE r == [rows EXCEPT ![l].revoked = now, ![t].next = Fresh]
<1>4. /\ DOMAIN r = DOMAIN rows
      /\ r[l] = [rows[l] EXCEPT !.revoked = now]
      /\ r[t] = [rows[t] EXCEPT !.next = Fresh]
      /\ \A x \in DOMAIN rows \ {t, l} : r[x] = rows[x]
      /\ l # t
  BY <1>1
<1>5. rows' = Inserted(Swept(r), NewRow(rows[t].client, rows[t].user))
  BY DEF RotateGraced
<1> HIDE DEF r, l
<1>6. \A x \in DOMAIN rows : rows[x] \in Row
  BY DEF TypeOK
<1>7. \A x \in DOMAIN rows :
        /\ r[x] \in Row
        /\ r[x].user = rows[x].user
        /\ r[x].client = rows[x].client /\ r[x].expires = rows[x].expires
        /\ r[x].next = IF x = t THEN Fresh ELSE rows[x].next
        /\ r[x].revoked = IF x = l THEN now ELSE rows[x].revoked
  <2> SUFFICES ASSUME NEW x \in DOMAIN rows
               PROVE /\ r[x] \in Row
                     /\ r[x].user = rows[x].user
                     /\ r[x].client = rows[x].client /\ r[x].expires = rows[x].expires
                     /\ r[x].next = IF x = t THEN Fresh ELSE rows[x].next
                     /\ r[x].revoked = IF x = l THEN now ELSE rows[x].revoked
    OBVIOUS
  <2>1. CASE x = t
    BY <2>1, <1>2, <1>4, <1>6 DEF Row, TypeOK
  <2>2. CASE x = l
    BY <2>2, <1>2, <1>4, <1>6 DEF Row, TypeOK
  <2>3. CASE x \notin {t, l}
    BY <2>3, <1>4, <1>6
  <2> QED BY <2>1, <2>2, <2>3
<1>8. /\ DOMAIN rows' \subseteq DOMAIN r \cup {Fresh}
      /\ Fresh \in DOMAIN rows'
      /\ rows' = [x \in DOMAIN rows' |-> rows'[x]]
      /\ rows'[Fresh] = NewRow(rows[t].client, rows[t].user)
      /\ \A x \in DOMAIN rows' \ {Fresh} : x \in DOMAIN r /\ rows'[x] = r[x]
  <2>1. Fresh \notin DOMAIN r
    BY <1>2, <1>4
  <2> QED BY <1>5, <2>1, MintedTable
<1>9. \A x \in DOMAIN rows' \ {Fresh} :
         /\ rows'[x] \in Row
         /\ rows'[x].user = rows[x].user
         /\ rows'[x].client = rows[x].client /\ rows'[x].expires = rows[x].expires
         /\ rows'[x].next = IF x = t THEN Fresh ELSE rows[x].next
         /\ rows'[x].revoked = IF x = l THEN now ELSE rows[x].revoked
  BY <1>4, <1>7, <1>8
<1> QED
  BY <1>1, <1>2, <1>3, <1>4, <1>8, <1>9 DEF MintsAfter, l

(* Deleting rows or waiting keeps every conjunct of the invariant.         *)
LEMMA ForgettingIsSafe ==
    ASSUME IInv, OnlyForgets
    PROVE  IInv'
<1> USE DEF IInv, OnlyForgets
<1>1. /\ Minted' = Minted
      /\ \A x \in DOMAIN rows' : x \in DOMAIN rows /\ rows'[x] = rows[x]
      /\ \A x : Live(x)' => Live(x)
      /\ \A x \in DOMAIN rows' : Live(x)' <=> Live(x)
      /\ \A x : HasChild(x)' <=> HasChild(x)
  BY DEF Minted, Live, HasChild
<1>2. TypeOK'
  BY <1>1 DEF TypeOK
<1>3. Lineage'
  BY <1>1 DEF Lineage
<1>4. SuccessorIsChild'
  BY <1>1 DEF SuccessorIsChild
<1>5. UsedIsDead'
  BY <1>1 DEF UsedIsDead
<1>6. ActiveIsSuccessor'
  BY <1>1 DEF ActiveIsSuccessor
<1>7. OneUserPerFamily'
  BY <1>1 DEF OneUserPerFamily
<1>8. RevokedInThePast'
  BY <1>1 DEF RevokedInThePast, TypeOK
<1>9. BornInWindow'
  BY <1>1 DEF BornInWindow, Grace, refresh_grace_seconds
<1>10. OneLivePerFamily'
  BY <1>1 DEF OneLivePerFamily
<1>11. NoFork'
  BY <1>1 DEF NoFork
<1>12. GraceCountsFromFirst'
  BY <1>1 DEF GraceCountsFromFirst, refresh_grace_seconds
<1>13. RevokedStaysDead'
  BY <1>1 DEF RevokedStaysDead
<1> QED
  BY <1>2, <1>3, <1>4, <1>5, <1>6, <1>7, <1>8, <1>9, <1>10, <1>11, <1>12, <1>13

(* A mint inside a family keeps the invariant.                             *)
LEMMA MintingIsSafe ==
    ASSUME IInv, NEW t, NEW l, MintsAfter(t, l)
    PROVE  IInv'
<1>0. PICK n : n = Fresh
  OBVIOUS
<1>1. /\ born \in Seq(Birth)
      /\ n \in Nat /\ n \notin Minted /\ n \in Token
      /\ None \notin Minted /\ None # n
      /\ now \in Nat
      /\ t \in Minted /\ l \in Minted
      /\ born[t] \in Birth /\ born[t].root \in Minted
  BY <1>0, NullAssumption DEF IInv, MintsAfter, TypeOK, Minted, Fresh
<1>2. /\ born' \in Seq(Birth)
      /\ Minted' = Minted \cup {n}
      /\ \A x \in Minted : born'[x] = born[x]
      /\ born'[n] = [root |-> born[t].root, parent |-> t, at |-> now]
      /\ now' = now /\ killed' = killed
  <2>1. [root |-> born[t].root, parent |-> t, at |-> now] \in Birth
    BY <1>1 DEF Birth, MintsAfter, IInv, TypeOK
  <2> QED BY <1>0, <1>1, <2>1 DEF MintsAfter, Minted, Fresh
<1>3. /\ n \in DOMAIN rows' /\ DOMAIN rows' \subseteq DOMAIN rows \cup {n}
      /\ rows'[n].next = None /\ rows'[n].revoked = None
      /\ rows'[n].user = rows[t].user
      /\ Live(n)'
  BY <1>0 DEF MintsAfter, NewRow, Live
<1>4. \A x \in DOMAIN rows' \ {n} :
         /\ x \in DOMAIN rows /\ x \in Minted
         /\ rows'[x].user = rows[x].user
         /\ rows'[x].next = IF x = t THEN n ELSE rows[x].next
         /\ rows'[x].revoked = IF x = l THEN now ELSE rows[x].revoked
         /\ Live(x)' <=> Live(x) /\ x # l
  BY <1>0, <1>1, NullAssumption DEF MintsAfter, Live, IInv, TypeOK
<1>5. \A x \in Minted : Live(x)' => Live(x) /\ x # l
  BY <1>1, <1>4 DEF Live
<1>6. /\ t \in DOMAIN rows /\ l \in DOMAIN rows /\ Live(l) /\ (t # l => ~Live(t))
      /\ t # l => rows[t].next = l /\ now <= rows[t].revoked + Grace
      /\ l # t => born[l].parent = t
      /\ born[l].root = born[t].root
      /\ ~HasChild(l)
      /\ Live(t) \/ HasChild(t)
  <2>1. t \in DOMAIN rows /\ l \in DOMAIN rows /\ Live(l)
        /\ (l = t \/ (~Live(t) /\ rows[t].next = l /\ now <= rows[t].revoked + Grace))
    BY DEF MintsAfter
  <2>2. l # t => born[l].parent = t
    BY <2>1, <1>1, NullAssumption DEF IInv, SuccessorIsChild, TypeOK
  <2>3. born[l].root = born[t].root
    BY <2>1, <2>2, <1>1, NullAssumption DEF IInv, Lineage, Minted, TypeOK
  <2>4. ~HasChild(l)
    BY <2>1, <1>1 DEF IInv, UsedIsDead
  <2>5. Live(t) \/ HasChild(t)
    BY <2>1, <2>2, <1>1 DEF HasChild
  <2> QED BY <2>1, <2>2, <2>3, <2>4, <2>5
<1>7. /\ \A x \in Minted : HasChild(x)' <=> HasChild(x) \/ x = t
      /\ ~HasChild(n)'
  <2>1. \A y \in Minted : born[y].parent \in Minted \cup {None}
    BY DEF IInv, Lineage
  <2>2. n # t /\ n # None /\ \A y \in Minted : born[y].parent # n
    BY <1>1, <2>1, NullAssumption
  <2> QED BY <1>1, <1>2, <2>2 DEF HasChild
<1>8. TypeOK'
  <2>1. rows' \in [DOMAIN rows' -> Row]
    <3>1. rows'[n] \in Row
      BY <1>0, <1>1, TimeAssumption DEF MintsAfter, NewRow, Row, IInv, TypeOK
    <3> QED BY <3>1, <1>0, <1>4 DEF MintsAfter
  <2>2. DOMAIN rows' \subseteq Minted'
    BY <1>2, <1>3, <1>4
  <2>3. \A x \in DOMAIN rows' : rows'[x].next \in Minted' \cup {None}
    BY <1>2, <1>3, <1>4 DEF IInv, TypeOK
  <2>4. Minted' \subseteq Token /\ killed' \subseteq Minted'
    BY <1>1, <1>2 DEF IInv, TypeOK
  <2>5. \A x \in Minted' : born'[x].root \in Minted'
    BY <1>1, <1>2 DEF IInv, TypeOK
  <2> QED BY <1>1, <1>2, <2>1, <2>2, <2>3, <2>4, <2>5 DEF TypeOK
<1>9. Lineage'
  <2> SUFFICES ASSUME NEW x \in Minted'
               PROVE  \/ born'[x].parent = None /\ born'[x].root = x
                      \/ /\ born'[x].parent \in Minted' /\ born'[x].parent < x
                         /\ born'[born'[x].parent].root = born'[x].root
    BY DEF Lineage
  <2>1. CASE x = n
    <3>1. t < n
      BY <1>0, <1>1 DEF Minted, Fresh
    <3> QED BY <2>1, <3>1, <1>1, <1>2
  <2>2. CASE x # n
    BY <2>2, <1>1, <1>2 DEF IInv, Lineage
  <2> QED BY <2>1, <2>2
<1>10. SuccessorIsChild'
  <2> SUFFICES ASSUME NEW x \in DOMAIN rows', rows'[x].next # None
               PROVE  /\ rows'[x].next \in Minted'
                      /\ born'[rows'[x].next].parent = x
                      /\ ~Live(x)'
    BY DEF SuccessorIsChild
  <2>1. CASE x = n
    BY <2>1, <1>3
  <2>2. CASE x = t
    BY <2>2, <1>1, <1>2, <1>4, <1>6
  <2>3. CASE x \notin {n, t}
    BY <2>3, <1>2, <1>4 DEF IInv, SuccessorIsChild
  <2> QED BY <2>1, <2>2, <2>3
<1>11. UsedIsDead'
  BY <1>2, <1>5, <1>6, <1>7 DEF IInv, UsedIsDead
<1>12. ActiveIsSuccessor'
  <2> SUFFICES ASSUME NEW x \in DOMAIN rows', NEW c \in Minted',
                      born'[c].parent = x, Live(c)' \/ HasChild(c)'
               PROVE  rows'[x].next = c
    BY DEF ActiveIsSuccessor
  <2>1. CASE c = n
    BY <2>1, <1>1, <1>2, <1>4
  <2>2. CASE c # n
    <3>1. c \in Minted /\ born[c].parent = x /\ x # n
      <4>1. c \in Minted /\ born[c].parent = x
        BY <2>2, <1>2
      <4>2. born[c].parent \in Minted \cup {None}
        BY <4>1 DEF IInv, Lineage
      <4> QED BY <4>1, <4>2, <1>1, NullAssumption
    <3>2. Live(c) \/ HasChild(c)
      BY <3>1, <1>5, <1>6, <1>7
    <3>3. rows[x].next = c
      BY <3>1, <3>2, <1>4 DEF IInv, ActiveIsSuccessor
    <3>4. x # t
      <4> SUFFICES ASSUME x = t PROVE FALSE
        OBVIOUS
      <4>1. t # l /\ c = l
        BY <3>1, <3>3, <1>1, <1>6, NullAssumption DEF IInv, SuccessorIsChild
      <4>2. ~Live(c)' /\ c # t /\ ~HasChild(c)
        BY <4>1, <3>1, <1>5, <1>6
      <4> QED BY <4>2, <3>1, <1>7
    <3> QED BY <3>1, <3>3, <3>4, <1>4
  <2> QED BY <2>1, <2>2
<1>13. OneUserPerFamily'
  <2>1. \A x \in DOMAIN rows' : \E y \in DOMAIN rows :
           rows'[x].user = rows[y].user /\ born'[x].root = born[y].root
    <3> SUFFICES ASSUME NEW x \in DOMAIN rows'
                 PROVE  \E y \in DOMAIN rows :
                           rows'[x].user = rows[y].user /\ born'[x].root = born[y].root
      OBVIOUS
    <3>1. CASE x = n
      BY <3>1, <1>2, <1>3, <1>6
    <3>2. CASE x # n
      BY <3>2, <1>2, <1>4
    <3> QED BY <3>1, <3>2
  <2> QED BY <2>1 DEF IInv, OneUserPerFamily
<1>14. RevokedInThePast'
  BY <1>1, <1>2, <1>3, <1>4 DEF IInv, RevokedInThePast
<1>15. BornInWindow'
  <2> SUFFICES ASSUME NEW c \in Minted', NEW x \in DOMAIN rows', born'[c].parent = x
               PROVE  /\ rows'[x].revoked <= born'[c].at
                      /\ born'[c].at <= rows'[x].revoked + Grace
    BY DEF BornInWindow, Grace, refresh_grace_seconds
  <2>1. CASE c = n
    <3>1. x = t /\ born'[c].at = now
      BY <2>1, <1>2
    <3>2. t = l => rows'[x].revoked = now
      BY <3>1, <1>1, <1>4
    <3>3. t # l => rows'[x].revoked = rows[t].revoked /\ rows[t].revoked \in Nat
                   /\ rows[t].revoked <= now /\ now <= rows[t].revoked + Grace
      BY <3>1, <1>1, <1>4, <1>6 DEF IInv, RevokedInThePast
    <3> QED BY <3>1, <3>2, <3>3, <1>1, GraceIsNat
  <2>2. CASE c # n
    <3>1. c \in Minted /\ born[c].parent = x /\ born'[c] = born[c]
      BY <2>2, <1>2
    <3>2. HasChild(x) /\ x \in Minted
      BY <3>1, <1>1, <1>4, NullAssumption DEF HasChild, IInv, Lineage
    <3>3. x # l /\ x # n
      BY <3>2, <1>1, <1>6
    <3> QED BY <3>1, <3>3, <1>4 DEF IInv, BornInWindow
  <2> QED BY <2>1, <2>2
<1>16. OneLivePerFamily'
  <2>1. \A x \in DOMAIN rows : Live(x) /\ born[x].root = born[t].root => x = l
    BY <1>6 DEF IInv, OneLivePerFamily
  <2> QED BY SMTT(30), <2>1, <1>1, <1>2, <1>3, <1>4 DEF IInv, OneLivePerFamily
<1>17. \A s \in Minted : born[s].parent = t => ~Live(s)' /\ ~HasChild(s)'
  <2> SUFFICES ASSUME NEW s \in Minted, born[s].parent = t, Live(s)' \/ HasChild(s)'
               PROVE FALSE
    OBVIOUS
  <2>1. s # t /\ HasChild(t)
    BY <1>1 DEF HasChild, IInv, Lineage, Minted
  <2>2. t # l /\ rows[t].next = l
    BY <2>1, <1>6
  <2>3. Live(s) \/ HasChild(s)
    BY <2>1, <1>5, <1>7
  <2>4. s = l
    BY <2>2, <2>3, <1>6 DEF IInv, ActiveIsSuccessor
  <2> QED BY <2>1, <2>4, <1>5, <1>6, <1>7
<1>18. NoFork'
  <2> SUFFICES ASSUME NEW s1 \in Minted', NEW s2 \in Minted',
                      born'[s1].parent = born'[s2].parent, born'[s1].parent # None,
                      Live(s1)' \/ HasChild(s1)', Live(s2)' \/ HasChild(s2)'
               PROVE  s1 = s2
    BY DEF NoFork
  <2>1. CASE s1 = n \/ s2 = n
    BY <2>1, <1>2, <1>17
  <2>2. CASE s1 # n /\ s2 # n
    <3>1. /\ s1 \in Minted /\ s2 \in Minted
          /\ born[s1].parent = born[s2].parent /\ born[s1].parent # None
      BY <2>2, <1>2
    <3>2. \A s \in Minted : Live(s)' \/ HasChild(s)' => Live(s) \/ HasChild(s) \/ s = t
      BY <1>5, <1>7
    <3> QED BY <3>1, <3>2, <1>6 DEF IInv, NoFork
  <2> QED BY <2>1, <2>2
<1>19. GraceCountsFromFirst'
  <2>1. \A s \in Minted : born[s].at \in Nat
    <3>1. \A s \in Minted : born[s] \in Birth
      BY <1>1 DEF Minted
    <3> QED BY <3>1 DEF Birth
  <2>2. \A s \in Minted : born[s].parent = t =>
           born[s].at - now <= Grace /\ now - born[s].at <= Grace
    <3> SUFFICES ASSUME NEW s \in Minted, born[s].parent = t
                 PROVE  born[s].at - now <= Grace /\ now - born[s].at <= Grace
      OBVIOUS
    <3>1. t # l
      BY <1>6 DEF HasChild
    <3>2. /\ rows[t].revoked \in Nat /\ rows[t].revoked <= now
          /\ now <= rows[t].revoked + Grace
      BY <3>1, <1>6 DEF IInv, RevokedInThePast
    <3>3. rows[t].revoked <= born[s].at /\ born[s].at <= rows[t].revoked + Grace
      BY <1>6 DEF IInv, BornInWindow
    <3> QED BY <3>2, <3>3, <2>1, <1>1, GraceIsNat
  <2> SUFFICES ASSUME NEW s1 \in Minted', NEW s2 \in Minted',
                      born'[s1].parent = born'[s2].parent, born'[s1].parent # None
               PROVE  born'[s1].at - born'[s2].at <= Grace
    BY DEF GraceCountsFromFirst, Grace, refresh_grace_seconds
  <2>3. CASE s1 = n /\ s2 = n
    BY <2>3, <1>1, <1>2, GraceIsNat
  <2>4. CASE s1 = n /\ s2 # n
    BY <2>4, <1>1, <1>2, <2>2
  <2>5. CASE s1 # n /\ s2 = n
    BY <2>5, <1>1, <1>2, <2>2
  <2>6. CASE s1 # n /\ s2 # n
    BY <2>6, <1>2 DEF IInv, GraceCountsFromFirst, Grace
  <2> QED BY <2>3, <2>4, <2>5, <2>6
<1>20. RevokedStaysDead'
  <2>1. born[t].root \notin killed
    BY <1>6 DEF IInv, RevokedStaysDead
  <2> QED BY <2>1, <1>1, <1>2, <1>4 DEF IInv, RevokedStaysDead
<1> QED
  BY <1>8, <1>9, <1>10, <1>11, <1>12, <1>13, <1>14, <1>15, <1>16, <1>18, <1>19, <1>20 DEF IInv

(* A sign-in starts a family of its own and keeps the invariant.           *)
LEMMA SigningInIsSafe ==
    ASSUME IInv, NEW u \in User, NEW c \in Client, SignIn(u, c)
    PROVE  IInv'
<1>0. PICK n : n = Fresh
  OBVIOUS
<1>1. /\ born \in Seq(Birth)
      /\ n \in Nat /\ n \notin Minted /\ n \in Token /\ n \notin DOMAIN rows
      /\ None \notin Minted /\ None # n
      /\ now \in Nat
      /\ [root |-> n, parent |-> None, at |-> now] \in Birth
  BY <1>0, NullAssumption DEF IInv, SignIn, Bear, TypeOK, Minted, Fresh, Birth
<1>2. /\ born' \in Seq(Birth)
      /\ Minted' = Minted \cup {n}
      /\ \A x \in Minted : born'[x] = born[x]
      /\ born'[n] = [root |-> n, parent |-> None, at |-> now]
      /\ now' = now /\ killed' = killed
  BY <1>0, <1>1 DEF SignIn, Bear, Minted, Fresh
<1>3. /\ n \in DOMAIN rows' /\ DOMAIN rows' \subseteq DOMAIN rows \cup {n}
      /\ rows'[n] = NewRow(c, u)
      /\ rows' = [x \in DOMAIN rows' |-> rows'[x]]
      /\ \A x \in DOMAIN rows' \ {n} : x \in DOMAIN rows /\ rows'[x] = rows[x]
  <2>1. rows' = Inserted(Swept(rows), NewRow(c, u))
    BY DEF SignIn
  <2> QED BY <2>1, <1>0, <1>1, MintedTable
<1>4. /\ Live(n)' /\ rows'[n].next = None /\ rows'[n].revoked = None
      /\ \A x \in DOMAIN rows' \ {n} : Live(x)' <=> Live(x)
      /\ \A x \in Minted : Live(x)' => Live(x)
  BY <1>1, <1>3 DEF Live, NewRow
<1>5. /\ \A x \in Minted : HasChild(x)' <=> HasChild(x)
      /\ ~HasChild(n)'
  <2>1. \A y \in Minted : born[y].parent # n
    BY <1>1 DEF IInv, Lineage
  <2> QED BY <1>1, <1>2, <2>1 DEF HasChild
<1>6. /\ DOMAIN rows \subseteq Minted /\ killed \subseteq Minted
      /\ \A x \in Minted : born[x].root \in Minted
      /\ \A x \in Minted : born[x].parent # n
  BY <1>1 DEF IInv, TypeOK, Lineage
<1>7. TypeOK'
  <2>1. rows' \in [DOMAIN rows' -> Row]
    <3>1. rows'[n] \in Row
      BY <1>1, <1>3, TimeAssumption DEF NewRow, Row, IInv, TypeOK
    <3> QED BY <3>1, <1>3 DEF IInv, TypeOK
  <2>2. DOMAIN rows' \subseteq Minted'
    BY <1>2, <1>3, <1>6
  <2>3. \A x \in DOMAIN rows' : rows'[x].next \in Minted' \cup {None}
    BY <1>2, <1>3, <1>4 DEF IInv, TypeOK
  <2>4. Minted' \subseteq Token /\ killed' \subseteq Minted'
    BY <1>1, <1>2 DEF IInv, TypeOK
  <2>5. \A x \in Minted' : born'[x].root \in Minted'
    BY <1>1, <1>2, <1>6
  <2> QED BY <1>1, <1>2, <2>1, <2>2, <2>3, <2>4, <2>5 DEF TypeOK
<1>8. Lineage'
  BY <1>1, <1>2 DEF IInv, Lineage
<1>9. SuccessorIsChild'
  BY <1>1, <1>2, <1>3, <1>4 DEF IInv, SuccessorIsChild
<1>10. UsedIsDead'
  BY <1>2, <1>4, <1>5 DEF IInv, UsedIsDead
<1>11. ActiveIsSuccessor'
  BY <1>1, <1>2, <1>3, <1>4, <1>5, <1>6 DEF IInv, ActiveIsSuccessor
<1>12. OneUserPerFamily'
  <2>1. \A x \in DOMAIN rows' \ {n} :
           x \in DOMAIN rows /\ rows'[x].user = rows[x].user
           /\ born'[x].root = born[x].root /\ born'[x].root # n
    BY <1>1, <1>2, <1>3, <1>6
  <2>2. born'[n].root = n
    BY <1>2
  <2>3. \A x, y \in DOMAIN rows : born[x].root = born[y].root => rows[x].user = rows[y].user
    BY DEF IInv, OneUserPerFamily
  <2> QED BY <2>1, <2>2, <2>3 DEF OneUserPerFamily
<1>13. RevokedInThePast'
  BY <1>1, <1>2, <1>3, <1>4 DEF IInv, RevokedInThePast
<1>14. BornInWindow'
  BY <1>1, <1>2, <1>3, <1>6 DEF IInv, BornInWindow, Grace, refresh_grace_seconds
<1>15. OneLivePerFamily'
  BY SMTT(30), <1>1, <1>2, <1>3, <1>4, <1>6 DEF IInv, OneLivePerFamily
<1>16. NoFork'
  BY <1>1, <1>2, <1>4, <1>5 DEF IInv, NoFork
<1>17. GraceCountsFromFirst'
  BY SMTT(30), <1>1, <1>2 DEF IInv, GraceCountsFromFirst, refresh_grace_seconds
<1>18. RevokedStaysDead'
  BY <1>1, <1>2, <1>3, <1>4, <1>6 DEF IInv, RevokedStaysDead
<1> QED
  BY <1>7, <1>8, <1>9, <1>10, <1>11, <1>12, <1>13, <1>14, <1>15, <1>16, <1>17, <1>18 DEF IInv

(* revoke-tokens keeps the invariant: it stamps every live row of the      *)
(* user, so the families it puts in killed have none left.                 *)
LEMMA RevokingIsSafe ==
    ASSUME IInv, NEW u \in User, RevokeTokens(u)
    PROVE  IInv'
<1>1. /\ now' = now /\ born' = born /\ Minted' = Minted /\ now \in Nat
      /\ DOMAIN rows' = DOMAIN rows /\ DOMAIN rows \subseteq Minted
      /\ rows' = [x \in DOMAIN rows' |-> rows'[x]]
      /\ killed' = killed \cup {born[x].root : x \in {y \in DOMAIN rows : rows[y].user = u}}
  BY DEF RevokeTokens, Minted, IInv, TypeOK
<1>2. \A x \in DOMAIN rows :
         /\ rows'[x].user = rows[x].user /\ rows'[x].next = rows[x].next
         /\ rows'[x].revoked = IF rows[x].user = u /\ Live(x) THEN now ELSE rows[x].revoked
         /\ rows'[x] \in Row
  BY SMTT(30), <1>1 DEF RevokeTokens, Row, IInv, TypeOK
<1>3. \A x : Live(x)' <=> Live(x) /\ rows[x].user # u
  BY <1>1, <1>2, NullAssumption DEF Live
<1>4. \A x : HasChild(x)' <=> HasChild(x)
  BY <1>1 DEF HasChild
<1>5. TypeOK'
  BY <1>1, <1>2 DEF TypeOK, IInv
<1>6. Lineage'
  BY <1>1 DEF IInv, Lineage
<1>7. SuccessorIsChild'
  BY <1>1, <1>2, <1>3 DEF IInv, SuccessorIsChild
<1>8. UsedIsDead'
  BY <1>1, <1>3, <1>4 DEF IInv, UsedIsDead
<1>9. ActiveIsSuccessor'
  BY <1>1, <1>2, <1>3, <1>4 DEF IInv, ActiveIsSuccessor
<1>10. OneUserPerFamily'
  <2> SUFFICES ASSUME NEW s \in DOMAIN rows, NEW t \in DOMAIN rows,
                      born[s].root = born[t].root
               PROVE  rows'[s].user = rows'[t].user
    BY <1>1 DEF OneUserPerFamily
  <2> QED BY <1>2 DEF IInv, OneUserPerFamily
<1>11. RevokedInThePast'
  BY <1>1, <1>2, <1>3 DEF IInv, RevokedInThePast
<1>12. BornInWindow'
  <2> SUFFICES ASSUME NEW c \in Minted, NEW x \in DOMAIN rows, born[c].parent = x
               PROVE  /\ rows'[x].revoked <= born[c].at
                      /\ born[c].at <= rows'[x].revoked + Grace
    BY <1>1 DEF BornInWindow, Grace, refresh_grace_seconds
  <2>1. ~Live(x)
    BY <1>1 DEF IInv, UsedIsDead, HasChild
  <2> QED BY <2>1, <1>2 DEF IInv, BornInWindow
<1>13. OneLivePerFamily'
  BY <1>1, <1>3 DEF IInv, OneLivePerFamily
<1>14. NoFork'
  BY <1>1, <1>3, <1>4 DEF IInv, NoFork
<1>15. GraceCountsFromFirst'
  BY <1>1 DEF IInv, GraceCountsFromFirst, refresh_grace_seconds
<1>16. RevokedStaysDead'
  BY <1>1, <1>3 DEF IInv, RevokedStaysDead, OneUserPerFamily, Live
<1> QED
  BY <1>5, <1>6, <1>7, <1>8, <1>9, <1>10, <1>11, <1>12, <1>13, <1>14, <1>15, <1>16 DEF IInv

(* No step deletes a row that could still be presented with success.       *)
LEMMA PresentableStays ==
    ASSUME IInv, Next, NEW t \in DOMAIN rows, Presentable(t)
    PROVE  t \in DOMAIN rows'
<1>1. ~Expired(t) /\ (Live(t) \/ now - rows[t].revoked <= Grace)
  BY DEF Presentable, Verdict, WindowOpen, Grace
<1>2. rows[t].expires \in Nat /\ now \in Nat /\ (~Live(t) => rows[t].revoked \in Nat)
  BY DEF IInv, TypeOK, Row, RevokedInThePast
<1>3. rows[t].expires + SweepAfter >= now
  BY <1>1, <1>2, TimeAssumption DEF Expired
<1>4. ASSUME NEW u \in User, NEW c \in Client, SignIn(u, c) PROVE t \in DOMAIN rows'
  BY <1>3, <1>4 DEF SignIn, Inserted, Swept
<1>5. ASSUME NEW x \in Token, NEW c \in Client, RotateLive(x, c) PROVE t \in DOMAIN rows'
  <2> DEFINE r == [rows EXCEPT ![x].revoked = now, ![x].next = Fresh]
  <2>1. t \in DOMAIN r /\ r[t].expires = rows[t].expires
    BY DEF IInv, TypeOK, Row
  <2>2. t \in DOMAIN Swept(r)
    BY <1>3, <2>1 DEF Swept
  <2> QED BY <1>5, <2>2 DEF RotateLive, Inserted
<1>6. ASSUME NEW x \in Token, NEW c \in Client, RotateGraced(x, c) PROVE t \in DOMAIN rows'
  <2> DEFINE r == [rows EXCEPT ![rows[x].next].revoked = now, ![x].next = Fresh]
  <2>1. t \in DOMAIN r /\ r[t].expires = rows[t].expires
    BY DEF IInv, TypeOK, Row
  <2>2. t \in DOMAIN Swept(r)
    BY <1>3, <2>1 DEF Swept
  <2> QED BY <1>6, <2>2 DEF RotateGraced, Inserted
<1>7. ASSUME NEW u \in User, RevokeTokens(u) PROVE t \in DOMAIN rows'
  BY <1>7 DEF RevokeTokens
<1>8. CASE PruneOAuth
  <2>1. ~Prunable(t)
    BY <1>1, <1>2, RetentionOutlastsGrace, GraceIsNat, TimeAssumption DEF Prunable
  <2> QED BY <1>8, <2>1 DEF PruneOAuth
<1>9. CASE Tick
  BY <1>9 DEF Tick
<1> QED BY <1>4, <1>5, <1>6, <1>7, <1>8, <1>9 DEF Next

-----------------------------------------------------------------------------
(* The refinement of RefreshContract *)

(* What the refinement mapping picks is determined by the table: the live  *)
(* token and the row that names it.                                        *)
MappingIsSound ==
    \A f :
      /\ LiveToken(f) \in Token \cup {None} /\ PriorToken(f) \in Token \cup {None}
      /\ \A x : Live(x) /\ born[x].root = f => LiveToken(f) = x
      /\ LiveToken(f) # None => Live(LiveToken(f)) /\ born[LiveToken(f)].root = f
      /\ LiveToken(f) = None => PriorToken(f) = None
      /\ LiveToken(f) # None => \A t \in DOMAIN rows :
            rows[t].next = LiveToken(f) => PriorToken(f) = t
      /\ PriorToken(f) # None => /\ PriorToken(f) \in DOMAIN rows
                                 /\ rows[PriorToken(f)].next = LiveToken(f)

(* Choosing from a set of at most one element.                             *)
LEMMA AnyOfOne ==
    ASSUME NEW S, \A x, y \in S : x = y
    PROVE  /\ \A x \in S : AnyOf(S) = x
           /\ AnyOf(S) # None => AnyOf(S) \in S
<1>1. S # {} => AnyOf(S) \in S
  BY DEF AnyOf
<1>2. S = {} => AnyOf(S) = None
  BY DEF AnyOf
<1> QED BY <1>1, <1>2

(* The invariant makes the mapping well defined: a family has at most one  *)
(* live token and one predecessor of it.                                   *)
LEMMA MappingSound == IInv => MappingIsSound
<1> SUFFICES ASSUME IInv, NEW f
             PROVE  /\ LiveToken(f) \in Token \cup {None}
                    /\ PriorToken(f) \in Token \cup {None}
                    /\ \A x : Live(x) /\ born[x].root = f => LiveToken(f) = x
                    /\ LiveToken(f) # None =>
                         Live(LiveToken(f)) /\ born[LiveToken(f)].root = f
                    /\ LiveToken(f) = None => PriorToken(f) = None
                    /\ LiveToken(f) # None => \A t \in DOMAIN rows :
                         rows[t].next = LiveToken(f) => PriorToken(f) = t
                    /\ PriorToken(f) # None => /\ PriorToken(f) \in DOMAIN rows
                                               /\ rows[PriorToken(f)].next = LiveToken(f)
  BY DEF MappingIsSound
<1>1. DOMAIN rows \subseteq Token
  BY DEF IInv, TypeOK
<1> DEFINE S == {t \in DOMAIN rows : Live(t) /\ born[t].root = f}
<1>2. /\ \A x \in S : LiveToken(f) = x
      /\ LiveToken(f) # None => LiveToken(f) \in S
  <2>1. \A x, y \in S : x = y
    BY DEF IInv, OneLivePerFamily
  <2>2. LiveToken(f) = AnyOf(S)
    BY DEF LiveToken
  <2> QED BY <2>1, <2>2, AnyOfOne
<1>3. \A x : Live(x) /\ born[x].root = f => x \in S
  BY DEF Live
<1>4. PICK l : l = LiveToken(f)
  OBVIOUS
<1> DEFINE P == {t \in DOMAIN rows : rows[t].next = l}
<1>5. CASE l = None
  <2>1. PriorToken(f) = None
    BY <1>4, <1>5 DEF PriorToken
  <2> QED BY <2>1, <1>2, <1>3, <1>4, <1>5
<1>6. CASE l # None
  <2>1. \A x, y \in P : x = y
    BY <1>6 DEF IInv, SuccessorIsChild
  <2>2. PriorToken(f) = AnyOf(P)
    BY <1>4, <1>6 DEF PriorToken
  <2>3. /\ \A x \in P : PriorToken(f) = x
        /\ PriorToken(f) # None => PriorToken(f) \in P
    BY <2>1, <2>2, AnyOfOne
  <2> HIDE DEF S
  <2>4. l \in S /\ l \in DOMAIN rows /\ Live(l) /\ born[l].root = f
    BY <1>2, <1>4, <1>6 DEF S
  <2> QED BY <2>3, <2>4, <1>1, <1>2, <1>3, <1>4, <1>6
<1> QED BY <1>5, <1>6

(* The same in the next state.                                             *)
LEMMA MappingStaysSound == IInv' => MappingIsSound'
BY MappingSound, PTL

(* A family that gets no new live row, and no new row naming its live one, *)
(* stays as it is or lapses.                                               *)
StaysOrLapses(f) ==
    /\ LiveToken(f)' \in {LiveToken(f), None}
    /\ PriorToken(f)' \in {PriorToken(f), None}
    /\ LiveToken(f)' = None => PriorToken(f)' = None

(* The condition under which a family's image may only stay or lapse.      *)
LEMMA FamilyLapses ==
    ASSUME IInv, IInv', NEW f,
           \A x : Live(x)' /\ born'[x].root = f =>
              /\ Live(x) /\ born[x].root = f
              /\ \A t \in DOMAIN rows' : rows'[t].next = x =>
                    t \in DOMAIN rows /\ rows[t].next = x
    PROVE  StaysOrLapses(f)
<1>1. /\ \A x : Live(x) /\ born[x].root = f => LiveToken(f) = x
      /\ LiveToken(f) # None => \A t \in DOMAIN rows :
            rows[t].next = LiveToken(f) => PriorToken(f) = t
  BY MappingSound DEF MappingIsSound
<1>2. /\ LiveToken(f)' # None => Live(LiveToken(f))' /\ born'[LiveToken(f)'].root = f
      /\ LiveToken(f)' = None => PriorToken(f)' = None
      /\ PriorToken(f)' # None => /\ PriorToken(f)' \in DOMAIN rows'
                                  /\ rows'[PriorToken(f)'].next = LiveToken(f)'
  BY MappingStaysSound DEF MappingIsSound
<1>3. LiveToken(f)' # None => LiveToken(f)' = LiveToken(f)
  BY <1>1, <1>2
<1>4. PriorToken(f)' # None => PriorToken(f)' = PriorToken(f)
  BY <1>1, <1>2, <1>3
<1> QED BY <1>2, <1>3, <1>4 DEF StaysOrLapses

(* All families but one staying or lapsing is the contract's OthersLapse.  *)
LEMMA OthersLapsing ==
    ASSUME IInv, IInv', NEW f, \A g \in Token \ {f} : StaysOrLapses(g)
    PROVE  C!OthersLapse(f)
<1>1. \A g \in Token : /\ LiveToken(g)' \in Token \cup {None}
                       /\ PriorToken(g)' \in Token \cup {None}
  BY MappingStaysSound DEF MappingIsSound, Token
<1> QED BY <1>1 DEF C!OthersLapse, C!Lapses, StaysOrLapses

(* Forgetting, waiting and revoking only let tokens lapse.                 *)
LEMMA LosingIsLapse ==
    ASSUME IInv, IInv', born' = born,
           \A x : Live(x)' => Live(x),
           \A t \in DOMAIN rows' : t \in DOMAIN rows /\ rows'[t].next = rows[t].next
    PROVE  C!Lapse
<1>1. \A f \in Token : StaysOrLapses(f)
  BY FamilyLapses
<1>2. \A g \in Token : /\ LiveToken(g)' \in Token \cup {None}
                       /\ PriorToken(g)' \in Token \cup {None}
  BY MappingStaysSound DEF MappingIsSound, Token
<1>3. Minted' = Minted
  BY DEF Minted
<1> QED BY <1>1, <1>2, <1>3 DEF C!Lapse, C!Lapses, StaysOrLapses

(* A sign-in starts a family.                                              *)
LEMMA SigningInStarts ==
    ASSUME IInv, IInv', NEW u \in User, NEW c \in Client, SignIn(u, c)
    PROVE  \E n \in Token : C!Start(n)
<1>0. PICK n : n = Fresh
  OBVIOUS
<1>1. /\ born \in Seq(Birth)
      /\ n \notin Minted /\ n \in Token /\ n \notin DOMAIN rows /\ n # None
      /\ \A x \in Minted : born[x].root # n
      /\ \A x \in DOMAIN rows : x \in Minted /\ rows[x].next # n
  BY <1>0, NullAssumption DEF IInv, SignIn, Bear, TypeOK, Minted, Fresh
<1>2. /\ Minted' = Minted \cup {n}
      /\ \A x \in Minted : born'[x] = born[x]
      /\ born'[n].root = n
  BY <1>0, <1>1 DEF SignIn, Bear, Minted, Fresh
<1>3. /\ n \in DOMAIN rows' /\ DOMAIN rows' \subseteq DOMAIN rows \cup {n}
      /\ rows'[n] = NewRow(c, u)
      /\ \A x \in DOMAIN rows' \ {n} : x \in DOMAIN rows /\ rows'[x] = rows[x]
  <2>1. rows' = Inserted(Swept(rows), NewRow(c, u))
    BY DEF SignIn
  <2> QED BY <2>1, <1>0, <1>1, MintedTable
<1>4. /\ Live(n)' /\ rows'[n].next = None
      /\ \A x : Live(x)' => x = n \/ Live(x)
      /\ \A x : Live(x)' => x \in DOMAIN rows'
  BY <1>1, <1>3 DEF Live, NewRow
<1>5. \A g \in Token \ {n} : StaysOrLapses(g)
  <2> SUFFICES ASSUME NEW g \in Token \ {n} PROVE StaysOrLapses(g)
    OBVIOUS
  <2>1. ASSUME NEW x, Live(x)', born'[x].root = g
        PROVE  /\ Live(x) /\ born[x].root = g
               /\ \A t \in DOMAIN rows' : rows'[t].next = x =>
                     t \in DOMAIN rows /\ rows[t].next = x
    <3>1. x # n /\ Live(x) /\ x \in DOMAIN rows /\ x \in Minted
      BY <2>1, <1>1, <1>2, <1>4 DEF Live
    <3>2. x # None
      BY <3>1, NullAssumption DEF Minted
    <3> QED BY <2>1, <3>1, <3>2, <1>2, <1>3, <1>4
  <2> QED BY <2>1, FamilyLapses
<1>6. LiveToken(n)' = n
  BY <1>2, <1>4, MappingStaysSound DEF MappingIsSound
<1>7. PriorToken(n)' = None
  <2>1. \A t \in DOMAIN rows' : rows'[t].next # n
    BY <1>1, <1>3, <1>4
  <2> QED BY <2>1, <1>6, MappingStaysSound DEF MappingIsSound
<1>8. C!Mint(n)
  BY <1>1, <1>2 DEF C!Mint
<1>9. C!OthersLapse(n)
  BY <1>5, OthersLapsing
<1>10. C!Start(n)
  BY <1>1, <1>6, <1>7, <1>8, <1>9 DEF C!Start
<1> QED BY <1>1, <1>10

(* A mint inside a family uses its live token, or retries its prior one:   *)
(* the presented row is still there, so the mapping finds it again.        *)
LEMMA MintingUsesOrRetries ==
    ASSUME IInv, IInv', NEW t, NEW l, MintsAfter(t, l), t \in DOMAIN rows'
    PROVE  \E f, n \in Token : C!Use(f, n) \/ C!Retry(f, n)
<1>0. PICK n, f : n = Fresh /\ f = born[t].root
  OBVIOUS
<1>1. /\ born \in Seq(Birth)
      /\ n \notin Minted /\ n \in Token /\ n \notin DOMAIN rows /\ n # None
      /\ t \in DOMAIN rows /\ l \in DOMAIN rows /\ t \in Minted /\ l \in Minted
      /\ f \in Token /\ t # n
      /\ DOMAIN rows \subseteq Minted /\ None \notin Minted
  BY <1>0, NullAssumption DEF IInv, MintsAfter, TypeOK, Minted, Fresh
<1>2. /\ Minted' = Minted \cup {n}
      /\ \A x \in Minted : born'[x] = born[x]
      /\ born'[n].root = f
  BY <1>0, <1>1 DEF MintsAfter, Minted, Fresh
<1>3. /\ n \in DOMAIN rows' /\ DOMAIN rows' \subseteq DOMAIN rows \cup {n}
      /\ rows'[n].next = None /\ Live(n)'
  BY <1>0 DEF MintsAfter, NewRow, Live
<1>4. \A x \in DOMAIN rows' \ {n} :
         /\ x \in DOMAIN rows
         /\ rows'[x].next = IF x = t THEN n ELSE rows[x].next
         /\ rows'[x].revoked = IF x = l THEN now ELSE rows[x].revoked
  BY <1>0, <1>1 DEF MintsAfter
<1>5. \A x : Live(x)' => x = n \/ (Live(x) /\ x # l)
  BY <1>1, <1>4, NullAssumption DEF Live, IInv, TypeOK
<1>6. /\ Live(l) /\ born[l].root = f
      /\ l = t \/ rows[t].next = l
  <2>1. Live(l) /\ (l = t \/ rows[t].next = l)
    BY DEF MintsAfter
  <2>2. l # t => born[l].parent = t
    BY <2>1, <1>1 DEF IInv, SuccessorIsChild
  <2> QED BY <2>1, <2>2, <1>0, <1>1 DEF IInv, Lineage
<1>7. LiveToken(f) = l /\ LiveToken(f)' = n
  BY <1>2, <1>3, <1>6, MappingSound, MappingStaysSound DEF MappingIsSound
<1>8. PriorToken(f)' = t /\ (l # t => PriorToken(f) = t)
  <2>1. rows'[t].next = n
    BY <1>1, <1>4
  <2>2. PriorToken(f)' = t
    BY <2>1, <1>1, <1>7, MappingStaysSound DEF MappingIsSound
  <2>3. l # t => PriorToken(f) = t
    BY <1>1, <1>6, <1>7, MappingSound DEF MappingIsSound
  <2> QED BY <2>2, <2>3
<1>9. \A g \in Token \ {f} : StaysOrLapses(g)
  <2> SUFFICES ASSUME NEW g \in Token \ {f} PROVE StaysOrLapses(g)
    OBVIOUS
  <2>1. ASSUME NEW x, Live(x)', born'[x].root = g
        PROVE  /\ Live(x) /\ born[x].root = g
               /\ \A y \in DOMAIN rows' : rows'[y].next = x =>
                     y \in DOMAIN rows /\ rows[y].next = x
    <3>1. x # n /\ Live(x) /\ x \in Minted /\ x # None
      BY <2>1, <1>1, <1>2, <1>5 DEF Live
    <3> QED BY <2>1, <3>1, <1>2, <1>3, <1>4
  <2> QED BY <2>1, FamilyLapses
<1>10. C!Mint(n) /\ C!OthersLapse(f)
  BY <1>1, <1>2, <1>9, OthersLapsing DEF C!Mint
<1>11. CASE l = t
  <2>1. C!Use(f, n)
    BY <1>1, <1>7, <1>8, <1>10, <1>11 DEF C!Use
  <2> QED BY <1>1, <2>1
<1>12. CASE l # t
  <2>1. C!Retry(f, n)
    BY <1>1, <1>7, <1>8, <1>10, <1>12 DEF C!Retry
  <2> QED BY <1>1, <2>1
<1> QED BY <1>11, <1>12

-----------------------------------------------------------------------------
(* The theorems *)

(* Every transaction keeps the invariant.                                  *)
LEMMA InvariantStep == IInv /\ [Next]_vars => IInv'
<1> SUFFICES ASSUME IInv, [Next]_vars PROVE IInv'
  OBVIOUS
<1>1. ASSUME NEW u \in User, NEW c \in Client, SignIn(u, c) PROVE IInv'
  BY <1>1, SigningInIsSafe
<1>2. ASSUME NEW t \in Token, NEW c \in Client, RotateLive(t, c) PROVE IInv'
  BY <1>2, LiveMints, MintingIsSafe DEF IInv
<1>3. ASSUME NEW t \in Token, NEW c \in Client, RotateGraced(t, c) PROVE IInv'
  <2>1. PICK l : l = rows[t].next
    OBVIOUS
  <2>2. MintsAfter(t, l)
    BY <1>3, <2>1, GracedMints DEF IInv
  <2> QED BY <2>2, MintingIsSafe
<1>4. ASSUME NEW u \in User, RevokeTokens(u) PROVE IInv'
  BY <1>4, RevokingIsSafe
<1>5. CASE PruneOAuth
  <2>1. OnlyForgets
    BY <1>5 DEF PruneOAuth, OnlyForgets, IInv, TypeOK
  <2> QED BY <2>1, ForgettingIsSafe
<1>6. CASE Tick \/ UNCHANGED vars
  <2>1. OnlyForgets
    BY <1>6 DEF Tick, vars, OnlyForgets, IInv, TypeOK
  <2> QED BY <2>1, ForgettingIsSafe
<1> QED BY <1>1, <1>2, <1>3, <1>4, <1>5, <1>6 DEF Next

(* The invariant holds before any request.                                 *)
LEMMA InvariantHoldsFirst == Init => IInv
<1> SUFFICES ASSUME Init PROVE IInv
  OBVIOUS
<1>1. Minted = {} /\ DOMAIN rows = {} /\ now = 0 /\ killed = {} /\ born = << >>
  BY DEF Init, Minted
<1>2. TypeOK
  BY <1>1 DEF Init, TypeOK, Token
<1> QED BY <1>1, <1>2 DEF IInv, Lineage, SuccessorIsChild, UsedIsDead, ActiveIsSuccessor,
     OneUserPerFamily, RevokedInThePast, BornInWindow, OneLivePerFamily, NoFork,
     GraceCountsFromFirst, RevokedStaysDead

(* Every reachable state satisfies the invariant.                          *)
THEOREM Invariance == Spec => []IInv
BY InvariantHoldsFirst, InvariantStep, PTL DEF Spec

(* The table always has the shape its columns promise.                     *)
THEOREM TypeCorrect == Spec => []TypeOK
BY Invariance, PTL DEF IInv

(* A sign-in never has two unused tokens, whatever is lost, retried or     *)
(* replayed, and however the clean-ups interleave.                         *)
THEOREM OneLive == Spec => []OneLivePerFamily
BY Invariance, PTL DEF IInv

(* Accepted tokens of a sign-in form one lineage: a token whose successor  *)
(* has been used never yields another line.                                *)
THEOREM Linear == Spec => []NoFork
BY Invariance, PTL DEF IInv

(* The offer a rotated token carries closes for good one grace window      *)
(* after the first rotation.                                               *)
THEOREM WindowCloses == Spec => []GraceCountsFromFirst
BY Invariance, PTL DEF IInv

(* Once revoke-tokens has run as a transaction of its own, the sign-ins it *)
(* found stay dead.                                                        *)
THEOREM RevocationHolds == Spec => []RevokedStaysDead
BY Invariance, PTL DEF IInv

(* No clean-up takes a row that could still be presented with success:     *)
(* neither the insert-time sweep nor prune-oauth breaks the grace's word.  *)
THEOREM NothingForgotten == Spec => NothingPromisedForgotten
<1>1. IInv /\ [Next]_vars =>
        [\A t \in DOMAIN rows : Presentable(t) => t \in DOMAIN rows']_vars
  BY PresentableStays DEF vars
<1> QED BY <1>1, Invariance, PTL DEF Spec, NothingPromisedForgotten

(* The table, one step per transaction, implements the contract: a sign-in *)
(* starts a family, a rotation uses its live token, a graced retry retries *)
(* its prior one, and everything else lets tokens lapse.                   *)
THEOREM Implements == Spec => ImplementsContract
<1>1. IInv /\ Init => C!ContractInit
  <2> SUFFICES ASSUME IInv, Init PROVE C!ContractInit
    OBVIOUS
  <2>1. Minted = {} /\ DOMAIN rows = {}
    BY DEF Init, Minted
  <2>2. \A f : LiveToken(f) = None
    BY <2>1, MappingSound DEF MappingIsSound, Live
  <2>3. \A f : PriorToken(f) = None
    BY <2>2, MappingSound DEF MappingIsSound
  <2> QED BY <2>1, <2>2, <2>3 DEF C!ContractInit
<1>2. IInv /\ IInv' /\ [Next]_vars => [C!ContractNext]_(C!contractVars)
  <2> SUFFICES ASSUME IInv, IInv', [Next]_vars
               PROVE  C!ContractNext \/ UNCHANGED C!contractVars
    OBVIOUS
  <2>1. ASSUME NEW u \in User, NEW c \in Client, SignIn(u, c) PROVE C!ContractNext
    BY <2>1, SigningInStarts DEF C!ContractNext
  <2>2. ASSUME NEW t \in Token, NEW c \in Client, RotateLive(t, c) PROVE C!ContractNext
    <3>1. Presentable(t) /\ t \in DOMAIN rows
      BY <2>2 DEF RotateLive, Presentable, Verdict
    <3>2. Next
      BY <2>2 DEF Next
    <3>3. t \in DOMAIN rows'
      BY <3>1, <3>2, PresentableStays
    <3>4. MintsAfter(t, t)
      BY <2>2, LiveMints DEF IInv
    <3> QED BY <3>3, <3>4, MintingUsesOrRetries DEF C!ContractNext
  <2>3. ASSUME NEW t \in Token, NEW c \in Client, RotateGraced(t, c) PROVE C!ContractNext
    <3>1. Presentable(t) /\ t \in DOMAIN rows
      BY <2>3 DEF RotateGraced, Presentable, Verdict
    <3>2. Next
      BY <2>3 DEF Next
    <3>3. t \in DOMAIN rows'
      BY <3>1, <3>2, PresentableStays
    <3>4. PICK l : l = rows[t].next
      OBVIOUS
    <3>5. MintsAfter(t, l)
      BY <2>3, <3>4, GracedMints DEF IInv
    <3> QED BY <3>3, <3>5, MintingUsesOrRetries DEF C!ContractNext
  <2>4. ASSUME NEW u \in User, RevokeTokens(u) PROVE C!ContractNext
    <3>1. /\ born' = born /\ DOMAIN rows' = DOMAIN rows
          /\ \A x : Live(x)' => Live(x)
      BY <2>4, NullAssumption DEF RevokeTokens, Live, IInv, TypeOK
    <3>2. \A x \in DOMAIN rows : rows'[x].next = rows[x].next
      BY <2>4 DEF RevokeTokens, IInv, TypeOK, Row
    <3> QED BY <3>1, <3>2, LosingIsLapse DEF C!ContractNext
  <2>5. CASE PruneOAuth
    <3>1. /\ born' = born
          /\ \A x \in DOMAIN rows' : x \in DOMAIN rows /\ rows'[x] = rows[x]
      BY <2>5 DEF PruneOAuth
    <3> QED BY <3>1, LosingIsLapse DEF Live, C!ContractNext
  <2>6. CASE Tick \/ UNCHANGED vars
    <3>1. born' = born /\ rows' = rows
      BY <2>6 DEF Tick, vars
    <3> QED BY <3>1, LosingIsLapse DEF Live, C!ContractNext
  <2> QED BY <2>1, <2>2, <2>3, <2>4, <2>5, <2>6 DEF Next
<1> QED BY <1>1, <1>2, Invariance, PTL DEF Spec, ImplementsContract, C!Contract

-----------------------------------------------------------------------------
(* The registry of clients *)

(* Rows that can still be presented, or whose family can.                  *)
Session == {t \in DOMAIN rows : ~Expired(t)}

RowsAreDated == \A t \in DOMAIN rows : rows[t].expires = born[t].at + TTL

AttemptsHaveClients ==
    \A a \in Attempt : attempt[a] # None /\ a \notin crossed =>
        attempt[a] \in Registered /\ pruning = None

ReadSawSessions ==
    pruning # None => \A t \in Session :
        rows[t].client \in pruning.active \/ born[t].root \in excused

SessionsHaveClients ==
    \A t \in Session : rows[t].client \in Registered \/ born[t].root \in excused

RInv ==
    /\ IInv
    /\ attempt \in [Attempt -> Client \cup {None}]
    /\ RowsAreDated
    /\ AttemptsHaveClients
    /\ ReadSawSessions
    /\ SessionsHaveClients

(* Every session goes back to one with the same client and family.         *)
SessionsInherit ==
    \A x \in Session' : \E y \in Session :
        rows'[x].client = rows[y].client /\ born'[x].root = born[y].root

(* A rotation, graced or not, passes client and family on.                 *)
LEMMA RefreshInherits ==
    ASSUME RInv, NEW t, Refresh(t)
    PROVE  IInv' /\ RowsAreDated' /\ SessionsInherit
<1>1. PICK c : c = rows[t].client /\ (RotateLive(t, c) \/ RotateGraced(t, c))
  BY DEF Refresh
<1>2. /\ t \in DOMAIN rows /\ t \in Token /\ c \in Client /\ ~Expired(t)
      /\ Fresh \in Token /\ Fresh \notin DOMAIN rows /\ Fresh \notin Minted
      /\ born' = Append(born, [root |-> born[t].root, parent |-> t, at |-> now])
      /\ now' = now /\ DOMAIN rows \subseteq Minted /\ born \in Seq(Birth) /\ now \in Nat
  <2>1. t \in DOMAIN rows /\ ~Expired(t)
    BY <1>1 DEF RotateLive, RotateGraced, Verdict
  <2>2. DOMAIN rows \subseteq Minted /\ Minted \subseteq Token /\ rows[t] \in Row
        /\ born \in Seq(Birth) /\ now \in Nat
    BY <2>1 DEF RInv, IInv, TypeOK
  <2>3. Fresh \notin Minted /\ Fresh \notin DOMAIN rows
    BY <2>2 DEF Fresh, Minted
  <2> QED BY <1>1, <2>1, <2>2, <2>3 DEF RotateLive, RotateGraced, Bear, Row
<1>3. IInv'
  <2>1. Next
    BY <1>1, <1>2 DEF Next
  <2> QED BY <2>1, InvariantStep DEF RInv
<1>4. PICK l : MintsAfter(t, l)
  BY <1>1, <1>2, LiveMints, GracedMints DEF RInv, IInv
<1>5. PICK n : n = Fresh
  OBVIOUS
<1>6. /\ DOMAIN rows' \subseteq DOMAIN rows \cup {n}
      /\ rows'[n] = NewRow(rows[t].client, rows[t].user)
      /\ \A x \in DOMAIN rows' \ {n} :
           /\ x \in DOMAIN rows
           /\ rows'[x].client = rows[x].client /\ rows'[x].expires = rows[x].expires
  BY <1>4, <1>5 DEF MintsAfter
<1>7. /\ \A x \in DOMAIN rows : born'[x] = born[x]
      /\ born'[n] = [root |-> born[t].root, parent |-> t, at |-> now]
  BY <1>2, <1>5 DEF Fresh, Minted
<1>8. /\ rows'[n].client = rows[t].client /\ rows'[n].expires = now + TTL
      /\ born'[n].root = born[t].root /\ born'[n].at = now
  BY <1>6, <1>7 DEF NewRow
<1>9. RowsAreDated'
  BY <1>6, <1>7, <1>8 DEF RInv, RowsAreDated
<1>10. SessionsInherit
  <2>1. t \in Session
    BY <1>2 DEF Session
  <2>2. \A x \in Session' \ {n} : x \in Session /\ x \in DOMAIN rows' \ {n} /\ x \in DOMAIN rows
    BY <1>2, <1>6 DEF Session, Expired
  <2> QED BY <1>6, <1>7, <1>8, <2>1, <2>2 DEF SessionsInherit
<1> QED BY <1>3, <1>9, <1>10

(* Deletions, revocations and time add no session.                         *)
LEMMA LosingInherits ==
    ASSUME RInv, born' = born, now' \in Nat, now <= now',
           \A x \in DOMAIN rows' : /\ x \in DOMAIN rows
                                   /\ rows'[x].client = rows[x].client
                                   /\ rows'[x].expires = rows[x].expires
    PROVE  RowsAreDated' /\ SessionsInherit
<1>1. RowsAreDated'
  BY DEF RInv, RowsAreDated
<1>2. \A x \in DOMAIN rows : rows[x].expires \in Nat /\ now \in Nat
  BY DEF RInv, IInv, TypeOK, Row
<1>3. \A x \in Session' : x \in Session /\ x \in DOMAIN rows'
  BY <1>2 DEF Session, Expired
<1> QED BY <1>1, <1>3 DEF SessionsInherit

(* Where sessions only inherit, clients stay and no read begins, sessions  *)
(* keep their clients.                                                     *)
LEMMA InheritingIsSafe ==
    ASSUME RInv, IInv', RowsAreDated', SessionsInherit,
           attempt' \in [Attempt -> Client \cup {None}], AttemptsHaveClients',
           Registered \subseteq Registered', excused' = excused,
           pruning' \in {pruning, None}
    PROVE  RInv'
<1>1. ReadSawSessions'
  BY DEF RInv, ReadSawSessions, SessionsInherit
<1>2. SessionsHaveClients'
  BY DEF RInv, SessionsHaveClients, SessionsInherit
<1> QED BY <1>1, <1>2 DEF RInv

(* The code grant: a sign-in that no prune has overlapped still has its    *)
(* client, any other is excused.                                           *)
LEMMA GrantIsSafe ==
    ASSUME RInv, NEW a \in Attempt, NEW u \in User, GrantAttempt(a, u)
    PROVE  RInv'
<1>0. PICK n, c : n = Fresh /\ c = attempt[a]
  OBVIOUS
<1>1. /\ SignIn(u, c) /\ c \in Client /\ c # None
      /\ n \notin Minted /\ n \notin DOMAIN rows
      /\ DOMAIN rows \subseteq Minted /\ born \in Seq(Birth)
      /\ now' = now /\ now \in Nat
      /\ clients' = clients /\ pruning' = pruning
  BY <1>0, NullAssumption DEF GrantAttempt, RInv, IInv, TypeOK, Minted, Fresh, SignIn
<1>2. IInv'
  BY <1>1, SigningInIsSafe DEF RInv
<1>3. /\ DOMAIN rows' \subseteq DOMAIN rows \cup {n}
      /\ rows'[n] = NewRow(c, u)
      /\ \A x \in DOMAIN rows' \ {n} : x \in DOMAIN rows /\ rows'[x] = rows[x]
  <2>1. rows' = Inserted(Swept(rows), NewRow(c, u))
    BY <1>1 DEF SignIn
  <2> QED BY <2>1, <1>0, <1>1, MintedTable
<1>4. /\ \A x \in DOMAIN rows : born'[x] = born[x]
      /\ born'[n] = [root |-> n, parent |-> None, at |-> now]
  BY <1>0, <1>1 DEF SignIn, Bear, Fresh, Minted
<1>5. /\ rows'[n].client = c /\ rows'[n].expires = now + TTL
      /\ born'[n].root = n /\ born'[n].at = now
  BY <1>3, <1>4 DEF NewRow
<1>6. RowsAreDated'
  BY <1>3, <1>4, <1>5 DEF RInv, RowsAreDated
<1>7. /\ attempt' \in [Attempt -> Client \cup {None}]
      /\ AttemptsHaveClients'
  BY DEF GrantAttempt, RInv, AttemptsHaveClients, Registered
<1>8. \A x \in Session' \ {n} :
         x \in Session /\ rows'[x].client = rows[x].client /\ born'[x].root = born[x].root
  BY <1>1, <1>3, <1>4 DEF Session, Expired
<1>9. excused \subseteq excused' /\ (a \in crossed => n \in excused')
  BY <1>0 DEF GrantAttempt
<1>10. a \notin crossed => c \in Registered /\ pruning = None
  BY <1>0, <1>1 DEF RInv, AttemptsHaveClients
<1>11. ReadSawSessions'
  BY <1>1, <1>5, <1>8, <1>9, <1>10 DEF RInv, ReadSawSessions
<1>12. SessionsHaveClients'
  BY <1>1, <1>5, <1>8, <1>9, <1>10 DEF RInv, SessionsHaveClients, Registered
<1> QED BY <1>2, <1>6, <1>7, <1>11, <1>12 DEF RInv

(* Every step of the registry and the server keeps the registry's          *)
(* invariant.                                                              *)
LEMMA RegistryStep ==
    ASSUME ClientIdle >= TTL, RInv, [RNext]_<<vars, rvars>>
    PROVE  RInv'
<1> USE RegistryAssumption
<1>0. now \in Nat
  BY DEF RInv, IInv, TypeOK
<1>1. ASSUME UNCHANGED vars, UNCHANGED <<pruning, excused>>,
             attempt' \in [Attempt -> Client \cup {None}], AttemptsHaveClients',
             Registered \subseteq Registered'
      PROVE  RInv'
  <2>1. IInv'
    BY <1>1, InvariantStep DEF RInv
  <2>2. RowsAreDated' /\ SessionsInherit
    BY <1>0, <1>1, LosingInherits DEF vars
  <2> QED BY <1>1, <2>1, <2>2, InheritingIsSafe
<1>2. ASSUME UNCHANGED rvars, IInv', RowsAreDated', SessionsInherit PROVE RInv'
  BY <1>2, InheritingIsSafe DEF rvars, RInv, AttemptsHaveClients, Registered
<1>3. ASSUME NEW c \in Client, RegisterClient(c) PROVE RInv'
  BY <1>1, <1>3 DEF RegisterClient, RInv, AttemptsHaveClients, Registered
<1>4. CASE SeedStatics
  BY <1>1, <1>4 DEF SeedStatics, RInv, AttemptsHaveClients, Registered
<1>5. ASSUME NEW a \in Attempt, NEW c \in Client, AuthorizeClient(a, c) PROVE RInv'
  BY <1>1, <1>5 DEF AuthorizeClient, RInv, AttemptsHaveClients, Registered
<1>6. ASSUME NEW a \in Attempt, AbandonAttempt(a) PROVE RInv'
  BY <1>1, <1>6 DEF AbandonAttempt, RInv, AttemptsHaveClients, Registered
<1>7. ASSUME NEW a \in Attempt, NEW u \in User, GrantAttempt(a, u) PROVE RInv'
  BY <1>7, GrantIsSafe
<1>8. ASSUME NEW t \in Token, Refresh(t) PROVE RInv'
  BY <1>2, <1>8, RefreshInherits DEF Refresh
<1>9. ASSUME NEW u \in User, RevokeTokens(u), UNCHANGED rvars PROVE RInv'
  <2>1. IInv'
    BY <1>9, RevokingIsSafe DEF RInv
  <2>2. \A x \in DOMAIN rows' : /\ x \in DOMAIN rows
                                /\ rows'[x].client = rows[x].client
                                /\ rows'[x].expires = rows[x].expires
    BY <1>9 DEF RevokeTokens, RInv, IInv, TypeOK, Row
  <2> QED BY <1>0, <1>2, <1>9, <2>1, <2>2, LosingInherits DEF RevokeTokens
<1>10. CASE PruneReads
  <2>1. IInv' /\ RowsAreDated' /\ SessionsInherit
    BY <1>0, <1>10, InvariantStep, LosingInherits DEF PruneReads, vars, RInv
  <2>2. AttemptsHaveClients'
    BY <1>10 DEF PruneReads, AttemptsHaveClients
  <2>3. ReadSawSessions'
    <3>1. \A t \in Session : rows[t].client \in ActiveClients
      <4> SUFFICES ASSUME NEW t \in Session PROVE rows[t].client \in ActiveClients
        OBVIOUS
      <4>1. /\ t \in DOMAIN rows /\ rows[t].expires >= now
            /\ rows[t].expires = born[t].at + TTL
            /\ born[t] \in Birth
        BY <1>0 DEF Session, Expired, RInv, RowsAreDated, IInv, TypeOK, Row, Minted
      <4>2. born[t].at + ClientIdle >= now
        BY <1>0, <4>1, TimeAssumption DEF Birth
      <4> QED BY <4>1, <4>2 DEF ActiveClients
    <3>2. pruning'.active = ActiveClients /\ Session' = Session
      BY <1>10 DEF PruneReads, Session, Expired, vars
    <3> QED BY <1>10, <3>1, <3>2 DEF PruneReads, ReadSawSessions, vars
  <2>4. SessionsHaveClients'
    BY <1>10 DEF PruneReads, RInv, SessionsHaveClients, Session, Expired, Registered, vars
  <2> QED BY <1>10, <2>1, <2>2, <2>3, <2>4 DEF PruneReads, RInv
<1>11. CASE PruneDeletes
  <2>1. OnlyForgets
    BY <1>0, <1>11 DEF PruneDeletes, OnlyForgets
  <2>2. IInv'
    BY <2>1, ForgettingIsSafe DEF RInv
  <2>3. RowsAreDated' /\ SessionsInherit
    BY <1>0, <2>1, LosingInherits DEF OnlyForgets
  <2>4. AttemptsHaveClients'
    BY <1>11 DEF PruneDeletes, RInv, AttemptsHaveClients
  <2>5. \A c \in Registered : c \in pruning.active => c \in Registered'
    BY <1>11 DEF PruneDeletes, Registered, Idle
  <2>6. ReadSawSessions'
    BY <1>11 DEF PruneDeletes, ReadSawSessions
  <2>7. SessionsHaveClients'
    <3>1. \A y \in Session : rows[y].client \in Registered' \/ born[y].root \in excused'
      BY <1>11, <2>5 DEF PruneDeletes, RInv, ReadSawSessions, SessionsHaveClients
    <3> QED BY <2>3, <3>1 DEF SessionsInherit, SessionsHaveClients
  <2> QED BY <1>11, <2>2, <2>3, <2>4, <2>6, <2>7 DEF PruneDeletes, RInv
<1>12. CASE PruneEnds
  <2>1. IInv' /\ RowsAreDated' /\ SessionsInherit
    BY <1>0, <1>12, InvariantStep, LosingInherits DEF PruneEnds, vars, RInv
  <2>2. AttemptsHaveClients'
    BY <1>12 DEF PruneEnds, RInv, AttemptsHaveClients
  <2> QED BY <1>12, <2>1, <2>2, InheritingIsSafe DEF PruneEnds, RInv, Registered
<1>13. ASSUME Tick, UNCHANGED rvars PROVE RInv'
  <2>1. IInv'
    BY <1>13, InvariantStep DEF RInv, Next
  <2> QED BY <1>0, <1>2, <1>13, <2>1, LosingInherits DEF Tick
<1>14. CASE UNCHANGED <<vars, rvars>>
  BY <1>1, <1>14 DEF rvars, RInv, AttemptsHaveClients, Registered
<1> QED
  BY <1>3, <1>4, <1>5, <1>6, <1>7, <1>8, <1>9, <1>10, <1>11, <1>12, <1>13, <1>14 DEF RNext

(* With an idle time no shorter than a refresh token's lifetime, a prune   *)
(* never takes the client of a session that can still be refreshed, unless *)
(* the session's own sign-in overlapped it.                                *)
THEOREM ClientsOutliveSessions ==
    ASSUME ClientIdle >= TTL
    PROVE  RSpec => []NoOrphanedSession
<1>1. RInit => RInv
  <2> SUFFICES ASSUME RInit PROVE RInv
    OBVIOUS
  <2>1. IInv
    BY InvariantHoldsFirst DEF RInit
  <2>2. DOMAIN rows = {} /\ Session = {}
    BY DEF RInit, Init, Session
  <2> QED BY <2>1, <2>2 DEF RInit, RInv, RowsAreDated, AttemptsHaveClients,
                            ReadSawSessions, SessionsHaveClients
<1>2. RInv /\ [RNext]_<<vars, rvars>> => RInv'
  BY RegistryStep
<1>3. RInv => NoOrphanedSession
  BY DEF RInv, SessionsHaveClients, Session, NoOrphanedSession
<1> QED BY <1>1, <1>2, <1>3, PTL DEF RSpec

-----------------------------------------------------------------------------
(* RefreshClient: what the token the device holds is good for.             *)

RowsAreTheDevices ==
    \A t \in DOMAIN rows :
        /\ rows[t].client = TheClient /\ rows[t].user = TheUser
        /\ rows[t].expires = born[t].at + TTL

OneInFlight ==
    /\ phase \in {"out", "idle", "waiting", "refused"}
    /\ held \in Minted \cup {None} /\ (held = None <=> phase = "out")
    /\ reply \in Minted \cup {Refusal, None}
    /\ wire \subseteq {[token |-> held, try |-> tries]}
    /\ wire # {} => phase = "waiting"
    /\ reply # None => wire = {} /\ phase = "waiting"

(* The token would be accepted, but for its age and its window: it is      *)
(* unused, or its successor is, and the window began with a successor.     *)
CanRefresh(t) ==
    /\ t \in DOMAIN rows
    /\ \/ Live(t)
       \/ /\ ~Live(t) /\ SuccessorUnused(t)
          /\ \E x \in Minted : born[x].parent = t /\ born[x].at = rows[t].revoked

Excused == Revoked \/ TooOld \/ RotatedLongAgo

HeldIsGood ==
    /\ phase # "out" => CanRefresh(held) \/ Excused
    /\ reply \in Minted => Live(reply) \/ born[reply].root \in killed
    /\ phase = "refused" \/ reply = Refusal => Excused

CInv == IInv /\ RowsAreTheDevices /\ OneInFlight /\ HeldIsGood

(* There is a device and a user.                                           *)
LEMMA DeviceExists == TheClient \in Client /\ TheUser \in User
BY ClientAssumption DEF TheClient, TheUser

(* The history only grows.                                                 *)
LEMMA HistoryGrows ==
    ASSUME IInv, Next
    PROVE  /\ Minted \subseteq Minted' /\ \A x \in Minted : born'[x] = born[x]
           /\ killed \subseteq killed' /\ now \in Nat /\ now' \in Nat /\ now <= now'
<1>1. born \in Seq(Birth) /\ now \in Nat
  BY DEF IInv, TypeOK
<1>2. ASSUME NEW b, born' = Append(born, b)
      PROVE  Minted \subseteq Minted' /\ \A x \in Minted : born'[x] = born[x]
  BY <1>1, <1>2 DEF Minted
<1>3. born' = born => Minted \subseteq Minted' /\ \A x \in Minted : born'[x] = born[x]
  BY DEF Minted
<1>4. ASSUME NEW u \in User, NEW c \in Client, SignIn(u, c)
      PROVE  UNCHANGED <<now, killed>> /\ \E b : born' = Append(born, b)
  BY <1>4 DEF SignIn, Bear
<1>5. ASSUME NEW t \in Token, NEW c \in Client, RotateLive(t, c) \/ RotateGraced(t, c)
      PROVE  UNCHANGED <<now, killed>> /\ \E b : born' = Append(born, b)
  BY <1>5 DEF RotateLive, RotateGraced, Bear
<1>6. CASE (\E u \in User : RevokeTokens(u)) \/ PruneOAuth \/ Tick
  BY <1>1, <1>3, <1>6 DEF RevokeTokens, PruneOAuth, Tick
<1> QED BY <1>1, <1>2, <1>4, <1>5, <1>6 DEF Next

(* Every birth has its instant.                                            *)
LEMMA BirthsAreDated == IInv => \A x \in Minted : born[x].at \in Nat
<1> SUFFICES ASSUME IInv, NEW x \in Minted PROVE born[x].at \in Nat
  OBVIOUS
<1>1. born \in Seq(Birth) /\ x \in 1 .. Len(born)
  BY DEF IInv, TypeOK, Minted
<1>2. born[x] \in Birth
  BY <1>1
<1> QED BY <1>2 DEF Birth

(* An excuse lasts as long as the client holds its token.                  *)
LEMMA ExcuseLasts ==
    ASSUME IInv, Excused, held \in Minted, held' = held, Next \/ UNCHANGED vars
    PROVE  Excused'
<1>1. /\ Minted \subseteq Minted' /\ \A x \in Minted : born'[x] = born[x]
      /\ killed \subseteq killed' /\ now \in Nat /\ now' \in Nat /\ now <= now'
  <2>1. CASE UNCHANGED vars
    BY <2>1 DEF vars, Minted, IInv, TypeOK
  <2> QED BY <2>1, HistoryGrows
<1>2. \A x \in Minted : born[x].at \in Nat
  BY BirthsAreDated
<1>3. TTL \in Nat /\ refresh_grace_seconds \in Nat /\ refresh_grace_seconds' = refresh_grace_seconds
  BY GraceIsNat, TimeAssumption DEF Grace, refresh_grace_seconds
<1>4. CASE Revoked
  BY <1>1, <1>4 DEF Revoked, Excused
<1>5. CASE TooOld
  BY <1>1, <1>2, <1>3, <1>5 DEF TooOld, Excused
<1>6. CASE RotatedLongAgo
  <2>1. PICK x \in Minted : born[x].parent = held /\ born[x].at + refresh_grace_seconds < now
    BY <1>6 DEF RotatedLongAgo
  <2>2. x \in Minted' /\ born'[x].parent = held' /\ born'[x].at + refresh_grace_seconds < now'
    BY <2>1, <1>1, <1>2, <1>3
  <2> QED BY <2>2, <1>3 DEF RotatedLongAgo, Excused
<1> QED BY <1>4, <1>5, <1>6 DEF Excused

(* With the window switched on, the server refuses a token that can        *)
(* refresh only for its age or for its window.                             *)
LEMMA RefusedForAReason ==
    ASSUME CInv, refresh_grace_seconds > 0, held \in Minted, CanRefresh(held),
           Verdict(held, TheClient) \notin {"live", "graced"}
    PROVE  Excused
<1>0. PICK h : h = held
  OBVIOUS
<1>1. /\ h \in DOMAIN rows /\ h \in Minted /\ now \in Nat /\ TTL \in Nat
      /\ \A x \in Minted : born[x].at \in Nat
      /\ rows[h].client = TheClient /\ rows[h].expires = born[h].at + TTL
      /\ DOMAIN rows \subseteq Minted /\ None \notin Minted
  <2>1. h \in DOMAIN rows /\ h \in Minted
    BY <1>0 DEF CanRefresh
  <2>2. rows[h].client = TheClient /\ rows[h].expires = born[h].at + TTL
    BY <2>1 DEF CInv, RowsAreTheDevices
  <2> QED BY <2>1, <2>2, BirthsAreDated, NullAssumption, TimeAssumption
          DEF CInv, IInv, TypeOK, Minted
<1>2. CASE Expired(h)
  BY <1>0, <1>1, <1>2 DEF Expired, TooOld, Excused
<1>3. CASE ~Expired(h) /\ Live(h)
  BY <1>0, <1>1, <1>3 DEF Verdict
<1>4. CASE ~Expired(h) /\ ~Live(h)
  <2>1. SuccessorUnused(h) /\ rows[h].next # None
    BY <1>0, <1>1, <1>4 DEF CanRefresh, SuccessorUnused
  <2>2. PICK x \in Minted : born[x].parent = h /\ born[x].at = rows[h].revoked
    BY <1>0, <1>4 DEF CanRefresh
  <2>3. ~WindowOpen(h)
    BY <1>0, <1>1, <1>4, <2>1 DEF Verdict
  <2>4. born[x].at + refresh_grace_seconds < now
    BY <1>1, <2>2, <2>3, GraceIsNat DEF WindowOpen, Grace
  <2> QED BY <1>0, <2>2, <2>4 DEF RotatedLongAgo, Excused
<1> QED BY <1>2, <1>3, <1>4

(* The code grant gives the device an unused token.                        *)
LEMMA ObtainingIsSafe ==
    ASSUME CInv, ObtainToken
    PROVE  CInv'
<1>0. PICK n : n = Fresh
  OBVIOUS
<1>1. /\ SignIn(TheUser, TheClient) /\ phase = "out" /\ phase' = "idle" /\ held' = n
      /\ tries' = 0 /\ wire' = {} /\ reply' = None
  BY <1>0 DEF ObtainToken, CInv, OneInFlight
<1>2. IInv'
  BY <1>1, DeviceExists, SigningInIsSafe DEF CInv
<1>3. /\ n \notin DOMAIN rows /\ n \notin Minted /\ DOMAIN rows \subseteq Minted
      /\ Minted' = Minted \cup {n} /\ born'[n].at = now
      /\ \A x \in Minted : born'[x] = born[x]
  BY <1>0, <1>1 DEF CInv, IInv, TypeOK, SignIn, Bear, Minted, Fresh
<1>4. /\ n \in DOMAIN rows' /\ rows'[n] = NewRow(TheClient, TheUser)
      /\ \A x \in DOMAIN rows' \ {n} : x \in DOMAIN rows /\ rows'[x] = rows[x]
  <2>1. rows' = Inserted(Swept(rows), NewRow(TheClient, TheUser))
    BY <1>1 DEF SignIn
  <2> QED BY <2>1, <1>0, <1>3, MintedTable
<1>5. RowsAreTheDevices'
  BY <1>3, <1>4 DEF CInv, RowsAreTheDevices, NewRow
<1>6. OneInFlight'
  BY <1>1, <1>3, NullAssumption DEF OneInFlight, Minted
<1>7. CanRefresh(n)'
  BY <1>4 DEF CanRefresh, Live, NewRow
<1>8. HeldIsGood'
  BY <1>1, <1>7, <1>3, NullAssumption, ClientAssumption DEF HeldIsGood, CanRefresh, Live, Minted
<1> QED BY <1>2, <1>5, <1>6, <1>8 DEF CInv

(* Answering a refresh with a successor: the token held names it, and the  *)
(* window began with the first one.                                        *)
LEMMA GrantingIsSafe ==
    ASSUME CInv, NEW m \in wire, Grant(m)
    PROVE  CInv'
<1>0. PICK n, h : n = Fresh /\ h = held
  OBVIOUS
<1>1. /\ m = [token |-> h, try |-> tries] /\ m.token = h /\ phase = "waiting" /\ Current(m)
      /\ h \in Minted /\ wire = {m}
  BY <1>0 DEF CInv, OneInFlight, Current
<1>2. /\ RotateLive(h, TheClient) \/ RotateGraced(h, TheClient)
      /\ phase' = "waiting" /\ held' = h /\ tries' = tries /\ wire' = {} /\ reply' = n
  BY <1>0, <1>1 DEF Grant
<1>3. /\ h \in Token /\ Next /\ IInv' /\ IInv
  BY <1>1, <1>2, DeviceExists, InvariantStep DEF CInv, IInv, TypeOK, Next
<1>4. PICK l : MintsAfter(h, l)
  BY <1>2, <1>3, DeviceExists, LiveMints, GracedMints DEF IInv
<1>5. h \in DOMAIN rows'
  <2>1. Presentable(h) /\ h \in DOMAIN rows
    BY <1>2, DeviceExists DEF RotateLive, RotateGraced, Presentable, Verdict
  <2> QED BY <2>1, <1>3, PresentableStays
<1>6. /\ Minted' = Minted \cup {n} /\ n \notin Minted /\ n \in Minted'
      /\ \A x \in Minted : born'[x] = born[x]
      /\ born'[n] = [root |-> born[h].root, parent |-> h, at |-> now]
      /\ DOMAIN rows \subseteq Minted /\ None \notin Minted /\ n # None /\ n # Refusal
  BY <1>0, <1>4, NullAssumption, ClientAssumption DEF MintsAfter, IInv, CInv, TypeOK, Minted, Fresh
<1>7. /\ n \in DOMAIN rows' /\ DOMAIN rows' \subseteq DOMAIN rows \cup {n}
      /\ rows'[n] = NewRow(rows[h].client, rows[h].user)
      /\ \A x \in DOMAIN rows' \ {n} :
           /\ rows'[x].client = rows[x].client /\ rows'[x].user = rows[x].user
           /\ rows'[x].expires = rows[x].expires
           /\ rows'[x].next = IF x = h THEN n ELSE rows[x].next
           /\ rows'[x].revoked = IF x = l THEN now ELSE rows[x].revoked
      /\ h \in DOMAIN rows /\ now' = now /\ now \in Nat
      /\ l = h \/ ~Live(h)
  BY <1>0, <1>3, <1>4 DEF MintsAfter, IInv, TypeOK
<1>8. RowsAreTheDevices'
  <2>1. rows'[n].client = TheClient /\ rows'[n].user = TheUser
    BY <1>7 DEF NewRow, CInv, RowsAreTheDevices
  <2>2. rows'[n].expires = born'[n].at + TTL
    BY <1>6, <1>7 DEF NewRow
  <2>3. \A x \in DOMAIN rows' \ {n} :
           /\ rows'[x].client = TheClient /\ rows'[x].user = TheUser
           /\ rows'[x].expires = born'[x].at + TTL
    BY <1>6, <1>7 DEF CInv, RowsAreTheDevices
  <2> QED BY <2>1, <2>2, <2>3 DEF RowsAreTheDevices
<1>9. OneInFlight'
  BY <1>1, <1>2, <1>6 DEF OneInFlight
<1>10. Live(n)' /\ n # h
  BY <1>1, <1>6, <1>7 DEF Live, NewRow
<1>11. CanRefresh(h)' \/ Excused'
  <2>1. rows'[h].next = n /\ SuccessorUnused(h)'
    BY <1>5, <1>7, <1>10 DEF SuccessorUnused
  <2>2. CASE l = h
    <3>1. rows'[h].revoked = now /\ now # None
      BY <2>2, <1>5, <1>7, <1>10, NullAssumption
    <3>2. n \in Minted' /\ born'[n].parent = h /\ born'[n].at = rows'[h].revoked
      BY <3>1, <1>6
    <3> QED BY <2>1, <3>1, <3>2, <1>5 DEF CanRefresh, Live
  <2>3. CASE l # h
    <3>1. ~Live(h) /\ rows'[h].revoked = rows[h].revoked
      BY <2>3, <1>5, <1>7, <1>10
    <3>2. CASE Excused
      BY <3>2, <1>0, <1>1, <1>2, <1>3, ExcuseLasts
    <3>3. CASE CanRefresh(h)
      <4>1. PICK x \in Minted : born[x].parent = h /\ born[x].at = rows[h].revoked
        BY <3>1, <3>3 DEF CanRefresh
      <4>2. x \in Minted' /\ born'[x].parent = h /\ born'[x].at = rows'[h].revoked
        BY <4>1, <3>1, <1>6
      <4>3. ~Live(h)'
        BY <3>1, <1>7 DEF Live
      <4> QED BY <2>1, <4>2, <4>3, <1>5 DEF CanRefresh
    <3> QED BY <3>2, <3>3, <1>0, <1>1 DEF CInv, HeldIsGood
  <2> QED BY <2>2, <2>3
<1>12. HeldIsGood'
  <2>1. CanRefresh(held)' \/ Excused'
    BY <1>2, <1>11 DEF CanRefresh, Live, SuccessorUnused
  <2>2. Live(reply)'
    BY <1>2, <1>10 DEF Live
  <2> QED BY <2>1, <2>2, <1>2, <1>6 DEF HeldIsGood
<1> QED BY <1>3, <1>8, <1>9, <1>12 DEF CInv

(* Steps of the device and of the network leave the table alone.           *)
LEMMA TableKept ==
    ASSUME CInv, UNCHANGED vars
    PROVE  /\ IInv' /\ RowsAreTheDevices' /\ Minted' = Minted
           /\ \A t : (CanRefresh(t)' <=> CanRefresh(t)) /\ (Live(t)' <=> Live(t))
           /\ held' = held => (Excused' <=> Excused)
<1>1. rows' = rows /\ born' = born /\ now' = now /\ killed' = killed
  BY DEF vars
<1>2. IInv'
  BY InvariantStep DEF CInv
<1> QED BY <1>1, <1>2 DEF CInv, RowsAreTheDevices, Minted, CanRefresh, Live, SuccessorUnused,
      Excused, Revoked, TooOld, RotatedLongAgo, refresh_grace_seconds

LEMMA RefusingIsSafe ==
    ASSUME CInv, refresh_grace_seconds > 0, NEW m \in wire, Refuse(m)
    PROVE  CInv'
<1>1. /\ m = [token |-> held, try |-> tries] /\ m.token = held /\ phase = "waiting"
      /\ Current(m) /\ held \in Minted /\ wire = {m}
  BY DEF CInv, OneInFlight, Current
<1>2. /\ Verdict(held, TheClient) \notin {"live", "graced"}
      /\ wire' = {} /\ reply' = Refusal /\ UNCHANGED <<vars, phase, held, tries>>
  BY <1>1 DEF Refuse
<1>3. Excused
  BY <1>1, <1>2, RefusedForAReason DEF CInv, HeldIsGood
<1>4. IInv' /\ RowsAreTheDevices' /\ Minted' = Minted /\ Excused'
  BY <1>2, <1>3, TableKept
<1>5. OneInFlight'
  BY <1>1, <1>2, <1>4 DEF CInv, OneInFlight
<1>6. Refusal \notin Minted
  BY ClientAssumption DEF Minted
<1>7. HeldIsGood'
  BY <1>2, <1>4, <1>6 DEF HeldIsGood
<1> QED BY <1>4, <1>5, <1>7 DEF CInv

(* The device and the network: sending, receiving, losing, giving up.      *)
LEMMA DeviceIsSafe ==
    ASSUME CInv, ~LateRequests, Send \/ Receive \/ Lose \/ GiveUp
    PROVE  CInv'
<1>0. PICK h, r : h = held /\ r = reply
  OBVIOUS
<1>1. UNCHANGED vars
  BY DEF Send, Receive, Lose, GiveUp
<1>2. /\ IInv' /\ RowsAreTheDevices' /\ Minted' = Minted /\ None \notin Minted /\ Refusal \notin Minted
      /\ Refusal # None
      /\ \A t : (CanRefresh(t)' <=> CanRefresh(t)) /\ (Live(t)' <=> Live(t))
      /\ held' = held => (Excused' <=> Excused)
  <2>1. None \notin Minted /\ Refusal \notin Minted /\ Refusal # None
    BY NullAssumption, ClientAssumption DEF Minted
  <2> QED BY <1>1, <2>1, TableKept
<1>3. OneInFlight'
  <2>1. CASE Send
    BY <2>1, <1>2 DEF Send, CInv, OneInFlight
  <2>2. CASE Receive
    BY <2>2, <1>2 DEF Receive, CInv, OneInFlight
  <2>3. CASE Lose
    BY <2>3, <1>2 DEF Lose, CInv, OneInFlight
  <2>4. CASE GiveUp
    <3>1. wire = {}
      BY <2>4 DEF GiveUp, Current, CInv, OneInFlight
    <3> QED BY <2>4, <3>1, <1>2 DEF GiveUp, CInv, OneInFlight
  <2> QED BY <2>1, <2>2, <2>3, <2>4
<1>4. HeldIsGood'
  <2>1. CASE held' = h /\ reply' \in {r, None} /\ (phase' = "refused" => phase = "refused" \/ r = Refusal)
             /\ (phase' # "out" => phase # "out")
    <3>1. CanRefresh(held)' <=> CanRefresh(held)
      BY <2>1, <1>0, <1>1 DEF vars, CanRefresh, Live, SuccessorUnused, Minted
    <3>2. reply' \in Minted => reply' = reply /\ (Live(reply)' <=> Live(reply))
                               /\ born'[reply'].root = born[reply].root /\ killed' = killed
      BY <2>1, <1>0, <1>1, <1>2 DEF vars, Live
    <3> QED BY <2>1, <3>1, <3>2, <1>0, <1>2 DEF CInv, HeldIsGood
  <2>2. CASE Receive /\ reply # Refusal
    <3>1. /\ r \in Minted /\ held' = r /\ reply' = None /\ phase' = "idle"
          /\ Live(r) \/ born[r].root \in killed
      BY <2>2, <1>0 DEF Receive, CInv, OneInFlight, HeldIsGood
    <3>2. Live(r) => CanRefresh(r)
      BY DEF Live, CanRefresh
    <3>3. born[r].root \in killed => Excused'
      BY <3>1, <1>1 DEF vars, Excused, Revoked
    <3>4. CanRefresh(held)' <=> CanRefresh(r)
      BY <3>1, <1>1 DEF vars, CanRefresh, Live, SuccessorUnused, Minted
    <3> QED BY <3>1, <3>2, <3>3, <3>4, <1>2 DEF HeldIsGood
  <2>3. Send \/ Lose \/ GiveUp \/ (Receive /\ reply = Refusal) =>
          /\ held' = h /\ reply' \in {r, None}
          /\ phase' = "refused" => phase = "refused" \/ r = Refusal
          /\ phase' # "out" => phase # "out"
    BY <1>0 DEF Send, Lose, GiveUp, Receive, CInv, OneInFlight
  <2> QED BY <2>1, <2>2, <2>3
<1> QED BY <1>2, <1>3, <1>4 DEF CInv

(* Operators and time: what they take from the device is an excuse.        *)
LEMMA OperatingIsSafe ==
    ASSUME CInv, Operate
    PROVE  CInv'
<1>0. PICK h, r : h = held /\ r = reply
  OBVIOUS
<1>1. /\ UNCHANGED <<born, phase, held, tries, wire, reply>>
      /\ Minted' = Minted /\ Refusal # None
      /\ Next /\ IInv' /\ IInv /\ now \in Nat /\ DOMAIN rows \subseteq Minted
  <2>1. UNCHANGED <<born, phase, held, tries, wire, reply>>
    BY DEF Operate, clientVars, RevokeTokens, PruneOAuth, Tick
  <2>2. Next
    BY DeviceExists DEF Operate, Next
  <2>3. IInv' /\ IInv
    BY <2>2, InvariantStep DEF CInv
  <2>4. Minted' = Minted /\ Refusal # None
    BY <2>1, ClientAssumption DEF Minted
  <2> QED BY <2>1, <2>2, <2>3, <2>4 DEF IInv, TypeOK
<1>2. OneInFlight'
  BY <1>1 DEF CInv, OneInFlight
<1>3. RowsAreTheDevices'
  <2>1. \A x \in DOMAIN rows' : /\ x \in DOMAIN rows
                                /\ rows'[x].client = rows[x].client
                                /\ rows'[x].user = rows[x].user
                                /\ rows'[x].expires = rows[x].expires
    <3>1. CASE RevokeTokens(TheUser)
      BY <3>1, <1>1 DEF RevokeTokens, IInv, TypeOK, Row
    <3> QED BY <3>1 DEF Operate, PruneOAuth, Tick
  <2> QED BY <2>1, <1>1 DEF CInv, RowsAreTheDevices
<1>4. Excused /\ held \in Minted => Excused'
  BY <1>1, ExcuseLasts
<1>5. ASSUME h \in Minted, CanRefresh(h) PROVE CanRefresh(h)' \/ Excused'
  <2>1. h \in DOMAIN rows
    BY <1>5 DEF CanRefresh
  <2>2. CASE RevokeTokens(TheUser)
    <3>1. born[h].root \in killed'
      BY <2>1, <2>2 DEF RevokeTokens, CInv, RowsAreTheDevices
    <3> QED BY <3>1, <1>0, <1>1 DEF Excused, Revoked
  <2>3. CASE PruneOAuth
    <3>1. \A x \in DOMAIN rows : ~Prunable(x) => x \in DOMAIN rows' /\ rows'[x] = rows[x]
      BY <2>3 DEF PruneOAuth
    <3>2. \A x : Live(x) => Live(x)' /\ x \in DOMAIN rows'
      BY <3>1 DEF Live, Prunable
    <3>3. CASE Live(h)
      BY <3>2, <3>3 DEF CanRefresh
    <3>4. CASE ~Live(h) /\ ~Prunable(h)
      <4>1. SuccessorUnused(h)' /\ ~Live(h)' /\ rows'[h] = rows[h] /\ h \in DOMAIN rows'
        BY <3>1, <3>2, <3>4, <1>5, <2>1 DEF CanRefresh, SuccessorUnused, Live
      <4> QED BY <4>1, <3>4, <1>1, <1>5 DEF CanRefresh
    <3>5. CASE ~Live(h) /\ Prunable(h)
      <4>1. PICK x \in Minted : born[x].parent = h /\ born[x].at = rows[h].revoked
        BY <3>5, <1>5 DEF CanRefresh
      <4>2. born[x].at \in Nat /\ born[x].at + KeepRevoked < now
        BY <4>1, <3>5, <1>1, BirthsAreDated DEF Prunable
      <4>3. born[x].at + refresh_grace_seconds < now
        BY <4>2, <1>1, RetentionOutlastsGrace, GraceIsNat, TimeAssumption DEF Grace
      <4>4. Excused
        BY <4>1, <4>3, <1>0 DEF RotatedLongAgo, Excused
      <4> QED BY <4>4, <1>0, <1>4, <1>5
    <3> QED BY <3>3, <3>4, <3>5
  <2>4. CASE Tick
    BY <2>4, <1>5 DEF Tick, CanRefresh, Live, SuccessorUnused, Minted
  <2> QED BY <2>2, <2>3, <2>4 DEF Operate
<1>6. ASSUME r \in Minted, Live(r) \/ born[r].root \in killed
      PROVE  Live(r)' \/ born'[r].root \in killed'
  <2>1. CASE RevokeTokens(TheUser)
    <3>1. Live(r) => born[r].root \in killed'
      BY <2>1 DEF RevokeTokens, CInv, RowsAreTheDevices, Live
    <3> QED BY <3>1, <2>1, <1>1, <1>6 DEF RevokeTokens
  <2>2. CASE PruneOAuth
    BY <2>2, <1>6 DEF PruneOAuth, Live, Prunable
  <2>3. CASE Tick
    BY <2>3, <1>6 DEF Tick, Live
  <2> QED BY <2>1, <2>2, <2>3 DEF Operate
<1>7. HeldIsGood'
  <2>1. phase # "out" => h \in Minted
    BY <1>0 DEF CInv, OneInFlight
  <2>2. phase' # "out" => CanRefresh(held)' \/ Excused'
    <3>1. CanRefresh(held)' <=> CanRefresh(h)'
      BY <1>0, <1>1 DEF CanRefresh, Live, SuccessorUnused
    <3> QED BY <3>1, <2>1, <1>0, <1>1, <1>4, <1>5 DEF CInv, HeldIsGood
  <2>3. reply' \in Minted' => Live(reply)' \/ born'[reply'].root \in killed'
    <3>1. Live(reply)' <=> Live(r)'
      BY <1>0, <1>1 DEF Live
    <3> QED BY <3>1, <1>0, <1>1, <1>6 DEF CInv, HeldIsGood
  <2>4. phase' = "refused" \/ reply' = Refusal => Excused'
    BY <2>1, <1>0, <1>1, <1>4 DEF CInv, HeldIsGood, OneInFlight
  <2> QED BY <2>2, <2>3, <2>4 DEF HeldIsGood
<1> QED BY <1>1, <1>2, <1>3, <1>7 DEF CInv

(* Where no request arrives after its sender gave up and the grace window  *)
(* is switched on, the device is sent back to the sign-in page only for a  *)
(* reason, whatever is lost and however often.                             *)
THEOREM NobodySignedOutUnfairly ==
    ASSUME ~LateRequests, refresh_grace_seconds > 0
    PROVE  ClientSpec => []NoUnfairSignOut
<1>1. ClientInit => CInv
  <2> SUFFICES ASSUME ClientInit PROVE CInv
    OBVIOUS
  <2>1. IInv /\ DOMAIN rows = {} /\ Minted = {}
    BY InvariantHoldsFirst DEF ClientInit, Init, Minted
  <2> QED BY <2>1, ClientAssumption DEF ClientInit, CInv, RowsAreTheDevices, OneInFlight, HeldIsGood
<1>2. CInv /\ [ClientNext]_allVars => CInv'
  <2> SUFFICES ASSUME CInv, [ClientNext]_allVars PROVE CInv'
    OBVIOUS
  <2>1. CASE UNCHANGED allVars
    <3>1. UNCHANGED vars /\ UNCHANGED <<phase, held, tries, wire, reply>>
      BY <2>1 DEF allVars, clientVars
    <3>2. OneInFlight'
      BY <3>1, TableKept DEF CInv, OneInFlight
    <3>3. HeldIsGood'
      BY <3>1 DEF vars, CInv, HeldIsGood, CanRefresh, Live, SuccessorUnused, Minted, Excused,
         Revoked, TooOld, RotatedLongAgo, refresh_grace_seconds
    <3> QED BY <3>1, <3>2, <3>3, TableKept DEF CInv
  <2> QED BY <2>1, ObtainingIsSafe, GrantingIsSafe, RefusingIsSafe, DeviceIsSafe, OperatingIsSafe
          DEF ClientNext
<1>3. CInv => NoUnfairSignOut
  BY DEF CInv, HeldIsGood, Excused, NoUnfairSignOut
<1> QED BY <1>1, <1>2, <1>3, PTL DEF ClientSpec
=============================================================================
