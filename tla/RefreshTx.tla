------------------------------ MODULE RefreshTx ------------------------------
(***************************************************************************)
(* The transactions of RefreshRotation split into their SQL statements, as *)
(* several replicas and an operator run them on Postgres, those that write *)
(* many rows (a mint's sweep, revoke-tokens, prune-oauth) row by row.      *)
(*                                                                         *)
(* The engine keeps Postgres's default READ COMMITTED (auth/db/session.py  *)
(* sets nothing else): a statement sees the rows committed when it starts, *)
(* an UPDATE that matches a row another transaction has written waits for  *)
(* it and then tests its WHERE again, locks last until commit, and a       *)
(* rollback, a crash included, leaves no trace.  A DELETE does the same.   *)
(* In which order a statement comes to its rows is the planner's choice.   *)
(*                                                                         *)
(* Abstracted beyond RefreshRotation: there is no clock.  A presentation   *)
(* may find its token expired, its window closed or its client wrong at    *)
(* will, prune-oauth may take any revoked rows, and tokens grow stale in   *)
(* minting order, which is the order they expire in.  A flush that writes  *)
(* the last row and the COMMIT behind it are one step: nothing in between  *)
(* waits, and a crash there leaves what a crash before it leaves.          *)
(*                                                                         *)
(* Definitions named <operator>_<bug> are mutations, as in RefreshRotation.*)
(***************************************************************************)
EXTENDS Naturals, Sequences, FiniteSets

CONSTANTS Replica,     \* threads of AS replicas that handle refresh grants
          Operator,    \* shells that run bond-mcps revoke-tokens, prune-oauth
          User,
          None,        \* SQL NULL
          MaxTokens,   \* bound: how many tokens the model mints
          MaxSignIns   \* bound: a sign-in begins only after fewer than these

ASSUME TxAssumption ==
    /\ MaxTokens \in Nat /\ MaxSignIns \in Nat
    /\ None \notin Replica \cup Operator \cup Nat
    /\ Replica \cap Operator = {}

Proc == Replica \cup Operator
Token == 1 .. MaxTokens

VARIABLES rows,    \* committed rows: hash -> [user, revoked, next]
          born,    \* history: [root, parent] of every token, in minting order
          lock,    \* lock[t]: the transaction that has written row t, or None
          pc,      \* pc[p]: the statement p runs next, or "idle"
          tok,     \* tok[p]: the token presented to replica p
          succ,    \* succ[p]: the replaced_by_hash p has read
          todo,    \* todo[p]: rows p's multi-row statement has yet to visit
          stale,   \* tokens 1 .. stale are past the sweep's cutoff
          asked,   \* history: asked[p]: the families p's revoke-tokens is to end
          killed   \* history: the families a finished revoke-tokens was to end

vars == <<rows, born, lock, pc, tok, succ, todo, stale, asked, killed>>
local == <<tok, succ, todo, asked>>

Minted == 1 .. Len(born)
Fresh == Len(born) + 1
Live(t) == t \in DOMAIN rows /\ ~rows[t].revoked

Held(p) == {t \in Token : lock[t] = p}

NewRow(u) == [user |-> u, revoked |-> FALSE, next |-> None]

(* The statements from which a transaction goes on to mint: its sweep is   *)
(* running, or has visited every row.                                      *)
Minting == {"mint", "regrant", "issue"}

(* The rows _sweep_refresh_tokens' DELETE matches as it starts.            *)
StaleRows == {t \in DOMAIN rows : t <= stale}

(* What a commit that mints leaves: the writes w without the rows p's      *)
(* sweep has deleted, and the fresh row.                                   *)
MintOn(p, w, u, root, parent) ==
    /\ todo[p] = {} /\ Fresh \in Token
    /\ born' = Append(born, [root |-> root, parent |-> parent])
    /\ rows' = [x \in (DOMAIN w \ {y \in StaleRows : lock[y] = p}) \cup {Fresh} |->
                  IF x = Fresh THEN NewRow(u) ELSE w[x]]

(* a transaction that ends without COMMIT or ROLLBACK *)
Release_leaked(p) == UNCHANGED lock

Release(p) == lock' = [t \in Token |-> IF lock[t] = p THEN None ELSE lock[t]]

Goto(p, label) == pc' = [pc EXCEPT ![p] = label]

End(p) ==
    /\ Goto(p, "idle")
    /\ Release(p)
    /\ tok' = [tok EXCEPT ![p] = None]
    /\ succ' = [succ EXCEPT ![p] = None]
    /\ todo' = [todo EXCEPT ![p] = {}]
    /\ asked' = [asked EXCEPT ![p] = {}]

(* The sweep's DELETE begins: VisitRow takes it from row to row.           *)
Sweep(p) == todo' = [todo EXCEPT ![p] = StaleRows]

(* get_session's except branch: every refusal and every failure.           *)
Rollback(p) == End(p) /\ UNCHANGED <<rows, born, stale, killed>>

-----------------------------------------------------------------------------
Init ==
    /\ rows = << >>
    /\ born = << >>
    /\ lock = [t \in Token |-> None]
    /\ pc = [p \in Proc |-> "idle"]
    /\ tok = [p \in Proc |-> None]
    /\ succ = [p \in Proc |-> None]
    /\ todo = [p \in Proc |-> {}]
    /\ asked = [p \in Proc |-> {}]
    /\ stale = 0
    /\ killed = {}

(* issue_refresh_token: the sweep and an INSERT.                           *)
BeginIssue(p) ==
    /\ pc[p] = "idle"
    /\ Cardinality({t \in Minted : born[t].parent = None}) < MaxSignIns
    /\ Goto(p, "issue") /\ Sweep(p)
    /\ UNCHANGED <<rows, born, lock, tok, succ, asked, stale, killed>>

CommitIssue(p, u) ==
    /\ pc[p] = "issue"
    /\ MintOn(p, rows, u, Fresh, None)
    /\ End(p)
    /\ UNCHANGED <<stale, killed>>

Present(p, t) ==
    /\ pc[p] = "idle"
    /\ Goto(p, "revoke")
    /\ tok' = [tok EXCEPT ![p] = t]
    /\ UNCHANGED <<rows, born, lock, succ, todo, asked, stale, killed>>

(* the sweep comes before the checks *)
RevokeMatches_sweepFirst(p) ==
    /\ pc[p] = "revoke"
    /\ Live(tok[p]) /\ lock[tok[p]] = None
    /\ lock' = [lock EXCEPT ![tok[p]] = p]
    /\ \/ Goto(p, "refuse")
       \/ tok[p] > stale /\ Goto(p, "mint")
    /\ Sweep(p)
    /\ UNCHANGED <<rows, born, tok, succ, asked, stale, killed>>

(* UPDATE ... SET revoked_at WHERE token_hash = t AND revoked_at IS NULL:  *)
(* it waits while another transaction has written a row it matches.  Then  *)
(* come the checks: a token past its expiry, or of another client, is      *)
(* refused.                                                                *)
RevokeMatches(p) ==
    /\ pc[p] = "revoke"
    /\ Live(tok[p]) /\ lock[tok[p]] = None
    /\ lock' = [lock EXCEPT ![tok[p]] = p]
    /\ \/ Goto(p, "refuse") /\ UNCHANGED todo
       \/ tok[p] > stale /\ Goto(p, "mint") /\ Sweep(p)
    /\ UNCHANGED <<rows, born, tok, succ, asked, stale, killed>>

RevokeMisses(p) ==
    /\ pc[p] = "revoke"
    /\ ~Live(tok[p])
    /\ Goto(p, "read")
    /\ UNCHANGED <<rows, born, lock, local, stale, killed>>

(* the checks return instead of raising, so that get_session commits *)
RefuseLive_commits(p) ==
    /\ pc[p] = "refuse"
    /\ rows' = [rows EXCEPT ![tok[p]].revoked = TRUE]
    /\ End(p)
    /\ UNCHANGED <<born, stale, killed>>

(* The live branch: a check has failed (expired, client_mismatch), or it   *)
(* mints, points the revoked row at the successor and commits.             *)
RefuseLive(p) == pc[p] = "refuse" /\ Rollback(p)

CommitLive(p) ==
    LET t == tok[p]
    IN  /\ pc[p] = "mint"
        /\ MintOn(p, [rows EXCEPT ![t].revoked = TRUE, ![t].next = Fresh],
                  rows[t].user, born[t].root, t)
        /\ End(p)
        /\ UNCHANGED <<stale, killed>>

(* session.get after the UPDATE missed: the row may have no successor, be  *)
(* gone, or fail a check; otherwise its replaced_by_hash is remembered.    *)
RefuseRead(p) == pc[p] = "read" /\ Rollback(p)

ReadRow(p) ==
    /\ pc[p] = "read"
    /\ tok[p] \in DOMAIN rows /\ tok[p] > stale
    /\ rows[tok[p]].revoked /\ rows[tok[p]].next # None
    /\ succ' = [succ EXCEPT ![p] = rows[tok[p]].next]
    /\ Goto(p, "retire")
    /\ UNCHANGED <<rows, born, lock, tok, todo, asked, stale, killed>>

(* the test left to an earlier read: the UPDATE matches in any case *)
RetireMatches_blind(p) ==
    /\ pc[p] = "retire"
    /\ succ[p] \in DOMAIN rows /\ lock[succ[p]] = None
    /\ lock' = [lock EXCEPT ![succ[p]] = p]
    /\ Goto(p, "regrant") /\ Sweep(p)
    /\ UNCHANGED <<rows, born, tok, succ, asked, stale, killed>>

(* UPDATE ... SET revoked_at WHERE token_hash = succ AND revoked_at IS     *)
(* NULL: the atomic test for "never used".                                 *)
RetireMatches(p) ==
    /\ pc[p] = "retire"
    /\ Live(succ[p]) /\ lock[succ[p]] = None
    /\ lock' = [lock EXCEPT ![succ[p]] = p]
    /\ Goto(p, "regrant") /\ Sweep(p)
    /\ UNCHANGED <<rows, born, tok, succ, asked, stale, killed>>

RetireMisses(p) ==
    /\ pc[p] = "retire"
    /\ ~Live(succ[p])
    /\ Rollback(p)

(* The flush repoints the presented row, and waits for a prune of it.      *)
CommitGraced(p) ==
    LET t == tok[p]
    IN  /\ pc[p] = "regrant"
        /\ t \in DOMAIN rows /\ lock[t] = None
        /\ MintOn(p, [rows EXCEPT ![succ[p]].revoked = TRUE, ![t].next = Fresh],
                  rows[t].user, born[t].root, t)
        /\ End(p)
        /\ UNCHANGED <<stale, killed>>

(* The row read was pruned before the flush that repoints it: SQLAlchemy   *)
(* finds no row to update and the transaction fails.                       *)
StaleData(p) ==
    pc[p] = "regrant" /\ todo[p] = {} /\ tok[p] \notin DOMAIN rows /\ Rollback(p)

(* bound: a mint the model has no token left for is given up.              *)
OutOfTokens(p) ==
    /\ pc[p] \in Minting /\ todo[p] = {} /\ Fresh \notin Token
    /\ pc[p] = "regrant" => lock[tok[p]] = None
    /\ Rollback(p)

(* The replica or shell dies, or loses its connection, mid-transaction.    *)
Crash(p) == pc[p] # "idle" /\ Rollback(p)

(* bond-mcps revoke-tokens, one UPDATE over the rows its snapshot matches. *)
BeginRevoke(p, u) ==
    /\ pc[p] = "idle"
    /\ todo' = [todo EXCEPT ![p] = {t \in DOMAIN rows : rows[t].user = u /\ Live(t)}]
    /\ asked' = [asked EXCEPT ![p] =
                    {born[t].root : t \in {x \in DOMAIN rows : rows[x].user = u}}]
    /\ Goto(p, "revokeAll")
    /\ UNCHANGED <<rows, born, lock, tok, succ, stale, killed>>

CommitRevoke(p) ==
    /\ pc[p] = "revokeAll" /\ todo[p] = {}
    /\ rows' = [x \in DOMAIN rows |->
                  IF lock[x] = p THEN [rows[x] EXCEPT !.revoked = TRUE] ELSE rows[x]]
    /\ killed' = killed \cup asked[p]
    /\ End(p)
    /\ UNCHANGED <<born, stale>>

(* bond-mcps prune-oauth, one DELETE over long-revoked rows.               *)
BeginPrune(p, S) ==
    /\ pc[p] = "idle"
    /\ S # {} /\ \A t \in S : rows[t].revoked
    /\ todo' = [todo EXCEPT ![p] = S]
    /\ Goto(p, "prune")
    /\ UNCHANGED <<rows, born, lock, tok, succ, asked, stale, killed>>

CommitPrune(p) ==
    /\ pc[p] = "prune" /\ todo[p] = {}
    /\ rows' = [x \in DOMAIN rows \ Held(p) |-> rows[x]]
    /\ End(p)
    /\ UNCHANGED <<born, stale, killed>>

(* A statement over many rows comes to one of them: it waits for who has   *)
(* written the row, and then writes it if it still matches; a stale or a   *)
(* revoked row does so unless it is gone.                                  *)
VisitRow(p, t) ==
    /\ t \in todo[p] /\ lock[t] = None
    /\ lock' = IF t \in DOMAIN rows /\ (pc[p] = "revokeAll" => Live(t))
               THEN [lock EXCEPT ![t] = p] ELSE lock
    /\ todo' = [todo EXCEPT ![p] = @ \ {t}]
    /\ UNCHANGED <<rows, born, pc, tok, succ, asked, stale, killed>>

(* Who waits for a row that q has written: an UPDATE that matches it, a    *)
(* statement over many rows that comes to it, or the flush that repoints   *)
(* the presented row.                                                      *)
WaitsFor(p, q) ==
    \E t \in DOMAIN rows :
        /\ lock[t] = q /\ p # q
        /\ \/ pc[p] = "revoke" /\ t = tok[p] /\ Live(t)
           \/ pc[p] = "retire" /\ t = succ[p] /\ Live(t)
           \/ t \in todo[p]
           \/ pc[p] = "regrant" /\ todo[p] = {} /\ t = tok[p]

(* Cycles of waits: no part of S waits only for transactions outside S.    *)
Knots ==
    {S \in SUBSET {p \in Proc : \E q \in Proc : WaitsFor(p, q)} :
        /\ \E p, q \in S : p # q
        /\ \A T \in SUBSET S :
              T # {} /\ T # S => \E p \in T, q \in S \ T : WaitsFor(p, q)}

(* Postgres detects such a cycle and aborts one of its transactions.       *)
AbortDeadlocked(p) == (\E S \in Knots : p \in S) /\ Rollback(p)

(* The oldest unstale token passes the sweep's cutoff, seven days after it *)
(* expired: no rotation or grace it could be part of is open by then.      *)
Age ==
    /\ stale < Len(born)
    /\ \A p \in Replica : stale + 1 \notin {tok[p], succ[p]}
    /\ stale' = stale + 1
    /\ UNCHANGED <<rows, born, lock, pc, local, killed>>

Statement(p) ==
    \/ RevokeMisses(p)
    \/ RefuseLive(p)
    \/ RefuseRead(p) \/ ReadRow(p)
    \/ RetireMisses(p)
    \/ StaleData(p)
    \/ CommitLive(p) \/ (\E u \in User : CommitIssue(p, u))
    \/ CommitRevoke(p) \/ CommitPrune(p)
    \/ AbortDeadlocked(p)

Acquire(p) ==
    \/ RevokeMatches(p)
    \/ RetireMatches(p)
    \/ CommitGraced(p) \/ OutOfTokens(p)
    \/ \E t \in Token : VisitRow(p, t)

Next ==
    \/ \E p \in Replica : BeginIssue(p)
    \/ \E p \in Replica, t \in Minted : Present(p, t)
    \/ \E p \in Operator, u \in User : BeginRevoke(p, u)
    \/ \E p \in Operator, S \in SUBSET DOMAIN rows : BeginPrune(p, S)
    \/ \E p \in Proc : Statement(p) \/ Acquire(p) \/ Crash(p)
    \/ Age

(* A statement that can run runs; a lock that keeps coming free is granted *)
(* to every waiter in turn, as Postgres's FIFO lock queues do.             *)
Fairness ==
    /\ \A p \in Proc : WF_vars(Statement(p))
    /\ \A p \in Proc : SF_vars(Acquire(p))

Spec == Init /\ [][Next]_vars /\ Fairness

-----------------------------------------------------------------------------
(* Properties *)

(* The row a replica has locked by one of its own UPDATEs.                 *)
Written(p) == CASE pc[p] \in {"refuse", "mint"} -> {tok[p]}
                [] pc[p] = "regrant" -> {succ[p]}
                [] OTHER -> {}

(* Every variable has its type, and a replica holds exactly the row its    *)
(* UPDATE has written and, once it sweeps, stale rows.                     *)
TypeOK ==
    /\ DOMAIN rows \subseteq Minted /\ Minted \subseteq Token
    /\ \A t \in DOMAIN rows : rows[t] \in
          [user : User, revoked : BOOLEAN, next : Minted \cup {None}]
    /\ pc \in [Proc -> {"idle", "revoke", "refuse", "mint", "read", "retire", "regrant",
                       "issue", "revokeAll", "prune"}]
    /\ stale \in 0 .. Len(born) /\ killed \subseteq Minted
    /\ \A p \in Replica :
          /\ Written(p) \subseteq Held(p)
          /\ Held(p) \subseteq Written(p) \cup (IF pc[p] \in Minting THEN 1 .. stale ELSE {})

(* A refused presentation changes nothing (codes.py:402): a replica that   *)
(* returns to idle without having minted leaves the table as it was.       *)
RefusalChangesNothing ==
    [][\A p \in Replica : pc[p] # "idle" /\ pc'[p] = "idle" /\ born' = born
           => rows' = rows]_vars

(* Only sweeps and commands deadlock: a presentation is in no cycle of row *)
(* locks before it mints, and where no command is part of the cycle, each  *)
(* transaction in it is still deleting stale rows.                         *)
OnlySweepsDeadlock ==
    \A S \in Knots : \A p \in S \cap Replica :
        /\ pc[p] \in Minting
        /\ S \cap Operator = {} => todo[p] # {}

(* No transaction waits for ever on a row lock: whatever rotations, graces *)
(* and revocations overlap, each of them ends.                             *)
EveryTransactionEnds == \A p \in Proc : pc[p] # "idle" ~> pc[p] = "idle"

(* What cmd_revoke_tokens says (cli.py:297): every refresh token the user  *)
(* has is revoked, so no sign-in the user had when it started has a live   *)
(* token once it has committed.                                            *)
RevocationComplete ==
    \A t \in DOMAIN rows : Live(t) => born[t].root \notin killed

AnyOf(S) == IF S = {} THEN None ELSE CHOOSE t \in S : TRUE

LiveToken(f) == AnyOf({t \in DOMAIN rows : Live(t) /\ born[t].root = f})

PriorToken(f) ==
    LET l == LiveToken(f)
    IN  IF l = None THEN None ELSE AnyOf({t \in DOMAIN rows : rows[t].next = l})

(* Statement by statement and under any overlap, crashes included, the     *)
(* committed table still implements the contract of one transaction at a   *)
(* time: one live token and at most one retriable token per family.        *)
C == INSTANCE RefreshContract WITH
        minted <- Minted,
        live <- [f \in Token |-> LiveToken(f)],
        prior <- [f \in Token |-> PriorToken(f)]

ImplementsContract == C!Contract
=============================================================================
