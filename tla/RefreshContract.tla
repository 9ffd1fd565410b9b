--------------------------- MODULE RefreshContract ---------------------------
(***************************************************************************)
(* What the authorization server promises about refresh tokens, with no    *)
(* table, no clock and no transaction in sight.                            *)
(*                                                                         *)
(* A sign-in starts a family, named after its first token.  At any moment  *)
(* a family has at most one token nobody has used yet (live) and at most   *)
(* one token that may still be presented again because the reply that      *)
(* carried its successor may have been lost (prior).  Every other token of *)
(* the family is worthless for ever, and a family whose live token is gone *)
(* never comes back.                                                       *)
(*                                                                         *)
(* RefreshRotation (one atomic step per transaction) and RefreshTx (one    *)
(* step per SQL statement) are both checked to implement this module.      *)
(***************************************************************************)

CONSTANTS Token,    \* refresh tokens, i.e. the hashes they are stored under
          None      \* "no token"

VARIABLES minted,   \* the tokens handed out so far
          live,     \* live[f]: the unused token of family f, or None
          prior     \* prior[f]: the token that live[f] replaced, or None

contractVars == <<minted, live, prior>>

ContractInit ==
    /\ minted = {}
    /\ live = [f \in Token |-> None]
    /\ prior = [f \in Token |-> None]

(* Tokens lapse: the clock, an operator or a clean-up may take a family's  *)
(* prior token, or the whole family, at any step.  Nothing comes back.     *)
Lapses(f) ==
    /\ live'[f] \in {live[f], None}
    /\ prior'[f] \in {prior[f], None}
    /\ live'[f] = None => prior'[f] = None

OthersLapse(f) ==
    /\ live' \in [Token -> Token \cup {None}]
    /\ prior' \in [Token -> Token \cup {None}]
    /\ \A g \in Token \ {f} : Lapses(g)

Mint(n) == n \notin minted /\ minted' = minted \cup {n}

(* A sign-in starts a family. *)
Start(n) ==
    /\ Mint(n)
    /\ live'[n] = n
    /\ prior'[n] = None
    /\ OthersLapse(n)

(* The live token is used: it becomes the prior token of its successor.    *)
Use(f, n) ==
    /\ Mint(n)
    /\ live[f] # None
    /\ live'[f] = n
    /\ prior'[f] = live[f]
    /\ OthersLapse(f)

(* The prior token is presented again: its successor dies unused and a     *)
(* new one takes its place.                                                *)
Retry(f, n) ==
    /\ Mint(n)
    /\ prior[f] # None
    /\ live[f] # None
    /\ live'[f] = n
    /\ prior'[f] = prior[f]
    /\ OthersLapse(f)

Lapse ==
    /\ minted' = minted
    /\ live' \in [Token -> Token \cup {None}]
    /\ prior' \in [Token -> Token \cup {None}]
    /\ \A f \in Token : Lapses(f)

ContractNext ==
    \/ \E n \in Token : Start(n)
    \/ \E f, n \in Token : Use(f, n) \/ Retry(f, n)
    \/ Lapse

Contract == ContractInit /\ [][ContractNext]_contractVars
=============================================================================
