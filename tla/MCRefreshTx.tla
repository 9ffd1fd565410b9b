---------------------------- MODULE MCRefreshTx ----------------------------
(* Two replicas and one operator; three tokens are a rotation and a grace, *)
(* or two sign-ins of one user, one of which may have grown stale, and a   *)
(* rotation, or two stale rows and a sign-in.                              *)
EXTENDS RefreshTx

(* bound: once the last token is minted no replica begins another          *)
(* transaction; those under way go on, and operators do begin.             *)
MCNext ==
    /\ Next
    /\ Len(born) = MaxTokens =>
          \A p \in Replica : pc[p] = "idle" => pc'[p] = "idle"
MCSpec == Init /\ [][MCNext]_vars /\ Fairness
=============================================================================
