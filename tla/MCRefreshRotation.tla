------------------------- MODULE MCRefreshRotation -------------------------
(* Four tokens are one sign-in with two rotations and a grace, or two      *)
(* sign-ins of two users; the clock runs past expiry, sweep and retention. *)
EXTENDS RefreshRotation, TLC

ClientsAndUsers == Permutations(Client) \cup Permutations(User)
=============================================================================
