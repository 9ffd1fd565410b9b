------------------------------ MODULE MCMsalCache ------------------------------
(* Two calls, one disconnect and two accounts: a call that refreshes one   *)
(* account while the other signs in to the second.                         *)
EXTENDS MsalCache
=============================================================================
