----------------------------- MODULE MCLocalLogin -----------------------------
(* Two logins at two providers, one of which has a device code flow.       *)
EXTENDS LocalLogin

=============================================================================
