--------------------------- MODULE MCProviderTokens ---------------------------
(* Three processes: one refreshing, one waiting to, and one that connects  *)
(* or disconnects meanwhile.                                               *)
EXTENDS ProviderTokens
=============================================================================
