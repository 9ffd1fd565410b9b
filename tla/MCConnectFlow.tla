---------------------------- MODULE MCConnectFlow ----------------------------
(* Two handlers, two users and two providers; states are shared by the     *)
(* connect flows and a sign-in at the authorization server.                *)
EXTENDS ConnectFlow, TLC

Interchangeable == Permutations(Worker) \cup Permutations(User) \cup Permutations(Provider)
=============================================================================
