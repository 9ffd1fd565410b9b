--------------------------- MODULE MCAuthCodeFlow ---------------------------
(* Two handlers and two sign-ins that may overlap.  One client registered  *)
(* a loopback callback, the other a web one; the loopback client may come  *)
(* with another port.  A behaviour signs users in or rotates the signing   *)
(* key: the two share no state, and are not interleaved.                   *)
EXTENDS AuthCodeFlow, SigningKeys, TLC

CONSTANTS native, web

loop(port) == [host |-> "localhost", port |-> port, path |-> "/cb",
               query |-> FALSE, userinfo |-> FALSE, loopback |-> TRUE]
site == [host |-> "app.example", port |-> 443, path |-> "/cb",
         query |-> FALSE, userinfo |-> FALSE, loopback |-> FALSE]

MCUri == {loop(1), loop(2), site}
MCRegistered == (native :> {loop(1)}) @@ (web :> {site})
Workers == Permutations(Worker)

MCInit == Init /\ KInit
MCNext == \/ KInit /\ Next /\ UNCHANGED kvars
          \/ Init /\ KNext /\ UNCHANGED vars
MCSpec == MCInit /\ [][MCNext]_<<vars, kvars>>
=============================================================================
