--------------------------- MODULE MCRefreshClient ---------------------------
(* One device.  Four tokens let it lose a reply, be graced, and still      *)
(* rotate; two losses let it lose a reply and the retry's too.             *)
(*                                                                         *)
(* A behaviour is of that device, once its client is registered, or of     *)
(* the registry, with a static client, and of any clients' sign-ins.       *)
EXTENDS RefreshClient, ClientRegistry

CONSTANTS RegistryTokens,  \* bound: tokens of a behaviour of the registry,
                           \* one less once it has a static client
          RegistryClock    \* bound: its last instant

DeviceOnly ==
    /\ Registered = {TheClient} /\ clients[TheClient].created = 0
    /\ (phase = "out" => born = << >>) /\ pruning = None
    /\ \A a \in Attempt : attempt[a] = None

MCInit == ClientInit /\ RInit
MCNext ==
    \/ DeviceOnly /\ ClientNext /\ UNCHANGED rvars
    \/ phase = "out" /\ RNext /\ UNCHANGED clientVars
       /\ now' <= RegistryClock
       /\ Len(born') <= IF Static \cap Registered = {}
                        THEN RegistryTokens ELSE RegistryTokens - 1
MCSpec == MCInit /\ [][MCNext]_<<allVars, rvars>> /\ ClientFairness
=============================================================================
