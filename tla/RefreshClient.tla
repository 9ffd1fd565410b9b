---------------------------- MODULE RefreshClient ----------------------------
(***************************************************************************)
(* RefreshRotation composed with the client it was written for: one        *)
(* desktop that keeps a single refresh in flight ("Bond Desktop coalesces  *)
(* them", codes.py rotate_refresh_token), over a network that loses        *)
(* requests and replies.  The token endpoint's refresh grant               *)
(* (endpoints.py _handle_refresh_grant) is the server's side of it.        *)
(*                                                                         *)
(* The desktop lives in another repository: its actions are what the       *)
(* comments of codes.py and docs/deployment/oauth-resource-server.md say   *)
(* it does, which is to keep the token it holds until a reply replaces it  *)
(* and to ask the user to sign in again when it is refused.                *)
(***************************************************************************)
EXTENDS RefreshRotation

CONSTANTS Refusal,       \* the reply 400 invalid_grant
          LateRequests,  \* may a request arrive after its sender gave up?
          MaxLosses      \* bound: messages the network loses

ASSUME ClientAssumption ==
    /\ LateRequests \in BOOLEAN /\ MaxLosses \in Nat /\ Refusal \notin Int \cup {None}
    /\ Client # {} /\ User # {}

VARIABLES phase,   \* "out", "idle", "waiting" or "refused"
          held,    \* the refresh token the client has stored
          tries,   \* how often the client has sent the token it holds
          wire,    \* refresh requests under way: [token, try]
          reply,   \* the reply under way to the client: a token, Refusal or None
          losses   \* messages lost so far

clientVars == <<phase, held, tries, wire, reply, losses>>
allVars == <<vars, clientVars>>

TheClient == CHOOSE c \in Client : TRUE
TheUser == CHOOSE u \in User : TRUE

ClientInit ==
    /\ Init
    /\ phase = "out" /\ held = None /\ tries = 0
    /\ wire = {} /\ reply = None /\ losses = 0

(* The code grant: the client's first token.                               *)
ObtainToken ==
    /\ phase = "out"
    /\ SignIn(TheUser, TheClient)
    /\ phase' = "idle" /\ held' = Fresh /\ tries' = 0
    /\ UNCHANGED <<wire, reply, losses>>

Send ==
    /\ phase = "idle"
    /\ phase' = "waiting" /\ tries' = tries + 1
    /\ wire' = wire \cup {[token |-> held, try |-> tries + 1]}
    /\ UNCHANGED <<vars, held, reply, losses>>

(* The request the client is still waiting for.                            *)
Current(m) == phase = "waiting" /\ m = [token |-> held, try |-> tries]

(* _handle_refresh_grant: rotate, and answer 200 with the successor or 400 *)
(* invalid_grant.  An answer to a connection given up goes nowhere.        *)
Grant(m) ==
    /\ RotateLive(m.token, TheClient) \/ RotateGraced(m.token, TheClient)
    /\ wire' = wire \ {m}
    /\ reply' = IF Current(m) THEN Fresh ELSE reply
    /\ UNCHANGED <<phase, held, tries, losses>>

(* a refusal taken for a passing failure: the handler never answers        *)
Refuse_unanswered(m) ==
    /\ Verdict(m.token, TheClient) \notin {"live", "graced"}
    /\ UNCHANGED allVars

Refuse(m) ==
    /\ Verdict(m.token, TheClient) \notin {"live", "graced"}
    /\ wire' = wire \ {m}
    /\ reply' = IF Current(m) THEN Refusal ELSE reply
    /\ UNCHANGED <<vars, phase, held, tries, losses>>

Receive ==
    /\ reply # None
    /\ reply' = None
    /\ IF reply = Refusal
       THEN phase' = "refused" /\ UNCHANGED <<held, tries>>
       ELSE phase' = "idle" /\ held' = reply /\ tries' = 0
    /\ UNCHANGED <<vars, wire, losses>>

Lose ==
    /\ losses < MaxLosses
    /\ losses' = losses + 1
    /\ \/ reply # None /\ reply' = None /\ UNCHANGED wire
       \/ \E m \in wire : wire' = wire \ {m} /\ UNCHANGED reply
    /\ UNCHANGED <<vars, phase, held, tries>>

(* The client's own timeout.  It hits only when no answer can come any     *)
(* more, or, with LateRequests, while the request is still on its way.     *)
GiveUp ==
    /\ phase = "waiting" /\ reply = None
    /\ \/ \A m \in wire : ~Current(m)
       \/ LateRequests /\ losses < MaxLosses
    /\ losses' = IF \E m \in wire : Current(m) THEN losses + 1 ELSE losses
    /\ phase' = "idle"
    /\ UNCHANGED <<vars, held, tries, wire, reply>>

Operate == (RevokeTokens(TheUser) \/ PruneOAuth \/ Tick) /\ UNCHANGED clientVars

ClientNext ==
    \/ ObtainToken
    \/ Send
    \/ \E m \in wire : Grant(m) \/ Refuse(m)
    \/ Receive
    \/ Lose
    \/ GiveUp
    \/ Operate

(* The server answers what reaches it and the client keeps trying; clocks, *)
(* operators and losses promise nothing.                                   *)
ClientFairness ==
    /\ WF_allVars(\E m \in wire : Grant(m) \/ Refuse(m))
    /\ WF_allVars(Send) /\ WF_allVars(Receive) /\ WF_allVars(GiveUp)

ClientSpec == ClientInit /\ [][ClientNext]_allVars /\ ClientFairness

-----------------------------------------------------------------------------
(* Properties *)

ClientTypeOK ==
    /\ phase \in {"out", "idle", "waiting", "refused"}
    /\ held \in Minted \cup {None} /\ (held = None <=> phase = "out")
    /\ tries \in 0 .. MaxLosses + 1
    /\ wire \subseteq [token : Minted, try : 1 .. MaxLosses + 1]
    /\ reply \in Minted \cup {Refusal, None}
    /\ losses \in 0 .. MaxLosses

Revoked == born[held].root \in killed
TooOld == born[held].at + TTL < now
RotatedLongAgo ==
    \E t \in Minted : born[t].parent = held /\ born[t].at + refresh_grace_seconds < now

(* A client that refreshes one at a time is sent back to the sign-in page  *)
(* only for a reason: an operator revoked the user, its token reached the  *)
(* end of its life, or it came back for a lost reply after the window, and *)
(* never because replies were lost (codes.py refresh_grace_seconds).       *)
NoUnfairSignOut == phase = "refused" => Revoked \/ TooOld \/ RotatedLongAgo

(* The client does not hang: whatever it holds is replaced or refused.     *)
ClientMovesOn ==
    \A t \in Token :
        held = t /\ phase # "refused"
            ~> held # t \/ phase = "refused" \/ Len(born) = MaxTokens

(* The one case in which the grace costs a sign-in is two simultaneous     *)
(* presentations, which a client with a single refresh in flight never     *)
(* makes (codes.py:404-411): a token it received and presents for the      *)
(* first time, which strict rotation would accept, is not refused.         *)
FirstPresentationAccepted == phase = "refused" /\ tries = 1 => Revoked \/ TooOld
=============================================================================
