---------------------------- MODULE SigningKeys ----------------------------
(***************************************************************************)
(* The signing key of the authorization server, and its rotation: what a    *)
(* replica signs access tokens with and which keys it publishes, while an   *)
(* operator follows the procedure that DEPLOYMENT.md and                    *)
(* oauth-resource-server.md give.                                           *)
(*                                                                          *)
(* Mirrors auth_server/keys.py, _sign_access_token and both token lifetimes *)
(* (endpoints.py, token_exchange.py).  A replica reads its keys from its    *)
(* environment, which is the secret as it was when the replica started, so  *)
(* a new secret counts only after a restart.  The operator and Kubernetes   *)
(* are outside the program.  A key is numbered by its generation, its kid   *)
(* is the key; the key files of a laptop, and a key generated there, are    *)
(* left out, and so is the verifier's cache of the key set, which is read   *)
(* anew for a kid it does not hold.                                         *)
(***************************************************************************)
EXTENDS Integers, FiniteSets

CONSTANTS Replica,
          AccessEnv,        \* BOND_MCPS_AS_ACCESS_TOKEN_TTL_SECONDS, no integer
                            \* when it is unset or malformed
          ExchangeEnv,      \* the same of the lifetime of exchanged tokens
          DefaultAccess, DefaultExchange,
          MinTTL,           \* 60 seconds, for both
          MaxAccess, MaxExchange,
          Window,           \* how long the operator keeps the previous key
          MaxClock,         \* bound: the last instant
          MaxKeys,          \* bound: generations of keys
          MaxTokens         \* bound: tokens signed

Clamp(n, lo, hi) == IF n < lo THEN lo ELSE IF n > hi THEN hi ELSE n
TTLSetting(env, default, hi) ==
  IF env \in Int THEN Clamp(env, MinTTL, hi) ELSE default

_access_token_ttl_seconds == TTLSetting(AccessEnv, DefaultAccess, MaxAccess)
_exchange_ttl_seconds == TTLSetting(ExchangeEnv, DefaultExchange, MaxExchange)

\* The procedure waits for the lifetime of an access token, which the program does
\* not keep above that of an exchanged one: the operator has to see to both.
ASSUME KeyAssumption ==
  /\ {DefaultAccess, DefaultExchange, MinTTL, MaxAccess, MaxExchange, Window,
      MaxClock, MaxTokens} \subseteq Nat
  /\ MaxKeys \in Nat \ {0}
  /\ _access_token_ttl_seconds <= Window
  /\ _exchange_ttl_seconds <= Window

VARIABLES
  secret,   \* BOND_MCPS_AS_PRIVATE_KEY_PEM and BOND_MCPS_AS_PREVIOUS_KEY_PEM
  env,      \* what each replica was started with
  stage,    \* of the procedure: steady, rolling, overlap, retiring
  since,    \* when the last roll was complete
  clock,
  signed    \* history: the tokens, their kid and expiry

kvars == <<secret, env, stage, since, clock, signed>>

Unset == 0    \* no previous key

KInit == /\ secret = [key |-> 1, previous |-> Unset]
         /\ env = [r \in Replica |-> secret]
         /\ stage = "steady" /\ since = 0 /\ clock = 0
         /\ signed = {}

(* the previous key is loaded and not published *)
build_jwks_document_current(r) == {env[r].key}

build_jwks_document(r) == {env[r].key, env[r].previous} \ {Unset}

_sign_access_token(r, ttl) ==
  /\ Cardinality(signed) < MaxTokens
  /\ signed' = signed \cup {[kid |-> env[r].key, exp |-> clock + ttl]}
  /\ UNCHANGED <<secret, env, stage, since, clock>>

\* A grant of a token and an exchange differ in the lifetime.
SignAccess(r) == _sign_access_token(r, _access_token_ttl_seconds)
SignExchanged(r) == _sign_access_token(r, _exchange_ttl_seconds)

-----------------------------------------------------------------------------
(* The operator and the platform *)

PutNewKey ==
  /\ stage = "steady" /\ secret.key < MaxKeys
  /\ secret' = [key |-> secret.key + 1, previous |-> secret.key]
  /\ stage' = "rolling"
  /\ UNCHANGED <<env, since, clock, signed>>

\* A rollout, or a crash, at any time.
Restart(r) ==
  /\ env[r] # secret
  /\ env' = [env EXCEPT ![r] = secret]
  /\ UNCHANGED <<secret, stage, since, clock, signed>>

RollComplete ==
  /\ \A r \in Replica : env[r] = secret
  /\ \/ stage = "rolling" /\ stage' = "overlap"
     \/ stage = "retiring" /\ stage' = "steady"
  /\ since' = clock
  /\ UNCHANGED <<secret, env, clock, signed>>

RetirePrevious ==
  /\ stage = "overlap" /\ clock >= since + Window
  /\ secret' = [secret EXCEPT !.previous = Unset]
  /\ stage' = "retiring"
  /\ UNCHANGED <<env, since, clock, signed>>

TimePasses ==
  /\ clock < MaxClock
  /\ clock' = clock + 1
  /\ UNCHANGED <<secret, env, stage, since, signed>>

KNext == \/ \E r \in Replica : SignAccess(r) \/ SignExchanged(r) \/ Restart(r)
         \/ PutNewKey \/ RollComplete \/ RetirePrevious \/ TimePasses

KSpec == KInit /\ [][KNext]_kvars

-----------------------------------------------------------------------------
(* Properties *)

KTypeOK ==
  /\ secret \in [key : 1..MaxKeys, previous : 0..MaxKeys]
  /\ env \in [Replica -> [key : 1..MaxKeys, previous : 0..MaxKeys]]
  /\ stage \in {"steady", "rolling", "overlap", "retiring"}
  /\ since \in Nat /\ clock \in Nat
  /\ signed \in SUBSET [kid : 1..MaxKeys, exp : Nat]

\* "Tokens signed with the old key still verify until they expire": through a
\* rotation, whichever replica a verifier asks for the key set (/.well-known/jwks.json)
\* publishes the key of every token that has not expired.  The one exception are tokens
\* of the new key while the first restart is under way.
TokensVerifyUntilExpiry ==
  \A t \in signed : t.exp > clock =>
    \/ \A r \in Replica : t.kid \in build_jwks_document(r)
    \/ stage = "rolling" /\ t.kid = secret.key
=============================================================================
