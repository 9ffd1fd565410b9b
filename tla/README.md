# TLA+ models of bond-mcps

bond-mcps is a family of MCP servers (Microsoft 365, GitHub, Atlassian,
Databricks) around one shared `auth` package: an OAuth 2.1 authorization server
(AS) that signs users in through an upstream identity provider, and an encrypted
database of the credentials each user holds at each provider. What is hard in it
is concentrated there: replicas, threads and command-line tools write the same
few rows at once, each HTTP exchange can lose a message, and several providers
accept a refresh token only once. The models start from there.

## 1. The system

| component | state | operations | interacts with | hard behaviour | what makes it correct |
|---|---|---|---|---|---|
| refresh tokens (`auth_server/codes.py`) | `oauth_refresh_tokens` | issue, rotate, sweep | token endpoint, `cli.py` | lost replies, overlapping presentations, retention | one usable token per sign-in, a lost reply costs nothing, the dead stay dead |
| sign-in (`codes.py`, `endpoints.py`) | `oauth_pending_auth`, `oauth_auth_codes` | authorize, callback, code grant | clients, upstream provider | two transactions per handler, crashes between them, replays | one family per sign-in, bound to its own request |
| operator commands (`cli.py`) | – | `revoke-tokens`, `prune-oauth` | all AS tables | run against live traffic | revocation is complete, pruning forgets nothing promised |
| provider credentials (`token_store.py`, `db/repository.py`) | `provider_tokens` | refresh, save, clear | tools, status and connect routes, provider | a network call under a row lock, rotating tokens | no duplicate refresh, the stored token stays usable |
| MSAL cache (`ms_graph/local_auth.py`, `db/repository.py`) | `msal_token_caches` | silent and interactive acquisition, clear | two Microsoft servers, CLI, Microsoft | locked and unlocked read-modify-write of one row | rotated tokens are not lost |
| connect flow (`connect_routes.py`, `connect_tickets.py`) | `connect_tickets`, rows of `oauth_pending_auth` | ticket, start, callback, status, disconnect | provider credentials, auth proxy | single use, two users of one table | the credential lands with the user who asked |
| auth proxy (`proxy_server.py`, `proxy_client.py`) | in-memory states and results | register, callback, poll, expire | local logins | polling against two clocks | a result is delivered once |
| client registry (`clients.py`) | `oauth_clients` | register, look up, idle prune | sign-in, pruning | prune against sign-ins and rotations, seeding that fails | no live family without its client |
| signing keys (`keys.py`, `endpoints.py`) | key pair in a secret, and in each replica's environment | sign, publish, rotate | token endpoint, every verifier, the operator | rotation over replicas that restart one by one | a valid token verifies until it expires |
| mail (`mail.py`, `mail_policy.py`, `ms_graph_mcp.py`) | none here; drafts, folders, rules at Graph | list, read, send, draft, sync, rules | Graph | some thirty surfaces under one policy; drafts in several requests | hidden mail stays hidden, nothing goes out twice |
| Teams, files (`teams.py`, `files.py`, `attachments.py`) | none here; uploads and upload sessions at Graph | post with files, upload, copy, share | Graph | a later request of several fails, a lost reply | nothing is orphaned, a failed call may be repeated |
| calendar, people, photos, Power BI, documents | none here | requests, an export that is polled, edits | Graph | deadlines | every call ends |
| listings (`pagination.py`, `mail.py`, `teams.py`, `jira.py`, `dbx/client.py`) | a cursor the caller keeps | page, cap, resume | Graph, Jira, Databricks | budgets, expired cursors, faults in mid-listing | nothing is skipped without being told |
| GitHub, Atlassian, Databricks tools and CLIs | remote | one to a few requests each | provider APIs | as above | as above |
| rendering, start-up, deployment | none | formatting, configuration | | | |

`PROJECT.json` lists all of them with their files, and under `hazards` the lines
where this code can go wrong in a way a test would hardly reach, with the
property that guards each or the module that is to do so.

## 2. The modules

```
RefreshContract            what a refresh token promises
   ^            ^
   | refines    | refines
RefreshRotation RefreshTx          one step per transaction / per statement
   ^   ^         ^
   |   |         +--- RefreshTxProofs
   |   +--- ClientRegistry         + the clients, and the pruning of idle ones
   |             ^
   |             +--- RefreshRotationProofs   about all three
   |                           |
RefreshClient  <---------------+   + a client and a lossy network

AuthCodeFlow               authorize, callback, code grant
SigningKeys                the key pair, its rotation, what replicas publish
   ^
   +--- AuthCodeFlowProofs         about both
ProviderTokens             provider_tokens and a provider that may rotate
   ^
   +--- ProviderTokensProofs
MsalCache                  msal_token_caches, locked and unlocked writers
   ^
   +--- MsalCacheProofs
ConnectFlow                ticket, link, callback, and the AS's use of one table
   ^
   +--- ConnectFlowProofs
LocalLogin                 logins that poll the callback proxy
   ^
   +--- LocalLoginProofs

CallSteps                  a notation for the paths of a tool
   ^        ^
   |        +--- GraphFiles <- MailTools, TeamsTools, FileTools <- GraphCommands
   |        +--- AtlassianTools, GithubTools, DatabricksTools
ToolCalls                  runs one path against a service that fails
   ^
CallRules                  rules on paths
Listings                   paging, caps and cursors
   ^
   +--- ToolCallsProofs            about ToolCalls, by the rules, and Listings
```

The `MC*` modules fix instances for TLC. A definition called
`<operator>_<bug>` is the operator before which it stands with a plausible slip
in it; each property has one that it catches, listed under `mutants`.

### RefreshContract
Per family (the tokens of one sign-in): the `live` token nobody has used, and
the `prior` one that may still be presented because the reply that carried its
successor may be lost. A step uses the live token, retries with the prior one
(whose unused successor dies), starts a family, or lets tokens lapse.

### RefreshRotation
`rows` is the table: `revoked` is `revoked_at`, `next` is `replaced_by_hash`.
`born` and `killed` are history. `rotate_refresh_token` is `Verdict`, its
decision in the code's order, and the two actions that change something:
`RotateLive` and `RotateGraced`; each includes the sweep every mint runs. A
refused presentation rolls back, so it is no step. `SignIn` is
`issue_refresh_token`, `RevokeTokens` and `PruneOAuth` the operator commands, with
the settings arithmetic (`refresh_grace_seconds`, `CeilDiv`,
`_default_revoked_grace_days`) translated as it is.

### RefreshTx
The same transactions as SQL statements on Postgres, READ COMMITTED: `pc` is the
statement a replica or an operator's shell runs next, `lock` the row locks. An
UPDATE that meets a locked row waits and tests its WHERE again: that is why
`RevokeMatches`, `RetireMatches` and `VisitRow` need `lock[t] = None`, and why
`RevokeMisses` reads the committed row. Three statements write many rows: the sweep of
every mint (`Sweep`), `revoke-tokens` and `prune-oauth`. Each starts with the rows its
snapshot matches (`todo`), the source of the finding below, and `VisitRow` takes it to one
of them after the other, in any order; what it writes stays locked until the transaction ends.
The sweep comes after the checks, so a refused token's transaction (`refuse`) does not get
there. Only the last write, the flush of a graced rotation, is one step with the COMMIT behind it
(`MintOn`). `WaitsFor` is who waits for whom, `Knots` the cycles, of which Postgres aborts a
member (`AbortDeadlocked`, external).
Everything a transaction wrote shows when it commits; `Crash` and every refusal are
`Rollback`. The clock is left out: what depends on it is nondeterministic.

### RefreshClient
RefreshRotation with the desktop client the code's comments describe: it keeps
the token it holds until a reply replaces it and has one refresh in flight. The
client is not in this repository, so its actions are marked external. Requests
and replies can be lost; with `LateRequests` a request may also arrive after
its sender gave up.

### ClientRegistry
RefreshRotation with the clients its tokens are issued to. `clients` is the
table. `RegisterClient` and `SeedStatics` are the two ways in, the second at any time, as
some replica's first call; `AuthorizeClient` is the one look-up, so `GrantAttempt` and `Refresh` go on
for a client that is gone. `prune-oauth` is `PruneReads` (cutoffs, and the ids of
clients in use) and later `PruneDeletes` or `PruneEnds`; `pruning` is what it has read in
between. `crossed` and `excused` are history: the sign-ins a prune overlapped, and the
sessions they became.

### AuthCodeFlow
`Authorize`, `ConsumePending`, `IssueCode`, `ConsumeCode` and `GrantFamily` are
one transaction each, as in the code; `pc` and `taken` are what a handler
carries from its first transaction to its second, where it may also die
(`AbandonSignIn`, `CrashBeforeGrant`). Redirect URIs are records of what
`is_redirect_uri_allowed` looks at.

### ProviderTokens
One row, its lock, and a provider that rotates refresh tokens or does not
(`rotates`, fixed at the start). `LockToken` is `locked_token` and the checks made
right under the lock; `DoRefresh` the POST, whose reply may be lost or an error;
`Update` the merge and the write. Connect callbacks and CLI logins upsert the
row, disconnects delete it, all waiting for the lock. `Fail` is a death, a
database error or a busy timeout, `DropConnection` a lost connection that frees the
lock under a holder who does not notice.

### MsalCache
A cache is the refresh token of each account. `LockCache` .. `EndSilent` is
`_try_silent_under_lock`, with one `TrySilent` per account; `LoadCache`, `SignIn`,
`SaveCache` is the interactive flow, unlocked. A refresh token is spent when it
is used, as the comments of `local_auth.py` say of Microsoft.

### ConnectFlow
The JWT mode of `connect_routes.py`. `MintTicket`, `ConsumeTicket` and `Stash` lead
from the tool to the provider; `ReadStash`, `DeleteStash`, `ExchangeCode` and
`SaveToken` are the callback. The claim of a ticket is one UPDATE and one step; the
stash is read by a SELECT and deleted later, two steps, so callbacks at two
replicas can carry one state to the exchange, and it is the provider's single use
of a code (`Exchangeable`, external) that lets only one of them save. A handler
does not await between its transactions: a worker is a replica. The table
`pending` is shared with the AS: `StorePendingAuth` sweeps it, `ConsumePendingAuth`
deletes from it and gives the row back when `Decrypts` fails, `PruneOAuth` prunes
it. `_consume_pkce` is kept off a sign-in's row by its test of the client
(`StashMatches`) and, behind it, by the cipher's binding (`StashDecrypts`). Tickets and states are
numbered; a code and a verifier are named by the state
they belong to. `minted`, `started` and `signedIn`, the sign-ins whose own callback got
their row, are history. A connection error during the
exchange is answered with 500 and not with the `connection_error` redirect that the
head of `connect_routes.py` describes; `ExchangeFails` is both, since neither
changes state.

### LocalLogin
The logins of a developer's machine. `pending` is the proxy's `_pending`; every
request of it cleans up first (`Cleaned`). `Register` is a login up to the opened
browser, `Poll`, `PollFails` and `GiveUp` are `wait_for_callback`, the `Device*`
actions GitHub's and Microsoft's second way in (`FallsBack`). A local connect route
registers a redirect instead of polling (`StartConnect`, `FinishConnect`). The proxy
may stop, and forgets; a browser may call back again, with another answer. Clocks
are ages and remaining times, so nothing bounds how long the model runs. Printing
the link and opening the browser are taken to be instantaneous; the polling timeout
is 120 s and the proxy's 300 s, so three minutes are to spare.

### SigningKeys
A replica signs with the pair it was started with (`env`) and publishes both of its
keys (`build_jwks_document`); the operator's pair is `secret`, and it reaches a replica
only when that restarts. `PutNewKey`, `RollComplete` and `RetirePrevious` are the
procedure of `docs/DEPLOYMENT.md:592-600`, external to the program. Both lifetimes are
translated with their clamps, since an access token and an exchanged token are signed
by one function with different ones. A key is its generation, so two keys never share a
`kid`.

### CallSteps, ToolCalls and the modules of the tools
The tools have no state and no loop of their own: what can go wrong in them is the
order of their requests, what is checked between them, which failures a `try` swallows
and what its handler discards. So a tool is written as the set of paths its handler can
take (`P ++ Q`, `P \cup Q`, `Maybe(P)`), one definition for each function of the
libraries, the servers and the command lines, and `ToolCalls` runs any one path step
by step. A step says what it does (`see` reads content of a mail, `judge` checks a sender,
`make` creates a helper such as a draft or an upload session, `send` cannot be recalled,
`start` and `wait` are a job at the service), which failures its block swallows
(`Tolerant` is `except GraphError`, `BestEffort` is `except Exception`), and which helpers
it turns into results. `Own` is the start of a block whose handler discards a helper.
Every request may be refused, may get lost before or after it took effect (`doubt`), and
the call may be cancelled anywhere, in which case no handler runs, since
`CancelledError` is no `Exception`. `ReadFails`, `WriteRefused`, `WriteLost`, `PollFails`,
`DeadlinePasses`, `Discard` and `Report` are the way of an exception; no request is
retried in this code. `hidden` is what the policy hides, fixed for the call: `mail` is the
message it is about, `nested` one attached to it, whose sender is another and whose bytes
are its own. With the policy off nothing is hidden. A statement sent to Databricks is
followed by requests for its state and its rows (`Executed`), which can fail when what it
changes has taken effect.

A loop over items (attachments, messages, chunks) is taken no times and once or twice:
each pass does the same requests, so the second adds no order of steps that the first
and its failure do not have. The paths carry no data; which of several error texts is
answered and how a result is laid out is left out.

### Listings
Seven loops of the program over a service that lists numbered items in pages: `kind`
says which. `Call` is the tool's call with the cursor of the last answer (`held`), `Fetch` a
page and the decision to go on, `Deliver` the answer, `Refused` and `Lost` the faults in the
middle, `Resync` an expired cursor (410), `Change` a change in the mailbox (external).
`wanted` is what the caller is after, `seen` what it has been given, `told` whether an answer
admits that it may lack something. `count` is Jira's estimate, taken before the listing: any
number, since nothing ties it to what the listing finds. `list_emails` drops what the policy
hides behind the cap, so that `wanted` may be any part of the mails there. `CutInSilence` names
the answers that may be cut without a word, and `CutIsTold` says there are no others.

## 3. The runs

| run | instance | shows |
|---|---|---|
| `rotation` | 1 client, 2 users, 4 tokens, clock 0..5, grace 1, lifetime 4, day 2 | the six safety properties below and the refinement, one transaction a step |
| `rotation_tx` | 2 replicas, 1 operator, 3 tokens in at most 2 families of a user | the refinement again, statement by statement; a refusal changes nothing; deadlocks only through sweeps and commands; no endless wait |
| `revoke_tx` | the same, 1 family | **finding**: `RevocationComplete` fails |
| `client` | 1 client, 2 losses, 4 tokens, clock 0..5; or a self-registered and a static client, 1 sign-in at a time, 3 tokens, clock 0..4, lifetime and idle time 3 | lost messages never cost a sign-in; the client never hangs; no prune takes the client of a session that can be refreshed |
| `client_late` | the same with late requests | **finding**: `FirstPresentationAccepted` fails |
| `auth_code` | 2 handlers, a loopback and a web client, 2 users, 3 URIs, 2 verifiers, 2 sign-ins; or 2 replicas, 3 keys, 2 tokens, clock 0..7, window 2 | one family per sign-in, bound to its request, spent by nobody else; a key rotation invalidates no token |
| `tools` | every path of every tool and command, 1 poll; or 7 listings of at most 5 items, pages of 2, 2 pages a call, limits 1..4, 2 faults | hidden mail stays hidden, failed calls may be repeated (those of the tools in `Stepwise` excepted), nothing piles up, every call ends; nothing is skipped, and cut without a word only where `CutInSilence` says |
| `provider_tokens` | 2 callers, 1 connecting user, 3 refresh tokens | no duplicate refresh, usable token, liveness |
| `msal` | 2 callers, 1 disconnecting user, 2 accounts, 3 refresh tokens | silent acquisitions serialized, no silent reconnect, liveness |
| `connect` | 2 replicas, 2 users, 2 providers, 2 tickets, 2 states, clock 0..3, lifetimes and retention 1 | credentials land with their users, a link starts one flow, nobody else uses up a ticket, a connect state or a sign-in's |
| `login` | 2 logins, 2 providers, one with a device flow, timeout 2, state lifetime 3 | a login gets its user's latest answer while it polls, exchanges a code once, always ends |
| `msal_overlap` | the `msal` instance | **finding**: `RotationIsSeen` fails |

The properties:

- *Refresh tokens.* `OneLivePerFamily`, `NoFork` (of the successors of one token
  at most one is ever of use), `GraceCountsFromFirst`, `RevokedStaysDead`,
  `NothingPromisedForgotten` (no sweep or prune takes a row that could be
  presented with success) and `ImplementsContract`.
- *Their transactions.* `RefusalChangesNothing`, `OnlySweepsDeadlock` (a presentation
  that does not mint yet is in no cycle of locks, and where no operator's command is part of one
  everybody in it is still deleting stale rows), `EveryTransactionEnds` and
  `ImplementsContract` again.
- *Their client.* `NoUnfairSignOut`, `ClientMovesOn`.
- *Sign-in.* `OneFamilyPerSignIn`, `FamilyBelongsToSignIn`, `OnlyOwnersSpend`.
- *Clients.* `NoOrphanedSession`.
- *Signing keys.* `TokensVerifyUntilExpiry`.
- *Provider credentials.* `NoDuplicateRefresh`, `StoredTokenIsUsable`,
  `OnlyConnectingReplaces`, `EveryCallEnds`.
- *MSAL cache.* `SilentIsSerialized`, `SilentNeverReconnects`, `EveryCallEnds`.
- *Connect flow.* `CredentialLandsWithItsUser`, `OneFlowPerTicket`,
  `OnlyOwnersSpend` (of tickets and of the shared table's rows: a connect flow's goes
  only to its provider's callback, a sign-in's only to its own, which goes on with it).
- *Logins.* `LatestAnswerCounts`, `OneExchangePerLogin`, `EveryLoginEnds`.
- *Calls of tools.* `HiddenMailStaysHidden`, `FailureIsRetrySafe` (not of the tools that
  `Stepwise` lists: they change several things one after the other, or, as `run_query`, ask
  for more when the change is made), `LeftoversAreBounded`, `EveryCallEnds`.
- *Listings.* `NothingSkipped`, `CutIsTold`, `SyncCatchesUp`.

Each module but `ClientRegistry` and `Listings` has a type invariant. All but that of
`RefreshClient`, which documents the state, are proved or part of a proved invariant; three of
them are checked by a run as well, the other runs spend their time on the properties above. Where two components share a
run (`auth_code`, `tools`), a behaviour is of one of them: they share no state. In `client` a
behaviour is of one device or of the registry, over the same table of tokens.

### Findings
1. `revoke-tokens` on Postgres can overlap a rotation and commit while the
   rotation's new token is live (`cli.py:312`). The statement sees the old row,
   waits for it, finds it revoked, and never sees the new row. On SQLite, where
   `RefreshRotation` applies, it cannot happen and `RevokedStaysDead` is proved.
2. The lost-reply grace can refuse a token a client received and presents for
   the first time, when an earlier request arrives late; `codes.py:404-411` says
   only simultaneous presentations do that.
3. An interactive Microsoft sign-in saves a cache read before it without a lock
   and puts back refresh tokens that silent acquisitions have spent
   (`local_auth.py:314-318`), which its comments rule out.

### Seen on the way
These follow from the models but are no runs of their own:

- Mints can deadlock on Postgres. Each deletes all stale rows (`codes.py:518`) in an order
  that is the planner's and keeps them locked until it commits, so two that come to two stale
  rows in opposite order wait for each other; so do a mint and a `prune-oauth` of the same
  rows, and a mint and a `revoke-tokens` that has written a stale row of the user (nobody
  refreshed or signed in since it grew stale) and waits for the token being rotated.
  Postgres aborts one of the two, which then leaves no trace: a refresh or a sign-in fails
  with a server error and can be repeated, or the operator's command has to be.
- The signing key procedure says that after one access-token lifetime the previous key can
  go (`DEPLOYMENT.md:600`). An exchanged token has its own lifetime
  (`token_exchange.py:132-146`, up to an hour), which exceeds a shortened access-token
  lifetime: `KeyAssumption` needs the window to cover both. And while the first
  restart is under way, a replica that is still to restart does not publish the new key,
  so a new token may be refused: the exception in `TokensVerifyUntilExpiry`.
- `send_message_with_files` says that uploaded files are removed when a later upload or
  the post fails (`teams.py:1567-1572`). A file whose read-back fails after its upload is
  not recorded yet and stays; this is the one helper that `LeftoversAreBounded` allows. When
  the reply to the post is lost, the clean-up takes files that a delivered message shows.
- `apaginate_until_date` says it returns all items since a date
  (`pagination.py:72`); its page budget cuts without a word, as that of `apaginate` does. The
  Databricks `list_*` tools drop `truncated`.
- `list_emails` filters what the mail policy hides behind the cap (`ms_graph_mcp.py:346`): fewer
  mails than were asked for need not be all there are. A Jira search calls itself cut only when
  it found fewer issues than an approximate count taken before it (`atlassian_mcp.py:363`): with
  an undercount a capped answer looks complete.
- `run_query` executes a statement and then fetches rows, in requests of their own
  (`dbx/client.py:179-182`). When the second is refused the tool answers with an error, which
  does not tell that an INSERT has taken effect; repeated, it inserts again.
- `edit_document` calls repeating the remaining operations safe; after a lost reply,
  a row or column that was added is added again (only under `doubt`).
- The command line's rules commands do not have the forwarding check that the tool has
  when the mail policy is on. `mark_mail_read` and the drafts of one's own are exempt
  from the policy on purpose (`mail_policy.py:38-47`).
- A sign-in of an idle client that is under way while a prune runs ends in a session
  whose client is gone: it can refresh, and its next sign-in with that client_id is refused. That
  is the exception in `NoOrphanedSession`, which also presumes an idle time no shorter than a
  refresh token's lifetime.
- `cli.py:246-247` calls a client idle that was issued no refresh token within the idle
  time, but `prune-oauth` looks for rows (`cli.py:253`), and deletes revoked ones sooner: a
  client whose tokens an operator revoked goes with the first prune after its rows have
  gone, eight days later by default and not thirty. A family that lives has a recent row.
- A replica whose first seeding of the static clients fails sets `_STATICS_SEEDED` all the
  same (`clients.py:149-173`) and does not try again before it restarts. Unless another
  replica seeds them, the clients are unknown until then.
- A link is spent before anything else is checked (`connect_routes.py:437`): a start that then
  fails, by a bad `return_url` or a missing secret, burns it, and the agent has to print another.
- Disconnecting one Microsoft server drops the MSAL cache it shares with the other
  (`connect_routes.py:279`), on purpose.
- Confluence's `update_page` asked for without a version overwrites what was saved since the
  caller's read.

### Bounds
Every bound is a constant marked as such. Four tokens make a family long enough
for a rotation, a retry of it, and a rotation of either successor, or for two
families side by side; the clock of `rotation` reaches past the grace, the
retention and a lifetime. In `RefreshTx` three tokens let two presentations and
a revocation of one family overlap at each statement, a rotation meet a revocation that has
already written a stale row, or two mints sweep two stale rows in opposite order. Once the third is
minted no replica begins another transaction (`MCNext`); those under way, which may be in the
middle of any statement, and the operator's go on. Two processes show a
race, and a third party (the operator, the connecting user) disturbs it. Three
provider tokens are a connect and two rotations. Deadlock is checked in
`rotation_tx`, `provider_tokens` and `msal`; the others stop at a bound of the
clock or of the tokens. In `connect` two tickets and two states are two flows, or a
flow and a sign-in, that can be mixed up; a clock of three passes a ticket's
lifetime and its retention, so that a link is opened after its row was swept. In
`login` a timeout of two and a lifetime of three let a state be cleaned up by
another login's request just after, and never before, its own login gives up.
The registry's part of `client` has the lifetime and the idle time equal, as by default
(30 days), so that the last instant of a token is the cutoff of the prune; three tokens are a
sign-in with a rotation and a graced retry, and a static client, which no prune takes, is given
one less. Three keys are two rotations, so that a second one starts while tokens of the first are
about; a clock of seven passes a window and a lifetime in each. In `tools` five items in
pages of two, two pages to a call, make a listing that needs several calls, ends in the
middle of a page, on its border, or on the limit, and limits of one to four lie
below, on and above a page; two faults let a cursor expire and a page fail. The
paths of the tools are finite, one poll lets a job end before, at and after the deadline.

### Fairness
- `RefreshTx`, `ProviderTokens`, `MsalCache`: weak fairness on what a process does
  without waiting for anybody (the POST has a 30 s timeout, the browser flow 120 s,
  statements run), strong fairness on taking a row lock, because Postgres queues
  the waiters of a lock in order. On SQLite a waiter gives up after
  `busy_timeout`, which is `Fail`; it is allowed everywhere and assumed nowhere.
  Requests, sign-ins, crashes and disconnects are under no fairness.
- `RefreshClient`: the server answers a request that reaches it and the client
  sends, receives and times out; losses are bounded by `MaxLosses`, the clock and
  the operators promise nothing.
- `LocalLogin`: time passes, and a login that waits for nobody goes on, since each
  of its requests has a timeout. Users, providers and the proxy promise nothing.
- `ToolCalls`: a handler goes on, since each of its requests is answered, fails or
  times out after 30 s and each poll loop has a deadline. Jobs at the service and the
  cancellation promise nothing.
- `Listings`: the caller of `sync_mail` keeps asking, and a call of it goes on (its requests
  time out); faults are bounded, changes of the mailbox promise nothing.
- `RefreshRotation`, `AuthCodeFlow`, `SigningKeys`, `ConnectFlow` and
  `ClientRegistry` state safety only.

## 4. The proofs

`RefreshRotationProofs` proves, for all values of the constants that satisfy the
two assumptions of `RefreshRotation` (times and bounds are naturals, a day is at
least one, the default grace does not exceed the lifetime, NULL and a malformed
setting are not numbers), that `Spec` keeps all seven properties of the
`rotation` run: `TypeCorrect`, `OneLive`, `Linear`, `WindowCloses`, `RevocationHolds`,
`NothingForgotten` and the refinement `Implements`. `RefreshTxProofs` proves the same
refinement statement by statement.

None of these is inductive. The invariant `IInv` that is adds what the code relies
on without saying it:

- `Lineage`: a token has the root of the token it was presented for, which is older;
- `SuccessorIsChild`, `UsedIsDead`, `ActiveIsSuccessor`: `replaced_by_hash` names a
  child, a token with a child is revoked, and the only child that is live or has
  children of its own is the one the parent's row names. `OneLivePerFamily` and
  `NoFork` follow the lineage down through these;
- `RevokedInThePast`, `BornInWindow`: children are born between their parent's
  `revoked_at` and the end of its grace, which is why `RotateGraced` must leave
  `revoked_at` alone and what `GraceCountsFromFirst` needs;
- `OneUserPerFamily`: revoking a user's rows covers whole families, which
  `RevokedStaysDead` needs.

`NothingPromisedForgotten` rests on `IInv`, on the arithmetic of the retention
(`CeilDivRoundsUp`, `RetentionOutlastsGrace`: days rounded up plus one outlast the
grace), and on the sweep's taking only rows whose presentation is refused as
expired. The actions fall into a mint inside a family (`MintsAfter`), a sign-in, a
revocation, and steps that only delete rows or let time pass (`OnlyForgets`): one
lemma per shape, joined by the theorem `Invariance`.

`Implements` first shows that the refinement mapping, which picks tokens with CHOOSE, picks
the only candidate (`MappingSound`): a family's live row, and the row that names it. A
mint inside a family is then a `Use` or a `Retry` of the contract, for which the presented
row must survive the sweep of the same transaction (`PresentableStays`, what
`NothingForgotten` rests on too), and in every other family tokens can at most lapse
(`FamilyLapses`), since no row comes to name a live one.

`ClientsOutliveSessions` is about `ClientRegistry`, for an idle time of at least `TTL`. Its
invariant `RInv` adds to `IInv`, which the registry's behaviours keep, that a row's expiry
tells when it was born (`RowsAreDated`), so that what a prune reads as active covers every
row that can still be presented (`ReadSawSessions`), graced ones too; rotations only pass
client and family on (`SessionsInherit`), so it still does when the prune deletes. A sign-in
that no prune overlapped has its client still (`AttemptsHaveClients`).

`NobodySignedOutUnfairly` is about `RefreshClient`, for any number of losses. Its invariant `CInv`
says that one request at a time is about (`OneInFlight`) and that the token the device holds can
be refreshed, or is excused (`HeldIsGood`): it is unused, or its successor is and the window began
with a successor. It has two hypotheses. No request arrives after its sender gave up: else the run
`client_late` shows how the grace costs a sign-in. And the grace is on: with a grace of 0 the code
rotates strictly, and a lost reply costs a sign-in by design.

`RefreshTxProofs` proves `TypeCorrect`, `RefusalsChangeNothing`, `DeadlocksNeedSweeps` and the
refinement `Implements`, for any number of replicas, operators, users and tokens. What one
transaction at a time kept by itself needs here an account of what a replica may rely on in the
middle of its transaction: `HoldsItsWrites` and `WritesAreLive` say that what it has written it has
locked and nobody else changes, `ReadIsCurrent` that the successor it has read, which
it has not locked, is the row's as long as it is live, because whoever moves the row's
successor on retires the old one. `SparesRowsOf` is what a step of others owes for that, so that each
step is judged once for its own transaction and once for the rest. Then a commit is the mint
of one family (`MintsAfter`) or only loses tokens (`Loses`). `DeadlocksNeedSweeps` follows from
how little a replica holds: the row its UPDATE wrote and, from its sweep on, stale rows. Who is
waited for is refusing a token or mints (`WaitedForHasWritten`), who refuses waits for nobody
(`RefusingDoesNotWait`), and who has swept waits for no replica, since the row it repoints is neither
live nor stale (`SweptWaitsForNoReplica`). A command may write such a row, which is why a cycle
with one may also have a mint whose sweep is over.

`ConnectFlowProofs` proves `TypeCorrect`, `LandsWithItsUser`, `OneFlow` and `OwnersSpend`, all
safety properties of the `connect` run, for all values of the constants that satisfy
`ConnectAssumption` (times and bounds are naturals, NULL is no user, provider or number)
and `NullIsNothingHeld` (nor any record a handler holds). Its invariant has two parts.
`Binding` follows a user and a provider
through every place they are copied to: the ticket's row (`TicketsAreMinted`), the
handler that starts (`StartsAreMinted`), the state (`OriginsAreMinted`), the stash
(`RowsAreStashes`, which needs that a sign-in's row is no connect row,
`ClientsDiffer`), the handler in the callback (`CallbacksAreFlows`), and the
credential (`StoredAreFlows`). `Claiming` says that a ticket with a flow, or with a
handler about to start one, is not claimable any more, used or swept
(`StartedAreClaimed`), and that such a handler is the only one and has no flow yet
(`OneStartPerTicket`). `OwnersSpend` needs in addition that no connect row looks like a
sign-in's, whose callback would delete it, and that a sign-in's row which its callback has got
does not come back (`KeptApart`). That a connect callback leaves a sign-in's row alone
follows from `CallbacksAreFlows`: what a handler deletes is the state of a connect flow. `TypeCorrect` adds that a handler
holds something exactly while it works and that a row is of one of the two kinds (`RowsAndHandsTyped`).

`LocalLoginProofs` proves `TypeCorrect`, `LatestCounts` and `OneExchange` under `LoginAssumption`,
whose one substantial part is `Timeout <= StateTTL` (120 s and 300 s in the code).
The heart of it is `KeptWhilePolled`: while a login polls, the age of its state and
its time left add up to no more than its timeout, so no request's cleanup takes the
state (`CleanedSparesPolled`), unless the proxy was stopped, after which it never
returns (`NoReturn`). `ResultIsLatest` says the result in the table is the latest
answer. `NotYetPresented` and `SavedOnce` follow the code to the one exchange. `EntriesTyped`
says that the proxy redirects exactly the browsers of connect routes' logins.

About `SigningKeys`, `AuthCodeFlowProofs` proves `RotationSparesTokens` under
`KeyAssumption` (the window covers both lifetimes). `EnvIsRecent` says that a replica runs with the secret or with the one
before it, and that only during a restart; `LiveKeys` that tokens of the previous key
are about only while it is published, and, once every replica has restarted
(`RollComplete`), expire within the window from then. That is why the window counts
from the end of the rollout and not from the put.

`ToolCallsProofs` proves `TypeCorrect`, `HiddenMailIsSafe`, `FailedCallsMayBeRepeated` and
`LeftoversBounded` for every set of calls, every set of mails and any number of polls, from
the rules of `CallRules`: a path is well formed (a swallowing block ends within it), each read of
mail is covered by a check or a judgement before it whose failure is not swallowed or by a
judgement or a filter behind it with no write until then (`Guarded`), what a call is asked to do
comes last among the steps that can fail it (`GoalsLast`, asked of every tool outside `Stepwise`), and a helper that is made is handed back
before the answer and owned before the next one is made, by steps that no swallowed failure can leave
out (`HelpersSettled`). That the paths of the tools keep
the rules is a finite question, which TLC answers for all of them
(`CallsKeepRules` in `MCToolCalls`). The invariants say of a running call that the
mail it holds was checked or its judgement is still to come, and that once a
change has landed only harmless steps remain, and that behind the step that made a helper
which still exists nothing has handed it back, and it is owned if a step took it over (`Tracked`).

About `Listings` it proves `CursorsSkipNothing` and `CutsAreTold`, for every page size, budget,
limit, estimate and number of faults. `CallIsAhead` says what a call has in hand beyond the cursor
it started from: the items from there on, in order and without a gap. `WholePages` says of a
limit that is a multiple of the page size that it is reached at the end of a page, so that nothing
is trimmed. The conclusions about ranges of numbers rest on a few lemmas (`UpTo`, `FirstOfInterval`,
`PageOn`).

`AuthCodeFlowProofs` proves `TypeCorrect`, `OneFamily`, `FamilyIsOfItsSignIn` and
`OwnersSpend` under
`FlowAssumption`, which says no more than the types of the constants. A sign-in is in one
place at a time. `StateHasOnePlace`: its request is pending, or one handler exchanges it,
or it has one code. `CodeHasOnePlace`: a code is claimable, or one handler grants it, or it has
one family; a used code stays unclaimable when its row is pruned, because codes are
numbered and a pruned one never returns. `Binding` says that the row carries what
the request asked for in each of these places.

`ProviderTokensProofs` proves `TypeCorrect`, `RefreshedOnce`, `RowStaysUsable` and
`OnlyUsersReplace`: all safety properties of the `provider_tokens` run. `HolderHasRow` says
that who holds the lock presents the row's token, `CutOffIsLost` that who goes on without the
lock presents one whose exchange was cut off, `RowIsUsable` that the row's token is live
until its holder has rotated it, and `AnswerIsNew` that a token in a reply that is still to be
written is live and nowhere else, so that nobody else's refresh can spend it.

`MsalCacheProofs` proves `SilentSerialized` and `OnlySignInReconnects`. Only the holder of the
lock has accounts to try (`OnlyHolderTries`: a row that does not exist cannot be locked, but
leaves nothing to try either); what it spends is no longer in its cache
(`HolderIsExcused`) but still in the row until it writes (`RowIsExcused`), and a refresh token
belongs to one account (`Sound`).

Only model-checked is liveness: `EveryTransactionEnds`, `ClientMovesOn`, `EveryCallEnds` (three
modules), `EveryLoginEnds` and `SyncCatchesUp` (fairness and ENABLED are beyond the prover), and
the three violations, whose traces are the runs' results. All invariants and action properties of the
passing runs are proved. The modules use no RECURSIVE operator.

## 5. Not modelled

The status routes read, and refresh an expired token through `refresh_if_needed`
(`connect_routes.py:671-678`): in `ProviderTokens` they are callers like the tools. What they
report is left out; they call a token valid up to its expiry where the tools
refresh it 60 s earlier. The ranges of an upload session and the bytes they tile are data. Ciphers and keys, email, scope, resource and the format of
requests and replies carry no control here. The key file that a laptop generates for
itself (`keys.py:125`), the engine caching, URL validation, migrations, the importer and the
start-up code run once. `AuthCodeFlow` has a fixed set of clients, `ClientRegistry`
one that changes, without their URLs. Document and
workbook editing transforms bytes: its requests and their order are in `FileTools`, the
transformation is not. Rendering, argument parsing and the texts of errors are left out.
Deployment is not code. On SQLite the lock is the database's and not the row's: the
models with row locks allow more interleavings than it does, except for the busy timeout.

## 6. Plan

What would come next:

1. What the status routes report, joined to `ProviderTokens` by a clock.
2. What the proxy's page tells: it says "Authentication successful!"
   (`proxy_server.py:184-188`) also for a callback that brings an error, and for one
   whose login has stopped polling.
3. Proofs of what ends: a measure that every step of `Statement` decreases would
   reduce `EveryTransactionEnds` to the fairness of the lock queue.
