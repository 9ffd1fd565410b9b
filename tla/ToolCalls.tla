----------------------------- MODULE ToolCalls -----------------------------
(***************************************************************************)
(* One call of a tool of an MCP server, or of a command of its CLI, against *)
(* a service that can refuse any request and a network that can lose any    *)
(* reply.  The call follows one path of the tool (module CallSteps).        *)
(*                                                                          *)
(* Mirrors the exception flow that all handlers share: a failure that no    *)
(* block swallows runs up through the handlers that discard helpers, each   *)
(* best effort, and becomes an error answer; an early return skips what     *)
(* follows.  A cancelled call (asyncio.CancelledError, KeyboardInterrupt)   *)
(* is no Exception: no handler discards anything.  Requests have a timeout  *)
(* of 30 s and are never retried.  The bounds of jobs are MaxPolls polls.   *)
(***************************************************************************)
EXTENDS CallSteps, FiniteSets

CONSTANTS Plans,      \* the calls: [tool, steps]
          Mails,      \* mails a call can hold content of
          Stepwise,   \* tools that can fail behind a change of theirs
          MaxPolls    \* bound: polls of a job before its deadline

ASSUME ToolAssumption == MaxPolls \in Nat

VARIABLES
  call,       \* the call that is served, a member of Plans
  hidden,     \* the mails whose sender the policy does not allow
  at,         \* index of the next step
  status,     \* running, raising, or how it ended
  hand,       \* mails whose content the handler holds
  scope,      \* helpers that the enclosing exception handlers discard
  made,       \* helpers that exist at the service
  landed,     \* indices of the steps whose change took effect and lasts
  job,        \* the job at the service: none, running, done, failed
  polls,      \* polls of the job so far
  doubt,      \* a change may have taken effect without an answer
  missed      \* helpers whose discarding failed

vars == <<call, hidden, at, status, hand, scope, made, landed, job, polls, doubt,
          missed>>
service == <<made, landed, job>>

Init == /\ call \in Plans
        /\ hidden \in SUBSET {m \in Mails :
                        \E i \in DOMAIN call.steps : call.steps[i].on = m}
        /\ at = 1
        /\ status = "running"
        /\ hand = {} /\ scope = {} /\ made = {} /\ landed = {} /\ missed = {}
        /\ job = "none" /\ polls = 0
        /\ doubt = FALSE

Now == call.steps[at]
Does(do) == status = "running" /\ at <= Len(call.steps) /\ Now.do = do
Ended == status \in {"ok", "refused", "error", "cancelled"}

Pass == at' = at + 1 /\ UNCHANGED status
Return(s) == status' = s /\ UNCHANGED at
Fail(kind) ==
  \/ kind \in Now.caught /\ at' = at + 1 + Now.leaves /\ UNCHANGED status
  \/ kind \notin Now.caught /\ Return("raising")

-----------------------------------------------------------------------------
(* Steps that make no request *)

RefuseInput ==
  /\ Does("refuse")
  /\ Return("refused")
  /\ UNCHANGED <<call, hidden, hand, scope, service, polls, doubt, missed>>

(* the sender of an attached message is not looked at *)
JudgeSender_outer ==
  /\ Does("judge")
  /\ IF Now.on = "mail" /\ Now.on \in hidden THEN Return("refused") ELSE Pass
  /\ UNCHANGED <<call, hidden, hand, scope, service, polls, doubt, missed>>

JudgeSender ==
  /\ Does("judge")
  /\ IF Now.on \in hidden THEN Return("refused") ELSE Pass
  /\ UNCHANGED <<call, hidden, hand, scope, service, polls, doubt, missed>>

FilterListing ==
  /\ Does("filter")
  /\ hand' = hand \ hidden
  /\ Pass
  /\ UNCHANGED <<call, hidden, scope, service, polls, doubt, missed>>

TakeOver ==
  /\ Does("own")
  /\ scope' = scope \cup {Now.on}
  /\ Pass
  /\ UNCHANGED <<call, hidden, hand, service, polls, doubt, missed>>

-----------------------------------------------------------------------------
(* Requests *)

Read ==
  /\ \E do \in Reads : Does(do)
  /\ hand' = IF Now.do = "see" THEN hand \cup {Now.on} ELSE hand
  /\ IF Now.do = "check" /\ Now.on \in hidden THEN Return("refused") ELSE Pass
  /\ UNCHANGED <<call, hidden, scope, service, polls, doubt, missed>>

ReadFails ==
  /\ \E do \in Reads : Does(do)
  /\ Fail("refused") \/ Fail("lost")
  /\ UNCHANGED <<call, hidden, hand, scope, service, polls, doubt, missed>>

\* The change takes effect at the service.
Land ==
  /\ made' = (made \ Now.ends) \cup (IF Now.do = "make" THEN {Now.on} ELSE {})
  /\ landed' = landed \cup (IF Now.do \in Goals THEN {at} ELSE {})
  /\ job' = IF Now.do = "start" THEN "running" ELSE job

Write ==
  /\ \E do \in Writes : Does(do)
  /\ Land
  /\ scope' = scope \ Now.ends
  /\ Pass
  /\ UNCHANGED <<call, hidden, hand, polls, doubt, missed>>

WriteRefused ==
  /\ \E do \in Writes : Does(do)
  /\ Fail("refused")
  /\ UNCHANGED <<call, hidden, hand, scope, service, polls, doubt, missed>>

\* A finally block gives a helper back on the way to the answer, best effort.  On
\* the way to an error Discard does.
CloseHelper ==
  /\ Does("close")
  /\ \/ made' = made \ {Now.on} /\ UNCHANGED missed
     \/ missed' = missed \cup {Now.on} /\ UNCHANGED made
  /\ scope' = scope \ {Now.on}
  /\ Pass
  /\ UNCHANGED <<call, hidden, hand, landed, job, polls, doubt>>

\* The request or its reply is lost: the handler cannot tell which.
WriteLost ==
  /\ \E do \in Writes : Does(do)
  /\ Land \/ UNCHANGED service
  /\ Fail("lost")
  /\ doubt' = TRUE
  /\ UNCHANGED <<call, hidden, hand, scope, polls, missed>>

-----------------------------------------------------------------------------
(* Jobs at the service *)

JobEnds ==
  /\ job = "running"
  /\ \/ job' = "failed" /\ UNCHANGED landed
     \/ /\ job' = "done"
        /\ landed' = landed \cup {i \in DOMAIN call.steps :
             /\ call.steps[i].do = "start"
             /\ call.steps[i].on \in Lasting}
  /\ UNCHANGED <<call, hidden, at, status, hand, scope, made, polls, doubt, missed>>

(* each poll restarts the clock *)
PollRunning_restarting ==
  /\ Does("wait")
  /\ job = "running"
  /\ polls' = (polls + 1) % (MaxPolls + 1)
  /\ UNCHANGED <<call, hidden, at, status, hand, scope, service, doubt, missed>>

PollRunning ==
  /\ Does("wait")
  /\ job = "running" /\ polls < MaxPolls
  /\ polls' = polls + 1
  /\ UNCHANGED <<call, hidden, at, status, hand, scope, service, doubt, missed>>

(* any status but running is taken for a failure *)
PollEnded_failing ==
  /\ Does("wait")
  /\ job \in {"done", "failed"} /\ Fail("refused")
  /\ UNCHANGED <<call, hidden, hand, scope, service, polls, doubt, missed>>

PollEnded ==
  /\ Does("wait")
  /\ \/ job = "done" /\ Pass
     \/ job = "failed" /\ Fail("refused")
  /\ UNCHANGED <<call, hidden, hand, scope, service, polls, doubt, missed>>

PollFails ==
  /\ Does("wait")
  /\ Fail("refused") \/ Fail("lost")
  /\ doubt' = TRUE
  /\ UNCHANGED <<call, hidden, hand, scope, service, polls, missed>>

\* The deadline raises the error of the service; the job may still run.
DeadlinePasses ==
  /\ Does("wait")
  /\ job = "running" /\ polls = MaxPolls
  /\ Fail("refused")
  /\ doubt' = TRUE
  /\ UNCHANGED <<call, hidden, hand, scope, service, polls, missed>>

-----------------------------------------------------------------------------
(* The end of the call *)

(* the first failure ends the clean-up *)
Discard_stopping(x) ==
  /\ status = "raising"
  /\ x \in scope
  /\ \/ made' = made \ {x} /\ scope' = scope \ {x} /\ UNCHANGED missed
     \/ missed' = missed \cup {x} /\ scope' = {} /\ UNCHANGED made
  /\ UNCHANGED <<call, hidden, at, status, hand, landed, job, polls, doubt>>

\* A handler discards a helper; a failure to do so is swallowed.
Discard(x) ==
  /\ status = "raising"
  /\ x \in scope
  /\ scope' = scope \ {x}
  /\ \/ made' = made \ {x} /\ UNCHANGED missed
     \/ missed' = missed \cup {x} /\ UNCHANGED made
  /\ UNCHANGED <<call, hidden, at, status, hand, landed, job, polls, doubt>>

Report ==
  /\ status = "raising"
  /\ scope = {}
  /\ Return("error")
  /\ UNCHANGED <<call, hidden, hand, scope, service, polls, doubt, missed>>

Answer ==
  /\ status = "running"
  /\ at > Len(call.steps)
  /\ Return("ok")
  /\ UNCHANGED <<call, hidden, hand, scope, service, polls, doubt, missed>>

Cancel ==
  /\ ~Ended
  /\ Return("cancelled")
  /\ UNCHANGED <<call, hidden, hand, scope, service, polls, doubt, missed>>
-----------------------------------------------------------------------------
Handler == \/ RefuseInput \/ JudgeSender \/ FilterListing \/ TakeOver
           \/ Read \/ ReadFails \/ Write \/ WriteRefused \/ WriteLost
           \/ CloseHelper
           \/ PollRunning \/ PollEnded \/ PollFails \/ DeadlinePasses
           \/ (\E x \in scope : Discard(x)) \/ Report \/ Answer

Next == Handler \/ JobEnds \/ Cancel

\* A request ends by its answer, its failure or its timeout, a poll loop by its
\* deadline, so a call goes on until it ends.  Jobs and cancellation owe nothing.
Spec == Init /\ [][Next]_vars /\ WF_vars(Handler)

-----------------------------------------------------------------------------
(* Properties *)

TypeOK ==
  /\ hidden \subseteq Mails
  /\ at \in 1..Len(call.steps) + 1
  /\ status \in {"running", "raising", "ok", "refused", "error", "cancelled"}
  /\ job \in {"none", "running", "done", "failed"}
  /\ polls \in 0..MaxPolls
  /\ landed \subseteq DOMAIN call.steps
  /\ doubt \in BOOLEAN
  /\ hand \subseteq {call.steps[i].on : i \in DOMAIN call.steps}
  /\ scope \cup made \cup missed \subseteq
       {call.steps[i].on : i \in DOMAIN call.steps}

\* Mail from a sender the policy does not allow is neither shown to the caller nor
\* worked on: no answer is given, and nothing is changed at the service, while
\* the handler holds content of hidden mail (mail_policy.py: the sender is verified
\* before, the listing filtered after, the request).
HiddenMailStaysHidden ==
  [][ (status' = "ok" \/ (status = "running" /\ service' # service))
        => hand' \cap hidden = {} ]_vars

\* A call that failed or was refused, with every reply received, has done nothing
\* of what it was asked: the caller may repeat it without doing anything twice.
\* The tools in Stepwise promise less: those that work on several items, and the
\* statements of Databricks, whose rows are asked for when they have run.
FailureIsRetrySafe ==
  status \in {"error", "refused"} /\ ~doubt /\ call.tool \notin Stepwise
    => landed = {}

\* Whatever happens short of a cancellation or a lost reply, a call leaves behind
\* at most the helper it created last, and none if it succeeds, unless
\* the service refused to remove it: drafts, upload sessions and uploaded files do
\* not pile up when a later request of the call fails.  The one it created last can
\* stay: a file for a Teams message is read back before it is recorded (teams.py).
LeftoversAreBounded ==
  LET makes == {i \in 1..at : i <= Len(call.steps) /\ call.steps[i].do = "make"}
      last  == {call.steps[i].on : i \in {i \in makes : \A j \in makes : j <= i}}
  IN /\ status \in {"error", "refused"} /\ ~doubt => made \subseteq missed \cup last
     /\ status = "ok" /\ ~doubt => made \subseteq missed

\* Every call comes to an end: an answer, an error or its cancellation.
EveryCallEnds == <>Ended
=============================================================================
