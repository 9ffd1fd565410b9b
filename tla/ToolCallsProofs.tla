-------------------------- MODULE ToolCallsProofs --------------------------
(***************************************************************************)
(* Proofs about ToolCalls for every set of calls that keeps the rules of    *)
(* CallRules, every set of mails and every bound on the polls, and about    *)
(* Listings for every page size, page budget and limit.                     *)
(***************************************************************************)
EXTENDS CallRules, Listings, FiniteSetTheorems, TLAPS

Steps == call.steps
Size == Len(call.steps)
Things == {call.steps[i].on : i \in DOMAIN call.steps}

(* The invariant behind type correctness.                                   *)
Typed == call \in Plans /\ TypeOK

(* Where an action may leave the call: at the same step, at the next one,   *)
(* or behind those that a swallowing block leaves out.                      *)
Moves ==
  \/ at' = at
  \/ at <= Size /\ at' = at + 1
  \/ at <= Size /\ at' = at + 1 + Steps[at].leaves

LEMMA Element ==
  ASSUME NEW S, NEW s \in Seq(S), NEW i \in 1..Len(s)
  PROVE  s[i] \in S
PROOF
  OBVIOUS

LEMMA PathShape ==
  ASSUME PlansWellFormed, NEW c \in Plans
  PROVE  /\ c.steps \in Seq([do : STRING, on : STRING, ends : SUBSET STRING,
                             caught : SUBSET {"refused", "lost"}, leaves : Nat])
         /\ Len(c.steps) \in Nat
         /\ DOMAIN c.steps = 1..Len(c.steps)
         /\ \A i \in 1..Len(c.steps) :
              /\ c.steps[i].leaves \in Nat
              /\ i + c.steps[i].leaves <= Len(c.steps)
              /\ c.steps[i].on \in STRING /\ c.steps[i].do \in STRING
              /\ c.steps[i].caught \subseteq {"refused", "lost"}
PROOF
  <1> DEFINE Rec == [do : STRING, on : STRING, ends : SUBSET STRING,
                     caught : SUBSET {"refused", "lost"}, leaves : Nat]
  <1>1. c.steps \in Seq(Rec) /\ \A i \in 1..Len(c.steps) :
          i + c.steps[i].leaves <= Len(c.steps)
    BY DEF PlansWellFormed, WellFormed
  <1>2. \A i \in 1..Len(c.steps) : c.steps[i] \in Rec
    <2> HIDE DEF Rec
    <2> QED
      BY <1>1, Element
  <1>3. Len(c.steps) \in Nat /\ DOMAIN c.steps = 1..Len(c.steps)
    <2> HIDE DEF Rec
    <2> QED
      BY <1>1
  <1> QED
    BY <1>1, <1>2, <1>3

LEMMA AtStep ==
  ASSUME PlansWellFormed, Typed, at <= Size
  PROVE  at \in 1..Size /\ at \in DOMAIN Steps /\ Now = Steps[at] /\ Now.on \in Things
PROOF
  <1>1. Size \in Nat /\ DOMAIN Steps = 1..Size
    BY PathShape DEF Typed, Size, Steps
  <1>2. at \in 1..(Size + 1)
    BY DEF Typed, TypeOK, Size
  <1>3. at \in 1..Size
    BY <1>1, <1>2
  <1> QED
    BY <1>1, <1>3 DEF Now, Steps, Things

LEMMA MovesInBounds ==
  ASSUME PlansWellFormed, Typed, Moves
  PROVE  at' \in 1..(Size + 1) /\ at' >= at
PROOF
  <1>1. Size \in Nat /\ at \in 1..(Size + 1)
    BY PathShape DEF Typed, TypeOK, Size
  <1>2. CASE at <= Size /\ at' = at + 1 + Steps[at].leaves
    <2>1. Steps[at].leaves \in Nat /\ at + Steps[at].leaves <= Size
      BY <1>2, AtStep, PathShape DEF Typed, Steps, Size
    <2> QED
      BY <1>1, <1>2, <2>1
  <1> QED
    BY <1>1, <1>2 DEF Moves

LEMMA FailMoves ==
  ASSUME at <= Size, NEW k, Fail(k)
  PROVE  Moves /\ status' \in {status, "raising"}
PROOF
  BY DEF Fail, Return, Moves, Now, Steps, Size

-----------------------------------------------------------------------------
(* Every action keeps the call and its policy, moves forward and takes one of *)
(* the known statuses.                                                      *)
LEMMA StepShape ==
  ASSUME PlansWellFormed, Typed, Next
  PROVE  /\ UNCHANGED <<call, hidden>>
         /\ Moves
         /\ status' \in {status, "raising", "ok", "refused", "error", "cancelled"}
PROOF
  <1> USE DEF Moves, Return, Pass, Size, Does
  <1>1. CASE RefuseInput
    BY <1>1 DEF RefuseInput
  <1>2. CASE JudgeSender
    BY <1>2 DEF JudgeSender
  <1>3. CASE FilterListing
    BY <1>3 DEF FilterListing
  <1>4. CASE TakeOver
    BY <1>4 DEF TakeOver
  <1>5. CASE Read
    BY <1>5 DEF Read
  <1>6. CASE ReadFails
    BY <1>6, FailMoves DEF ReadFails
  <1>7. CASE Write
    BY <1>7 DEF Write
  <1>8. CASE WriteRefused
    BY <1>8, FailMoves DEF WriteRefused
  <1>9. CASE WriteLost
    BY <1>9, FailMoves DEF WriteLost
  <1>10. CASE CloseHelper
    BY <1>10 DEF CloseHelper
  <1>11. CASE PollRunning
    BY <1>11 DEF PollRunning
  <1>12. CASE PollEnded
    BY <1>12, FailMoves DEF PollEnded
  <1>13. CASE PollFails
    BY <1>13, FailMoves DEF PollFails
  <1>14. CASE DeadlinePasses
    BY <1>14, FailMoves DEF DeadlinePasses
  <1>15. CASE \E x \in scope : Discard(x)
    BY <1>15 DEF Discard
  <1>16. CASE Report
    BY <1>16 DEF Report
  <1>17. CASE Answer
    BY <1>17 DEF Answer
  <1>18. CASE JobEnds
    BY <1>18 DEF JobEnds
  <1>19. CASE Cancel
    BY <1>19 DEF Cancel
  <1> QED
    BY <1>1, <1>2, <1>3, <1>4, <1>5, <1>6, <1>7, <1>8, <1>9, <1>10, <1>11,
       <1>12, <1>13, <1>14, <1>15, <1>16, <1>17, <1>18, <1>19 DEF Next, Handler

-----------------------------------------------------------------------------
(* Type correctness *)

(* What an action may do to the rest of the state.                          *)
Kept ==
  /\ job \in {"none", "running", "done", "failed"}
  /\ polls \in 0..MaxPolls
  /\ landed \subseteq DOMAIN Steps
  /\ doubt \in BOOLEAN
  /\ hand \subseteq Things
  /\ scope \cup made \cup missed \subseteq Things

LEMMA LandKeeps ==
  ASSUME PlansWellFormed, Typed, at <= Size, Land
  PROVE  /\ job' \in {"none", "running", "done", "failed"}
         /\ landed' \subseteq DOMAIN Steps
         /\ made' \subseteq Things
PROOF
  <1>1. at \in DOMAIN Steps /\ Now.on \in Things
    BY AtStep
  <1>2. /\ job \in {"none", "running", "done", "failed"}
        /\ landed \subseteq DOMAIN Steps
        /\ made \subseteq Things
    BY DEF Typed, TypeOK, Steps, Things
  <1> QED
    BY <1>1, <1>2 DEF Land

LEMMA StepKeeps ==
  ASSUME PlansWellFormed, Typed, Next
  PROVE  Kept'
PROOF
  <1>1. UNCHANGED <<call, Steps, Things>>
    BY StepShape DEF Steps, Things
  <1>2. Kept
    BY DEF Kept, Typed, TypeOK, Steps, Things
  <1>3. at <= Size => at \in DOMAIN Steps /\ Now.on \in Things
    BY AtStep
  <1> USE <1>1, <1>2 DEF Kept, Does, Size, service
  <1>4. CASE UNCHANGED <<hand, scope, made, landed, job, polls, doubt, missed>>
    BY <1>4
  <1>5. CASE RefuseInput \/ JudgeSender \/ ReadFails \/ WriteRefused \/ PollEnded
             \/ Report \/ Answer \/ Cancel
    BY <1>4, <1>5 DEF RefuseInput, JudgeSender, ReadFails, WriteRefused, PollEnded,
                      Report, Answer, Cancel
  <1>6. CASE FilterListing
    BY <1>6 DEF FilterListing
  <1>7. CASE TakeOver
    BY <1>3, <1>7 DEF TakeOver
  <1>8. CASE Read
    BY <1>3, <1>8 DEF Read
  <1>9. CASE Write
    BY <1>9, LandKeeps DEF Write
  <1>10. CASE WriteLost
    <2>1. at <= Size /\ (Land \/ UNCHANGED service)
      BY <1>10 DEF WriteLost
    <2>2. /\ job' \in {"none", "running", "done", "failed"}
          /\ landed' \subseteq DOMAIN Steps
          /\ made' \subseteq Things
      BY <2>1, LandKeeps
    <2> QED
      BY <1>10, <2>2 DEF WriteLost
  <1>11. CASE CloseHelper
    BY <1>3, <1>11 DEF CloseHelper
  <1>12. CASE JobEnds
    BY <1>12 DEF JobEnds, Steps
  <1>13. CASE PollRunning
    <2>1. polls < MaxPolls /\ polls' = polls + 1
          /\ UNCHANGED <<hand, scope, made, landed, job, doubt, missed>>
      BY <1>13 DEF PollRunning
    <2> QED
      BY <2>1, ToolAssumption
  <1>14. CASE PollFails \/ DeadlinePasses
    BY <1>14 DEF PollFails, DeadlinePasses
  <1>15. CASE \E x \in scope : Discard(x)
    BY <1>15 DEF Discard
  <1> QED
    BY <1>5, <1>6, <1>7, <1>8, <1>9, <1>10, <1>11, <1>12, <1>13, <1>14, <1>15
       DEF Next, Handler

LEMMA TypedStep ==
  ASSUME PlansWellFormed, Typed, [Next]_vars
  PROVE  Typed'
PROOF
  <1>1. CASE Next
    <2>1. UNCHANGED <<call, hidden, Steps, Size>> /\ Moves
      BY <1>1, StepShape DEF Steps, Size
    <2>2. at' \in 1..(Size + 1)
      BY <2>1, MovesInBounds
    <2>3. status' \in {"running", "raising", "ok", "refused", "error", "cancelled"}
      BY <1>1, StepShape DEF Typed, TypeOK
    <2>4. Kept'
      BY <1>1, StepKeeps
    <2> QED
      BY <2>1, <2>2, <2>3, <2>4 DEF Typed, TypeOK, Kept, Steps, Size, Things
  <1>2. CASE UNCHANGED vars
    BY <1>2 DEF Typed, TypeOK, vars
  <1> QED
    BY <1>1, <1>2

LEMMA TypedInit ==
  ASSUME PlansWellFormed, Init
  PROVE  Typed
PROOF
  <1>1. call \in Plans /\ Size \in Nat
    BY PathShape DEF Init, Size
  <1>2. hidden \subseteq Mails
    BY DEF Init
  <1>3. /\ at = 1 /\ status = "running" /\ job = "none" /\ polls = 0 /\ doubt = FALSE
        /\ hand = {} /\ scope = {} /\ made = {} /\ landed = {} /\ missed = {}
    BY DEF Init
  <1>4. at \in 1..(Len(call.steps) + 1) /\ polls \in 0..MaxPolls
    BY <1>1, <1>3, ToolAssumption DEF Size
  <1> QED
    BY <1>1, <1>2, <1>3, <1>4 DEF Typed, TypeOK

(* Every variable keeps its type: the next step is one of the path or lies  *)
(* just behind it, whatever a failure leaves out, and polls keep their bound. *)
THEOREM TypeCorrect ==
  ASSUME PlansWellFormed
  PROVE  Spec => []TypeOK
PROOF
  <1>1. Init => Typed
    BY TypedInit
  <1>2. Typed /\ [Next]_vars => Typed'
    BY TypedStep
  <1>3. Typed => TypeOK
    BY DEF Typed
  <1> QED
    BY <1>1, <1>2, <1>3, PTL DEF Spec

-----------------------------------------------------------------------------
(* Hidden mail *)

(* Checks that have passed found nothing hidden.                            *)
Judged ==
  status = "running" =>
    \A j \in 1..(at - 1), m \in hidden : ~ChecksAt(Steps, j, m)

(* Content of hidden mail is cleared further on, before anything is written. *)
Held ==
  status = "running" =>
    \A m \in hand \cap hidden : \E j \in at..Size : ClearsAt(Steps, j, m)

Shown == status = "ok" => hand \cap hidden = {}

(* A job runs because a step up to the present one has started it.          *)
Started ==
  job = "running" => \E k \in 1..Size : k <= at /\ Steps[k].do = "start"

MailInv == Judged /\ Held /\ Shown /\ Started

(* What a step does that goes on running.                                   *)
LEMMA RunsOn ==
  ASSUME PlansWellFormed, Typed, Next, status' = "running"
  PROVE  /\ status = "running"
         /\ \/ hand' \subseteq hand
            \/ /\ at <= Size /\ at' = at + 1
               /\ Now.do = "see" /\ hand' = hand \cup {Now.on}
         /\ at' # at =>
              /\ at <= Size
              /\ \A m \in hidden : ~ChecksAt(Steps, at, m)
              /\ \A m \in hand' \cap hidden : ~ClearsAt(Steps, at, m)
PROOF
  <1> USE DEF Does, Pass, Return, Size, Now, Steps, ChecksAt, ClearsAt
  <1>1. CASE RefuseInput \/ Report \/ Answer \/ Cancel \/ (\E x \in scope : Discard(x))
    BY <1>1 DEF RefuseInput, Report, Answer, Cancel, Discard
  <1>2. CASE JudgeSender
    BY <1>2 DEF JudgeSender
  <1>3. CASE FilterListing
    BY <1>3 DEF FilterListing
  <1>4. CASE TakeOver \/ CloseHelper \/ PollRunning \/ JobEnds
    BY <1>4 DEF TakeOver, CloseHelper, PollRunning, JobEnds
  <1>5. CASE Read
    BY <1>5 DEF Read, Reads
  <1>6. CASE ReadFails
    BY <1>6 DEF ReadFails, Reads, Fail
  <1>7. CASE Write
    BY <1>7 DEF Write, Writes, Goals
  <1>8. CASE WriteRefused
    BY <1>8 DEF WriteRefused, Writes, Goals, Fail
  <1>9. CASE WriteLost
    BY <1>9 DEF WriteLost, Writes, Goals, Fail
  <1>10. CASE PollEnded
    BY <1>10 DEF PollEnded, Fail
  <1>11. CASE PollFails
    BY <1>11 DEF PollFails, Fail
  <1>12. CASE DeadlinePasses
    BY <1>12 DEF DeadlinePasses, Fail
  <1> QED
    BY <1>1, <1>2, <1>3, <1>4, <1>5, <1>6, <1>7, <1>8, <1>9, <1>10, <1>11, <1>12
       DEF Next, Handler

LEMMA JudgedStep ==
  ASSUME PlansWellFormed, Typed, Judged, Next
  PROVE  Judged'
PROOF
  <1>1. UNCHANGED <<call, hidden, Steps, Size>> /\ Moves
    BY StepShape DEF Steps, Size
  <1> SUFFICES ASSUME status' = "running",
                      NEW j \in 1..(at' - 1), NEW m \in hidden
               PROVE  ~ChecksAt(Steps, j, m)
    BY <1>1 DEF Judged
  <1>2. status = "running" /\ (at' # at => at <= Size /\ ~ChecksAt(Steps, at, m))
    BY RunsOn
  <1>3. Size \in Nat /\ at \in 1..(Size + 1)
    BY PathShape DEF Typed, TypeOK, Size
  <1>4. CASE j \in 1..(at - 1)
    BY <1>2, <1>4 DEF Judged
  <1>5. CASE j = at /\ at' # at
    BY <1>2, <1>5
  <1>6. CASE at <= Size /\ at' = at + 1 + Steps[at].leaves /\ j > at
    <2>1. Steps[at].leaves \in Nat
      BY <1>6, AtStep, PathShape DEF Typed, Steps, Size
    <2>2. j <= at + Steps[at].leaves /\ at \in 1..(j - 1)
      BY <1>3, <1>6, <2>1
    <2> QED
      BY <2>1, <2>2 DEF ChecksAt, Sure
  <1> QED
    BY <1>1, <1>3, <1>4, <1>5, <1>6 DEF Moves

LEMMA HeldStep ==
  ASSUME PlansWellFormed, PlansGuarded, Typed, Judged, Held, Next
  PROVE  Held'
PROOF
  <1>1. UNCHANGED <<call, hidden, Steps, Size>> /\ Moves
    BY StepShape DEF Steps, Size
  <1> SUFFICES ASSUME status' = "running", NEW m \in hand' \cap hidden
               PROVE  \E j \in at'..Size : ClearsAt(Steps, j, m)
    BY <1>1 DEF Held
  <1>2. /\ status = "running"
        /\ \/ hand' \subseteq hand
           \/ /\ at <= Size /\ at' = at + 1
              /\ Now.do = "see" /\ hand' = hand \cup {Now.on}
        /\ at' # at => at <= Size /\ ~ClearsAt(Steps, at, m)
    BY RunsOn
  <1>3. Size \in Nat /\ at \in 1..(Size + 1)
    BY PathShape DEF Typed, TypeOK, Size
  <1>4. CASE m \in hand
    <2>1. PICK j \in at..Size : ClearsAt(Steps, j, m)
      BY <1>2, <1>4 DEF Held
    <2>2. CASE at' = at
      BY <2>1, <2>2
    <2>3. CASE at' # at
      <3>1. j > at
        BY <1>2, <1>3, <2>1, <2>3
      <3>2. Steps[at].leaves \in Nat /\ at + Steps[at].leaves < j
        <4>1. Steps[at].leaves \in Nat
          BY <1>2, <2>3, AtStep, PathShape DEF Typed, Steps, Size
        <4>2. at \in 1..(j - 1)
          BY <1>3, <3>1
        <4> QED
          BY <2>1, <4>1, <4>2 DEF ClearsAt, Sure
      <3>3. at' <= j
        BY <1>1, <1>3, <2>3, <3>1, <3>2 DEF Moves
      <3>4. at' \in Nat
        BY <1>1, <1>3, <2>3, <3>2 DEF Moves
      <3> QED
        BY <1>3, <2>1, <3>3, <3>4
    <2> QED
      BY <2>2, <2>3
  <1>5. CASE m \notin hand
    <2>1. at <= Size /\ at' = at + 1 /\ Now.do = "see" /\ m = Now.on
      BY <1>2, <1>5
    <2>2. at \in 1..Size /\ Steps[at].do = "see" /\ Steps[at].on = m
      BY <2>1, AtStep
    <2>3. Guarded(Steps)
      BY DEF PlansGuarded, Typed, Steps
    <2>4. ~ \E j \in 1..(at - 1) : ChecksAt(Steps, j, m)
      BY <1>2 DEF Judged
    <2>5. \E j \in (at + 1)..Size : ClearsAt(Steps, j, m)
      BY <2>2, <2>3, <2>4 DEF Guarded, Size, Steps
    <2> QED
      BY <2>1, <2>5
  <1> QED
    BY <1>4, <1>5

(* Where nothing is left to clear, nothing hidden is at hand.               *)
LEMMA NothingHeld ==
  ASSUME Held, status = "running", \A m \in hidden, j \in at..Size : ~ClearsAt(Steps, j, m)
  PROVE  hand \cap hidden = {}
PROOF
  BY DEF Held

LEMMA ShownStep ==
  ASSUME PlansWellFormed, Typed, Held, Shown, Next
  PROVE  Shown'
PROOF
  <1>1. UNCHANGED hidden
    BY StepShape
  <1>2. CASE Answer
    <2>1. status = "running" /\ at > Size /\ UNCHANGED hand
      BY <1>2 DEF Answer, Size
    <2>2. Size \in Nat /\ at \in Nat
      BY PathShape DEF Typed, TypeOK, Size
    <2>3. at..Size = {}
      BY <2>1, <2>2
    <2>4. hand \cap hidden = {}
      BY <2>1, <2>3, NothingHeld
    <2> QED
      BY <1>1, <2>1, <2>4 DEF Shown
  <1>3. CASE JobEnds
    BY <1>1, <1>3 DEF JobEnds, Shown
  <1>4. CASE ~Answer /\ ~JobEnds
    <2>1. status' # "ok"
      BY <1>4 DEF Next, Handler, RefuseInput, JudgeSender, FilterListing, TakeOver,
           Read, ReadFails, Write, WriteRefused, WriteLost, CloseHelper, PollRunning,
           PollEnded, PollFails, DeadlinePasses, Discard, Report, Cancel,
           Does, Pass, Return, Fail, Ended
    <2> QED
      BY <2>1 DEF Shown
  <1> QED
    BY <1>2, <1>3, <1>4

LEMMA StartedStep ==
  ASSUME PlansWellFormed, Typed, Started, Next
  PROVE  Started'
PROOF
  <1>1. UNCHANGED <<call, Steps, Size>> /\ at' >= at
    BY StepShape, MovesInBounds DEF Steps, Size
  <1>2. Size \in Nat /\ at \in 1..(Size + 1) /\ at' \in 1..(Size + 1)
    BY <1>1, StepShape, MovesInBounds, PathShape DEF Typed, TypeOK, Size
  <1>3. CASE job' = "running" /\ job # "running"
    <2>1. at <= Size /\ Now.do = "start"
      BY <1>3 DEF Next, Handler, RefuseInput, JudgeSender, FilterListing, TakeOver,
           Read, ReadFails, Write, WriteRefused, WriteLost, CloseHelper, PollRunning,
           PollEnded, PollFails, DeadlinePasses, Discard, Report, Answer, Cancel,
           JobEnds, Does, Land, service, Size
    <2>2. at \in 1..Size /\ Steps[at].do = "start"
      BY <2>1, AtStep
    <2> QED
      BY <1>1, <1>2, <2>2 DEF Started
  <1>4. CASE job' = "running" /\ job = "running"
    BY <1>1, <1>2, <1>4 DEF Started
  <1> QED
    BY <1>3, <1>4 DEF Started

(* What is changed at the service is changed with nothing hidden at hand.   *)
LEMMA WritesSeeNothingHidden ==
  ASSUME PlansWellFormed, Typed, Held, Started, Next,
         status = "running", service' # service
  PROVE  hand' \cap hidden = {}
PROOF
  <1>1. Size \in Nat /\ at \in 1..(Size + 1)
    BY PathShape DEF Typed, TypeOK, Size
  <1>2. CASE Write \/ WriteLost \/ CloseHelper
    <2>1. at <= Size /\ Now.do \in Writes \cup {"close"} /\ UNCHANGED hand
      BY <1>2 DEF Write, WriteLost, CloseHelper, Does, Size
    <2>2. at \in 1..Size /\ Now = Steps[at]
      BY <2>1, AtStep
    <2>3. ASSUME NEW m \in hidden, NEW j \in at..Size, ClearsAt(Steps, j, m)
          PROVE  FALSE
      <3>1. j # at
        BY <2>1, <2>2, <2>3 DEF ClearsAt, Writes, Goals
      <3>2. at \in 1..(j - 1)
        BY <1>1, <2>3, <3>1
      <3> QED
        BY <2>1, <2>2, <2>3, <3>2 DEF ClearsAt
    <2> QED
      BY <2>1, <2>3, NothingHeld
  <1>3. CASE JobEnds
    <2>1. job = "running" /\ UNCHANGED hand
      BY <1>3 DEF JobEnds
    <2>2. PICK k \in 1..Size : k <= at /\ Steps[k].do = "start"
      BY <2>1 DEF Started
    <2>3. ASSUME NEW m \in hidden, NEW j \in at..Size, ClearsAt(Steps, j, m)
          PROVE  FALSE
      <3>1. j # k
        BY <2>2, <2>3 DEF ClearsAt
      <3>2. k \in 1..(j - 1)
        BY <1>1, <2>2, <2>3, <3>1
      <3> QED
        BY <2>2, <2>3, <3>2 DEF ClearsAt, Writes
    <2> QED
      BY <2>1, <2>3, NothingHeld
  <1>4. CASE ~Write /\ ~WriteLost /\ ~CloseHelper /\ ~JobEnds
    BY <1>4 DEF Next, Handler, RefuseInput, JudgeSender, FilterListing, TakeOver,
         Read, ReadFails, WriteRefused, PollRunning, PollEnded, PollFails,
         DeadlinePasses, Discard, Report, Answer, Cancel, service
  <1> QED
    BY <1>2, <1>3, <1>4

LEMMA MailStep ==
  ASSUME PlansWellFormed, PlansGuarded, Typed, MailInv, [Next]_vars
  PROVE  MailInv'
PROOF
  <1>1. CASE Next
    BY <1>1, JudgedStep, HeldStep, ShownStep, StartedStep DEF MailInv
  <1>2. CASE UNCHANGED vars
    BY <1>2 DEF vars, MailInv, Judged, Held, Shown, Started, Steps, Size
  <1> QED
    BY <1>1, <1>2

LEMMA MailInit ==
  ASSUME PlansWellFormed, Init
  PROVE  MailInv
PROOF
  <1>1. at = 1 /\ hand = {} /\ job = "none" /\ status = "running"
    BY DEF Init
  <1>2. 1..(at - 1) = {}
    BY <1>1
  <1> QED
    BY <1>1, <1>2 DEF MailInv, Judged, Held, Shown, Started

(* In every set of calls in which content of mail is covered by a check     *)
(* before or a judgement after it, no answer is given and nothing is changed *)
(* while content of mail from a sender the policy does not allow is at hand. *)
THEOREM HiddenMailIsSafe ==
  ASSUME PlansWellFormed, PlansGuarded
  PROVE  Spec => HiddenMailStaysHidden
PROOF
  <1> DEFINE Inv == Typed /\ MailInv
  <1>1. Init => Inv
    BY TypedInit, MailInit
  <1>2. Inv /\ [Next]_vars => Inv'
    BY TypedStep, MailStep
  <1>3. Inv /\ [Next]_vars =>
          [ (status' = "ok" \/ (status = "running" /\ service' # service))
              => hand' \cap hidden = {} ]_vars
    <2> SUFFICES ASSUME Inv, Next,
                        status' = "ok" \/ (status = "running" /\ service' # service)
                 PROVE  hand' \cap hidden = {}
      OBVIOUS
    <2>1. CASE status' = "ok"
      BY <2>1, ShownStep, StepShape DEF Shown, MailInv
    <2>2. CASE status = "running" /\ service' # service
      BY <2>2, WritesSeeNothingHidden DEF MailInv
    <2> QED
      BY <2>1, <2>2
  <1> QED
    BY <1>1, <1>2, <1>3, PTL DEF Spec, HiddenMailStaysHidden

-----------------------------------------------------------------------------
(* Retries *)

Bad == {"raising", "error", "refused"}
Fine(k) == Harmless(Steps[k]) \/ Steps[k].do = "wait"

(* Once something has been done, nothing that is left can fail the call.    *)
DoneIsLast ==
  landed # {} =>
    /\ status \notin Bad
    /\ status = "running" =>
         \A k \in at..Size : Harmless(Steps[k]) \/ (Steps[k].do = "wait" /\ job = "done")

(* Nor while a job is at work whose result lasts, except for the job itself. *)
JobIsLast ==
  job = "running" /\ Lasts(Steps) =>
    /\ status \notin Bad
    /\ status = "running" => \A k \in at..Size : Fine(k)

RetryInv == ~doubt /\ call.tool \notin Stepwise => DoneIsLast /\ JobIsLast

(* With only fine steps left, and no failed job to wait for, a step fails   *)
(* nothing.                                                                 *)
LEMMA FineStepsGoOn ==
  ASSUME PlansWellFormed, Typed, Next, ~doubt', status \notin Bad,
         status = "running" => \A k \in at..Size : Fine(k),
         status = "running" =>
           \A k \in at..Size : Steps[k].do = "wait" => job # "failed"
  PROVE  /\ status' \notin Bad
         /\ status' = "running" => status = "running"
         /\ job' = job \/ JobEnds
PROOF
  <1>1. ASSUME status = "running", at <= Size
        PROVE  Fine(at) /\ (Now.do = "wait" => job # "failed") /\ Now = Steps[at]
    BY <1>1, AtStep
  <1> USE <1>1 DEF Does, Pass, Return, Size, Bad, Fine, Harmless, service
  <1>2. CASE RefuseInput \/ JudgeSender
    BY <1>2 DEF RefuseInput, JudgeSender, Goals, Reads
  <1>3. CASE FilterListing \/ TakeOver \/ CloseHelper \/ PollRunning \/ Answer \/ Cancel
             \/ JobEnds
    BY <1>3 DEF FilterListing, TakeOver, CloseHelper, PollRunning, Answer, Cancel,
                JobEnds, Ended
  <1>4. CASE Read
    BY <1>4 DEF Read, Reads, Goals
  <1>5. CASE ReadFails
    BY <1>5 DEF ReadFails, Reads, Goals, Fail
  <1>6. CASE Write
    BY <1>6 DEF Write, Writes, Goals, Reads, Land
  <1>7. CASE WriteRefused
    BY <1>7 DEF WriteRefused, Writes, Goals, Reads, Fail
  <1>8. CASE WriteLost \/ PollFails \/ DeadlinePasses
    BY <1>8 DEF WriteLost, PollFails, DeadlinePasses
  <1>9. CASE PollEnded
    BY <1>9 DEF PollEnded, Fail
  <1>10. CASE Report \/ (\E x \in scope : Discard(x))
    BY <1>10 DEF Report, Discard
  <1> QED
    BY <1>2, <1>3, <1>4, <1>5, <1>6, <1>7, <1>8, <1>9, <1>10 DEF Next, Handler

(* What is left only gets less.                                             *)
LEMMA LessIsLeft ==
  ASSUME PlansWellFormed, Typed, Next
  PROVE  at'..Size \subseteq at..Size /\ UNCHANGED <<call, Steps, Size>>
PROOF
  <1>1. UNCHANGED <<call, Steps, Size>> /\ at' >= at
    BY StepShape, MovesInBounds DEF Steps, Size
  <1>2. Size \in Nat /\ at \in Nat /\ at' \in Nat
    BY StepShape, MovesInBounds, PathShape DEF Typed, TypeOK, Size
  <1> QED
    BY <1>1, <1>2

(* What an action other than the two that change something without an       *)
(* answer to it does to what has been done.                                 *)
LEMMA LandedBy ==
  ASSUME PlansWellFormed, Typed, Next, ~doubt'
  PROVE  \/ UNCHANGED landed
         \/ Write /\ Now.do \in Goals
         \/ JobEnds /\ job' = "done" /\ Lasts(Steps)
PROOF
  <1>1. CASE Write
    BY <1>1 DEF Write, Land
  <1>2. CASE JobEnds
    <2> DEFINE Jobs == {i \in DOMAIN call.steps :
                          /\ call.steps[i].do = "start"
                          /\ call.steps[i].on \in Lasting}
    <2>1. DOMAIN call.steps = 1..Len(call.steps)
      BY PathShape DEF Typed
    <2>2. UNCHANGED landed \/ (job' = "done" /\ landed' = landed \cup Jobs)
      BY <1>2 DEF JobEnds
    <2>3. Jobs # {} => Lasts(Steps)
      BY <2>1 DEF Lasts, Steps
    <2>4. Jobs = {} => landed \cup Jobs = landed
      OBVIOUS
    <2> QED
      BY <1>2, <2>2, <2>3, <2>4
  <1>3. CASE WriteLost
    BY <1>3 DEF WriteLost
  <1> QED
    BY <1>1, <1>2, <1>3 DEF Next, Handler, RefuseInput, JudgeSender, FilterListing,
       TakeOver, Read, ReadFails, WriteRefused, CloseHelper, PollRunning, PollEnded,
       PollFails, DeadlinePasses, Discard, Report, Answer, Cancel, service

(* A step that is answered leaves what follows it.                          *)
LEMMA WriteLeaves ==
  ASSUME PlansWellFormed, Typed, Write
  PROVE  /\ at \in 1..Size /\ Now = Steps[at]
         /\ status' = "running"
         /\ \A k \in at'..Size : k \in 1..Size /\ at < k
PROOF
  <1>1. at <= Size /\ at' = at + 1 /\ status' = "running"
    BY DEF Write, Does, Pass, Size
  <1>2. at \in 1..Size /\ Now = Steps[at] /\ Size \in Nat
    BY <1>1, AtStep, PathShape DEF Typed, Size
  <1> QED
    BY <1>1, <1>2

LEMMA GoalsFollow ==
  ASSUME GoalsLast(Steps), NEW i \in 1..Size, NEW k \in 1..Size, i < k
  PROVE  /\ Steps[i].do \in Goals => Harmless(Steps[k])
         /\ Steps[i].do = "start" /\ Lasts(Steps)
              => Harmless(Steps[k]) \/ Steps[k].do = "wait"
PROOF
  <1>1. Size = Len(Steps)
    BY DEF Size, Steps
  <1> QED
    BY <1>1 DEF GoalsLast

LEMMA DoneIsLastStep ==
  ASSUME PlansWellFormed, Typed, GoalsLast(Steps), DoneIsLast, JobIsLast,
         Next, ~doubt'
  PROVE  DoneIsLast'
PROOF
  <1>1. at'..Size \subseteq at..Size /\ UNCHANGED <<call, Steps, Size>>
    BY LessIsLeft
  <1>2. CASE UNCHANGED landed /\ landed # {}
    <2>1. /\ status \notin Bad
          /\ status = "running" =>
               \A k \in at..Size :
                 Harmless(Steps[k]) \/ (Steps[k].do = "wait" /\ job = "done")
      BY <1>2 DEF DoneIsLast
    <2>2. \A k : Harmless(Steps[k]) => Steps[k].do # "wait"
      BY DEF Harmless, Goals, Reads
    <2>3. /\ status' \notin Bad
          /\ status' = "running" => status = "running"
          /\ job' = job \/ JobEnds
      BY <2>1, <2>2, FineStepsGoOn DEF Fine
    <2>4. JobEnds => job = "running"
      BY DEF JobEnds
    <2> QED
      BY <1>1, <1>2, <2>1, <2>3, <2>4 DEF DoneIsLast, Bad
  <1>3. CASE Write /\ Now.do \in Goals
    <2>1. ASSUME NEW k \in at'..Size
          PROVE  Harmless(Steps[k])
      BY <1>3, WriteLeaves, GoalsFollow
    <2> QED
      BY <1>1, <1>3, <2>1, WriteLeaves DEF DoneIsLast, Bad
  <1>4. CASE JobEnds /\ job' = "done" /\ Lasts(Steps)
    <2>1. job = "running" /\ UNCHANGED <<status, at>>
      BY <1>4 DEF JobEnds
    <2> QED
      BY <1>1, <1>4, <2>1 DEF JobIsLast, DoneIsLast, Fine, Bad
  <1> QED
    BY <1>2, <1>3, <1>4, LandedBy DEF DoneIsLast

LEMMA JobIsLastStep ==
  ASSUME PlansWellFormed, Typed, GoalsLast(Steps), JobIsLast, Next, ~doubt'
  PROVE  JobIsLast'
PROOF
  <1>1. at'..Size \subseteq at..Size /\ UNCHANGED <<call, Steps, Size>>
    BY LessIsLeft
  <1> SUFFICES ASSUME job' = "running", Lasts(Steps)
               PROVE  /\ status' \notin Bad
                      /\ status' = "running" => \A k \in at'..Size : Fine(k)
    BY <1>1 DEF JobIsLast, Fine, Bad
  <1>2. CASE job = "running"
    <2>1. /\ status \notin Bad
          /\ status = "running" => \A k \in at..Size : Fine(k)
      BY <1>2 DEF JobIsLast
    <2>2. status' \notin Bad /\ (status' = "running" => status = "running")
      BY <1>2, <2>1, FineStepsGoOn
    <2> QED
      BY <1>1, <2>1, <2>2
  <1>3. CASE job # "running"
    <2>1. Write /\ Now.do = "start"
      BY <1>3 DEF Next, Handler, RefuseInput, JudgeSender, FilterListing, TakeOver,
         Read, ReadFails, Write, WriteRefused, WriteLost, CloseHelper, PollRunning,
         PollEnded, PollFails, DeadlinePasses, Discard, Report, Answer, Cancel,
         JobEnds, Land, service
    <2>2. ASSUME NEW k \in at'..Size
          PROVE  Fine(k)
      BY <2>1, WriteLeaves, GoalsFollow DEF Fine
    <2> QED
      BY <2>1, <2>2, WriteLeaves DEF Bad
  <1> QED
    BY <1>2, <1>3

LEMMA RetryStep ==
  ASSUME PlansWellFormed, PlansGoalsLast, Typed, RetryInv, [Next]_vars
  PROVE  RetryInv'
PROOF
  <1>1. CASE Next
    <2>1. UNCHANGED <<call, Steps>>
      BY <1>1, LessIsLeft
    <2>2. ~doubt' => ~doubt
      BY <1>1 DEF Next, Handler, RefuseInput, JudgeSender, FilterListing, TakeOver,
         Read, ReadFails, Write, WriteRefused, WriteLost, CloseHelper, PollRunning,
         PollEnded, PollFails, DeadlinePasses, Discard, Report, Answer, Cancel, JobEnds
    <2>3. call.tool \notin Stepwise => GoalsLast(Steps)
      BY DEF PlansGoalsLast, Typed, Steps
    <2> QED
      BY <1>1, <2>1, <2>2, <2>3, DoneIsLastStep, JobIsLastStep DEF RetryInv
  <1>2. CASE UNCHANGED vars
    BY <1>2 DEF vars, RetryInv, DoneIsLast, JobIsLast, Fine, Steps, Size, Bad
  <1> QED
    BY <1>1, <1>2

(* In every set of calls whose tools, those in Stepwise excepted, do last     *)
(* what they are asked to do, a call of such a tool that ends with an error   *)
(* or a refusal, and had an answer to all it changed, has done nothing of it: *)
(* it may be repeated.                                                        *)
THEOREM FailedCallsMayBeRepeated ==
  ASSUME PlansWellFormed, PlansGoalsLast
  PROVE  Spec => []FailureIsRetrySafe
PROOF
  <1> DEFINE Inv == Typed /\ RetryInv
  <1>1. Init => Inv
    BY TypedInit DEF Init, RetryInv, DoneIsLast, JobIsLast
  <1>2. Inv /\ [Next]_vars => Inv'
    BY TypedStep, RetryStep
  <1>3. Inv => FailureIsRetrySafe
    BY DEF RetryInv, DoneIsLast, Bad, FailureIsRetrySafe
  <1> QED
    BY <1>1, <1>2, <1>3, PTL DEF Spec

-----------------------------------------------------------------------------
(* Helpers *)

Makes == {i \in 1..at : i <= Size /\ Steps[i].do = "make"}
LastMade == {Steps[i].on : i \in {i \in Makes : \A j \in Makes : j <= i}}

(* A helper that exists was made by a step of the path, behind which no step *)
(* has handed it back, and if one has taken it over, it is still owned.      *)
Tracked(x) ==
  \E i \in 1..Size :
    /\ i < at /\ Steps[i].do = "make" /\ Steps[i].on = x
    /\ \A k \in 1..Size : i < k /\ k < at /\ SureAfter(Steps, i, k) =>
         /\ ~HandsBack(Steps, k, x)
         /\ Steps[k].do # "refuse"
         /\ TakesOver(Steps, k, x) => x \in scope

HelperInv ==
  ~doubt =>
    /\ status = "running" => \A x \in made \ missed : Tracked(x)
    /\ status \in {"raising", "error"} => made \subseteq missed \cup scope \cup LastMade
    /\ status = "error" => scope = {}
    /\ status = "refused" => made \subseteq missed \cup LastMade
    /\ status = "ok" => made \subseteq missed

(* The path of a call settles its helpers.                                  *)
LEMMA PathSettled ==
  ASSUME PlansSettled, Typed, NEW i \in 1..Size, Steps[i].do = "make"
  PROVE  /\ \E k \in (i + 1)..Size :
              SureAfter(Steps, i, k) /\ (HandsBack(Steps, k, Steps[i].on) \/ Steps[k].do = "refuse")
         /\ \A j \in (i + 1)..Size : Steps[j].do = "make" =>
              \E k \in (i + 1)..(j - 1) :
                SureAfter(Steps, i, k) /\ (HandsBack(Steps, k, Steps[i].on)
                                             \/ TakesOver(Steps, k, Steps[i].on))
         /\ \A j \in (i + 1)..Size : Steps[j].do \in {"refuse", "judge", "check"} =>
              BackBetween(Steps, i, j) \/ \A k \in (i + 1)..(j - 1) : Steps[k].do # "make"
PROOF
  <1>1. HelpersSettled(Steps)
    BY DEF PlansSettled, Typed, Steps
  <1>2. Size = Len(Steps)
    BY DEF Size, Steps
  <1> QED
    BY <1>1, <1>2 DEF HelpersSettled

(* The last step to have made a helper, or about to, has made the last one. *)
LEMMA MadeLast ==
  ASSUME NEW i \in Makes, \A j \in Makes : j <= i
  PROVE  Steps[i].on \in LastMade
PROOF
  BY DEF LastMade

(* A helper that exists when a step fails is owned or the last one made.    *)
LEMMA OwnedOrLast ==
  ASSUME PlansWellFormed, PlansSettled, Typed, at <= Size, NEW x, Tracked(x)
  PROVE  x \in scope \/ x \in LastMade
PROOF
  <1>1. Size \in Nat /\ at \in 1..Size
    BY AtStep, PathShape DEF Typed, Size
  <1>2. PICK i \in 1..Size :
          /\ i < at /\ Steps[i].do = "make" /\ Steps[i].on = x
          /\ \A k \in 1..Size : i < k /\ k < at /\ SureAfter(Steps, i, k) =>
               /\ ~HandsBack(Steps, k, x)
               /\ TakesOver(Steps, k, x) => x \in scope
    BY DEF Tracked
  <1>3. CASE \E j \in Makes : j > i
    <2>1. PICK j \in Makes : j > i
      BY <1>3
    <2>2. j \in (i + 1)..Size /\ Steps[j].do = "make" /\ j <= at
      BY <1>1, <2>1 DEF Makes
    <2>3. PICK k \in (i + 1)..(j - 1) :
            SureAfter(Steps, i, k) /\ (HandsBack(Steps, k, x) \/ TakesOver(Steps, k, x))
      BY <1>2, <2>2, PathSettled
    <2>4. k \in 1..Size /\ i < k /\ k < at
      BY <1>1, <2>2
    <2> QED
      BY <1>2, <2>3, <2>4
  <1>4. CASE ~ \E j \in Makes : j > i
    <2>1. i \in Makes
      BY <1>1, <1>2 DEF Makes
    <2>2. \A j \in Makes : j <= i
      BY <1>1, <1>4 DEF Makes
    <2> QED
      BY <1>2, <2>1, <2>2, MadeLast
  <1> QED
    BY <1>3, <1>4

(* Where the call may be refused, only the last helper exists.              *)
LEMMA RefusedIsLast ==
  ASSUME PlansWellFormed, PlansSettled, Typed, at <= Size,
         Now.do \in {"refuse", "judge", "check"}, NEW x, Tracked(x)
  PROVE  x \in LastMade
PROOF
  <1>1. Size \in Nat /\ at \in 1..Size /\ Now = Steps[at]
    BY AtStep, PathShape DEF Typed, Size
  <1>2. PICK i \in 1..Size :
          /\ i < at /\ Steps[i].do = "make" /\ Steps[i].on = x
          /\ \A k \in 1..Size : i < k /\ k < at /\ SureAfter(Steps, i, k) =>
               ~HandsBack(Steps, k, x)
    BY DEF Tracked
  <1>3. at \in (i + 1)..Size
    BY <1>1, <1>2
  <1>4. BackBetween(Steps, i, at) \/ \A k \in (i + 1)..(at - 1) : Steps[k].do # "make"
    BY <1>1, <1>2, <1>3, PathSettled
  <1>5. ~BackBetween(Steps, i, at)
    <2> SUFFICES ASSUME NEW k \in (i + 1)..(at - 1), SureAfter(Steps, i, k),
                        HandsBack(Steps, k, x)
                 PROVE  FALSE
      BY <1>2 DEF BackBetween
    <2>1. k \in 1..Size /\ i < k /\ k < at
      BY <1>1
    <2> QED
      BY <1>2, <2>1
  <1>6. i \in Makes
    BY <1>1, <1>2 DEF Makes
  <1>7. ASSUME NEW j \in Makes PROVE j <= i
    <2>1. j \in 1..at /\ Steps[j].do = "make"
      BY DEF Makes
    <2>2. j # at
      BY <1>1, <2>1
    <2> QED
      BY <1>1, <1>4, <1>5, <2>1, <2>2
  <1> QED
    BY <1>2, <1>6, <1>7, MadeLast

(* Behind the last step no helper exists.                                   *)
LEMMA NoneAtTheEnd ==
  ASSUME PlansWellFormed, PlansSettled, Typed, at > Size, NEW x, Tracked(x)
  PROVE  FALSE
PROOF
  <1>1. Size \in Nat /\ at \in 1..(Size + 1)
    BY PathShape DEF Typed, TypeOK, Size
  <1>2. PICK i \in 1..Size :
          /\ i < at /\ Steps[i].do = "make" /\ Steps[i].on = x
          /\ \A k \in 1..Size : i < k /\ k < at /\ SureAfter(Steps, i, k) =>
               ~HandsBack(Steps, k, x) /\ Steps[k].do # "refuse"
    BY DEF Tracked
  <1>3. PICK k \in (i + 1)..Size :
          SureAfter(Steps, i, k) /\ (HandsBack(Steps, k, x) \/ Steps[k].do = "refuse")
    BY <1>2, PathSettled
  <1>4. k \in 1..Size /\ i < k /\ k < at
    BY <1>1
  <1> QED
    BY <1>2, <1>3, <1>4

(* What a step that goes on running does to a helper that exists after it.  *)
LEMMA HelperShape ==
  ASSUME PlansWellFormed, Typed, Next, ~doubt', status' = "running", NEW x \in made' \ missed'
  PROVE  /\ status = "running"
         /\ \/ at <= Size /\ at' = at + 1 /\ Now.do = "make" /\ Now.on = x
            \/ /\ x \in made \ missed
               /\ x \in scope => x \in scope'
               /\ at' # at =>
                    /\ at <= Size
                    /\ ~HandsBack(Steps, at, x) /\ Now.do # "refuse"
                    /\ TakesOver(Steps, at, x) => x \in scope'
PROOF
  <1> USE DEF Does, Pass, Return, Size, Now, Steps, HandsBack, TakesOver, Writes,
              Goals, service
  <1>1. CASE RefuseInput \/ Report \/ Answer \/ Cancel \/ (\E y \in scope : Discard(y))
    BY <1>1 DEF RefuseInput, Report, Answer, Cancel, Discard
  <1>2. CASE JudgeSender \/ FilterListing
    BY <1>2 DEF JudgeSender, FilterListing
  <1>3. CASE TakeOver
    BY <1>3 DEF TakeOver
  <1>4. CASE PollRunning \/ JobEnds
    BY <1>4 DEF PollRunning, JobEnds
  <1>5. CASE Read
    BY <1>5 DEF Read, Reads
  <1>6. CASE ReadFails
    BY <1>6 DEF ReadFails, Reads, Fail
  <1>7. CASE Write
    BY <1>7 DEF Write, Land
  <1>8. CASE WriteRefused
    BY <1>8 DEF WriteRefused, Fail
  <1>9. CASE WriteLost \/ PollFails \/ DeadlinePasses
    BY <1>9 DEF WriteLost, PollFails, DeadlinePasses
  <1>10. CASE CloseHelper
    BY <1>10 DEF CloseHelper
  <1>11. CASE PollEnded
    BY <1>11 DEF PollEnded, Fail
  <1> QED
    BY <1>1, <1>2, <1>3, <1>4, <1>5, <1>6, <1>7, <1>8, <1>9, <1>10, <1>11
       DEF Next, Handler

(* A call that goes on keeps track of its helpers.                          *)
LEMMA TrackedStep ==
  ASSUME PlansWellFormed, Typed, Next, ~doubt', status' = "running",
         \A x \in made \ missed : Tracked(x), NEW x \in made' \ missed'
  PROVE  Tracked(x)'
PROOF
  <1>1. UNCHANGED <<call, Steps, Size>> /\ Moves /\ at' >= at
    BY StepShape, MovesInBounds DEF Steps, Size
  <1>2. Size \in Nat /\ at \in 1..(Size + 1) /\ at' \in 1..(Size + 1)
    BY StepShape, MovesInBounds, PathShape DEF Typed, TypeOK, Size
  <1>3. CASE at <= Size /\ at' = at + 1 /\ Now.do = "make" /\ Now.on = x
    <2>1. at \in 1..Size /\ at < at' /\ Steps[at].do = "make" /\ Steps[at].on = x
      BY <1>2, <1>3, AtStep
    <2>2. \A k \in 1..Size : ~(at < k /\ k < at')
      BY <1>2, <1>3
    <2> QED
      BY <1>1, <2>1, <2>2 DEF Tracked
  <1>4. CASE ~(at <= Size /\ at' = at + 1 /\ Now.do = "make" /\ Now.on = x)
    <2>1. /\ x \in made \ missed
          /\ x \in scope => x \in scope'
          /\ at' # at =>
               /\ at <= Size
               /\ ~HandsBack(Steps, at, x) /\ Now.do # "refuse"
               /\ TakesOver(Steps, at, x) => x \in scope'
      BY <1>4, HelperShape
    <2>2. PICK i \in 1..Size :
            /\ i < at /\ Steps[i].do = "make" /\ Steps[i].on = x
            /\ \A k \in 1..Size : i < k /\ k < at /\ SureAfter(Steps, i, k) =>
                 /\ ~HandsBack(Steps, k, x)
                 /\ Steps[k].do # "refuse"
                 /\ TakesOver(Steps, k, x) => x \in scope
      BY <2>1 DEF Tracked
    <2>3. ASSUME NEW k \in 1..Size, i < k, k < at', SureAfter(Steps, i, k)
          PROVE  /\ ~HandsBack(Steps, k, x)
                 /\ Steps[k].do # "refuse"
                 /\ TakesOver(Steps, k, x) => x \in scope'
      <3>1. CASE k < at
        BY <2>1, <2>2, <2>3, <3>1
      <3>2. CASE k = at
        <4>1. at' # at /\ at <= Size
          BY <1>2, <2>3, <3>2
        <4>2. Now = Steps[at]
          BY <4>1, AtStep
        <4> QED
          BY <2>1, <3>2, <4>1, <4>2
      <3>3. CASE k > at
        <4>1. at <= Size /\ at' = at + 1 + Steps[at].leaves
          BY <1>1, <1>2, <2>3, <3>3 DEF Moves
        <4>2. Steps[at].leaves \in Nat
          BY <4>1, AtStep, PathShape DEF Typed, Steps, Size
        <4>3. at \in (i + 1)..(k - 1)
          BY <1>2, <2>2, <3>3
        <4>4. at + Steps[at].leaves < k
          BY <2>3, <4>3 DEF SureAfter
        <4> QED
          BY <1>2, <2>3, <4>1, <4>2, <4>4
      <3> QED
        BY <1>2, <3>1, <3>2, <3>3
    <2>4. i < at'
      BY <1>1, <1>2, <2>2
    <2> QED
      BY <1>1, <2>2, <2>3, <2>4 DEF Tracked
  <1> QED
    BY <1>3, <1>4

(* What has been made, when and by whom, stays as it is where a call fails. *)
LEMMA LastMadeStays ==
  ASSUME UNCHANGED <<call, at>>
  PROVE  LastMade' = LastMade
PROOF
  BY DEF LastMade, Makes, Steps, Size

(* How a call stops running.                                                *)
LEMMA StopsRunning ==
  ASSUME Next, ~doubt', status = "running", status' # "running"
  PROVE  /\ UNCHANGED <<call, at, made, missed, scope>>
         /\ \/ status' = "raising" /\ at <= Size
            \/ status' = "refused" /\ at <= Size /\ Now.do \in {"refuse", "judge", "check"}
            \/ status' = "ok" /\ at > Size
            \/ status' = "cancelled"
PROOF
  <1> USE DEF Does, Pass, Return, Size, service
  <1>1. CASE RefuseInput \/ JudgeSender \/ Report \/ Answer \/ Cancel
    BY <1>1 DEF RefuseInput, JudgeSender, Report, Answer, Cancel
  <1>2. CASE FilterListing \/ TakeOver \/ Write \/ CloseHelper \/ PollRunning \/ JobEnds
             \/ (\E y \in scope : Discard(y))
    BY <1>2 DEF FilterListing, TakeOver, Write, CloseHelper, PollRunning, JobEnds,
                Discard
  <1>3. CASE Read
    BY <1>3 DEF Read
  <1>4. CASE ReadFails \/ WriteRefused \/ PollEnded
    BY <1>4 DEF ReadFails, WriteRefused, PollEnded, Fail
  <1>5. CASE WriteLost \/ PollFails \/ DeadlinePasses
    BY <1>5 DEF WriteLost, PollFails, DeadlinePasses
  <1> QED
    BY <1>1, <1>2, <1>3, <1>4, <1>5 DEF Next, Handler

(* What happens once a call does not run any more: the handlers discard.    *)
LEMMA AfterRunning ==
  ASSUME Next, status # "running"
  PROVE  /\ UNCHANGED <<call, at, doubt>>
         /\ \/ /\ status = "raising" /\ status' = "raising"
               /\ \E x \in scope : scope' = scope \ {x}
                                   /\ \/ made' = made \ {x} /\ missed' = missed
                                      \/ missed' = missed \cup {x} /\ made' = made
            \/ /\ UNCHANGED <<made, missed, scope>>
               /\ \/ status' = status
                  \/ status = "raising" /\ scope = {} /\ status' = "error"
                  \/ status' = "cancelled"
PROOF
  BY DEF Next, Handler, RefuseInput, JudgeSender, FilterListing, TakeOver, Read,
         ReadFails,
         Write, WriteRefused, WriteLost, CloseHelper, PollRunning, PollEnded, PollFails,
         DeadlinePasses, Discard, Report, Answer, Cancel, JobEnds, Does, Return, service

(* Every action keeps track of the helpers.                                 *)
LEMMA HelperStep ==
  ASSUME PlansWellFormed, PlansSettled, Typed, HelperInv, [Next]_vars
  PROVE  HelperInv'
PROOF
  <1>1. CASE UNCHANGED vars
    BY <1>1 DEF vars, HelperInv, Tracked, LastMade, Makes, Steps, Size
  <1>2. CASE Next /\ status = "running"
    <2> SUFFICES ASSUME ~doubt'
                 PROVE  /\ status' = "running" => \A x \in made' \ missed' : Tracked(x)'
                        /\ status' \in {"raising", "error"} =>
                             made' \subseteq missed' \cup scope' \cup LastMade'
                        /\ status' = "error" => scope' = {}
                        /\ status' = "refused" => made' \subseteq missed' \cup LastMade'
                        /\ status' = "ok" => made' \subseteq missed'
      BY DEF HelperInv
    <2>1. ~doubt
      BY <1>2 DEF Next, Handler, RefuseInput, JudgeSender, FilterListing, TakeOver,
         Read, ReadFails, Write, WriteRefused, WriteLost, CloseHelper, PollRunning,
         PollEnded, PollFails, DeadlinePasses, Discard, Report, Answer, Cancel, JobEnds
    <2>2. \A x \in made \ missed : Tracked(x)
      BY <1>2, <2>1 DEF HelperInv
    <2>3. CASE status' = "running"
      BY <1>2, <2>2, <2>3, TrackedStep
    <2>4. CASE status' # "running"
      <3>1. /\ UNCHANGED <<call, at, made, missed, scope>>
            /\ \/ status' = "raising" /\ at <= Size
               \/ status' = "refused" /\ at <= Size /\ Now.do \in {"refuse", "judge", "check"}
               \/ status' = "ok" /\ at > Size
               \/ status' = "cancelled"
        BY <1>2, <2>4, StopsRunning
      <3>2. LastMade' = LastMade
        BY <3>1, LastMadeStays
      <3>3. CASE status' = "raising" /\ at <= Size
        BY <2>2, <3>1, <3>2, <3>3, OwnedOrLast
      <3>4. CASE status' = "refused" /\ at <= Size /\ Now.do \in {"refuse", "judge", "check"}
        BY <2>2, <3>1, <3>2, <3>4, RefusedIsLast
      <3>5. CASE status' = "ok" /\ at > Size
        BY <2>2, <3>1, <3>5, NoneAtTheEnd
      <3> QED
        BY <3>1, <3>3, <3>4, <3>5
    <2> QED
      BY <2>3, <2>4
  <1>3. CASE Next /\ status # "running"
    <2>1. UNCHANGED <<call, at, doubt>>
      BY <1>3, AfterRunning
    <2>2. LastMade' = LastMade
      BY <2>1, LastMadeStays
    <2>3. CASE /\ status = "raising" /\ status' = "raising"
               /\ \E x \in scope : scope' = scope \ {x}
                                   /\ \/ made' = made \ {x} /\ missed' = missed
                                      \/ missed' = missed \cup {x} /\ made' = made
      BY <2>1, <2>2, <2>3 DEF HelperInv
    <2>4. CASE /\ UNCHANGED <<made, missed, scope>>
               /\ \/ status' = status
                  \/ status = "raising" /\ scope = {} /\ status' = "error"
                  \/ status' = "cancelled"
      BY <1>3, <2>1, <2>2, <2>4 DEF HelperInv
    <2> QED
      BY <1>3, <2>3, <2>4, AfterRunning
  <1> QED
    BY <1>1, <1>2, <1>3

(* In every set of calls that settle their helpers, a call whose requests   *)
(* were all answered leaves behind at most the helper it made last, and none *)
(* if it succeeds, unless the service refused to remove it.                 *)
THEOREM LeftoversBounded ==
  ASSUME PlansWellFormed, PlansSettled
  PROVE  Spec => []LeftoversAreBounded
PROOF
  <1> DEFINE Inv == Typed /\ HelperInv
  <1>1. Init => Inv
    BY TypedInit DEF Init, HelperInv
  <1>2. Inv /\ [Next]_vars => Inv'
    BY TypedStep, HelperStep
  <1>3. Inv => LeftoversAreBounded
    BY DEF HelperInv, LeftoversAreBounded, LastMade, Makes, Steps, Size
  <1> QED
    BY <1>1, <1>2, <1>3, PTL DEF Spec

-----------------------------------------------------------------------------
(* Listings *)

(* The smaller of two numbers.                                              *)
LEMMA MinOfTwo ==
  ASSUME NEW a \in Int, NEW b \in Int
  PROVE  Min({a, b}) = IF a <= b THEN a ELSE b
PROOF
  BY DEF Min

(* Numbers 1 to k are k numbers.                                            *)
LEMMA UpTo ==
  ASSUME NEW k \in Nat
  PROVE  IsFiniteSet(1..k) /\ Cardinality(1..k) = k
PROOF
  BY FS_Interval

(* Of the first k items, a loop takes those up to its limit.                *)
LEMMA FirstOfInterval ==
  ASSUME NEW n \in Nat, NEW k \in Nat
  PROVE  First(n, 1..k) = 1..(IF n <= k THEN n ELSE k)
PROOF
  <1>1. ASSUME NEW i \in 1..k
        PROVE  Cardinality({j \in 1..k : j <= i}) = i
    <2>1. {j \in 1..k : j <= i} = 1..i
      OBVIOUS
    <2>2. Cardinality(1..i) = i
      BY UpTo
    <2> QED
      BY <2>1, <2>2, Zenon
  <1>2. First(n, 1..k) = {i \in 1..k : i <= n}
    BY <1>1 DEF First
  <1>3. {i \in 1..k : i <= n} = 1..(IF n <= k THEN n ELSE k)
    OBVIOUS
  <1> QED
    BY <1>2, <1>3, Zenon

(* Of no more items than its limit, it takes all.                           *)
LEMMA FirstOfFew ==
  ASSUME NEW S, IsFiniteSet(S), NEW n \in Nat, Cardinality(S) <= n
  PROVE  First(n, S) = S
PROOF
  <1>1. ASSUME NEW i \in S
        PROVE  Cardinality({j \in S : j <= i}) <= n
    <2>1. {j \in S : j <= i} \in SUBSET S
      OBVIOUS
    <2> QED
      BY <2>1, FS_Subset, FS_CardinalityType
  <1> QED
    BY <1>1 DEF First

(* From one multiple of the page size below another, a page does not reach  *)
(* beyond it.                                                               *)
LEMMA PageFits ==
  ASSUME NEW p \in Nat \ {0}, NEW a \in Nat, NEW b \in Nat,
         a % p = 0, b % p = 0, a < b
  PROVE  a + p <= b
PROOF
  <1> DEFINE q == a \div p
             r == b \div p
  <1>1. q \in Nat /\ r \in Nat /\ a = p * q /\ b = p * r
    OBVIOUS
  <1>2. q + 1 <= r
    <2>1. ASSUME r <= q PROVE FALSE
      <3>1. q - r \in Nat
        BY <1>1, <2>1
      <3>2. p * (q - r) >= 0
        BY <3>1
      <3>3. p * q = p * r + p * (q - r)
        BY <1>1
      <3> QED
        BY <1>1, <3>2, <3>3
    <2> QED
      BY <1>1, <2>1
  <1>3. p * r = p * (q + 1) + p * (r - (q + 1))
    BY <1>1
  <1>4. p * (r - (q + 1)) >= 0
    BY <1>1, <1>2
  <1>5. p * (q + 1) = p * q + p
    BY <1>1
  <1> QED
    BY <1>1, <1>3, <1>4, <1>5

(* A page behind a multiple of the page size is one.                        *)
LEMMA PageOn ==
  ASSUME NEW p \in Nat \ {0}, NEW a \in Nat, a % p = 0
  PROVE  (a + p) % p = 0
PROOF
  <1> DEFINE q == a \div p
             s == (a + p) \div p
             rest == (a + p) % p
  <1>1. q \in Int /\ a = p * q
    OBVIOUS
  <1>2. s \in Int /\ rest \in 0..(p - 1) /\ a + p = p * s + rest
    OBVIOUS
  <1>3. p * (q + 1 - s) = rest
    BY <1>1, <1>2
  <1>4. q + 1 - s <= 0
    <2>1. ASSUME q + 1 - s >= 1 PROVE FALSE
      <3>1. p * (q + 1 - s) >= p
        BY <1>1, <1>2, <2>1
      <3> QED
        BY <1>2, <1>3, <3>1
    <2> QED
      BY <1>1, <1>2, <2>1
  <1>5. p * (q + 1 - s) <= 0
    BY <1>1, <1>2, <1>4
  <1> QED
    BY <1>2, <1>3, <1>5

ListingTyped ==
  /\ kind \in Kinds /\ limit \in 1..MaxLimit
  /\ total \in 0..MaxItems /\ held \in 0..total
  /\ wanted \subseteq 1..total /\ count \in Nat
  /\ pages \in Nat /\ more \in BOOLEAN

WantedIsAsked ==
  /\ ~Selective => wanted = 1..total
  /\ kind = "until" => \E n \in 0..total : wanted = 1..n
  /\ ~Resumes => held = 0
  /\ kind = "delta" => phase # "answered"

(* A call has fetched what lies between its link and the next page, and a   *)
(* page without a link to a next one was the last.                          *)
CallIsAhead ==
  phase = "paging" =>
    /\ pos \in held..total
    /\ got = (held + 1)..pos
    /\ pages = 0 => pos = held
    /\ kind # "delta" /\ pages > 0 => (more <=> pos < total)
    /\ kind \in {"capped", "until", "delta", "search"} => pages <= MaxPages
    /\ kind = "rows" /\ pages > 0 => pos = total \/ pos = limit + 1

(* A list of chats up to a multiple of the page size comes in whole pages,  *)
(* and nothing of it is trimmed.                                            *)
WholePages ==
  phase = "paging" /\ kind = "chats" /\ held = 0 /\ limit % Page = 0 =>
    /\ pos <= limit
    /\ more => pos % Page = 0

ListingInv ==
  /\ ListingTyped /\ WantedIsAsked /\ CallIsAhead /\ WholePages
  /\ NothingSkipped /\ CutIsTold

(* What a call has fetched is as much as its link has moved.                *)
LEMMA GotSize ==
  ASSUME ListingTyped, CallIsAhead, phase = "paging"
  PROVE  /\ held \in Nat /\ pos \in Nat /\ total \in Nat /\ held <= pos /\ pos <= total
         /\ got = (held + 1)..pos
         /\ IsFiniteSet(got) /\ Cardinality(got) = pos - held
PROOF
  <1>1. held \in Nat /\ total \in Nat /\ pos \in Nat /\ held <= pos /\ pos <= total
    BY ListingAssumption DEF ListingTyped, CallIsAhead
  <1>2. got = (held + 1)..pos
    BY DEF CallIsAhead
  <1>3. /\ IsFiniteSet((held + 1)..pos)
        /\ Cardinality((held + 1)..pos) =
             IF held + 1 > pos THEN 0 ELSE pos - (held + 1) + 1
    BY <1>1, FS_Interval
  <1> QED
    BY <1>1, <1>2, <1>3

(* A request asks for at least one item.                                    *)
LEMMA AskedSomething ==
  ASSUME ListingTyped, CallIsAhead, phase = "paging", pages = 0 \/ GoesOn
  PROVE  /\ Asked \in Nat \ {0}
         /\ kind = "chats" => Asked = (IF Page <= limit THEN Page ELSE limit)
         /\ kind = "rows" => Asked = limit + 1
PROOF
  <1>1. limit \in Nat \ {0} /\ Page \in Nat \ {0} /\ kind \in Kinds
    BY ListingAssumption DEF ListingTyped
  <1>2. Cardinality(got) \in Nat
    BY GotSize
  <1>3. CASE kind \in {"capped", "chats"}
    <2>1. Asked = Min({Page, limit})
      BY <1>3 DEF Asked
    <2>2. Min({Page, limit}) = IF Page <= limit THEN Page ELSE limit
      BY <1>1, MinOfTwo
    <2> QED
      BY <1>1, <1>3, <2>1, <2>2
  <1>4. CASE kind = "issues"
    <2>1. Cardinality(got) < limit
      <3>1. CASE pages = 0
        <4>1. Cardinality(got) = 0
          BY <3>1, GotSize DEF CallIsAhead
        <4> QED
          BY <1>1, <4>1
      <3> QED
        BY <1>4, <3>1 DEF GoesOn
    <2>2. Asked = Min({Page, limit - Cardinality(got)})
      BY <1>4 DEF Asked
    <2>3. limit - Cardinality(got) \in Nat \ {0}
      BY <1>1, <1>2, <2>1
    <2>4. Min({Page, limit - Cardinality(got)}) \in Nat \ {0}
      BY <1>1, <2>3, MinOfTwo
    <2> QED
      BY <1>4, <2>2, <2>4
  <1>5. CASE kind = "rows"
    BY <1>1, <1>5 DEF Asked
  <1>6. CASE kind \notin {"capped", "chats", "issues", "rows"}
    BY <1>1, <1>6 DEF Asked
  <1> QED
    BY <1>3, <1>4, <1>5, <1>6

(* A page: the next items, as many as asked for or as there are.            *)
LEMMA FetchStep ==
  ASSUME ListingInv, Fetch
  PROVE  ListingInv'
PROOF
  <1>1. /\ phase = "paging" /\ (pages = 0 \/ GoesOn) /\ pages' = pages + 1
        /\ UNCHANGED <<kind, limit, total, count, wanted, held, ended, seen, phase,
                       told,
                       faults>>
    BY DEF Fetch, listing
  <1>2. /\ kind \in Kinds /\ pages \in Nat /\ limit \in Nat \ {0} /\ Page \in Nat \ {0}
        /\ MaxPages \in Nat \ {0}
    BY ListingAssumption DEF ListingInv, ListingTyped
  <1>3. /\ held \in Nat /\ pos \in Nat /\ total \in Nat /\ held <= pos /\ pos <= total
        /\ got = (held + 1)..pos /\ Cardinality(got) = pos - held
    BY <1>1, GotSize DEF ListingInv
  <1>4. /\ Asked \in Nat \ {0}
        /\ kind = "chats" => Asked = (IF Page <= limit THEN Page ELSE limit)
        /\ kind = "rows" => Asked = limit + 1
    BY <1>1, AskedSomething DEF ListingInv
  <1> DEFINE full == IF pos + Asked <= total THEN pos + Asked ELSE total
  <1>5. Min({pos + Asked, total}) = full
    BY <1>3, <1>4, MinOfTwo
  <1>6. PICK last \in (IF kind = "delta" THEN pos..full ELSE {full}) :
          /\ pos' = last
          /\ got' = got \cup (pos + 1)..last
          /\ \/ more' = (last < total)
             \/ kind = "delta" /\ last > pos /\ more' = TRUE
          /\ more' => last > pos
    BY <1>5 DEF Fetch
  <1>7. /\ full \in pos..total
        /\ last \in pos..full /\ (kind # "delta" => last = full)
    BY <1>3, <1>4, <1>6
  <1>8. more' \in BOOLEAN /\ (kind # "delta" => (more' <=> pos' < total))
    <2> pos' = last
      BY <1>6
    <2>1. CASE more' = (last < total)
      <3>1. (last < total) \in BOOLEAN
        OBVIOUS
      <3> QED
        BY <2>1, <3>1, Zenon
    <2>2. CASE kind = "delta" /\ more' = TRUE
      BY <2>2
    <2> QED
      BY <1>6, <2>1, <2>2
  <1>9. ListingTyped'
    BY <1>1, <1>2, <1>8 DEF ListingInv, ListingTyped
  <1>10. WantedIsAsked'
    BY <1>1 DEF ListingInv, Selective, WantedIsAsked, Resumes
  <1>11. CallIsAhead'
    <2>1. pos' \in held..total /\ got' = (held + 1)..pos'
      BY <1>3, <1>6, <1>7
    <2>2. kind \in {"capped", "until", "delta", "search"} => pages' <= MaxPages
      BY <1>1, <1>2 DEF GoesOn
    <2>3. kind = "rows" => pos' = total \/ pos' = limit + 1
      <3>1. ASSUME kind = "rows" PROVE pos = 0
        <4>1. pages = 0
          BY <1>1, <3>1 DEF GoesOn, Single
        <4> QED
          BY <1>1, <3>1, <4>1 DEF ListingInv, CallIsAhead, Selective,
                                  WantedIsAsked, Resumes
      <3> QED
        BY <1>2, <1>3, <1>4, <1>6, <1>7, <3>1
    <2>4. pages' # 0
      BY <1>1, <1>2
    <2> QED
      BY <1>1, <1>8, <2>1, <2>2, <2>3, <2>4 DEF CallIsAhead
  <1>12. WholePages'
    <2> SUFFICES ASSUME kind = "chats", held = 0, limit % Page = 0
                 PROVE  pos' <= limit /\ (more' => pos' % Page = 0)
      BY <1>1 DEF WholePages
    <2>1. pos' = full /\ (more' <=> pos' < total)
      BY <1>6, <1>7, <1>8
    <2>2. Page <= limit
      <3>1. 0 % Page = 0 /\ 0 + Page <= limit
        BY <1>2, PageFits
      <3> QED
        BY <1>2, <3>1
    <2>3. Asked = Page
      BY <1>4, <2>2
    <2>4. pos % Page = 0 /\ pos < limit
      <3>1. CASE pages = 0
        <4>1. pos = 0
          BY <1>1, <3>1 DEF ListingInv, CallIsAhead
        <4> QED
          BY <1>2, <4>1
      <3>2. CASE GoesOn
        <4>1. more /\ Cardinality(got) < limit
          BY <3>2 DEF GoesOn
        <4>2. pos % Page = 0
          BY <1>1, <4>1 DEF ListingInv, WholePages
        <4> QED
          BY <1>3, <4>1, <4>2
      <3> QED
        BY <1>1, <3>1, <3>2
    <2>5. pos + Page <= limit /\ (pos + Page) % Page = 0
      BY <1>2, <1>3, <2>4, PageFits, PageOn
    <2> QED
      BY <1>2, <1>3, <2>1, <2>3, <2>5
  <1>13. NothingSkipped' /\ CutIsTold'
    BY <1>1 DEF ListingInv, NothingSkipped, CutIsTold, CutInSilence, Resumes
  <1> QED
    BY <1>9, <1>10, <1>11, <1>12, <1>13 DEF ListingInv

(* A cursor leaves behind only what has been handed out, or trimmed.        *)
LEMMA NothingTrimmed ==
  ASSUME ListingInv, phase = "paging", Resumes, NEW i \in 1..total, i <= pos
  PROVE  \/ i \in seen \cup Result
         \/ kind = "chats" /\ limit % Page # 0 /\ i > limit
PROOF
  <1>1. /\ held \in Nat /\ pos \in Nat /\ total \in Nat /\ held <= pos /\ pos <= total
        /\ got = (held + 1)..pos /\ IsFiniteSet(got) /\ Cardinality(got) = pos - held
    BY GotSize DEF ListingInv
  <1>2. CASE i <= held
    BY <1>1, <1>2 DEF ListingInv, NothingSkipped
  <1>3. CASE i > held
    <2>1. i \in got
      BY <1>1, <1>3
    <2>2. CASE kind = "delta"
      BY <2>1, <2>2 DEF Result
    <2>3. CASE kind = "chats" /\ held > 0
      <3>1. MaxItems \in Nat /\ total <= MaxItems
        BY ListingAssumption DEF ListingInv, ListingTyped
      <3>2. First(MaxItems, got) = got
        BY <1>1, <3>1, FirstOfFew
      <3> QED
        BY <2>1, <2>3, <3>2 DEF Result, Cap
    <2>4. CASE kind = "chats" /\ held = 0
      <3>1. limit \in Nat
        BY ListingAssumption DEF ListingInv, ListingTyped
      <3>2. got = 1..pos
        BY <1>1, <2>4
      <3>3. Result = 1..(IF limit <= pos THEN limit ELSE pos)
        BY <1>1, <2>4, <3>1, <3>2, FirstOfInterval DEF Result, Cap
      <3>4. i \in Result \/ i > limit
        BY <1>1, <3>1, <3>3
      <3>5. limit % Page = 0 => pos <= limit
        BY <2>4 DEF ListingInv, WholePages
      <3> QED
        BY <1>1, <2>4, <3>1, <3>4, <3>5
    <2> QED
      BY <1>1, <2>2, <2>3, <2>4 DEF Resumes
  <1> QED
    BY <1>1, <1>2, <1>3

(* An answer that is given when its loop ends lacks nothing, tells that it  *)
(* may, or is one of those that are cut in silence.                         *)
LEMMA AnswerTells ==
  ASSUME ListingInv, phase = "paging", pages > 0, ~GoesOn, ~Resumes
  PROVE  \/ wanted \subseteq Result
         \/ Tells
         \/ CutInSilence
PROOF
  <1>1. /\ pos \in Nat /\ total \in Nat /\ held = 0 /\ pos <= total
        /\ got = 1..pos /\ IsFiniteSet(got) /\ Cardinality(got) = pos
    BY GotSize DEF ListingInv, Selective, WantedIsAsked
  <1>2. /\ kind \in {"capped", "until", "search", "issues", "rows"} /\ limit \in Nat \ {0}
        /\ pages \in Nat /\ MaxPages \in Nat
        /\ wanted \subseteq 1..total /\ count \in Nat
    BY ListingAssumption DEF ListingInv, ListingTyped, Kinds, Resumes
  <1>3. /\ more <=> pos < total
        /\ kind \in {"capped", "until", "search"} => pages <= MaxPages
        /\ kind = "rows" => pos = total \/ pos = limit + 1
        /\ ~Selective => wanted = 1..total
    BY <1>2 DEF ListingInv, CallIsAhead, Selective, WantedIsAsked, Resumes
  <1>4. ~more => got = 1..total
    BY <1>1, <1>3
  <1>5. CASE kind = "capped"
    <2> DEFINE first == 1..(IF limit <= pos THEN limit ELSE pos)
    <2>1. First(limit, got) = first
      BY <1>1, <1>2, FirstOfInterval
    <2>2. Result = first \cap wanted
      BY <1>5, <2>1 DEF Result
    <2>3. ASSUME ~CutInSilence PROVE Result = first
      BY <1>5, <2>1, <2>2, <2>3 DEF CutInSilence
    <2>4. CASE limit <= pos
      <3>1. Cardinality(first) = limit
        BY <1>2, <2>4, UpTo
      <3> QED
        BY <1>5, <2>3, <3>1 DEF Tells, Resumes
    <2>5. CASE pos < limit
      <3>1. first = got
        BY <1>1, <1>2, <2>5
      <3>2. ~more \/ pages >= MaxPages
        BY <1>1, <1>2, <1>5, <2>5 DEF GoesOn, Single
      <3>3. ~more => wanted \subseteq Result
        BY <1>2, <1>4, <2>2, <3>1
      <3>4. pages >= MaxPages => pages = MaxPages
        BY <1>2, <1>3, <1>5
      <3> QED
        BY <1>5, <3>2, <3>3, <3>4 DEF CutInSilence
    <2> QED
      BY <1>1, <1>2, <2>4, <2>5
  <1>6. CASE kind = "issues"
    <2>1. Result \in SUBSET (1..total)
      BY <1>1, <1>6 DEF Result, First
    <2>2. IsFiniteSet(1..total) /\ Cardinality(1..total) = total
      BY <1>1, UpTo
    <2>3. /\ Cardinality(Result) <= total /\ Cardinality(Result) \in Nat
          /\ Cardinality(Result) = total => Result = 1..total
      BY <2>1, <2>2, FS_Subset, FS_CardinalityType
    <2>4. Tells <=> Cardinality(Result) < count
      BY <1>6 DEF Tells, Resumes
    <2>5. CutInSilence <=> count < total
      BY <1>6 DEF CutInSilence
    <2> QED
      BY <1>1, <1>2, <2>3, <2>4, <2>5
  <1>7. CASE kind = "rows"
    <2>1. Tells <=> pos > limit
      BY <1>1, <1>7 DEF Tells, Resumes
    <2>2. ASSUME pos <= limit PROVE wanted \subseteq Result
      <3>1. pos = total
        BY <1>1, <1>2, <1>3, <1>7, <2>2
      <3>2. First(limit, got) = got
        BY <1>1, <1>2, <2>2, FirstOfFew
      <3> QED
        BY <1>1, <1>2, <1>7, <3>1, <3>2 DEF Result, Cap
    <2> QED
      BY <1>1, <1>2, <2>1, <2>2
  <1>8. CASE kind = "until"
    <2>1. PICK n \in 0..total : wanted = 1..n
      BY <1>8 DEF ListingInv, Selective, WantedIsAsked
    <2>2. Result = got \cap wanted
      BY <1>8 DEF Result, Hits
    <2>3. ~more \/ pages >= MaxPages \/ ~(got \subseteq wanted)
      BY <1>2, <1>8 DEF GoesOn, Single
    <2>4. ASSUME ~(got \subseteq wanted) PROVE wanted \subseteq got
      BY <1>1, <2>1, <2>4
    <2> QED
      BY <1>2, <1>3, <1>4, <1>8, <2>2, <2>3, <2>4 DEF CutInSilence
  <1>9. CASE kind = "search"
    <2>1. Tells = Truncated /\ Result = First(limit, Hits)
      BY <1>9 DEF Tells, Resumes, Result
    <2>2. IsFiniteSet(Hits) /\ Cardinality(Hits) \in Nat
      <3>1. Hits \in SUBSET got
        BY DEF Hits
      <3> QED
        BY <1>1, <3>1, FS_Subset, FS_CardinalityType
    <2>3. CASE Cardinality(Hits) < limit
      <3>1. ASSUME ~Truncated PROVE ~more
        <4>1. ~(pages = MaxPages /\ more)
          BY <1>2, <2>2, <2>3, <3>1 DEF Truncated
        <4>2. ~more \/ pages >= MaxPages
          BY <1>2, <1>9, <2>3 DEF GoesOn, Single
        <4> QED
          BY <1>2, <1>3, <1>9, <4>1, <4>2
      <3>2. ~more => wanted = Hits
        BY <1>2, <1>4 DEF Hits
      <3>3. First(limit, Hits) = Hits
        BY <1>2, <2>2, <2>3, FirstOfFew
      <3> QED
        BY <2>1, <3>1, <3>2, <3>3
    <2>4. CASE Cardinality(Hits) >= limit
      <3> SUFFICES ASSUME ~Truncated, NEW i \in wanted
                   PROVE  i \in Result
        BY <2>1
      <3>1. Unexamined = {} /\ ~more
        BY <1>2, <2>4 DEF Truncated
      <3>2. i \in Hits /\ i \in got /\ Hits \subseteq Nat /\ i \in Nat
        BY <1>1, <1>2, <1>4, <3>1 DEF Hits
      <3> DEFINE before == {j \in Hits : j < i}
                 upto == {j \in Hits : j <= i}
      <3>3. ~(Cardinality(before) >= limit)
        BY <3>1, <3>2 DEF Unexamined
      <3>4. IsFiniteSet(before) /\ Cardinality(before) \in Nat
        <4>1. before \in SUBSET Hits
          OBVIOUS
        <4> QED
          BY <2>2, <4>1, FS_Subset, FS_CardinalityType
      <3>5. upto = before \cup {i} /\ i \notin before
        <4>1. ASSUME NEW j \in Hits
              PROVE  j <= i <=> j < i \/ j = i
          BY <3>2
        <4>2. \A j : j \in upto <=> j \in before \cup {i}
          BY <3>2, <4>1, Zenon
        <4>3. i \notin before
          BY <3>2
        <4> HIDE DEF before, upto
        <4> QED
          BY <4>2, <4>3
      <3>6. Cardinality(upto) = Cardinality(before) + 1
        <4> HIDE DEF before, upto
        <4> QED
          BY <3>4, <3>5, FS_AddElement
      <3>7. Cardinality(upto) <= limit
        <4> HIDE DEF before, upto
        <4> QED
          BY <1>2, <3>3, <3>4, <3>6
      <3> QED
        BY <2>1, <3>2, <3>7 DEF First
    <2> QED
      BY <1>2, <2>2, <2>3, <2>4
  <1> QED
    BY <1>2, <1>5, <1>6, <1>7, <1>8, <1>9

(* The answer: what is behind the cursor and what is told of it.            *)
LEMMA DeliverStep ==
  ASSUME ListingInv, Deliver
  PROVE  ListingInv'
PROOF
  <1>1. /\ phase = "paging" /\ pages > 0 /\ ~GoesOn
        /\ seen' = seen \cup Result /\ told' = Tells
        /\ held' = IF Resumes THEN pos ELSE 0
        /\ phase' = IF kind = "delta" \/ (kind = "chats" /\ more) THEN "idle"
                    ELSE "answered"
        /\ UNCHANGED <<kind, limit, total, count, wanted, pos, more, got, pages,
                       faults>>
    BY DEF Deliver, listing
  <1>2. pos \in Nat /\ total \in Nat /\ pos <= total
    BY <1>1, GotSize DEF ListingInv
  <1>3. ListingTyped'
    BY <1>1, <1>2 DEF ListingInv, ListingTyped
  <1>4. WantedIsAsked'
    BY <1>1 DEF ListingInv, Selective, WantedIsAsked, Resumes
  <1>5. CallIsAhead' /\ WholePages'
    BY <1>1 DEF CallIsAhead, WholePages
  <1>6. NothingSkipped'
    <2> SUFFICES ASSUME Resumes, NEW i \in 1..total
                 PROVE  \/ i \in seen \cup Result
                        \/ i > pos
                        \/ kind = "chats" /\ limit % Page # 0 /\ i > limit
      BY <1>1 DEF NothingSkipped, Resumes
    <2> QED
      BY <1>1, <1>2, NothingTrimmed
  <1>7. CutIsTold'
    <2> SUFFICES ASSUME phase' = "answered", ~(wanted \subseteq seen \cup Result),
                        kind # "chats"
                 PROVE  Tells \/ CutInSilence
      BY <1>1 DEF CutIsTold, CutInSilence
    <2>1. ~Resumes
      BY <1>1 DEF Resumes
    <2> QED
      BY <1>1, <2>1, AnswerTells
  <1> QED
    BY <1>3, <1>4, <1>5, <1>6, <1>7 DEF ListingInv

(* No step of a listing breaks the invariant.                               *)
LEMMA ListingStep ==
  ASSUME ListingInv, [LNext]_lvars
  PROVE  ListingInv'
PROOF
  <1>0. total \in Nat /\ held \in Nat /\ held <= total /\ MaxItems \in Nat \ {0}
    BY ListingAssumption DEF ListingInv, ListingTyped
  <1>1. CASE Call
    <2>1. /\ phase = "idle" /\ phase' = "paging"
          /\ pos' = held /\ more' = TRUE /\ got' = {} /\ pages' = 0
          /\ UNCHANGED <<kind, limit, total, wanted, held, ended, seen, told,
                         faults>>
          /\ count' \in 0..MaxItems \/ count' = count
      BY <1>1 DEF Call, listing
    <2>2. ListingTyped'
      BY <1>0, <2>1 DEF ListingInv, ListingTyped
    <2>3. WantedIsAsked' /\ NothingSkipped' /\ CutIsTold'
      BY <2>1 DEF ListingInv, Selective, WantedIsAsked, NothingSkipped, CutIsTold,
                  CutInSilence, Resumes
    <2>4. CallIsAhead'
      BY <1>0, <2>1, ListingAssumption DEF CallIsAhead
    <2>5. WholePages'
      <3>1. limit \in Nat /\ Page \in Nat \ {0}
        BY ListingAssumption DEF ListingInv, ListingTyped
      <3>2. 0 % Page = 0 /\ 0 <= limit
        BY <3>1
      <3> QED
        BY <2>1, <3>2 DEF WholePages
    <2> QED
      BY <2>2, <2>3, <2>4, <2>5 DEF ListingInv
  <1>2. CASE Refused
    <2>1. /\ phase = "paging" /\ phase' = "idle"
          /\ \/ kind = "delta" /\ seen' = seen \cup got /\ held' = pos
             \/ UNCHANGED <<seen, held>>
          /\ UNCHANGED <<kind, limit, total, count, wanted, pos, more, got, pages,
                         told>>
      BY <1>2 DEF Refused, listing
    <2>2. pos \in Nat /\ pos <= total
      BY <2>1, GotSize DEF ListingInv
    <2>3. ListingTyped'
      BY <1>0, <2>1, <2>2 DEF ListingInv, ListingTyped
    <2>4. WantedIsAsked' /\ CallIsAhead' /\ WholePages' /\ CutIsTold'
      BY <2>1 DEF ListingInv, Selective, WantedIsAsked, CallIsAhead, WholePages,
                  CutIsTold, CutInSilence, Resumes
    <2>5. NothingSkipped'
      <3>1. CASE kind = "delta" /\ seen' = seen \cup got /\ held' = pos
        <4>1. Result = got
          BY <3>1 DEF Result
        <4>2. \A i \in 1..total : i <= pos => i \in seen \cup got
          BY <2>1, <3>1, <4>1, NothingTrimmed DEF Resumes
        <4> QED
          BY <2>1, <2>2, <3>1, <4>2 DEF NothingSkipped
      <3>2. CASE UNCHANGED <<seen, held>>
        BY <2>1, <3>2 DEF ListingInv, NothingSkipped, Resumes
      <3> QED
        BY <2>1, <3>1, <3>2
    <2> QED
      BY <2>3, <2>4, <2>5 DEF ListingInv
  <1>3. CASE Lost
    <2>1. /\ phase' = "idle"
          /\ UNCHANGED <<kind, limit, total, count, wanted, held, seen, pos, more,
                         got, pages, told>>
      BY <1>3 DEF Lost, listing
    <2> QED
      BY <2>1 DEF ListingInv, ListingTyped, Selective, WantedIsAsked, CallIsAhead,
                  WholePages,
                  NothingSkipped, CutIsTold, CutInSilence, Resumes
  <1>4. CASE Resync
    <2>1. /\ kind = "delta" /\ phase' = "idle" /\ seen' = {} /\ held' = 0
          /\ UNCHANGED <<kind, limit, total, count, wanted, pos, more, got, pages,
                         told>>
      BY <1>4 DEF Resync, listing
    <2> QED
      BY <1>0, <2>1 DEF ListingInv, ListingTyped, Selective, WantedIsAsked,
                        CallIsAhead, WholePages,
                  NothingSkipped, CutIsTold, CutInSilence, Resumes
  <1>5. CASE Change
    <2>1. /\ kind = "delta" /\ total < MaxItems /\ total' = total + 1 /\ wanted' = 1..total'
          /\ UNCHANGED <<kind, limit, count, held, seen, phase, pos, more, got,
                         pages, told>>
      BY <1>5 DEF Change, listing
    <2>2. ListingTyped'
      BY <1>0, <2>1 DEF ListingInv, ListingTyped
    <2>3. WantedIsAsked' /\ WholePages' /\ CutIsTold' /\ NothingSkipped'
      <3>1. WantedIsAsked' /\ WholePages'
        BY <2>1 DEF ListingInv, Selective, WantedIsAsked, WholePages, Resumes
      <3>2. NothingSkipped'
        BY <1>0, <2>1 DEF ListingInv, NothingSkipped, Resumes
      <3>3. CutIsTold'
        BY <2>1 DEF CutIsTold, CutInSilence, ListingInv, Selective, WantedIsAsked
      <3> QED
        BY <3>1, <3>2, <3>3
    <2>4. CallIsAhead'
      <3>1. phase = "paging" => pos \in held..total'
        BY <1>0, <2>1 DEF ListingInv, CallIsAhead
      <3> QED
        BY <2>1, <3>1 DEF ListingInv, CallIsAhead
    <2> QED
      BY <2>2, <2>3, <2>4 DEF ListingInv
  <1>6. CASE UNCHANGED lvars
    BY <1>6 DEF lvars, listing, ListingInv, ListingTyped, Selective, WantedIsAsked,
                CallIsAhead,
                WholePages, NothingSkipped, CutIsTold, CutInSilence, Resumes
  <1> QED
    BY <1>1, <1>2, <1>3, <1>4, <1>5, <1>6, FetchStep, DeliverStep DEF LNext, Paging

(* A listing begins with nothing fetched and nothing behind a cursor.       *)
LEMMA ListingStart ==
  ASSUME LInit
  PROVE  ListingInv
PROOF
  <1>1. /\ kind \in Kinds /\ limit \in 1..MaxLimit /\ total \in 0..MaxItems /\ total \in Nat
        /\ held = 0 /\ phase = "idle" /\ more = FALSE /\ pages = 0 /\ count = 0
    BY ListingAssumption DEF LInit
  <1>2. wanted \subseteq 1..total
    BY DEF LInit
  <1>3. ListingTyped
    <2>1. held \in 0..total /\ pages \in Nat /\ count \in Nat
      BY <1>1
    <2>2. more \in BOOLEAN
      BY <1>1, Zenon
    <2> QED
      BY <1>1, <1>2, <2>1, <2>2 DEF ListingTyped
  <1>4. WantedIsAsked
    <2>1. kind = "until" => \E n \in 0..total : wanted = 1..n
      BY DEF LInit
    <2> QED
      BY <1>1, <2>1 DEF LInit, Selective, WantedIsAsked
  <1>5. CallIsAhead /\ WholePages /\ CutIsTold
    BY <1>1 DEF CallIsAhead, WholePages, CutIsTold
  <1>6. NothingSkipped
    BY <1>1 DEF NothingSkipped
  <1> QED
    BY <1>3, <1>4, <1>5, <1>6 DEF ListingInv

(* The invariant of the listings holds in every reachable state.            *)
LEMMA ListingInvariance == LSpec => []ListingInv
PROOF
  <1>1. LInit => ListingInv
    BY ListingStart
  <1>2. ListingInv /\ [LNext]_lvars => ListingInv'
    BY ListingStep
  <1> QED
    BY <1>1, <1>2, PTL DEF LSpec

(* Whoever goes on with the cursor of list_chats or of sync_mail misses     *)
(* nothing, for every page size, page budget and limit and every pattern of *)
(* failures, but for the chats trimmed of a last page that is not whole.    *)
THEOREM CursorsSkipNothing == LSpec => []NothingSkipped
PROOF
  <1>1. ListingInv => NothingSkipped
    BY DEF ListingInv
  <1> QED
    BY <1>1, ListingInvariance, PTL

(* An answer that lacks something asked for says so, at every limit, page   *)
(* size and budget and whatever Jira estimates, except where apaginate and  *)
(* apaginate_until_date stop at their page budget, where the mail policy    *)
(* takes mails out of the number asked for, and where the estimate is too   *)
(* low.                                                                     *)
THEOREM CutsAreTold == LSpec => []CutIsTold
PROOF
  <1>1. ListingInv => CutIsTold
    BY DEF ListingInv
  <1> QED
    BY <1>1, ListingInvariance, PTL

=============================================================================
