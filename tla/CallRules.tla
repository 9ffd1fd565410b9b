----------------------------- MODULE CallRules -----------------------------
(***************************************************************************)
(* Rules on the order of the steps of a path, from which the properties of  *)
(* module ToolCalls follow for every set of calls (ToolCallsProofs).        *)
(***************************************************************************)
EXTENDS ToolCalls

WellFormed(p) ==
  /\ p \in Seq([do : STRING, on : STRING, ends : SUBSET STRING,
                caught : SUBSET {"refused", "lost"}, leaves : Nat])
  /\ \A i \in 1..Len(p) : i + p[i].leaves <= Len(p)

\* No block that swallows a failure leaves out step j.
Sure(p, j) == \A i \in 1..(j - 1) : i + p[i].leaves < j

-----------------------------------------------------------------------------
(* Content of mail is covered by a check or judgement of its sender before it,  *)
(* whose failure is not swallowed, or by a judgement after it, with nothing     *)
(* written until then.                                                          *)

ChecksAt(p, j, m) ==
  p[j].do \in {"check", "judge"} /\ p[j].on = m /\ p[j].caught = {} /\ Sure(p, j)

ClearsAt(p, j, m) ==
  /\ p[j].do = "filter" \/ (p[j].do = "judge" /\ p[j].on = m)
  /\ Sure(p, j)
  /\ \A k \in 1..(j - 1) : p[k].do \notin Writes \cup {"close"}

Guarded(p) ==
  \A i \in 1..Len(p) : p[i].do = "see" =>
    \/ \E j \in 1..(i - 1) : ChecksAt(p, j, p[i].on)
    \/ \E j \in (i + 1)..Len(p) : ClearsAt(p, j, p[i].on)

-----------------------------------------------------------------------------
(* What a call is asked to do, it does last: nothing that follows can fail it. *)

Harmless(s) ==
  \/ s.do \in {"own", "filter", "close"}
  \/ s.do \in (Goals \cup {"make", "fill"}) /\ "refused" \in s.caught
  \/ s.do \in (Reads \ {"check"}) /\ {"refused", "lost"} \subseteq s.caught

Lasts(p) == \E i \in 1..Len(p) : p[i].do = "start" /\ p[i].on \in Lasting

GoalsLast(p) ==
  \A i, k \in 1..Len(p) : i < k =>
    /\ p[i].do \in Goals => Harmless(p[k])
    /\ p[i].do = "start" /\ Lasts(p) => Harmless(p[k]) \/ p[k].do = "wait"

-----------------------------------------------------------------------------
(* A helper that was made is given back before the answer, and until then it is *)
(* owned before the next one is made.                                           *)

\* No block that swallows a failure behind step i leaves out step k.
SureAfter(p, i, k) == \A l \in (i + 1)..(k - 1) : l + p[l].leaves < k

HandsBack(p, k, x) ==
  \/ p[k].do = "close" /\ p[k].on = x
  \/ p[k].do \in Writes /\ x \in p[k].ends /\ "refused" \notin p[k].caught

TakesOver(p, k, x) == p[k].do = "own" /\ p[k].on = x

\* Between step i, which makes a helper, and step j it is handed back.
BackBetween(p, i, j) ==
  \E k \in (i + 1)..(j - 1) : SureAfter(p, i, k) /\ HandsBack(p, k, p[i].on)

HelpersSettled(p) ==
  \A i \in 1..Len(p) : p[i].do = "make" =>
    /\ \E k \in (i + 1)..Len(p) :
         SureAfter(p, i, k) /\ (HandsBack(p, k, p[i].on) \/ p[k].do = "refuse")
    /\ \A j \in (i + 1)..Len(p) : p[j].do = "make" =>
         \E k \in (i + 1)..(j - 1) :
           SureAfter(p, i, k) /\ (HandsBack(p, k, p[i].on) \/ TakesOver(p, k, p[i].on))
    /\ \A j \in (i + 1)..Len(p) : p[j].do \in {"refuse", "judge", "check"} =>
         BackBetween(p, i, j) \/ \A k \in (i + 1)..(j - 1) : p[k].do # "make"

-----------------------------------------------------------------------------
PlansWellFormed == \A c \in Plans : WellFormed(c.steps)
PlansGuarded == \A c \in Plans : Guarded(c.steps)
PlansSettled == \A c \in Plans : HelpersSettled(c.steps)
PlansGoalsLast ==
  \A c \in Plans : c.tool \notin Stepwise => GoalsLast(c.steps)
=============================================================================
