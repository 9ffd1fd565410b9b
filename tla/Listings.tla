------------------------------ MODULE Listings ------------------------------
(***************************************************************************)
(* What listings that need several pages, or are cut at a limit, hand to    *)
(* their caller, and what a caller that goes on with the cursor of one      *)
(* answer gets in the end.  The loops of the program:                       *)
(*                                                                          *)
(*   capped  apaginate: mail, folders, chats; up to a number of items, of   *)
(*           which list_emails then drops what the mail policy hides        *)
(*   until   apaginate_until_date: messages back to a date, newest first    *)
(*   chats   list_chats: up to a number, with a cursor to go on             *)
(*   delta   adelta_drain and sync_mail: the changes since the last call    *)
(*   search  search_messages: hits that match, up to a budget               *)
(*   issues  search_all_issues of Jira: up to a number, beside an estimate  *)
(*           of how many there are, asked for before the listing            *)
(*   rows    run_query of Databricks: one row more than the limit is asked  *)
(*                                                                          *)
(* Items are numbered in the order in which the service lists them, so that *)
(* a link is the number of items before it.  Which message moves up in a    *)
(* listing while it is read, and the floor on dates of sync_mail, are left  *)
(* out.                                                                     *)
(***************************************************************************)
EXTENDS Naturals, FiniteSets, FiniteSetsExt

CONSTANTS Page,       \* the page size asked for
          MaxPages,   \* the page budget of one call
          MaxItems,   \* bound: items of a listing
          MaxLimit,   \* bound: the limit a caller asks for
          MaxFaults   \* bound: failures of the service during a listing

Kinds == {"capped", "until", "chats", "delta", "search", "issues", "rows"}
ASSUME ListingAssumption == {Page, MaxPages, MaxItems, MaxLimit} \subseteq Nat \ {0}
                              /\ MaxFaults \in Nat

VARIABLES
  kind,    \* the loop, or "none"
  limit,   \* the number of items asked for
  total,   \* items at the service
  count,   \* the estimate: anything, whatever there is
  wanted,  \* the items the caller is after: all, the mails that the policy does not
           \* hide, those since a date, the matches
  held,    \* the link the caller holds
  ended,   \* the service has said that nothing is behind it
  seen,    \* items the caller has been given since it started anew
  phase,   \* idle, paging, answered
  pos,     \* items before the next page of the call
  more,    \* the last page has a link to a next one
  got,     \* items fetched by the call
  pages,   \* pages fetched by the call
  told,    \* the answer says that it may lack something
  faults   \* failures so far

lvars == <<kind, limit, total, count, wanted, held, ended, seen, phase, pos, more,
           got, pages, told, faults>>
listing == <<kind, limit>>

Selective == kind \in {"capped", "until", "search"}

LInit == /\ kind \in Kinds
         /\ limit \in 1..MaxLimit
         /\ total \in 0..MaxItems
         /\ count = 0
         /\ \/ Selective /\ wanted \in SUBSET (1..total)
            \/ ~Selective /\ wanted = 1..total
         \* newest first
         /\ kind = "until" => wanted \in {1..n : n \in 0..total}
         /\ held = 0 /\ ended = FALSE
         /\ seen = {} /\ phase = "idle"
         /\ pos = 0 /\ more = FALSE /\ got = {} /\ pages = 0
         /\ told = FALSE /\ faults = 0

Resumes == kind \in {"chats", "delta"}

\* What the loops take of what they have: the first items up to the limit.
First(n, S) == {i \in S : Cardinality({j \in S : j <= i}) <= n}

(* as many rows as the limit *)
Asked_exact == CASE kind \in {"capped", "chats"} -> Min({Page, limit})
                 [] kind = "issues" -> Min({Page, limit - Cardinality(got)})
                 [] kind = "rows" -> limit
                 [] OTHER -> Page

\* The size of a page is capped by the limit.
Asked == CASE kind \in {"capped", "chats"} -> Min({Page, limit})
           [] kind = "issues" -> Min({Page, limit - Cardinality(got)})
           [] kind = "rows" -> limit + 1
           [] OTHER -> Page

Hits == got \cap wanted

\* A call that goes on with a cursor of list_chats fetches that page.
Cap == IF kind = "chats" /\ held > 0 THEN MaxItems ELSE limit
Single == kind = "rows" \/ (kind = "chats" /\ held > 0)

\* The condition of each loop, after at least one page.
GoesOn ==
  /\ more /\ ~Single
  /\ kind \in {"capped", "until", "delta", "search"} => pages < MaxPages
  /\ kind \in {"capped", "chats", "issues"} => Cardinality(got) < limit
  /\ kind = "search" => Cardinality(Hits) < limit
  /\ kind = "until" => got \subseteq wanted    \* no item older than the date

\* The items in the answer.
Result == CASE kind \in {"chats", "issues", "rows"} -> First(Cap, got)
            [] kind = "capped" -> First(limit, got) \cap wanted
            [] kind = "search" -> First(limit, Hits)
            [] kind = "until" -> Hits
            [] kind = "delta" -> got

\* A hit behind the one that fills the budget has not been examined.
Unexamined == {i \in got : Cardinality({j \in Hits : j < i}) >= limit}
Truncated == IF Cardinality(Hits) >= limit THEN Unexamined # {} \/ more
             ELSE pages = MaxPages /\ more

\* What the answer says about being cut: a cursor, a flag, an estimate beside it, or
\* as many items as were asked for.
Tells == CASE Resumes -> more
           [] kind = "search" -> Truncated
           [] kind = "rows" -> Cardinality(got) > limit
           [] kind = "issues" -> Cardinality(Result) < count
           [] kind = "capped" -> Cardinality(Result) = limit
           [] kind = "until" -> FALSE
-----------------------------------------------------------------------------
(* The caller and the service *)

\* A call starts at the link that the caller holds, or anew.  Before its first page
\* of issues it has asked for the estimate.
Call ==
  /\ phase = "idle"
  /\ kind # "delta" => ~ended
  /\ phase' = "paging"
  /\ pos' = held /\ more' = TRUE /\ got' = {} /\ pages' = 0
  /\ IF kind = "issues" THEN count' \in 0..MaxItems ELSE UNCHANGED count
  /\ UNCHANGED <<listing, total, wanted, held, ended, seen, told, faults>>

\* A page of up to as many items as asked for.  The feed of changes may hand out
\* fewer, and may tell of a next page that turns out to be empty.
Fetch ==
  /\ phase = "paging"
  /\ pages = 0 \/ GoesOn
  /\ LET full == Min({pos + Asked, total})
     IN \E last \in (IF kind = "delta" THEN pos..full ELSE {full}) :
          /\ pos' = last
          /\ got' = got \cup (pos + 1)..last
          /\ \/ more' = (last < total)
             \/ kind = "delta" /\ last > pos /\ more' = TRUE
          /\ more' => last > pos
  /\ pages' = pages + 1
  /\ UNCHANGED <<listing, total, count, wanted, held, ended, seen, phase, told,
                 faults>>

(* a drain that stops at its page budget has no cursor *)
Deliver_forgetting ==
  /\ phase = "paging"
  /\ pages > 0 /\ ~GoesOn
  /\ seen' = seen \cup Result
  /\ told' = Tells
  /\ held' = IF kind = "chats" \/ (kind = "delta" /\ ~more) THEN pos ELSE 0
  /\ ended' = ~more
  /\ phase' = IF kind = "delta" \/ (kind = "chats" /\ more) THEN "idle"
              ELSE "answered"
  /\ UNCHANGED <<listing, total, count, wanted, pos, more, got, pages, faults>>

Deliver ==
  /\ phase = "paging"
  /\ pages > 0 /\ ~GoesOn
  /\ seen' = seen \cup Result
  /\ told' = Tells
  /\ held' = IF Resumes THEN pos ELSE 0
  /\ ended' = ~more
  /\ phase' = IF kind = "delta" \/ (kind = "chats" /\ more) THEN "idle"
              ELSE "answered"
  /\ UNCHANGED <<listing, total, count, wanted, pos, more, got, pages, faults>>

(* the pages before the one that failed are dropped *)
Refused_dropping ==
  /\ phase = "paging" /\ faults < MaxFaults
  /\ pages = 0 \/ GoesOn
  /\ faults' = faults + 1
  /\ held' = IF kind = "delta" /\ pages > 0 THEN pos ELSE held
  /\ ended' = (ended /\ ~(kind = "delta" /\ pages > 0))
  /\ phase' = "idle"
  /\ UNCHANGED <<listing, total, count, wanted, seen, pos, more, got, pages, told>>

\* A page is refused.  A drain that has pages keeps them and hands back the link that
\* failed; every other call fails and leaves its caller with the link it had.
Refused ==
  /\ phase = "paging" /\ faults < MaxFaults
  /\ pages = 0 \/ GoesOn
  /\ faults' = faults + 1
  /\ \/ /\ kind = "delta" /\ pages > 0
        /\ seen' = seen \cup got
        /\ held' = pos
        /\ ended' = FALSE
     \/ ~(kind = "delta" /\ pages > 0) /\ UNCHANGED <<seen, held, ended>>
  /\ phase' = "idle"
  /\ UNCHANGED <<listing, total, count, wanted, pos, more, got, pages, told>>

\* The reply is lost: no GraphError, so that the call fails.
Lost ==
  /\ phase = "paging" /\ faults < MaxFaults
  /\ pages = 0 \/ GoesOn
  /\ faults' = faults + 1
  /\ phase' = "idle"
  /\ UNCHANGED <<listing, total, count, wanted, held, ended, seen, pos, more, got,
                 pages, told>>

\* 410: the feed has forgotten the link; the caller is told to start anew.
Resync ==
  /\ phase = "paging" /\ faults < MaxFaults
  /\ kind = "delta" /\ (pages = 0 \/ GoesOn)
  /\ faults' = faults + 1
  /\ seen' = {} /\ held' = 0 /\ ended' = FALSE
  /\ phase' = "idle"
  /\ UNCHANGED <<listing, total, count, wanted, pos, more, got, pages, told>>

\* Mail arrives or changes.
Change ==
  /\ kind = "delta" /\ total < MaxItems
  /\ total' = total + 1
  /\ wanted' = 1..total'
  /\ UNCHANGED <<listing, count, held, ended, seen, phase, pos, more, got, pages,
                 told, faults>>

Paging == Call \/ Fetch \/ Deliver
LNext == Paging \/ Refused \/ Lost \/ Resync \/ Change

\* A caller of the feed keeps asking, a page comes or the request fails.
LSpec == LInit /\ [][LNext]_lvars /\ WF_lvars(Paging)
-----------------------------------------------------------------------------
(* Properties *)

\* Whoever goes on with the cursor of an answer misses nothing: each item was handed
\* out or is behind the cursor, whichever pages failed or were cut off by the page
\* budget.  The rows that list_chats trims of its last page do not
\* reappear; there are none when the number asked for is a multiple of the page.
NothingSkipped ==
  Resumes => \A i \in 1..total :
               \/ i \in seen
               \/ i > held
               \/ kind = "chats" /\ limit % Page # 0 /\ i > limit

\* Where an answer may be cut without a word: apaginate and apaginate_until_date
\* stop at their page budget, the mail policy takes mails out of the number asked
\* for, Jira's estimate is below what there is.
CutInSilence ==
  \/ kind \in {"capped", "until"} /\ pages = MaxPages
  \/ kind = "capped" /\ ~(First(limit, got) \subseteq wanted)
  \/ kind = "issues" /\ count < total

\* An answer that lacks something the caller asked for says so, except there: no hit
\* is lost between the one that fills a budget and the next page, no row behind the
\* cap, and an estimate that is not too low shows every cut.
CutIsTold ==
  phase = "answered" /\ ~(wanted \subseteq seen) /\ kind # "chats"
    => told \/ CutInSilence

\* Once nothing changes and nothing fails any more, the caller of sync_mail comes to
\* have every change, and a cursor behind which there is nothing.
SyncCatchesUp ==
  <>[](kind = "delta" => ended /\ held = total /\ seen = 1..total)
=============================================================================
