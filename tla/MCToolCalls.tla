---------------------------- MODULE MCToolCalls ----------------------------
(***************************************************************************)
(* The calls and the listings of the four MCP servers, in one run: a        *)
(* behaviour is a call of a tool or of a command, or a listing that its     *)
(* caller goes on with.  The two share no state.                            *)
(***************************************************************************)
EXTENDS CallRules, GraphCommands, Listings
Atlassian == INSTANCE AtlassianTools
Github == INSTANCE GithubTools
Databricks == INSTANCE DatabricksTools

MCPlans == MailCalls \cup TeamsCalls \cup FileCalls \cup CommandCalls
             \cup Atlassian!AtlassianCalls \cup Github!GithubCalls
             \cup Databricks!DatabricksCalls
MCMails == {"mail", "nested"}
\* Marking after a listing, item by item; cells, range by range; and statements that
\* have run when a request for their rows fails, of which the error does not tell.
MCStepwise == {"list_emails", "list_chats", "edit_document (Excel)",
               "run_query", "query"}

\* The calls keep the rules that the theorems of ToolCallsProofs ask for.
ASSUME CallsKeepRules ==
  PlansWellFormed /\ PlansGuarded /\ PlansGoalsLast /\ PlansSettled

NoCall ==
  /\ call = [tool |-> "none", steps |-> <<>>] /\ at = 1 /\ status = "ok"
  /\ hidden = {} /\ hand = {} /\ scope = {} /\ made = {}
  /\ landed = {} /\ missed = {}
  /\ job = "none" /\ polls = 0 /\ doubt = FALSE
NoListing ==
  /\ kind = "none" /\ phase = "answered"
  /\ limit = 1 /\ total = 0 /\ count = 0 /\ held = 0 /\ pos = 0 /\ pages = 0 /\ faults = 0
  /\ wanted = {} /\ seen = {} /\ got = {}
  /\ more = FALSE /\ told = FALSE /\ ended = TRUE

MCInit == (Init /\ NoListing) \/ (LInit /\ NoCall)
MCNext == (Next /\ UNCHANGED lvars) \/ (LNext /\ UNCHANGED vars)
MCSpec == MCInit /\ [][MCNext]_<<vars, lvars>> /\ WF_vars(Handler) /\ WF_lvars(Paging)
=============================================================================
