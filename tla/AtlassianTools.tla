--------------------------- MODULE AtlassianTools ---------------------------
(***************************************************************************)
(* The Jira and Confluence tools of the Atlassian server                    *)
(* (atlassian_mcp.py), the commands of its CLI (atlassian_cli.py) and the   *)
(* library functions both call (atlassian/jira.py, confluence.py, user.py). *)
(*                                                                          *)
(* A tool has a target, which it checks first; then it takes the token and  *)
(* the cloud id; then it checks the parameters of the target.  The "raw"    *)
(* commands of the CLI call the tools themselves.                           *)
(***************************************************************************)
EXTENDS CallSteps

-----------------------------------------------------------------------------
(* Jira library *)

ListProjects == Get("projects")

\* Pages until the last one or the limit: any number is as two.
SearchAllIssues == Get("issues") ++ Maybe(Get("issues"))
CountIssues == Get("count")
GetIssue == Get("issue")
GetIssueComments == Get("comments")
CreateIssue == Add("issue")
UpdateIssue == Put("issue")
AddIssueComment == Add("comment")
GetTransitions == Get("transitions")

\* The transition is looked up by its name; one that the issue does not offer now
\* is refused.
TransitionIssue == GetTransitions ++ Checked ++ Put("issue")

GetProjectVersions == Get("versions")
CreateVersion == Add("version")
SearchUsers == Get("users")
GetMyself == Get("myself")

-----------------------------------------------------------------------------
(* Confluence library *)

ListSpaces == Get("spaces")
SearchContent == Get("pages")
GetPage == Get("page")
CreatePage == Add("page")

\* The service refuses a version that does not follow the page's.
UpdatePage == Put("page")

-----------------------------------------------------------------------------
(* Tools *)

JiraSearch ==
  Checked ++ Token ++ Checked
    ++ (ListProjects \cup (CountIssues ++ SearchAllIssues) \cup CountIssues
          \cup GetProjectVersions \cup SearchUsers \cup GetMyself)

\* An issue is shown without its comments when they cannot be read.
JiraGet ==
  Checked ++ Token
    ++ ((GetIssue ++ Tolerant(GetIssueComments)) \cup GetTransitions)

JiraManage ==
  Checked ++ Token ++ Checked
    ++ (CreateIssue \cup UpdateIssue \cup AddIssueComment \cup TransitionIssue
          \cup CreateVersion)

ConfluenceSearch ==
  Checked ++ Token ++ Checked ++ (ListSpaces \cup SearchContent \cup GetPage)

\* A caller that names no version gets the one after the current.
ConfluenceManage ==
  Checked ++ Token ++ Checked ++ (CreatePage \cup (Maybe(GetPage) ++ UpdatePage))

-----------------------------------------------------------------------------
(* Commands.  get_client, with the token and the cloud id, comes first. *)

CmdJiraSearch == Token ++ CountIssues ++ SearchAllIssues
CmdJiraGet == Token ++ GetIssue

\* Nothing to update is reported before anything is asked for.
CmdJiraUpdate == Checked ++ Token ++ UpdateIssue
CmdJiraTransition == Token ++ TransitionIssue

\* The commands that make one request.
CmdReading ==
  Token ++ (ListProjects \cup CountIssues \cup GetTransitions
              \cup GetProjectVersions \cup SearchUsers \cup ListSpaces
              \cup SearchContent \cup GetPage \cup GetMyself)
CmdWriting == Token ++ (CreateIssue \cup AddIssueComment \cup CreateVersion)

AtlassianCalls ==
  Calls("jira_search", JiraSearch)
    \cup Calls("jira_get", JiraGet)
    \cup Calls("jira_manage", JiraManage)
    \cup Calls("confluence_search", ConfluenceSearch)
    \cup Calls("confluence_manage", ConfluenceManage)
    \cup Calls("cli", CmdJiraSearch \cup CmdJiraGet \cup CmdJiraUpdate
                 \cup CmdJiraTransition \cup CmdReading \cup CmdWriting)
=============================================================================
