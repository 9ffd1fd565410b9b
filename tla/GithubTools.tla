---------------------------- MODULE GithubTools ----------------------------
(***************************************************************************)
(* The tools of the GitHub server (github_mcp.py) and the commands of its   *)
(* CLI (github_cli.py).  A tool takes the token and makes its requests; it  *)
(* checks no argument.  Numbers of results are capped, never refused.       *)
(***************************************************************************)
EXTENDS CallSteps

ListRepositories == Token ++ Get("repositories")
GetRepository == Token ++ Get("repository")
SearchRepositories == Token ++ Get("repositories")

ListIssues == Token ++ Get("issues")

\* Unlike in Jira, an issue whose comments cannot be read is an error.
GetIssue == Token ++ Get("issue") ++ Get("comments")
CreateIssue == Token ++ Add("issue")
UpdateIssue == Token ++ Put("issue")
AddIssueComment == Token ++ Add("comment")

ListPullRequests == Token ++ Get("pulls")
GetPullRequest == Token ++ Get("pull")
CreatePullRequest == Token ++ Add("pull")
AddPrComment == Token ++ Add("comment")

\* The service refuses to merge what is merged already.
MergePullRequest == Token ++ Put("pull")

\* A file is decoded when it is text within a size.
GetFileContent == Token ++ Get("content")

\* The service refuses to replace a version of the file other than the one named.
CreateOrUpdateFile == Token ++ (Add("file") \cup Put("file"))
SearchCode == Token ++ Get("code")
GetAuthenticatedUser == Token ++ Get("user")

\* A command does what the tool of its name does, but for issues without comments.
CmdIssuesGet == Token ++ Get("issue")
Cmd ==
  CmdIssuesGet \cup ListRepositories \cup GetRepository \cup SearchRepositories
    \cup ListIssues \cup CreateIssue \cup ListPullRequests \cup GetPullRequest
    \cup GetFileContent \cup SearchCode \cup GetAuthenticatedUser

GithubCalls ==
  Calls("repositories", ListRepositories \cup GetRepository \cup SearchRepositories)
    \cup Calls("issues", ListIssues \cup GetIssue \cup CreateIssue \cup UpdateIssue
                 \cup AddIssueComment)
    \cup Calls("pulls", ListPullRequests \cup GetPullRequest \cup CreatePullRequest
                 \cup AddPrComment \cup MergePullRequest)
    \cup Calls("code", GetFileContent \cup CreateOrUpdateFile \cup SearchCode
                 \cup GetAuthenticatedUser)
    \cup Calls("cli", Cmd)
=============================================================================
