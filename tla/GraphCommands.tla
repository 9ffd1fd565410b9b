--------------------------- MODULE GraphCommands ---------------------------
(***************************************************************************)
(* The commands of the Microsoft CLI (ms_graph_cli.py).  They call the      *)
(* synchronous twins of the functions the tools call, with the checks the   *)
(* commands have themselves.  A file that cannot be found on the local disk *)
(* is an argument that is refused; writing results to the local disk is     *)
(* left out.                                                                *)
(***************************************************************************)
EXTENDS MailTools, TeamsTools, FileTools

\* The size of the photo is checked before anything is asked for.
CmdWhoami ==
  Checked ++ Token ++ ProfileOf ++ Maybe(PhotoBytes ++ Checked)

CmdPowerbiWhoami == Token ++ Workspaces

-----------------------------------------------------------------------------
(* Mail, under the same policy as the tools *)

CmdEmailList == Token ++ (SearchMail \cup ListMessages) ++ Filter

CmdEmailRead ==
  Token ++ MessageDetail ++ Judge("mail") ++ Maybe(ListAttachments)

CmdEmailAttachment ==
  Token ++ Check("mail") ++ AttachmentMetadata
    ++ ({<<>>} \cup AttachmentBytes("mail")
          \cup (AttachedItem ++ AttachmentBytes("nested")))

\* The files are read after the token is at hand and before the mail is sent.
CmdEmailSend == Token ++ Checked ++ SendMessageSync

CmdRulesList == Token ++ Get("rules")
CmdRulesGet == Token ++ Get("rule")
CmdRulesCreate == Checked ++ Token ++ Add("rule")
CmdRulesUpdate == Checked ++ Token ++ Put("rule")
CmdRulesDelete == Token ++ Drop("rule")

-----------------------------------------------------------------------------
(* Calendar *)

CmdCalendarList == Checked ++ Token ++ CalendarView
CmdCalendarGet == Token ++ CalendarEvent
CmdCalendarCreate == Token ++ NewEvent
CmdCalendarAvailability == Checked ++ Token ++ Schedules

-----------------------------------------------------------------------------
(* Teams *)

CmdTeamsList == Token ++ (ListChannels \cup ListTeams)
CmdTeamsChats == Token ++ ChatsPages
CmdTeamsRead == Checked ++ Token ++ (ChatMessages \cup ChannelMessages)
CmdTeamsSearch == Checked ++ Token ++ SearchMessages

\* A card has no content to fetch.
CmdTeamsAttachment ==
  Checked ++ Token ++ FindTeamsAttachment
    ++ Maybe(Checked ++ (SharedLinkBytes \cup HostedContent))

\* All local files are read before anything is asked for.
CmdTeamsSend ==
  Checked ++ Token
    ++ (PostChatMessage \cup PostChannelMessage \cup SendMessageWithFiles)

CmdTeamsActivity == Token ++ TeamsActivity

-----------------------------------------------------------------------------
(* Files *)

CmdFilesSites == Token ++ Get("sites")
CmdFilesList == Token ++ (SearchFiles \cup FolderListing)

\* Metadata, or the content as it is, or extracted when it is no text.
CmdFilesInspect ==
  Token ++ (Get("item")
    \cup ((SharedLinkContent \cup DriveItemContent) ++ Maybe(ExtractedContent)))
CmdFilesResolve ==
  Token ++ (Get("item") \cup (SharedLinkContent ++ Maybe(ExtractedContent)))

CmdFilesUpload == Token ++ UploadFile
CmdFilesCopy == Token ++ CopyItem
CmdFilesRename == Token ++ RenameItem

-----------------------------------------------------------------------------
(* Power BI *)

CmdPbiWorkspaces == Token ++ Workspaces
CmdPbiContent == Token ++ WorkspaceItems
CmdPbiQuery == Token ++ ExecuteDaxQuery
CmdPbiRefresh == Token ++ (Get("refreshes") \cup TriggerRefresh)
CmdPbiExport == Token ++ StartExport ++ PollExport ++ DownloadExport

CommandCalls ==
  Calls("cli",
    CmdWhoami \cup CmdPowerbiWhoami
      \cup CmdEmailList \cup CmdEmailRead \cup CmdEmailAttachment \cup CmdEmailSend
      \cup CmdRulesList \cup CmdRulesGet \cup CmdRulesCreate \cup CmdRulesUpdate
      \cup CmdRulesDelete
      \cup CmdCalendarList \cup CmdCalendarGet \cup CmdCalendarCreate
      \cup CmdCalendarAvailability
      \cup CmdTeamsList \cup CmdTeamsChats \cup CmdTeamsRead \cup CmdTeamsSearch
      \cup CmdTeamsAttachment \cup CmdTeamsSend \cup CmdTeamsActivity
      \cup CmdFilesSites \cup CmdFilesList \cup CmdFilesInspect
      \cup CmdFilesResolve \cup CmdFilesUpload \cup CmdFilesCopy
      \cup CmdFilesRename
      \cup CmdPbiWorkspaces \cup CmdPbiContent \cup CmdPbiQuery
      \cup CmdPbiRefresh \cup CmdPbiExport)
=============================================================================
