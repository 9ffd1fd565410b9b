----------------------------- MODULE TeamsTools -----------------------------
(***************************************************************************)
(* The Teams tools of the Microsoft server (ms_graph_mcp.py) and the        *)
(* library functions they call (ms_graph/teams.py).  A definition stands    *)
(* for the synchronous function and its asynchronous twin.  The errors      *)
(* "teams unavailable" and "scope missing" are refused requests that are    *)
(* reported in other words.                                                 *)
(***************************************************************************)
EXTENDS GraphFiles

-----------------------------------------------------------------------------
(* Teams library *)

ListTeams == Get("teams")
ListChannels == Get("channels")

\* Pages back to a date, newest first.
ChannelMessages == Pages("messages")
ChatMessages == Pages("messages")
ChatsPages == Pages("chats")
ChatMembers == Pages("members")

GetMessage == Get("message")
HostedContent == Get("content")
MarkChatRead == Put("chat")
CreateChat == Add("chat")
PostChatMessage == Post("message")
PostChannelMessage == Post("message")

\* A message found by the search is read, or, if it turns out to be a reply, its
\* reply is.  One that cannot be read is skipped.
HydrateCandidate == Get("message") ++ Maybe(Get("reply"))

\* Pages of hits up to a budget, then each message; when Teams is unavailable for
\* all of them the call fails.
SearchMessages ==
  {<<>>} \cup
  (Pages("hits")
     ++ ({<<>>} \cup HydrateCandidate \cup Loop(BestEffort(HydrateCandidate))))

\* Teams and chats, the channels of each team, the messages of each channel: what
\* cannot be read is left out, unless Teams is unavailable altogether.
TeamsActivity ==
  (Get("teams") \cup BestEffort(Get("teams")))
    ++ (Get("chats") \cup BestEffort(Get("chats")))
    ++ Loop(BestEffort(ListChannels))
    ++ Loop(BestEffort(ChannelMessages))

-----------------------------------------------------------------------------
(* Messages with files *)

\* The upload, then the item as Teams needs it, then a share with the members of
\* the chat, which may fail.
UploadChatFile(f) ==
  UploadAny(Make(f)) ++ Get("item") ++ Tolerant(ChatMembers ++ Invite(f))

UploadChannelFile(f) ==
  ChannelFilesFolder ++ UploadAny(Make(f)) ++ Get("item")

\* Once a file's upload has returned, a failure of what follows removes it.
AppendFile(f) == (UploadChatFile(f) \cup UploadChannelFile(f)) ++ Own(f)

SendMessageWithFiles ==
  LET files == <<"first file", "second file">>
  IN Checked ++ (Post("message")
       \cup (AppendFile(files[1]) ++ Ending(Post("message"), {files[1]}))
       \cup (AppendFile(files[1]) ++ AppendFile(files[2])
               ++ Ending(Post("message"), {files[1], files[2]})))

-----------------------------------------------------------------------------
(* Tools *)

ListTeamsTool == Token ++ (ListChannels \cup ListTeams)

\* Chats to mark need the user's ids in the token.
ListChats == Checked ++ Token ++ ChatsPages ++ Checked ++ Loop(MarkChatRead)

ReadTeamsMessages ==
  Checked ++ Token ++ (ChatMessages \cup ChannelMessages)
    ++ Maybe(Checked ++ MarkChatRead)

SearchTeamsMessages == Checked ++ Token ++ SearchMessages

\* The attachment is found in its message.
FindTeamsAttachment == GetMessage ++ Checked

\* An image is hosted by Teams, a file is behind a link that can be denied, a folder,
\* or too large.
TeamsAttachmentContent ==
  Checked ++ (HostedContent \cup Thumbnail
                \cup (Get("item") ++ Checked ++ Get("content")))

\* Metadata and cards come with the message, the text of a file that is too large
\* is answered without it.
GetTeamsAttachment ==
  Checked ++ Token ++ FindTeamsAttachment
    ++ Maybe(Get("item")
               \cup (TeamsAttachmentContent ++ Checked ++ DeliverAttachment))

SendTeamsChecks == Checked

SendTeamsMessage ==
  SendTeamsChecks ++ Token
    ++ (PostChatMessage \cup PostChannelMessage
          \cup (ResolveAttachmentSources ++ SendMessageWithFiles))

GetTeamsActivity == Token ++ TeamsActivity
GetChatMembers == Token ++ ChatMembers
EnsureChat == Checked ++ Token ++ Checked ++ CreateChat
MarkChatReadTool == Checked ++ Token ++ Checked ++ MarkChatRead

TeamsCalls ==
  Calls("list_teams", ListTeamsTool)
    \cup Calls("list_chats", ListChats)
    \cup Calls("read_teams_messages", ReadTeamsMessages)
    \cup Calls("search_teams_messages", SearchTeamsMessages)
    \cup Calls("get_teams_attachment", GetTeamsAttachment)
    \cup Calls("send_teams_message", SendTeamsMessage)
    \cup Calls("get_teams_activity", GetTeamsActivity)
    \cup Calls("get_chat_members", GetChatMembers)
    \cup Calls("ensure_chat", EnsureChat)
    \cup Calls("mark_chat_read", MarkChatReadTool)
=============================================================================
