----------------------------- MODULE MailTools -----------------------------
(***************************************************************************)
(* The mail tools of the Microsoft server (ms_graph_mcp.py) and the library *)
(* functions they call (ms_graph/mail.py, folders.py, mail_policy.py).      *)
(*                                                                          *)
(* "mail" is the message the call is about, "nested" a message attached to  *)
(* it.  While the mail policy is off nothing is hidden and the sender check *)
(* makes no request; the paths with the request stand for both.             *)
(***************************************************************************)
EXTENDS GraphFiles

-----------------------------------------------------------------------------
(* Mail library *)

ListMessages == See("mail")
SearchMail == See("mail")
MarkRead == Put("mail")
MessageDetail == See("mail")

\* The settings request may lack its scope: the profile goes without it.
GetProfile == Get("profile") ++ Tolerant(Get("mailbox settings"))

\* The draft is created, filled and sent; a failure on the way deletes it.
SendViaDraft ==
  Make("draft") ++ Own("draft")
    ++ Loop(AddFileAttachment(Fill("draft")))
    ++ Ending(Send("mail"), {"draft"})

\* The synchronous library sends a mail without attachments in one request.
SendMessageSync == Send("mail") \cup SendViaDraft

\* A reply whose time zone the service rejects (400, nothing done) is asked for
\* once more without it.
CreateReplyDraft == Maybe(Get("rejected time zone")) ++ Add("draft")

\* The delta pages of one drain: the first must succeed.  A later one that is
\* refused keeps the progress, except for 410.
DeltaDrain == See("mail") ++ Maybe(Tolerant(See("mail")) \cup See("mail"))

\* A folder is well known, or found in the paged list of folders, or an id.
ResolveFolder == {<<>>} \cup (Get("folders") ++ Checked)

-----------------------------------------------------------------------------
(* Tools on messages *)

\* Marking is asked for with the ids to mark; a failure leaves the rest unmarked.
ListEmails ==
  Checked ++ Token ++ ResolveFolder ++ (ListMessages \cup SearchMail)
    ++ Filter ++ Checked ++ Loop(MarkRead)

ReadEmail ==
  Checked ++ Token ++ MessageDetail ++ Judge("mail") ++ Maybe(MarkRead)

\* The metadata tell files, links and attached messages apart.  An attached message
\* is read and judged itself, before any of its bytes.
AttachedItem == See("nested") ++ Judge("nested")

\* The text of an attachment: of a link there is none, an attached message is at
\* hand already, a file is downloaded up to a size.
AttachmentText == {<<>>} \cup AttachmentBytes("mail")

\* Metadata, text, or bytes, which are refused for a link or beyond a size.
GetMailAttachment ==
  Checked ++ Token ++ Check("mail") ++ AttachmentMetadata
    ++ (Checked \cup AttachmentText
          \cup (AttachmentBytes("mail") ++ DeliverAttachment)
          \cup (AttachedItem
                  ++ (Checked \cup (AttachmentBytes("nested") ++ DeliverAttachment))))

\* Mail with attachments is refused when one cannot be resolved.
SendEmail ==
  Checked ++ Token ++ Maybe(ResolveAttachmentSources) ++ SendViaDraft

SyncMail == Checked ++ Token ++ (DeltaDrain \cup Tolerant(DeltaDrain)) ++ Filter

\* Up to 100 ids; each that the service refuses is reported and left.
MarkMailRead == Checked ++ Token ++ Loop(Tolerant(MarkRead))

-----------------------------------------------------------------------------
(* Drafts, rules and folders *)

CreateDraft == Checked ++ Token ++ Add("draft")
ReplyDraft == Checked ++ Token ++ Check("mail") ++ CreateReplyDraft
UpdateDraftBody == Checked ++ Token ++ Put("draft")
AddDraftAttachment ==
  Checked ++ Token ++ AddFileAttachment(Add("attachment"))
SendDraft == Checked ++ Token ++ Get("draft") ++ Send("mail")

\* A forwarding rule is refused while the mail policy is on.
InboxRuleChecks == Checked
ManageInboxRules ==
  InboxRuleChecks ++ Token
    ++ (Get("rules") \cup Get("rule") \cup Add("rule") \cup Put("rule")
          \cup Drop("rule"))

MailFolderChecks == Checked
ManageMailFolders ==
  MailFolderChecks ++ Token
    ++ (Get("folders") \cup Get("folder") \cup Add("folder") \cup Put("folder")
          \cup Drop("folder"))

MailCalls ==
  Calls("list_emails", ListEmails)
    \cup Calls("read_email", ReadEmail)
    \cup Calls("get_mail_attachment", GetMailAttachment)
    \cup Calls("send_email", SendEmail)
    \cup Calls("sync_mail", SyncMail)
    \cup Calls("mark_mail_read", MarkMailRead)
    \cup Calls("manage_draft", CreateDraft \cup ReplyDraft \cup UpdateDraftBody
                 \cup AddDraftAttachment \cup SendDraft)
    \cup Calls("manage_inbox_rules", ManageInboxRules)
    \cup Calls("manage_mail_folders", ManageMailFolders)
=============================================================================
