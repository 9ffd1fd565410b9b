----------------------------- MODULE GraphFiles -----------------------------
(***************************************************************************)
(* Requests of the Microsoft Graph library on files and attachments         *)
(* (ms_graph/files.py, ms_graph/attachments.py), shared by the mail, Teams  *)
(* and file tools.  A definition stands for the synchronous function and    *)
(* its asynchronous twin, which make the same requests.                     *)
(*                                                                          *)
(* A ValueError about an argument (a size, a folder, empty content) takes   *)
(* the way of the request beside it that is refused.                        *)
(***************************************************************************)
EXTENDS CallSteps

\* A read whose 404 means "there is none"; other refusals are errors.
Optional(x) == Get(x) \cup Tolerant(Get(x))

\* A listing that follows links to further pages: any number is as one more.
Pages(x) == Get(x) ++ Maybe(Get(x))

\* A loop over what the caller gave: one or two rounds stand for any number.
Loop(P) == Maybe(P ++ Maybe(P))

-----------------------------------------------------------------------------
(* Reading *)

\* The item, then its content if it is a text file within the size limit.
DriveItemContent == Get("item") ++ Maybe(Get("content"))
SharedLinkContent == Get("item") ++ Maybe(Get("content"))

\* The extractors are given the item when the caller already holds it.
ExtractedContent == Maybe(Get("item")) ++ Maybe(Get("content"))

\* A search that the tenant does not support falls back to the drive's own.
SearchFiles == Get("search") ++ Maybe(Get("search"))

SharedLinkBytes == Maybe(Get("item")) ++ Get("content")
Thumbnail == Optional("thumbnail")

\* The children of the root, of a folder by path, or of a shared folder.
FolderListing == Get("children")

-----------------------------------------------------------------------------
(* Writing.  final is the request that completes an upload: it adds a file or  *)
(* an attachment the caller asked for, or makes a helper of a larger call.     *)

\* Chunks go to an upload session, cancelled when one of them fails.  The service
\* creates the file with the last chunk, which ends the session.
UploadSession(final) ==
  Make("session") ++ Own("session")
    ++ Fill("session") ++ Ending(final, {"session"})

\* Up to 4 MB in one request, more through a session.
UploadAny(final) == final \cup UploadSession(final)

\* Under 3 MB inline, more through a session of the message.
AddFileAttachment(final) == final \cup UploadSession(final)

UploadFile == Add("file")
UploadBytes == Add("file")
OverwriteBytes == Put("file")
RenameItem == Put("file")
DeleteItem == Drop("file")

\* The copy is made by a job of the service, watched until its deadline.
CopyItem == Get("item") ++ Start("copy") ++ Wait("copy")

\* Sharing with nobody makes no request.  The share goes with the file.
Invite(f) == Maybe(Fill(f))

ChannelFilesFolder == Get("folder")

-----------------------------------------------------------------------------
(* Attachments of mail *)

AttachmentMetadata == Get("attachment")
\* Of an attached message these are its content.
AttachmentBytes(m) == See(m)
ListAttachments == Pages("attachment")

\* A text or base64 source needs no request, a drive item and a link two.  A
\* mail's attachment is read after the check of its sender; links and attached
\* items are refused.
ResolveAttachmentSource ==
  {<<>>}
    \cup (Get("item") ++ Get("content"))
    \cup SharedLinkBytes
    \cup (Check("mail") ++ AttachmentMetadata ++ Checked ++ AttachmentBytes("mail"))

\* A source that is no valid specification, folder or link is refused in its turn.
\* Sources hold nothing at the service, so that one round stands for all.
ResolveAttachmentSources == Checked ++ Maybe(ResolveAttachmentSource ++ Checked)

\* Text and base64 stay in the answer, OneDrive is an upload.
DeliverAttachment == {<<>>} \cup UploadAny(Add("file"))
=============================================================================
