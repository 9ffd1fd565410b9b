----------------------------- MODULE FileTools -----------------------------
(***************************************************************************)
(* The file, document, calendar, people and Power BI tools of the Microsoft *)
(* server (ms_graph_mcp.py) and the library functions they call             *)
(* (ms_graph/workbook*.py, calendar.py, people.py, photos.py, power_bi.py). *)
(* What edits do to the content of a document is left out: parsing them and *)
(* applying them to a Word file either succeed or return an error.          *)
(***************************************************************************)
EXTENDS GraphFiles

-----------------------------------------------------------------------------
(* Files *)

ListSharepointSites == Token ++ Get("sites")

\* A link, a search or a folder.  Statuses of a link are reported in words.
ListFiles == Token ++ (FolderListing \cup SearchFiles)

InspectChecks == Checked

\* Metadata; bytes or a thumbnail unless the item is a folder or too large; text
\* as it is, or extracted when it is not.
InspectFile ==
  InspectChecks ++ Token
    ++ (Get("item")
          \cup (Get("item") ++ Checked ++ (Get("content") \cup Thumbnail) ++ Checked)
          \cup (DriveItemContent ++ Maybe(Get("content"))))

\* Renaming, copying and deleting report a missing item.
ManageFile == Checked ++ Token ++ (CopyItem \cup DeleteItem \cup RenameItem)

\* The content is decoded or the document generated first; its size is checked.
UploadNewFile == Checked ++ Token ++ (Refuse \cup UploadBytes \cup UploadFile)

-----------------------------------------------------------------------------
(* Word documents: read, edited here, written back *)

ParseEdits == Checked
ApplyEdits == Checked
EditWord == ParseEdits ++ Get("content") ++ ApplyEdits ++ OverwriteBytes

-----------------------------------------------------------------------------
(* Workbooks: edited by the service, one request per operation *)

UsedRange == Get("range")
SetRange == Put("range")
InsertRange == Put("range")
DeleteRange == Put("range")

\* A column is added after the used range.
AddColumn == UsedRange ++ SetRange
Dispatch == SetRange \cup InsertRange \cup DeleteRange \cup AddColumn

\* The sheets are listed; then each operation; a failure ends the edit with what has
\* been done.
WorkbookOperations == Get("sheets") ++ Dispatch ++ Maybe(Dispatch)

\* Edits run in a session if the service gives one; it is closed in any case.
ApplyWorkbookEdits ==
  (Make("session") ++ Own("session") ++ WorkbookOperations ++ Close("session"))
    \cup (Tolerant(Get("refused session")) ++ WorkbookOperations)

EditExcel == ParseEdits ++ ApplyWorkbookEdits

\* The item tells which editor to use; other types are refused.
EditDocument(editor) == Checked ++ Token ++ Get("item") ++ (Refuse \cup editor)

-----------------------------------------------------------------------------
(* Calendar *)

CalendarView == Get("events")
CalendarEvent == Get("event")
NewEvent == Add("event")
Schedules == Get("schedules")

ListCalendarEvents == Checked ++ Token ++ CalendarView
GetCalendarEvent == Checked ++ Token ++ CalendarEvent
CreateCalendarEvent == Checked ++ Token ++ NewEvent
CheckAvailability == Checked ++ Token ++ Schedules ++ Checked

-----------------------------------------------------------------------------
(* People.  A missing scope for the directory is a refused request. *)

DirectoryUser == Get("user")
DirectorySearch == Maybe(Get("users"))
PhotoMetadata == Optional("photo")
PhotoBytes == Optional("photo")

\* Somebody else's profile, or the user's own with its mailbox settings; then the
\* photo, if there is one.
ProfileOf ==
  (DirectoryUser ++ Checked)
    \cup (Get("profile") ++ Tolerant(Get("mailbox settings")))

GetProfileTool ==
  Checked ++ Token ++ ProfileOf ++ Maybe(PhotoMetadata ++ Maybe(PhotoBytes))
    ++ Checked

SearchPeople == {<<>>} \cup (Token ++ DirectorySearch)

\* Without a token the answer says so; the profile is best effort.
ConnectionStatus ==
  BestEffort(Token
    ++ Get("profile") ++ Get("mailbox settings"))

-----------------------------------------------------------------------------
(* Power BI *)

Workspaces == Get("workspaces")
WorkspaceItems == Maybe(Get("datasets")) ++ Maybe(Get("reports"))
                    ++ Maybe(Get("dashboards"))
ExecuteDaxQuery == Get("rows")
TriggerRefresh == Add("refresh")

\* The export is a job; its result is downloaded and vanishes by itself.
StartExport == Start("export")
PollExport == Wait("export")
DownloadExport == Get("export")

ListPowerbi == (Token ++ Workspaces) \cup (Checked ++ Token ++ WorkspaceItems)
QueryDataset == Token ++ ExecuteDaxQuery
RefreshDataset == Token ++ TriggerRefresh

\* The second token is for the upload: without it the export was in vain.
ExportReport ==
  Checked ++ Token ++ StartExport ++ PollExport ++ DownloadExport
    ++ Token ++ UploadBytes

FileCalls ==
  Calls("list_sharepoint_sites", ListSharepointSites)
    \cup Calls("list_files", ListFiles)
    \cup Calls("inspect_file", InspectFile)
    \cup Calls("manage_file", ManageFile \cup UploadNewFile)
    \cup Calls("edit_document (Word)", EditDocument(EditWord))
    \cup Calls("edit_document (Excel)", EditDocument(EditExcel))
    \cup Calls("list_calendar_events", ListCalendarEvents)
    \cup Calls("get_calendar_event", GetCalendarEvent)
    \cup Calls("create_calendar_event", CreateCalendarEvent)
    \cup Calls("check_availability", CheckAvailability)
    \cup Calls("get_profile", GetProfileTool)
    \cup Calls("search_people", SearchPeople)
    \cup Calls("connection_status", ConnectionStatus)
    \cup Calls("list_powerbi", ListPowerbi)
    \cup Calls("query_dataset", QueryDataset)
    \cup Calls("refresh_dataset", RefreshDataset)
    \cup Calls("export_report", ExportReport)
=============================================================================
