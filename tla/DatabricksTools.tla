-------------------------- MODULE DatabricksTools --------------------------
(***************************************************************************)
(* The tools of the Databricks server (databricks_mcp.py), the commands of  *)
(* its CLI and the library they call (dbx/client.py).  A statement that     *)
(* reads and one that changes data are told apart, what they say is not.    *)
(***************************************************************************)
EXTENDS CallSteps

\* The configuration is checked before connecting.  The connection is closed in any
\* case.
Connected(statement) ==
  Checked ++ Make("session") ++ Own("session") ++ statement ++ Close("session")

\* The connector asks for the state of a statement that still runs, and for its
\* rows, up to one more than the cap, unless they came with it: requests that can
\* fail when what the statement changes has taken effect.
Executed(statement) == statement ++ Maybe(Get("state")) ++ Maybe(Get("rows"))

RunQuery == Connected(Executed(Get("statement") \cup Put("data")))

\* Catalogs, schemas and tables are what SHOW statements return.
ShowStatement == Connected(Executed(Get("statement")))
ListCatalogs == ShowStatement
ListSchemas == ShowStatement
ListTables == ShowStatement

\* The token is taken on the event loop, the statement runs in a thread.  A tool that
\* waits no longer for the thread has a lost reply: the statement goes on.
RunDb(P) == Token ++ P

RunQueryTool == Checked ++ RunDb(RunQuery)
ListCatalogsTool == RunDb(ListCatalogs)
ListSchemasTool == Checked ++ RunDb(ListSchemas)
ListTablesTool == Checked ++ RunDb(ListTables)

\* The library takes the token when it connects.
CmdQuery == Checked ++ Token ++ RunQuery
CmdWhoami == Checked ++ Token ++ ShowStatement
CmdLists == Checked ++ Token ++ (ListCatalogs \cup ListSchemas \cup ListTables)

DatabricksCalls ==
  Calls("run_query", RunQueryTool)
    \cup Calls("list", ListCatalogsTool \cup ListSchemasTool \cup ListTablesTool)
    \cup Calls("query", CmdQuery)
    \cup Calls("cli", CmdWhoami \cup CmdLists)
=============================================================================
