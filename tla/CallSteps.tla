----------------------------- MODULE CallSteps -----------------------------
(***************************************************************************)
(* The notation in which the tools of the MCP servers are written down.     *)
(*                                                                          *)
(* A tool is the set of paths its handler can take: on a path, the requests *)
(* in the handler's order, with the early returns between them and the      *)
(* blocks that catch a failure.  There is one path for each way arguments   *)
(* and answers can steer the handler.  Sets of paths are put together as    *)
(* regular expressions are: P ++ Q (P, then Q), P \cup Q (one of them),     *)
(* Maybe(P).  What a request carries, how an answer is laid out and which   *)
(* of several error texts a caller reads are left out.                      *)
(*                                                                          *)
(* A step of a path:                                                        *)
(*   do      what it does (see the constructors)                            *)
(*   on      the thing it is about                                          *)
(*   ends    helper things that stop being helpers when it lands            *)
(*   caught  the failures that a block around it swallows: the service      *)
(*           "refused" it (an error status, GraphError and its kin), or the *)
(*           reply was "lost" (a transport error, which is no GraphError)   *)
(*   leaves  how many steps the swallowing block leaves out                 *)
(***************************************************************************)
EXTENDS Naturals, Sequences

\* An early return ends its path.
Stops(p) == p # <<>> /\ p[Len(p)].do = "refuse"

P ++ Q == {p \in P : Stops(p)}
            \cup {p \o q : p \in {p \in P : ~Stops(p)}, q \in Q}
Maybe(P) == P \cup {<<>>}

Step(do, on) ==
  {<<[do |-> do, on |-> on, ends |-> {}, caught |-> {}, leaves |-> 0]>>}

\* Steps that make no request
Refuse    == Step("refuse", "input")      \* return an error to the caller
Judge(m)  == Step("judge", m)             \* sender check of mail at hand
Filter    == Step("filter", "mail")       \* drop hidden mail from a listing
Own(x)    == Step("own", x)               \* from here a failure discards x

\* Requests that change nothing
Token     == Step("token", "connection")  \* the provider token, or no call
Get(x)    == Step("get", x)               \* metadata, listings, foreign content
See(m)    == Step("see", m)               \* the answer holds content of mail m
Check(m)  == Step("check", m)             \* sender check of m by its id

\* Requests that change something
Put(x)    == Step("put", x)               \* update in place
Add(x)    == Step("add", x)               \* create what the caller asked for
Drop(x)   == Step("drop", x)              \* delete what the caller named
Send(x)   == Step("send", x)              \* deliver mail: it cannot be recalled
Post(x)   == Step("post", x)              \* publish a message with its files
Make(x)   == Step("make", x)              \* a helper: draft, session, upload
Fill(x)   == Step("fill", x)              \* write into a helper
Close(x)  == Step("close", x)             \* discard a helper in any case
Start(j)  == Step("start", j)             \* start a job that runs at the service
Wait(j)   == Step("wait", j)              \* poll the job until it ends

Reads  == {"token", "get", "see", "check"}
Goals  == {"put", "add", "drop", "send", "post"}   \* what outlives the call
Writes == Goals \cup {"make", "fill", "start"}
Lasting == {"copy"}                                \* jobs whose result does too

\* The last step of each path of P also turns the helpers into results.
Ending(P, things) == {[p EXCEPT ![Len(p)].ends = things] : p \in P}

\* A try block around P: a failure of a kind in kinds leaves out the rest of it.
Try(kinds, P) ==
  {[i \in DOMAIN p |-> [p[i] EXCEPT !.caught = kinds, !.leaves = Len(p) - i]]
     : p \in P}
Tolerant(P)   == Try({"refused"}, P)               \* except GraphError
BestEffort(P) == Try({"refused", "lost"}, P)       \* except Exception

\* Arguments are checked: the call goes on, or returns an error at this point.
Checked == {<<>>} \cup Refuse

\* The calls of a tool, for the set of all calls of a server.
Calls(name, P) == {[tool |-> name, steps |-> p] : p \in P}
=============================================================================
