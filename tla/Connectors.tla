----------------------------- MODULE Connectors -----------------------------
(***************************************************************************)
(* One MCP server and the child processes started for it: McpServerManager *)
(* of shared/mcpServer.ts.  Starting does not look whether the server runs *)
(* already, and events of a child are about the server, whichever child it *)
(* has now.  Sealed, as in this release, nothing is ever started.          *)
(***************************************************************************)
EXTENDS Naturals

CONSTANT Children  \* 1..n, in the order in which they are started

VARIABLES
  sealed,      \* mcpActivation is false
  transport,   \* "stdio" or "http"
  status,      \* state of the server
  registered,  \* its child in the map of processes, or 0
  child,       \* what each child is doing; killed: told to end, and perhaps still running
  starting,    \* where the start that waits for a child is
  tools        \* the server's tools are known

connectorVars == <<sealed, transport, status, registered, child, starting, tools>>

ServerTypeOK ==
  /\ sealed \in BOOLEAN /\ tools \in BOOLEAN
  /\ transport \in {"stdio", "http"}
  /\ status \in {"disabled", "connecting", "active", "failed"}
  /\ registered \in Children \cup {0}
  /\ child \in [Children -> {"unborn", "running", "killed", "gone"}]
  /\ starting \in [Children -> {"none", "initialize", "list", "http"}]

\* initialize
ServerInit ==
  /\ sealed \in BOOLEAN
  /\ transport \in {"stdio", "http"}
  /\ status = "disabled" /\ registered = 0 /\ tools = FALSE
  /\ child = [k \in Children |-> "unborn"]
  /\ starting = [k \in Children |-> "none"]

-----------------------------------------------------------------------------

IsNext(k) == starting[k] = "none" /\ child[k] = "unborn" /\ \A j \in 1..(k - 1) : child[j] # "unborn"

\* startAll and startServer: a process is spawned, or the endpoint is asked.
Start(k) ==
  /\ ~sealed /\ IsNext(k)
  /\ status' = "connecting"
  /\ IF transport = "stdio"
     THEN /\ child' = [child EXCEPT ![k] = "running"]
          /\ registered' = k
          /\ starting' = [starting EXCEPT ![k] = "initialize"]
     ELSE /\ child' = [child EXCEPT ![k] = "gone"]
          /\ starting' = [starting EXCEPT ![k] = "http"]
          /\ UNCHANGED registered
  /\ UNCHANGED <<sealed, transport, tools>>

\* startHttpServer: the address is unsafe, unreachable within 5 s, or answers.
HttpAnswers(k) ==
  /\ starting[k] = "http"
  /\ status' \in {"active", "failed"}
  /\ starting' = [starting EXCEPT ![k] = "none"]
  /\ UNCHANGED <<sealed, transport, registered, child, tools>>

\* discoverTools: the handshake is answered, then the list of tools.  What a
\* child wrote before it went is still read.
Answer(k) ==
  /\ starting[k] \in {"initialize", "list"}
  /\ IF starting[k] = "initialize"
     THEN starting' = [starting EXCEPT ![k] = "list"] /\ UNCHANGED <<status, tools>>
     ELSE /\ starting' = [starting EXCEPT ![k] = "none"]
          /\ status' = "active" /\ tools' = TRUE
  /\ UNCHANGED <<sealed, transport, registered, child>>

\* The children when the registered one is told to end.
Killing == [k \in Children |-> IF k = registered /\ child[k] = "running" THEN "killed" ELSE child[k]]

\* Mutant: the process is forgotten and not killed.
ForgetServer == registered' = 0 /\ status' = "disabled" /\ UNCHANGED child

\* killServer
KillServer == registered' = 0 /\ status' = "disabled" /\ child' = Killing

\* Mutant: a request that is not answered waits.
AwaitAnswer(k) ==
  /\ starting[k] \in {"initialize", "list"} /\ child[k] = "gone"
  /\ starting' = [starting EXCEPT ![k] = "none"]
  /\ KillServer
  /\ UNCHANGED <<sealed, transport, tools>>

\* An answer that is an error, or none in 10 s: "failed" is stored, and made
\* "disabled" by the killServer that follows, of whichever child is registered.
DiscoveryFails(k) ==
  /\ starting[k] \in {"initialize", "list"}
  /\ starting' = [starting EXCEPT ![k] = "none"]
  /\ KillServer
  /\ UNCHANGED <<sealed, transport, tools>>

\* stopServer and stopAll, which asks for the registered servers only.
Stop ==
  /\ ~sealed
  /\ KillServer
  /\ UNCHANGED <<sealed, transport, starting, tools>>

\* The error event of a command that could not be spawned.  That of a kill which
\* was refused comes within killServer, which overwrites what it stores.
ErrorEvent(k) ==
  /\ child[k] = "running" /\ starting[k] = "initialize"
  /\ child' = [child EXCEPT ![k] = "gone"]
  /\ registered' = 0 /\ status' = "failed"
  /\ UNCHANGED <<sealed, transport, starting, tools>>

\* The event of a child that has ended, of itself or killed.
ExitEvent(k) ==
  /\ child[k] \in {"running", "killed"}
  /\ child' = [child EXCEPT ![k] = "gone"]
  /\ registered' = 0
  /\ status' = IF status = "failed" THEN status ELSE "disabled"
  /\ UNCHANGED <<sealed, transport, starting, tools>>

ServerNext ==
  \/ \E k \in Children :
       Start(k) \/ HttpAnswers(k) \/ Answer(k) \/ DiscoveryFails(k) \/ ErrorEvent(k) \/ ExitEvent(k)
  \/ Stop

\* Both kinds of request have a timer.
TimerFires(k) == HttpAnswers(k) \/ DiscoveryFails(k)

ServerSpec == ServerInit /\ [][ServerNext]_connectorVars

-----------------------------------------------------------------------------

\* A child that runs and is not registered, so that nothing will end it, is left
\* by a start of a server that had been started before; and a server of one
\* child is not called disabled while that child runs.
OnlyRestartOrphans ==
  \A k \in Children :
    child[k] = "running" /\ (registered # k \/ status = "disabled") =>
      \E j \in Children \ {k} : child[j] # "unborn"

=============================================================================
