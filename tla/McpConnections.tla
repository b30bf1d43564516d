--------------------------- MODULE McpConnections ---------------------------
(***************************************************************************)
(* The agents that ask McpConnectionPool for the client of an MCP server:  *)
(* the pool, the openings under way, and the credential whose token a      *)
(* client carries (Credentials).  The pool is the only caller of           *)
(* readMaterial, so the readers of that module are the callers here; each  *)
(* process has its own pool.                                               *)
(*                                                                         *)
(* Abstracted: the servers' tools, the wrapping of their calls, bindings   *)
(* and scopes (an agent without them asks for no client).  A client is a   *)
(* number, and an agent that has been answered may ask again.              *)
(***************************************************************************)
EXTENDS Credentials

CONSTANTS
  Stopping,     \* the processes whose container is stopped while agents run
  Asks,         \* the pairs of home and key to look at
  Servers,      \* MCP servers that take this credential
  NoOne,        \* no caller
  MaxClients    \* bound: number of clients opened

ASSUME McpAssumption ==
  /\ NoOne \notin Readers /\ MaxClients \in Nat
  /\ Stopping \subseteq Processes
  /\ Asks \subseteq [Readers -> Processes] \X [Readers -> Servers]

VARIABLES
  key,       \* key[r]: the server the agent asks for
  caller,    \* caller[r]: a call of getClient; of: the opening it waits for
  pool,      \* pool[p][s]: the client, 0 if there is none
  opening,   \* opening[p][s]: the caller whose promise inFlight holds
  closing,   \* closing[p]: the clients closeAll awaits
  clients,   \* number of clients opened
  live,      \* the clients that are open
  shut       \* history: the processes whose pool was closed

mcpVars == <<key, caller, pool, opening, closing, clients, live, shut>>
vars == <<credVars, mcpVars>>

CallerPc   == {"idle", "reading", "connect", "waiting"}
IdleCaller == [pc |-> "idle", of |-> NoOne]

Init ==
  /\ CredInit
  /\ \E ask \in Asks : home = ask[1] /\ key = ask[2]
  /\ caller = [r \in Readers |-> IdleCaller]
  /\ pool = [p \in Processes |-> [s \in Servers |-> 0]]
  /\ opening = [p \in Processes |-> [s \in Servers |-> NoOne]]
  /\ closing = [p \in Processes |-> {}]
  /\ clients = 0 /\ live = {} /\ shut = {}

\* Openings that have not settled count against the bound.
Opens(r) == caller[r].pc \in {"reading", "connect"}
Opened   == clients + Cardinality({r \in Readers : Opens(r)})

Pooled(r)  == pool[home[r]][key[r]]
Opening(r) == opening[home[r]][key[r]]

\* Variant: the promise is not looked up.
AlwaysOpens(r) == TRUE

\* getOrOpenEntry finds no promise.
OpensAnew(r) == Opening(r) = NoOne

\* getOrOpenEntry: the pool, the opening under way, or an opening of its own.
GetClient(r) ==
  /\ caller[r].pc = "idle"
  /\ \/ /\ Pooled(r) # 0
        /\ UNCHANGED <<caller, opening, reader>>
     \/ /\ Pooled(r) = 0 /\ ~OpensAnew(r)
        /\ caller' = [caller EXCEPT ![r] = [pc |-> "waiting", of |-> Opening(r)]]
        /\ UNCHANGED <<opening, reader>>
     \/ /\ Pooled(r) = 0 /\ OpensAnew(r) /\ Opened < MaxClients
        /\ caller' = [caller EXCEPT ![r] = [IdleCaller EXCEPT !.pc = "reading"]]
        /\ opening' = [opening EXCEPT ![home[r]][key[r]] = r]
        /\ reader' = [reader EXCEPT ![r].pc = "query"]
  /\ UNCHANGED <<store, status, issued, expired, accepted, flight, writer, session, home, writes,
                 faults, used, stale, crossed, torn,
                 key, pool, closing, clients, live, shut>>

\* Variant: an opening that fails is not forgotten.
ForgetsIf(r, ok) == IF ok THEN NoOne ELSE Opening(r)

\* The finally of the opening deletes whatever promise is under its key.
Forgets(r, ok) == NoOne

\* The promise settles, with a client or an error, for its caller and for those who wait for it.
Settle(r, ok) ==
  /\ caller' = [q \in Readers |-> IF q = r \/ (caller[q].pc = "waiting" /\ caller[q].of = r)
                                  THEN IdleCaller ELSE caller[q]]
  /\ opening' = [opening EXCEPT ![home[r]][key[r]] = Forgets(r, ok)]

\* readAccessToken: there is no material, or none whose access token it can read.
HasNoToken(r) == reader[r].pc = "failed" \/ reader[r].mat.pushed

TokenRead(r) ==
  /\ caller[r].pc = "reading" /\ reader[r].pc \in {"done", "failed"}
  /\ reader' = [reader EXCEPT ![r] = IdleReader]
  /\ IF HasNoToken(r) THEN Settle(r, FALSE)
     ELSE /\ caller' = [caller EXCEPT ![r].pc = "connect"]
          /\ UNCHANGED opening
  /\ UNCHANGED <<store, status, issued, expired, accepted, flight, writer, session, home, writes,
                 faults, used, stale, crossed, torn,
                 key, pool, closing, clients, live, shut>>

\* clientFactory.open returns: the client enters the pool.
Connected(r) ==
  /\ caller[r].pc = "connect"
  /\ clients' = clients + 1 /\ live' = live \cup {clients'}
  /\ pool' = [pool EXCEPT ![home[r]][key[r]] = clients']
  /\ Settle(r, TRUE)
  /\ UNCHANGED <<credVars, key, closing, shut>>

ConnectFails(r) ==
  /\ caller[r].pc = "connect" /\ Fault("connect")
  /\ Settle(r, FALSE)
  /\ UNCHANGED <<store, status, issued, expired, accepted, reader, flight, writer, session, home,
                 writes, used, stale, crossed, torn,
                 key, pool, closing, clients, live, shut>>

\* closeAll closes the clients that are in the pool and awaits them ...
CloseAll(p) ==
  /\ p \notin shut /\ Fault("closeAll")
  /\ shut' = shut \cup {p}
  /\ closing' = [closing EXCEPT ![p] = {pool[p][s] : s \in Servers} \ {0}]
  /\ UNCHANGED <<store, status, issued, expired, accepted, reader, flight, writer, session, home,
                 writes, used, stale, crossed, torn,
                 key, caller, pool, opening, clients, live>>

\* ... then clears both maps, whatever has entered them meanwhile.
Cleared(p) ==
  /\ p \in shut /\ closing[p] # {0}
  /\ live' = live \ closing[p]
  /\ closing' = [closing EXCEPT ![p] = {0}]
  /\ pool' = [pool EXCEPT ![p] = [s \in Servers |-> 0]]
  /\ opening' = [opening EXCEPT ![p] = [s \in Servers |-> NoOne]]
  /\ UNCHANGED <<credVars, key, caller, clients, shut>>

McpStep ==
  \/ \E r \in Readers : \/ GetClient(r) \/ TokenRead(r) \/ Connected(r) \/ ConnectFails(r)
  \/ \E p \in Stopping : CloseAll(p) \/ Cleared(p)

Next == (CredStep /\ UNCHANGED mcpVars) \/ McpStep

Spec == Init /\ [][Next]_vars

-----------------------------------------------------------------------------
(* Properties. *)

McpTypeOK ==
  /\ CredTypeOK
  /\ key \in [Readers -> Servers]
  /\ caller \in [Readers -> [pc : CallerPc, of : Readers \cup {NoOne}]]
  /\ pool \in [Processes -> [Servers -> 0..MaxClients]]
  /\ opening \in [Processes -> [Servers -> Readers \cup {NoOne}]]
  /\ closing \in [Processes -> SUBSET (0..MaxClients)]
  /\ clients \in 0..MaxClients /\ live \subseteq 1..clients /\ shut \subseteq Processes

\* Every open client is in the pool of its process, where it can be found and closed, and no
\* process opens a second one for a server while it has one: unless its pool was closed while
\* a client was being opened.
OneClientPerServer ==
  shut = {} => \A c \in live : \E p \in Processes, s \in Servers : pool[p][s] = c

\* Nobody waits for what has ended: a promise in inFlight, and one an agent or a reader waits
\* for, is of an opening or a refresh that goes on, also after the pool was closed under it and
\* when the one that opens or refreshes fails.
PromisesSettle ==
  /\ \A p \in Processes, s \in Servers : opening[p][s] # NoOne => Opens(opening[p][s])
  /\ \A r \in Readers : /\ caller[r].pc = "waiting" => Opens(caller[r].of)
                        /\ reader[r].pc = "joined" => flight[home[r]].pc # "none"
=============================================================================
