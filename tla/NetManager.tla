---------------------------- MODULE NetManager -----------------------------
(***************************************************************************)
(* The static HTTP servers of the kernel (net.ts, behind the net           *)
(* capabilities).  serve() checks the name, then binds the port; only the  *)
(* 'listening' callback, a later tick, enters the server into the map.  A  *)
(* request looks its server's entry up by NAME when it arrives and counts  *)
(* itself there once the file has been read.  close() ends the accepting   *)
(* of connections, not the connections: one that is open goes on to bring  *)
(* requests.                                                               *)
(***************************************************************************)
EXTENDS Integers, Functions

CONSTANTS Names, Ports,
          Servers,     \* bound: server objects created during the run
          Requests     \* bound: HTTP requests made during the run

NoServer == "noserver"
NoName == "noname"
NoPort == 0

VARIABLES
    up,      \* the kernel process is running
    table,   \* the servers map: the server of each name, or NoServer
    server,  \* the server objects with their entries
    request, \* the requests
    conns,   \* the servers some client has a connection open to
    late     \* ghost: the servers that took a request after their close()

links == <<conns, late>>
vars  == <<up, table, server, request, conns, late>>

(* `requests` is the entry's counter; `served` (ghost) counts the requests *)
(* this very server took and has finished; `rival` (ghost) says that it    *)
(* was bound while another of its name was.                                *)
Server == [state : {"unused", "binding", "listening", "closed"},
           name : Names \cup {NoName}, port : Ports \cup {NoPort},
           requests : Nat, served : Nat, rival : BOOLEAN]

(* `at` is the server that took the request, `entry` the entry found.      *)
Request == [state : {"none", "open", "done", "fatal"}, at : Servers \cup {NoServer},
            entry : Servers \cup {NoServer}]

TypeOK ==
    /\ up \in BOOLEAN
    /\ table \in [Names -> Servers \cup {NoServer}]
    /\ server \in [Servers -> Server]
    /\ request \in [Requests -> Request]
    /\ conns \subseteq Servers /\ late \subseteq Servers

Init ==
    /\ up = TRUE
    /\ table = [n \in Names |-> NoServer]
    /\ server = [s \in Servers |->
                   [state |-> "unused", name |-> NoName, port |-> NoPort,
                    requests |-> 0, served |-> 0, rival |-> FALSE]]
    /\ request = [r \in Requests |->
                    [state |-> "none", at |-> NoServer, entry |-> NoServer]]
    /\ conns = {} /\ late = {}

In(state) == {s \in Servers : server[s].state = state}
PortTaken(p) == \E s \in In("listening") : server[s].port = p

(* Mutant: an existing server of that name is no obstacle.                 *)
nameFreeAlways(n) == TRUE

nameFree(n) == table[n] = NoServer

Rivals(n) == {t \in In("binding") : server[t].name = n}

(* Which of the unused objects createServer returns makes no difference.   *)
created == CHOOSE s \in In("unused") : TRUE

serve(s, n, p) ==
    /\ up /\ server[s].state = "unused" /\ s = created
    /\ nameFree(n)
    /\ server' = [t \in Servers |->
         IF t = s THEN [server[s] EXCEPT !.state = "binding", !.name = n,
                                         !.port = p, !.rival = Rivals(n) # {}]
         ELSE [server[t] EXCEPT !.rival = @ \/ t \in Rivals(n)]]
    /\ UNCHANGED <<up, table, request, links>>

(* The 'listening' callback.                                               *)
Listening(s) ==
    /\ up /\ server[s].state = "binding" /\ ~PortTaken(server[s].port)
    /\ server' = [server EXCEPT ![s].state = "listening"]
    /\ table' = [table EXCEPT ![server[s].name] = s]
    /\ UNCHANGED <<up, request, links>>

(* The 'error' callback (the port is in use): the call is rejected.        *)
BindFails(s) ==
    /\ up /\ server[s].state = "binding" /\ PortTaken(server[s].port)
    /\ server' = [server EXCEPT ![s].state = "closed"]
    /\ UNCHANGED <<up, table, request, links>>

close(s) == server' = [server EXCEPT ![s].state = "closed"]

stop(n) ==
    /\ up /\ table[n] # NoServer
    /\ close(table[n])
    /\ table' = [table EXCEPT ![n] = NoServer]
    /\ UNCHANGED <<up, request, links>>

Connects(s) ==
    /\ up /\ server[s].state = "listening"
    /\ conns' = conns \cup {s}
    /\ UNCHANGED <<up, table, server, request, late>>

Disconnects(s) ==
    /\ up /\ s \in conns
    /\ conns' = conns \ {s}
    /\ UNCHANGED <<up, table, server, request, late>>

(* A request comes on a connection that is open, if its server is closed   *)
(* or not.                                                                 *)
reaches(r, s) ==
    /\ up /\ request[r].state = "none" /\ s \in conns
    /\ late' = IF server[s].state = "closed" THEN late \cup {s} ELSE late
    /\ UNCHANGED conns

(* handle(): the entry is looked up before the first await ...             *)
Arrives(r, s) ==
    /\ reaches(r, s)
    /\ request' = [request EXCEPT ![r] = [state |-> "open", at |-> s,
                                          entry |-> table[server[s].name]]]
    /\ UNCHANGED <<up, table, server>>

(* A path that cannot be decoded throws before the try: the rejection of   *)
(* handle(), which nobody handles, ends the kernel process.                *)
Malformed(r, s) ==
    /\ reaches(r, s)
    /\ request' = [request EXCEPT ![r].state = "fatal"]
    /\ up' = FALSE
    /\ UNCHANGED <<table, server>>

(* Mutant: the entry is looked up again when the request is counted.       *)
countedOnLate(r) == table[server[request[r].at].name]

countedOn(r) == request[r].entry

(* ... and counted on after the last, whatever the outcome (200 or 404).   *)
Answered(r) ==
    /\ up /\ request[r].state = "open"
    /\ request' = [request EXCEPT ![r].state = "done"]
    /\ server' = [s \in Servers |->
         [server[s] EXCEPT !.served = IF s = request[r].at THEN @ + 1 ELSE @,
                           !.requests = IF s = countedOn(r) THEN @ + 1 ELSE @]]
    /\ UNCHANGED <<up, table, links>>

Halt ==
    /\ up /\ up' = FALSE
    /\ server' = [s \in Servers |-> IF s \in Range(table)
                    THEN [server[s] EXCEPT !.state = "closed"] ELSE server[s]]
    /\ UNCHANGED <<table, request, links>>

Next ==
    \/ \E s \in Servers : \/ \E n \in Names, p \in Ports : serve(s, n, p)
                          \/ Listening(s) \/ BindFails(s)
                          \/ \E r \in Requests : Arrives(r, s) \/ Malformed(r, s)
                          \/ Connects(s) \/ Disconnects(s)
    \/ \E n \in Names : stop(n)
    \/ \E r \in Requests : Answered(r)
    \/ Halt

Spec == Init /\ [][Next]_vars

----------------------------------------------------------------------------
(***************************************************************************)
(* Every listed server accepts connections, and every server that accepts  *)
(* connections is the one its name reaches, so that net.list shows it and  *)
(* net.stop can close it.  The exception is a pair of net.serve calls with *)
(* one name that overlap: both pass the check, and the later callback      *)
(* overwrites the earlier entry.                                           *)
(***************************************************************************)
ListenersAreListed ==
    up => /\ \A n \in Names : table[n] # NoServer
               => server[table[n]].state = "listening" /\ server[table[n]].name = n
          /\ \A s \in In("listening") :
               server[s].rival \/ table[server[s].name] = s

(***************************************************************************)
(* net.ts: "request traffic is logged per server": an entry's counter is   *)
(* the number of requests that very server finished, even when the server  *)
(* is stopped and its name reused while a request is being answered.  The  *)
(* two ways to be wrong: an overlapping net.serve left an unlisted server  *)
(* behind the name, or a stopped server of that name took a request on a   *)
(* connection left open, which counts on its successor or nowhere.         *)
(***************************************************************************)
TrafficIsPerServer ==
    \A s \in Servers :
        \/ server[s].requests = server[s].served
        \/ \E t \in Servers : server[t].name = server[s].name
                               /\ (server[t].rival \/ t \in late)
=============================================================================
