---------------------------- MODULE KernelHost -----------------------------
(***************************************************************************)
(* What the kernel process runs on its host: background processes, HTTP    *)
(* servers and shell commands.  The three share the kernel's event loop    *)
(* and its life: shutdown (index.ts) ends the servers, signals the         *)
(* processes and exits in one tick, whatever each of them was doing.       *)
(***************************************************************************)
EXTENDS Integers

CONSTANTS MaxSpawns,                        \* see ProcessManager
          Names, Ports, Servers, Requests,  \* see NetManager
          Execs, MaxKids, AllowDestructive  \* see ShellExec

VARIABLES up,
          seq, proc, crashed,                    \* see ProcessManager
          table, server, request, conns, late,   \* see NetManager
          exec                                   \* see ShellExec

P == INSTANCE ProcessManager
N == INSTANCE NetManager
X == INSTANCE ShellExec

ASSUME HostAssumption ==
    /\ MaxSpawns \in Nat /\ MaxKids \in Nat /\ AllowDestructive \in BOOLEAN
    /\ N!NoServer \notin Servers /\ N!NoName \notin Names /\ N!NoPort \notin Ports

procs == <<seq, proc, crashed>>
nets  == <<table, server, request, conns, late>>
vars  == <<up, procs, nets, exec>>

Init == P!Init /\ N!Init /\ X!Init

(* index.ts shutdown(), on SIGINT or SIGTERM.                              *)
Halt == P!Halt /\ N!Halt /\ X!Halt

(* An HTTP request that handle() cannot decode ends the process under all  *)
(* three, without a shutdown().                                            *)
Crash == /\ \E r \in Requests, s \in Servers : N!Malformed(r, s)
         /\ P!Crash /\ X!Halt

Procs(i) ==
    /\ \/ \E sig \in {"term", "kill"} : P!stop(i, sig)
       \/ P!remove(i) \/ P!ChildExits(i) \/ P!Forks(i) \/ P!StrayEnds(i)
    /\ UNCHANGED <<nets, exec>>

Spawns == (\E ok \in BOOLEAN : P!spawn(ok)) /\ UNCHANGED <<nets, exec>>

Nets ==
    /\ \/ \E s \in Servers : \/ \E n \in Names, p \in Ports : N!serve(s, n, p)
                              \/ N!Listening(s) \/ N!BindFails(s)
                              \/ \E r \in Requests : N!Arrives(r, s)
                              \/ N!Connects(s) \/ N!Disconnects(s)
       \/ \E n \in Names : N!stop(n)
       \/ \E r \in Requests : N!Answered(r)
    /\ UNCHANGED <<procs, exec>>

Shells(e) ==
    /\ \/ \E bad \in BOOLEAN :
            X!Refuse(e, bad) \/ X!Spawn(e, bad) \/ X!SpawnFails(e, bad)
       \/ X!Forks(e) \/ X!Detaches(e) \/ X!KidEnds(e) \/ X!StrayEnds(e)
       \/ X!ShellExits(e) \/ X!ShellSignalled(e)
    /\ UNCHANGED <<procs, nets>>

(* The callbacks of shell.exec.                                            *)
Events(e) == /\ X!OnTimeout(e) \/ X!OnClose(e) \/ X!OnError(e)
             /\ UNCHANGED <<procs, nets>>

Next ==
    \/ Spawns \/ \E i \in P!Ids : Procs(i)
    \/ Nets
    \/ \E e \in Execs : Shells(e) \/ Events(e)
    \/ Halt \/ Crash

Spec == Init /\ [][Next]_vars

(* Only the kernel's own loop is fair: while it runs, timers fire and      *)
(* events are delivered.  Nothing makes a command end.                     *)
FairSpec == Spec /\ \A e \in Execs : WF_vars(Events(e))

----------------------------------------------------------------------------
(* What is promised of each part, with the others running beside it.       *)

(* proc: the list tells which shells run, and none is lost by proc.remove  *)
(* or unsignalled by a shutdown.                                           *)
ProcessesAreKnown == P!ShellsAreKnown

(* net: what listens is listed and what is listed listens.                 *)
ListenersAreListed == N!ListenersAreListed

(* net: the counter of an entry counts its own server's requests, but for  *)
(* names with overlapping servers or requests to a stopped one.            *)
TrafficIsPerServer == N!TrafficIsPerServer

(* shell.exec: the exit code tells what became of the command (0 excepted, *)
(* which also stands for a shell ended by a signal), and no output can     *)
(* still come.                                                             *)
AnswerIsTrue == X!AnswerIsTrue

(* shell.exec: the call is answered, also for a command that never ends.   *)
CallIsAnswered == X!CallIsAnswered
=============================================================================
