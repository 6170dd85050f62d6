-------------------------- MODULE KernelHostProofs --------------------------
(***************************************************************************)
(* Proofs about KernelHost, for every number of processes, servers, names, *)
(* requests and commands.  Each of the three parts has an inductive        *)
(* invariant of its own: the others touch none of its state but for the    *)
(* shutdown, which all three take part in.                                 *)
(***************************************************************************)
EXTENDS KernelHost, TLAPS

----------------------------------------------------------------------------
(* proc: the kernel believes that a living process runs, since its exit    *)
(* event is handled in the tick in which it is dead.                       *)
EntryOK(e) ==
    /\ e.alive => e.listed /\ e.status = "running" /\ (~up => e.told # "no" \/ crashed)
    /\ up /\ e.listed /\ e.status = "running" => e.alive \/ e.dud
    /\ e.dud => e.listed /\ e.status = "running" /\ ~e.alive

ProcsInv == P!TypeOK /\ \A i \in P!Ids : EntryOK(proc[i])

(* net.  What is listed listens under its name; what listens unlisted has  *)
(* had a rival; and of two servers of one name of which one still binds,   *)
(* each is known to have a rival by the time the other takes its place.    *)
NewServer == [state |-> "unused", name |-> N!NoName, port |-> N!NoPort,
              requests |-> 0, served |-> 0, rival |-> FALSE]

Named(s) == IF server[s].state = "unused" THEN server[s] = NewServer
            ELSE server[s].name \in Names

Overlaps ==
    \A s, t \in Servers :
        s # t /\ server[s].state = "binding" /\ server[t].state \in {"binding", "listening"}
          /\ server[s].name = server[t].name => server[t].rival

Used(s) == s \in Servers /\ server[s].state # "unused"

Odd(s) == server[s].rival \/ s \in late

(* A request in progress is counted where it is served, unless that server *)
(* has had a rival or was closed when it came; then it is counted at one   *)
(* of the same name, if at all.                                            *)
RequestOK(q) ==
    q.state = "open" =>
        /\ Used(q.at)
        /\ \/ q.entry = q.at
           \/ Odd(q.at) /\ q.entry = N!NoServer
           \/ /\ Odd(q.at)
              /\ Used(q.entry) /\ server[q.entry].name = server[q.at].name

(* A connection is to a server that did listen.                            *)
Connected == \A s \in conns : server[s].state \in {"listening", "closed"}

NetsInv ==
    /\ N!TypeOK
    /\ \A s \in Servers : Named(s)
    /\ N!ListenersAreListed
    /\ up => Overlaps
    /\ \A r \in Requests : RequestOK(request[r])
    /\ N!TrafficIsPerServer
    /\ Connected

(* shell.exec: a settled call has no timer any more, so nothing kills what *)
(* it reported about.                                                      *)
ExecOK(x) ==
    /\ x.sh \in {"none", "failed"} => x.kids = 0 /\ x.strays = 0
    /\ x.sh = "none" => ~x.timer /\ ~x.killed
    /\ x.code # "none" => ~x.timer
    /\ x.sh = "killed" => x.killed
    /\ x.code = "126" => x.sh = "none"
    /\ x.code = "127" => x.sh = "failed"
    /\ x.code = "124" => x.killed
    /\ x.code = "own" => x.sh = "exited" /\ ~x.killed
    /\ x.code = "null" => x.sh = "signalled" /\ ~x.killed
    /\ ~x.held

ExecsInv == X!TypeOK /\ \A e \in Execs : ExecOK(exec[e])
----------------------------------------------------------------------------
(* Each part does on the host what it does alone.                          *)

(* A step of the host is a step of every part or leaves it alone.          *)
LEMMA StepOfParts ==
  [Next]_vars => [P!Next]_(P!vars) /\ [N!Next]_(N!vars) /\ [X!Next]_(X!vars)
<1> SUFFICES ASSUME [Next]_vars
             PROVE  [P!Next]_(P!vars) /\ [N!Next]_(N!vars) /\ [X!Next]_(X!vars)
  OBVIOUS
<1>1. CASE Spawns
  BY <1>1 DEF Spawns, P!spawn, P!Next, nets, N!vars, X!vars
<1>2. ASSUME NEW i \in P!Ids, Procs(i)
      PROVE  [P!Next]_(P!vars) /\ [N!Next]_(N!vars) /\ [X!Next]_(X!vars)
  <2>1. P!Next
    BY <1>2 DEF Procs, P!Next
  <2>2. UNCHANGED <<up, nets, exec>>
    BY <1>2 DEF Procs, P!stop, P!remove, P!ChildExits, P!Forks, P!StrayEnds
  <2> QED BY <2>1, <2>2 DEF nets, N!vars, X!vars
<1>3. CASE Nets
  <2>1. N!Next
    BY <1>3 DEF Nets, N!Next
  <2>2. UNCHANGED <<up, procs, exec>>
    BY <1>3 DEF Nets, N!serve, N!Listening, N!BindFails, N!Arrives, N!stop, N!Answered,
          N!Connects, N!Disconnects
  <2> QED BY <2>1, <2>2 DEF procs, P!vars, X!vars
<1>4. ASSUME NEW e \in Execs, Shells(e) \/ Events(e)
      PROVE  [P!Next]_(P!vars) /\ [N!Next]_(N!vars) /\ [X!Next]_(X!vars)
  <2>1. X!Next
    BY <1>4 DEF Shells, Events, X!Next
  <2>2. UNCHANGED <<up, procs, nets>>
    BY <1>4 DEF Shells, Events, X!Refuse, X!Spawn, X!SpawnFails, X!OnError, X!OnClose,
          X!OnTimeout, X!Forks, X!Detaches, X!KidEnds, X!StrayEnds, X!ShellExits,
          X!ShellSignalled, X!Put
  <2> QED BY <2>1, <2>2 DEF procs, nets, P!vars, N!vars
<1>5. CASE Halt \/ Crash
  BY <1>5 DEF Halt, Crash, P!Next, N!Next, X!Next
<1>6. CASE UNCHANGED vars
  BY <1>6 DEF vars, procs, nets, P!vars, N!vars, X!vars
<1> QED BY <1>1, <1>2, <1>3, <1>4, <1>5, <1>6 DEF Next

(* The host runs the three components: its specification implements that   *)
(* of each, so what is proved of a component alone holds on the host.      *)
THEOREM HostRunsItsParts == Spec => P!Spec /\ N!Spec /\ X!Spec
<1>1. Init => P!Init /\ N!Init /\ X!Init
  BY DEF Init
<1> QED BY <1>1, StepOfParts, PTL DEF Spec, P!Spec, N!Spec, X!Spec

----------------------------------------------------------------------------
(* proc                                                                    *)

(* Nothing runs at first.                                                  *)
LEMMA InitProcs == P!Init => ProcsInv
<1> SUFFICES ASSUME P!Init PROVE ProcsInv
  OBVIOUS
<1>1. P!Unused \in P!Entry /\ ~P!Unused.alive /\ ~P!Unused.listed /\ ~P!Unused.dud
  BY DEF P!Unused, P!Entry
<1>2. seq \in 0 .. MaxSpawns
  BY HostAssumption DEF P!Init
<1>3. proc \in [P!Ids -> P!Entry] /\ \A i \in P!Ids : proc[i] = P!Unused
  BY <1>1 DEF P!Init
<1>4. up \in BOOLEAN /\ crashed \in BOOLEAN
  BY DEF P!Init
<1> QED BY <1>1, <1>2, <1>3, <1>4 DEF ProcsInv, P!TypeOK, EntryOK

(* An entry that is replaced by one in order leaves the rest in order.     *)
LEMMA PutProc ==
  ASSUME ProcsInv, NEW i \in P!Ids, NEW e \in P!Entry, EntryOK(e),
         proc' = [proc EXCEPT ![i] = e], UNCHANGED <<up, crashed>>, seq' \in 0 .. MaxSpawns
  PROVE  ProcsInv'
<1>1. proc \in [P!Ids -> P!Entry] /\ up \in BOOLEAN /\ crashed \in BOOLEAN
  BY DEF ProcsInv, P!TypeOK
<1>2. proc' \in [P!Ids -> P!Entry] /\ proc'[i] = e
        /\ \A k \in P!Ids : k # i => proc'[k] = proc[k]
  BY <1>1
<1>3. \A k \in P!Ids : EntryOK(proc'[k])
  BY <1>2 DEF ProcsInv
<1>4. \A k \in P!Ids : EntryOK(proc[k])'
  BY <1>3 DEF EntryOK
<1> QED BY <1>1, <1>2, <1>4 DEF ProcsInv, P!TypeOK

(* A signal changes nothing but what was told.                             *)
LEMMA KillFacts ==
  ASSUME NEW e \in P!Entry, NEW sig \in {"term", "kill"}
  PROVE  LET z == P!kill(e, sig)
         IN  /\ z \in P!Entry /\ z.alive = e.alive /\ z.listed = e.listed
             /\ z.status = e.status /\ z.dud = e.dud /\ (e.alive => z.told # "no")
             /\ (e.told # "no" => z.told # "no")
  BY DEF P!kill, P!Entry

(* Every step of the process manager keeps its invariant.                  *)
LEMMA NextProcs == ProcsInv /\ [P!Next]_(P!vars) => ProcsInv'
<1> SUFFICES ASSUME ProcsInv, [P!Next]_(P!vars) PROVE ProcsInv'
  OBVIOUS
<1>0. /\ proc \in [P!Ids -> P!Entry] /\ up \in BOOLEAN /\ seq \in 0 .. MaxSpawns
      /\ crashed \in BOOLEAN
      /\ \A i \in P!Ids : EntryOK(proc[i]) /\ proc[i] \in P!Entry
  BY DEF ProcsInv, P!TypeOK
<1>1. ASSUME NEW ok \in BOOLEAN, P!spawn(ok)  PROVE ProcsInv'
  <2> DEFINE a == [P!Unused EXCEPT !.listed = TRUE]
             b == [a EXCEPT !.status = "running"]
             c == [b EXCEPT !.alive = ok]
             e == [c EXCEPT !.dud = ~ok]
  <2>1. up /\ seq' = seq + 1 /\ proc' = [proc EXCEPT ![seq + 1] = e]
          /\ UNCHANGED <<up, crashed>> /\ seq < MaxSpawns
    BY <1>1 DEF P!spawn, P!Put
  <2>2. seq + 1 \in P!Ids /\ seq' \in 0 .. MaxSpawns
    BY <1>0, <2>1, HostAssumption DEF P!Ids
  <2>3. e \in P!Entry /\ EntryOK(e)
    <3>1. P!Unused \in P!Entry
      BY DEF P!Unused, P!Entry
    <3>2. a \in P!Entry /\ a.listed
      BY <3>1 DEF P!Entry
    <3> HIDE DEF a
    <3>3. b \in P!Entry /\ b.listed /\ b.status = "running"
      BY <3>2 DEF P!Entry
    <3> HIDE DEF b
    <3>4. c \in P!Entry /\ c.listed /\ c.status = "running" /\ c.alive = ok
      BY <3>3 DEF P!Entry
    <3> HIDE DEF c
    <3>5. e \in P!Entry /\ e.listed /\ e.status = "running" /\ e.alive = ok
      BY <3>4 DEF P!Entry
    <3>6. e.dud = ~ok
      BY <3>4 DEF P!Entry
    <3> QED BY <2>1, <3>5, <3>6 DEF EntryOK
  <2> HIDE DEF e
  <2> QED BY <2>1, <2>2, <2>3, PutProc
<1>2. ASSUME NEW i \in P!Ids, NEW sig \in {"term", "kill"}, P!stop(i, sig)  PROVE ProcsInv'
  <2> DEFINE k == P!kill(proc[i], sig)
             e == IF proc[i].status = "running" THEN k ELSE proc[i]
  <2>1. up /\ proc' = [proc EXCEPT ![i] = e] /\ UNCHANGED <<up, seq, crashed>>
    BY <1>2 DEF P!stop, P!Put
  <2>2. k \in P!Entry /\ k.alive = proc[i].alive /\ k.listed = proc[i].listed
          /\ k.status = proc[i].status /\ k.dud = proc[i].dud
    BY <1>0, KillFacts
  <2> HIDE DEF k
  <2>3. e \in P!Entry /\ EntryOK(e)
    BY <1>0, <2>1, <2>2 DEF EntryOK
  <2> HIDE DEF e
  <2> QED BY <1>0, <2>1, <2>3, PutProc
<1>3. ASSUME NEW i \in P!Ids, P!remove(i)  PROVE ProcsInv'
  <2> DEFINE e == [proc[i] EXCEPT !.listed = FALSE]
  <2>1. up /\ proc' = [proc EXCEPT ![i] = e] /\ UNCHANGED <<up, seq, crashed>>
          /\ proc[i].status # "running"
    BY <1>3 DEF P!remove, P!Put, P!removable
  <2>2. ~proc[i].alive /\ ~proc[i].dud
    BY <1>0, <2>1 DEF EntryOK
  <2>3. e \in P!Entry /\ e.alive = proc[i].alive /\ e.dud = proc[i].dud /\ ~e.listed
    BY <1>0 DEF P!Entry
  <2>4. EntryOK(e)
    BY <2>2, <2>3 DEF EntryOK
  <2> HIDE DEF e
  <2> QED BY <1>0, <2>1, <2>3, <2>4, PutProc
<1>4. ASSUME NEW i \in P!Ids, P!ChildExits(i)  PROVE ProcsInv'
  <2> DEFINE s == P!exitStatus(proc[i])
             a == [proc[i] EXCEPT !.alive = FALSE]
             e == [a EXCEPT !.status = s]
  <2>1. proc' = [proc EXCEPT ![i] = e] /\ UNCHANGED <<up, seq, crashed>> /\ proc[i].alive
    BY <1>4 DEF P!ChildExits, P!Put
  <2>2. s \in {"running", "exited"} /\ (up => s = "exited") /\ ~proc[i].dud
    BY <1>0, <2>1 DEF P!exitStatus, P!Entry, EntryOK
  <2>3. a \in P!Entry /\ ~a.alive /\ a.dud = proc[i].dud
    BY <1>0 DEF P!Entry
  <2> HIDE DEF s, a
  <2>4. e \in P!Entry /\ ~e.alive /\ e.dud = a.dud /\ e.status = s
    BY <2>2, <2>3 DEF P!Entry
  <2>5. EntryOK(e)
    BY <2>2, <2>3, <2>4 DEF EntryOK
  <2> HIDE DEF e
  <2> QED BY <1>0, <2>1, <2>4, <2>5, PutProc DEF a
<1>5. CASE P!Halt
  <2>1. up /\ up' = FALSE /\ proc' = [i \in P!Ids |-> P!shutdown(proc[i])] /\ seq' = seq
          /\ crashed' = crashed
    BY <1>5 DEF P!Halt
  <2>2. ASSUME NEW i \in P!Ids
        PROVE  /\ proc'[i] \in P!Entry
               /\ (proc'[i].alive => /\ proc'[i].listed /\ proc'[i].status = "running"
                                     /\ proc'[i].told # "no")
               /\ (proc'[i].dud => /\ proc'[i].listed /\ proc'[i].status = "running"
                                   /\ ~proc'[i].alive)
    <3> DEFINE k == P!kill(proc[i], "term")
    <3>1. k \in P!Entry /\ k.alive = proc[i].alive /\ k.listed = proc[i].listed
            /\ k.status = proc[i].status /\ (proc[i].alive => k.told # "no")
            /\ k.dud = proc[i].dud
      BY <1>0, KillFacts
    <3> HIDE DEF k
    <3>2. proc'[i] =
            IF proc[i].listed /\ proc[i].status = "running" THEN k ELSE proc[i]
      BY <2>1 DEF P!shutdown, k
    <3> QED BY <1>0, <2>1, <3>1, <3>2 DEF EntryOK
  <2>3. proc' \in [P!Ids -> P!Entry]
    BY <2>1, <2>2
  <2>4. P!TypeOK'
    BY <1>0, <2>1, <2>3 DEF P!TypeOK
  <2> QED BY <2>1, <2>2, <2>4 DEF ProcsInv, EntryOK
<1>6. CASE UNCHANGED P!vars
  BY <1>0, <1>6 DEF P!vars, ProcsInv, P!TypeOK, EntryOK
<1>7. CASE P!Crash
  BY <1>0, <1>7 DEF P!Crash, ProcsInv, P!TypeOK, EntryOK
<1>8. ASSUME NEW i \in P!Ids, P!Forks(i) \/ P!StrayEnds(i)  PROVE ProcsInv'
  <2>1. PICK b \in BOOLEAN : /\ proc' = [proc EXCEPT ![i] = [proc[i] EXCEPT !.stray = b]]
                             /\ UNCHANGED <<up, seq, crashed>>
    BY <1>8 DEF P!Forks, P!StrayEnds, P!Put
  <2> DEFINE e == [proc[i] EXCEPT !.stray = b]
  <2>2. e \in P!Entry /\ e.alive = proc[i].alive /\ e.listed = proc[i].listed
          /\ e.status = proc[i].status
    BY <1>0 DEF P!Entry
  <2>3. e.told = proc[i].told /\ e.dud = proc[i].dud
    BY <1>0 DEF P!Entry
  <2> HIDE DEF e
  <2>4. EntryOK(e)
    BY <1>0, <2>2, <2>3 DEF EntryOK
  <2> QED BY <1>0, <2>1, <2>2, <2>4, PutProc DEF e
<1> QED BY <1>1, <1>2, <1>3, <1>4, <1>5, <1>6, <1>7, <1>8 DEF P!Next

(* proc.list tells which shells run, but for one that could not be         *)
(* spawned, and a shutdown leaves no shell behind that it did not signal.  *)
THEOREM ProcessesCorrect == Spec => []ProcessesAreKnown
<1>1. ProcsInv => ProcessesAreKnown
  BY DEF ProcsInv, EntryOK, ProcessesAreKnown, P!ShellsAreKnown
<1> QED BY <1>1, InitProcs, NextProcs, StepOfParts, PTL DEF Spec, Init

----------------------------------------------------------------------------
(* shell.exec                                                              *)

(* No call was made at first.                                              *)
LEMMA InitExecs == X!Init => ExecsInv
<1> SUFFICES ASSUME X!Init PROVE ExecsInv
  OBVIOUS
<1>1. X!Unused \in X!Exec
  BY DEF X!Unused, X!Exec
<1>2. ExecOK(X!Unused)
  BY DEF X!Unused, ExecOK
<1>3. exec \in [Execs -> X!Exec] /\ \A e \in Execs : exec[e] = X!Unused
  BY <1>1 DEF X!Init
<1>4. up \in BOOLEAN
  BY DEF X!Init
<1> QED BY <1>2, <1>3, <1>4 DEF ExecsInv, X!TypeOK

(* A call that is replaced by one in order leaves the rest in order.       *)
LEMMA PutExec ==
  ASSUME ExecsInv, NEW e \in Execs, NEW x \in X!Exec, ExecOK(x), X!Put(e, x)
  PROVE  ExecsInv'
<1>1. exec \in [Execs -> X!Exec] /\ up \in BOOLEAN /\ up' = up
        /\ exec' = [exec EXCEPT ![e] = x]
  BY DEF ExecsInv, X!TypeOK, X!Put
<1>2. exec' \in [Execs -> X!Exec] /\ exec'[e] = x
        /\ \A k \in Execs : k # e => exec'[k] = exec[k]
  BY <1>1
<1>3. \A k \in Execs : ExecOK(exec'[k])
  BY <1>2 DEF ExecsInv
<1> QED BY <1>1, <1>2, <1>3 DEF ExecsInv, X!TypeOK, ExecOK

(* The fields of a call.                                                   *)
LEMMA ExecFields ==
  ASSUME NEW x \in X!Exec
  PROVE  /\ x.sh \in {"none", "alive", "exited", "killed", "signalled", "failed"}
         /\ x.kids \in Nat /\ x.strays \in Nat /\ x.timer \in BOOLEAN
         /\ x.killed \in BOOLEAN /\ x.held \in BOOLEAN
         /\ x.code \in {"none", "own", "null", "124", "126", "127"}
  BY DEF X!Exec

(* finish() settles an open call: the timer is cleared and it is noted     *)
(* whether somebody held the pipes.                                        *)
LEMMA FinishFacts ==
  ASSUME NEW x \in X!Exec, NEW code \in {"own", "null", "124", "127"}, x.code = "none"
  PROVE  LET z == X!finish(x, code)
         IN  /\ z \in X!Exec /\ z.sh = x.sh /\ z.kids = x.kids /\ z.strays = x.strays
             /\ z.killed = x.killed /\ z.code = code /\ ~z.timer
             /\ (X!Holders(x) = 0 => ~z.held)
<1> DEFINE h == X!Holders(x) > 0
           a == [x EXCEPT !.code = code]
           b == [a EXCEPT !.timer = FALSE]
           z == [b EXCEPT !.held = h]
<1>1. X!finish(x, code) = z
  BY DEF X!finish
<1>2. a \in X!Exec /\ a.sh = x.sh /\ a.kids = x.kids /\ a.strays = x.strays
        /\ a.code = code
  BY DEF X!Exec
<1>3. a.killed = x.killed
  BY DEF X!Exec
<1> HIDE DEF a
<1>4. b \in X!Exec /\ b.sh = a.sh /\ b.kids = a.kids /\ b.strays = a.strays
        /\ b.code = a.code
  BY <1>2 DEF X!Exec
<1>5. b.killed = a.killed /\ ~b.timer
  BY <1>2 DEF X!Exec
<1> HIDE DEF b
<1>6. h \in BOOLEAN /\ (X!Holders(x) = 0 => ~h)
  <2>1. X!Holders(x) \in Int
    BY ExecFields DEF X!Holders
  <2>2. X!Holders(x) = 0 => ~h
    BY <2>1
  <2>3. h \in BOOLEAN
    BY <2>1
  <2> QED BY <2>2, <2>3
<1> HIDE DEF h
<1>7. z \in X!Exec /\ z.sh = b.sh /\ z.kids = b.kids /\ z.strays = b.strays
        /\ z.code = b.code
  BY <1>4, <1>6 DEF X!Exec
<1>8. z.killed = b.killed /\ z.timer = b.timer /\ z.held = h
  BY <1>4, <1>6 DEF X!Exec
<1> HIDE DEF z
<1> QED BY <1>1, <1>2, <1>3, <1>4, <1>5, <1>6, <1>7, <1>8

(* Every step of a call keeps it in order.                                 *)
LEMMA NextExecs == ExecsInv /\ [X!Next]_(X!vars) => ExecsInv'
<1> SUFFICES ASSUME ExecsInv, [X!Next]_(X!vars) PROVE ExecsInv'
  OBVIOUS
<1>0. exec \in [Execs -> X!Exec] /\ up \in BOOLEAN
        /\ \A e \in Execs : exec[e] \in X!Exec /\ ExecOK(exec[e])
  BY DEF ExecsInv, X!TypeOK
<1>1. ASSUME NEW e \in Execs, NEW bad \in BOOLEAN,
             X!Refuse(e, bad) \/ X!Spawn(e, bad) \/ X!SpawnFails(e, bad)
      PROVE  ExecsInv'
  <2> DEFINE x == exec[e]
  <2>1. x \in X!Exec /\ ExecOK(x) /\ x.sh = "none" /\ x.code = "none"
    BY <1>0, <1>1 DEF X!Refuse, X!Spawn, X!SpawnFails, X!Idle
  <2>2. CASE X!Refuse(e, bad)
    <3> DEFINE z == [x EXCEPT !.code = "126"]
    <3>1. X!Put(e, z)
      BY <2>2 DEF X!Refuse
    <3> HIDE DEF x
    <3>2. z \in X!Exec /\ z.sh = x.sh /\ z.kids = x.kids /\ z.strays = x.strays
            /\ z.code = "126"
      BY <2>1 DEF X!Exec
    <3>3. z.killed = x.killed /\ z.timer = x.timer /\ z.held = x.held
      BY <2>1 DEF X!Exec
    <3> HIDE DEF z
    <3>4. ExecOK(z)
      BY <2>1, <3>2, <3>3 DEF ExecOK
    <3> QED BY <3>1, <3>2, <3>4, PutExec
  <2>3. ASSUME NEW s \in {"alive", "failed"},
               X!Put(e, [exec[e] EXCEPT !.sh = s, !.timer = TRUE])
        PROVE  ExecsInv'
    <3> DEFINE y == [x EXCEPT !.sh = s]
               z == [y EXCEPT !.timer = TRUE]
    <3>1. X!Put(e, z)
      BY <2>3
    <3> HIDE DEF x
    <3>2. y \in X!Exec /\ y.sh = s /\ y.kids = x.kids /\ y.strays = x.strays
            /\ y.code = x.code
      BY <2>1 DEF X!Exec
    <3>3. y.killed = x.killed /\ y.held = x.held
      BY <2>1 DEF X!Exec
    <3> HIDE DEF y
    <3>4. z \in X!Exec /\ z.sh = s /\ z.kids = y.kids /\ z.strays = y.strays
            /\ z.code = y.code
      BY <3>2 DEF X!Exec
    <3>5. z.killed = y.killed /\ z.held = y.held
      BY <3>2 DEF X!Exec
    <3> HIDE DEF z
    <3>6. ExecOK(z)
      BY <2>1, <3>2, <3>3, <3>4, <3>5 DEF ExecOK
    <3> QED BY <3>1, <3>4, <3>6, PutExec
  <2> QED BY <1>1, <2>2, <2>3 DEF X!Spawn, X!SpawnFails
<1>2. ASSUME NEW e \in Execs, X!OnError(e)  PROVE ExecsInv'
  <2> DEFINE x == exec[e]  z == X!finish(x, "127")
  <2>1. x \in X!Exec /\ ExecOK(x) /\ x.sh = "failed" /\ x.code = "none" /\ X!Put(e, z)
    BY <1>0, <1>2 DEF X!OnError
  <2> HIDE DEF x
  <2>2. X!Holders(x) = 0
    BY <2>1 DEF X!Holders, ExecOK
  <2>3. /\ z \in X!Exec /\ z.sh = x.sh /\ z.kids = x.kids /\ z.strays = x.strays
        /\ z.killed = x.killed /\ z.code = "127" /\ ~z.timer /\ ~z.held
    BY <2>1, <2>2, FinishFacts
  <2> HIDE DEF z
  <2>4. ExecOK(z)
    BY <2>1, <2>3 DEF ExecOK
  <2> QED BY <2>1, <2>3, <2>4, PutExec
<1>3. ASSUME NEW e \in Execs, X!OnClose(e)  PROVE ExecsInv'
  <2> DEFINE x == exec[e]
             code == X!closeCode(x)
             z == X!finish(x, code)
  <2>1. /\ x \in X!Exec /\ ExecOK(x) /\ X!Put(e, z)
        /\ X!closes(x) \/ x.code # "none"
    BY <1>0, <1>3 DEF X!OnClose
  <2> HIDE DEF x
  <2>2. CASE x.code # "none"
    <3>1. z = x
      BY <2>2 DEF X!finish
    <3> QED BY <2>1, <3>1, PutExec
  <2>3. CASE x.code = "none"
    <3>1. x.sh \in {"exited", "killed", "signalled"} /\ X!Holders(x) = 0
      BY <2>1, <2>3 DEF X!closes
    <3>2. /\ code \in {"own", "null", "124"} /\ (code = "124" => x.killed)
          /\ (code = "own" => ~x.killed /\ x.sh # "signalled")
          /\ (code = "null" => ~x.killed /\ x.sh = "signalled")
      BY DEF X!closeCode
    <3> HIDE DEF code
    <3>3. /\ z \in X!Exec /\ z.sh = x.sh /\ z.kids = x.kids /\ z.strays = x.strays
          /\ z.killed = x.killed /\ z.code = code /\ ~z.timer /\ ~z.held
      BY <2>1, <2>3, <3>1, <3>2, FinishFacts
    <3> HIDE DEF z
    <3>4. ExecOK(z)
      BY <2>1, <3>1, <3>2, <3>3 DEF ExecOK
    <3> QED BY <2>1, <3>3, <3>4, PutExec
  <2> QED BY <2>2, <2>3
<1>4. ASSUME NEW e \in Execs, X!OnTimeout(e)  PROVE ExecsInv'
  <2> DEFINE x == exec[e]
             s == IF x.sh = "alive" THEN "killed" ELSE x.sh
             a == [x EXCEPT !.sh = s]
             b == [a EXCEPT !.kids = 0]
             c == [b EXCEPT !.timer = FALSE]
             z == [c EXCEPT !.killed = TRUE]
  <2>1. x \in X!Exec /\ ExecOK(x) /\ x.timer
    BY <1>0, <1>4 DEF X!OnTimeout
  <2>2. X!killGroup(x) = b
    BY DEF X!killGroup
  <2>3. X!Put(e, z)
    BY <1>4, <2>2 DEF X!OnTimeout
  <2> HIDE DEF x
  <2>4. /\ s \in {"none", "exited", "killed", "signalled", "failed"}
        /\ (s \in {"none", "failed"} => s = x.sh)
    BY <2>1, ExecFields
  <2> HIDE DEF s
  <2>5. a \in X!Exec /\ a.sh = s /\ a.strays = x.strays /\ a.code = x.code
    BY <2>1, <2>4 DEF X!Exec
  <2>6. a.held = x.held
    BY <2>1, <2>4 DEF X!Exec
  <2> HIDE DEF a
  <2>7. b \in X!Exec /\ b.sh = s /\ b.strays = x.strays /\ b.code = x.code /\ b.kids = 0
    BY <2>5 DEF X!Exec
  <2>8. b.held = x.held
    BY <2>5, <2>6 DEF X!Exec
  <2> HIDE DEF b
  <2>9. c \in X!Exec /\ c.sh = s /\ c.strays = x.strays /\ c.code = x.code /\ c.kids = 0
    BY <2>7 DEF X!Exec
  <2>10. c.held = x.held /\ ~c.timer
    BY <2>7, <2>8 DEF X!Exec
  <2> HIDE DEF c
  <2>11. z \in X!Exec /\ z.sh = s /\ z.strays = x.strays /\ z.code = x.code /\ z.kids = 0
    BY <2>9 DEF X!Exec
  <2>12. z.held = x.held /\ ~z.timer /\ z.killed
    BY <2>9, <2>10 DEF X!Exec
  <2> HIDE DEF z
  <2>13. ExecOK(z)
    BY <2>1, <2>4, <2>11, <2>12 DEF ExecOK
  <2> QED BY <2>3, <2>11, <2>13, PutExec
<1>5. ASSUME NEW e \in Execs, X!Forks(e) \/ X!Detaches(e) \/ X!KidEnds(e) \/ X!StrayEnds(e)
      PROVE  ExecsInv'
  <2> DEFINE x == exec[e]
  <2>1. x \in X!Exec /\ ExecOK(x) /\ x.kids \in Nat /\ x.strays \in Nat
    BY <1>0, ExecFields
  <2>2. ASSUME NEW k \in Nat, NEW s \in Nat, x.sh \notin {"none", "failed"},
               X!Put(e, [x EXCEPT !.kids = k, !.strays = s])
        PROVE  ExecsInv'
    <3> DEFINE y == [x EXCEPT !.kids = k]
               z == [y EXCEPT !.strays = s]
    <3>1. X!Put(e, z)
      BY <2>2
    <3> HIDE DEF x
    <3>2. y \in X!Exec /\ y.sh = x.sh /\ y.code = x.code
      BY <2>1 DEF X!Exec
    <3>3. y.timer = x.timer /\ y.killed = x.killed /\ y.held = x.held
      BY <2>1 DEF X!Exec
    <3> HIDE DEF y
    <3>4. z \in X!Exec /\ z.sh = y.sh /\ z.code = y.code
      BY <3>2 DEF X!Exec
    <3>5. z.timer = y.timer /\ z.killed = y.killed /\ z.held = y.held
      BY <3>2 DEF X!Exec
    <3> HIDE DEF z
    <3>6. ExecOK(z)
      BY <2>1, <2>2, <3>2, <3>3, <3>4, <3>5 DEF ExecOK
    <3> QED BY <3>1, <3>4, <3>6, PutExec
  <2>3. \A k, s \in Nat :
          /\ [x EXCEPT !.kids = k] = [x EXCEPT !.kids = k, !.strays = x.strays]
          /\ [x EXCEPT !.strays = s] = [x EXCEPT !.kids = x.kids, !.strays = s]
    <3> HIDE DEF x
    <3> QED BY <2>1 DEF X!Exec
  <2>4. CASE X!Forks(e)
    <3>1. /\ X!Put(e, [x EXCEPT !.kids = x.kids + 1])
          /\ x.sh = "alive" \/ x.kids > 0
      BY <2>4 DEF X!Forks
    <3>2. x.sh \notin {"none", "failed"} /\ x.kids + 1 \in Nat
      <4> HIDE DEF x
      <4> QED BY <2>1, <3>1 DEF ExecOK
    <3> QED BY <2>1, <2>2, <2>3, <3>1, <3>2
  <2>5. CASE X!Detaches(e)
    <3>1. /\ X!Put(e, [x EXCEPT !.kids = x.kids - 1, !.strays = x.strays + 1])
          /\ x.kids > 0
      BY <2>5 DEF X!Detaches
    <3>2. x.sh \notin {"none", "failed"} /\ x.kids - 1 \in Nat /\ x.strays + 1 \in Nat
      <4> HIDE DEF x
      <4> QED BY <2>1, <3>1 DEF ExecOK
    <3> QED BY <2>2, <3>1, <3>2
  <2>6. CASE X!KidEnds(e)
    <3>1. /\ X!Put(e, [x EXCEPT !.kids = x.kids - 1]) /\ x.kids > 0
      BY <2>6 DEF X!KidEnds
    <3>2. x.sh \notin {"none", "failed"} /\ x.kids - 1 \in Nat
      <4> HIDE DEF x
      <4> QED BY <2>1, <3>1 DEF ExecOK
    <3> QED BY <2>1, <2>2, <2>3, <3>1, <3>2
  <2>7. CASE X!StrayEnds(e)
    <3>1. /\ X!Put(e, [x EXCEPT !.strays = x.strays - 1]) /\ x.strays > 0
      BY <2>7 DEF X!StrayEnds
    <3>2. x.sh \notin {"none", "failed"} /\ x.strays - 1 \in Nat
      <4> HIDE DEF x
      <4> QED BY <2>1, <3>1 DEF ExecOK
    <3> QED BY <2>1, <2>2, <2>3, <3>1, <3>2
  <2> QED BY <1>5, <2>4, <2>5, <2>6, <2>7
<1>6. ASSUME NEW e \in Execs, X!ShellExits(e) \/ X!ShellSignalled(e)  PROVE ExecsInv'
  <2>0. PICK s \in {"exited", "signalled"} : X!Put(e, [exec[e] EXCEPT !.sh = s])
    BY <1>6 DEF X!ShellExits, X!ShellSignalled
  <2> DEFINE x == exec[e]  z == [x EXCEPT !.sh = s]
  <2>1. x \in X!Exec /\ ExecOK(x) /\ x.sh = "alive" /\ X!Put(e, z)
    BY <1>0, <1>6, <2>0 DEF X!ShellExits, X!ShellSignalled
  <2> HIDE DEF x
  <2>2. z \in X!Exec /\ z.sh = s /\ z.code = x.code
    BY <2>1 DEF X!Exec
  <2>3. z.timer = x.timer /\ z.killed = x.killed /\ z.held = x.held
    BY <2>1 DEF X!Exec
  <2> HIDE DEF z
  <2>4. ExecOK(z)
    BY <2>1, <2>2, <2>3 DEF ExecOK
  <2> QED BY <2>1, <2>2, <2>4, PutExec
<1>7. CASE X!Halt \/ UNCHANGED X!vars
  <2>1. exec' = exec /\ up' \in BOOLEAN
    BY <1>0, <1>7 DEF X!Halt, X!vars
  <2> QED BY <1>0, <2>1 DEF ExecsInv, X!TypeOK, ExecOK
<1> QED BY <1>1, <1>2, <1>3, <1>4, <1>5, <1>6, <1>7 DEF X!Next

(* The exit code a caller of shell.exec gets tells what became of the      *)
(* command, whatever exit, timeout, 'error' and 'close' race for it - save *)
(* the 0 given for a shell that a signal ended.                            *)
THEOREM AnswerCorrect == Spec => []AnswerIsTrue
<1>1. ExecsInv => AnswerIsTrue
  BY DEF ExecsInv, ExecOK, AnswerIsTrue, X!AnswerIsTrue
<1> QED BY <1>1, InitExecs, NextExecs, StepOfParts, PTL DEF Spec, Init

----------------------------------------------------------------------------
(* net                                                                     *)

(* The fields of a server.                                                 *)
LEMMA ServerFields ==
  ASSUME NEW x \in N!Server
  PROVE  /\ x.state \in {"unused", "binding", "listening", "closed"}
         /\ x.name \in Names \cup {N!NoName} /\ x.port \in Ports \cup {N!NoPort}
         /\ x.requests \in Nat /\ x.served \in Nat /\ x.rival \in BOOLEAN
  BY DEF N!Server

(* A server that is new.                                                   *)
LEMMA NewServerFacts ==
  /\ NewServer \in N!Server /\ NewServer.state = "unused" /\ NewServer.name = N!NoName
  /\ NewServer.requests = 0 /\ NewServer.served = 0
<1>1. NewServer \in N!Server
  BY DEF NewServer, N!Server
<1> QED BY <1>1 DEF NewServer

(* A callback changes the state of a server.                               *)
LEMMA PutState ==
  ASSUME NEW x \in N!Server, NEW st \in {"listening", "closed"}
  PROVE  LET z == [x EXCEPT !.state = st]
         IN  /\ z \in N!Server /\ z.state = st /\ z.name = x.name
             /\ z.requests = x.requests /\ z.served = x.served /\ z.rival = x.rival
<1> DEFINE z == [x EXCEPT !.state = st]
<1>1. z \in N!Server /\ z.state = st /\ z.name = x.name
        /\ z.requests = x.requests /\ z.served = x.served
  BY DEF N!Server
<1>2. z.rival = x.rival
  BY DEF N!Server
<1> QED BY <1>1, <1>2

(* A later net.serve makes a rival.                                        *)
LEMMA PutRival ==
  ASSUME NEW x \in N!Server, NEW b \in BOOLEAN
  PROVE  LET z == [x EXCEPT !.rival = b]
         IN  /\ z \in N!Server /\ z.state = x.state /\ z.name = x.name
             /\ z.requests = x.requests /\ z.served = x.served /\ z.rival = b
<1> DEFINE z == [x EXCEPT !.rival = b]
<1>1. z \in N!Server /\ z.state = x.state /\ z.name = x.name
        /\ z.requests = x.requests /\ z.served = x.served
  BY DEF N!Server
<1>2. z.rival = b
  BY DEF N!Server
<1> QED BY <1>1, <1>2

(* net.serve makes a server of a new object.                               *)
Bound(x, n, p, b) == [x EXCEPT !.state = "binding", !.name = n, !.port = p, !.rival = b]

(* Its counters are those of the object.                                   *)
LEMMA PutBinding ==
  ASSUME NEW x \in N!Server, NEW n \in Names, NEW p \in Ports, NEW b \in BOOLEAN
  PROVE  LET z == Bound(x, n, p, b)
         IN  /\ z \in N!Server /\ z.state = "binding" /\ z.name = n
             /\ z.requests = x.requests /\ z.served = x.served /\ z.rival = b
<1> DEFINE y == [x EXCEPT !.state = "binding", !.name = n, !.port = p]
<1>1. y \in N!Server /\ y.state = "binding" /\ y.name = n
        /\ y.requests = x.requests /\ y.served = x.served
  BY DEF N!Server
<1>2. Bound(x, n, p, b) = [y EXCEPT !.rival = b]
  BY DEF Bound
<1> HIDE DEF y
<1> QED BY <1>1, <1>2, PutRival

(* The end of a request counts.                                            *)
Counted(x, a, c) == [x EXCEPT !.served = a, !.requests = c]

(* It changes nothing but the counters.                                    *)
LEMMA PutCounts ==
  ASSUME NEW x \in N!Server, NEW a \in Nat, NEW c \in Nat
  PROVE  LET z == Counted(x, a, c)
         IN  /\ z \in N!Server /\ z.state = x.state /\ z.name = x.name
             /\ z.served = a /\ z.requests = c /\ z.rival = x.rival
<1> DEFINE z == Counted(x, a, c)
<1>1. z \in N!Server /\ z.state = x.state /\ z.name = x.name
        /\ z.served = a /\ z.requests = c
  BY DEF N!Server, Counted
<1>2. z.rival = x.rival
  BY DEF N!Server, Counted
<1> QED BY <1>1, <1>2

(* No server and no request at first.                                      *)
LEMMA InitNets == N!Init => NetsInv
<1> SUFFICES ASSUME N!Init PROVE NetsInv
  OBVIOUS
<1>1. \A s \in Servers : server[s] = NewServer
  BY DEF N!Init, NewServer
<1>2. server \in [Servers -> N!Server]
  BY <1>1, NewServerFacts DEF N!Init
<1>3. \A r \in Requests : request[r] = [state |-> "none", at |-> N!NoServer,
                                        entry |-> N!NoServer]
  BY DEF N!Init
<1>4. request \in [Requests -> N!Request] /\ \A r \in Requests : request[r].state = "none"
  BY <1>3 DEF N!Init, N!Request
<1>5. table \in [Names -> Servers \cup {N!NoServer}] /\ up \in BOOLEAN
        /\ \A n \in Names : table[n] = N!NoServer
  BY DEF N!Init
<1>6. \A s \in Servers : server[s].state = "unused" /\ server[s].requests = server[s].served
  BY <1>1, NewServerFacts
<1>7. N!TypeOK /\ Connected
  BY <1>2, <1>4, <1>5 DEF N!TypeOK, Connected, N!Init
<1>8. N!ListenersAreListed /\ N!TrafficIsPerServer /\ Overlaps
  BY <1>5, <1>6 DEF N!ListenersAreListed, N!TrafficIsPerServer, N!In, Overlaps
<1>9. \A r \in Requests : RequestOK(request[r])
  BY <1>4 DEF RequestOK
<1>10. \A s \in Servers : Named(s)
  BY <1>1, <1>6 DEF Named
<1> QED BY <1>7, <1>8, <1>9, <1>10 DEF NetsInv

(* Rivalry only grows, and with the names and the counters as they are the *)
(* requests in progress stay in order and the counters right.              *)
LEMMA KeepCounts ==
  ASSUME NetsInv, server' \in [Servers -> N!Server], UNCHANGED <<request, late>>,
         \A s \in Servers : /\ server'[s].requests = server[s].requests
                            /\ server'[s].served = server[s].served,
         \A s \in Servers : server[s].state # "unused" =>
            /\ server'[s].state # "unused" /\ server'[s].name = server[s].name
            /\ server[s].rival => server'[s].rival
  PROVE  (\A r \in Requests : RequestOK(request[r])') /\ N!TrafficIsPerServer'
<1>1. /\ N!TrafficIsPerServer /\ \A r \in Requests : RequestOK(request[r])
      /\ \A s \in Servers : Named(s)
  BY DEF NetsInv
<1>2. \A r \in Requests : RequestOK(request[r])'
  BY <1>1 DEF RequestOK, Used, Odd
<1>3. N!TrafficIsPerServer'
  <2> SUFFICES ASSUME NEW s \in Servers, server'[s].requests # server'[s].served
               PROVE  \E t \in Servers : server'[t].name = server'[s].name
                                           /\ (server'[t].rival \/ t \in late')
    BY DEF N!TrafficIsPerServer
  <2>1. server[s].requests # server[s].served
    OBVIOUS
  <2>2. PICK t \in Servers : server[t].name = server[s].name
                                /\ (server[t].rival \/ t \in late)
    BY <1>1, <2>1 DEF N!TrafficIsPerServer
  <2>3. server[s].state # "unused"
    BY <1>1, <2>1, NewServerFacts DEF Named
  <2>4. server[s].name \in Names
    BY <1>1, <2>3 DEF Named
  <2>5. server[t].state # "unused"
    BY <1>1, <2>2, <2>4, NewServerFacts, HostAssumption DEF Named
  <2> QED BY <2>2, <2>3, <2>5
<1> QED BY <1>2, <1>3

(* serve(): the new server and those still binding under its name know of  *)
(* each other; one that listens unlisted under it had a rival already.     *)
LEMMA ServeNets ==
  ASSUME NetsInv, NEW s \in Servers, NEW n \in Names, NEW p \in Ports, N!serve(s, n, p)
  PROVE  NetsInv'
<1> DEFINE b == N!Rivals(n) # {}
           z == Bound(server[s], n, p, b)
           g(t) == (server[t].rival \/ t \in N!Rivals(n))
<1>0. /\ N!TypeOK /\ server \in [Servers -> N!Server] /\ up \in BOOLEAN
      /\ N!ListenersAreListed /\ (up => Overlaps) /\ Connected
      /\ \A t \in Servers : Named(t)
  BY DEF NetsInv, N!TypeOK
<1>1. /\ up /\ server[s].state = "unused" /\ table[n] = N!NoServer
      /\ server' = [t \in Servers |-> IF t = s THEN z ELSE [server[t] EXCEPT !.rival = g(t)]]
      /\ UNCHANGED <<up, table, request, conns, late>>
  BY DEF N!serve, N!nameFree, Bound, N!links
<1>2. b \in BOOLEAN /\ \A t \in Servers : g(t) \in BOOLEAN
  OBVIOUS
<1>3. /\ z \in N!Server /\ z.state = "binding" /\ z.name = n
      /\ z.requests = server[s].requests /\ z.served = server[s].served /\ z.rival = b
  <2>1. server[s] \in N!Server /\ b \in BOOLEAN
    BY <1>0, <1>2
  <2> HIDE DEF b
  <2> QED BY <2>1, PutBinding
<1>4. server'[s] = z
  BY <1>1
<1> HIDE DEF z
<1>5. ASSUME NEW t \in Servers, t # s
      PROVE  /\ server'[t] \in N!Server /\ server'[t].state = server[t].state
             /\ server'[t].name = server[t].name
             /\ server'[t].requests = server[t].requests
             /\ server'[t].served = server[t].served
             /\ server'[t].rival = g(t)
  <2>1. server'[t] = [server[t] EXCEPT !.rival = g(t)]
    BY <1>1, <1>5
  <2>2. server[t] \in N!Server /\ g(t) \in BOOLEAN
    BY <1>0, <1>2
  <2> HIDE DEF g
  <2> QED BY <2>1, <2>2, PutRival
<1>6. server' \in [Servers -> N!Server]
  <2>1. \A t \in Servers : server'[t] \in N!Server
    BY <1>3, <1>4, <1>5
  <2> QED BY <1>1, <2>1
<1>7. \A t \in N!Rivals(n) : t \in Servers /\ server[t].state = "binding"
        /\ server[t].name = n /\ t # s
  BY <1>1 DEF N!Rivals, N!In
<1>8. N!TypeOK' /\ Connected'
  BY <1>0, <1>1, <1>5, <1>6 DEF N!TypeOK, Connected
<1>9. \A t \in Servers : Named(t)'
  <2>1. Named(s)'
    BY <1>3, <1>4 DEF Named
  <2>2. ASSUME NEW t \in Servers, t # s  PROVE Named(t)'
    <3>1. CASE server[t].state = "unused"
      <4>1. server[t] = NewServer /\ t \notin N!Rivals(n)
        BY <1>0, <1>7, <3>1 DEF Named
      <4>2. g(t) = FALSE /\ server[t].rival = FALSE
        <5>1. NewServer.rival = FALSE
          BY DEF NewServer
        <5> QED BY <4>1, <5>1
      <4>3. server'[t] = [server[t] EXCEPT !.rival = g(t)]
        BY <1>1, <2>2
      <4>4. server'[t] = NewServer
        BY <4>1, <4>2, <4>3 DEF NewServer
      <4> QED BY <4>4, NewServerFacts DEF Named
    <3>2. CASE server[t].state # "unused"
      BY <1>0, <1>5, <2>2, <3>2 DEF Named
    <3> QED BY <3>1, <3>2
  <2> QED BY <2>1, <2>2
<1>10. Overlaps'
  <2> SUFFICES ASSUME NEW q \in Servers, NEW t \in Servers, q # t,
                      server'[q].state = "binding",
                      server'[t].state \in {"binding", "listening"},
                      server'[q].name = server'[t].name
               PROVE  server'[t].rival
    BY DEF Overlaps
  <2>1. CASE t = s
    <3>1. q \in N!Rivals(n)
      BY <1>3, <1>4, <1>5, <2>1 DEF N!Rivals, N!In
    <3> QED BY <1>3, <1>4, <2>1, <3>1
  <2>2. CASE q = s /\ t # s
    <3>1. server[t].name = n /\ server[t].state \in {"binding", "listening"}
      BY <1>3, <1>4, <1>5, <2>2
    <3>2. CASE server[t].state = "binding"
      <4>1. t \in N!Rivals(n)
        BY <3>1, <3>2 DEF N!Rivals, N!In
      <4> QED BY <1>5, <2>2, <4>1
    <3>3. CASE server[t].state = "listening"
      <4>1. server[t].rival \/ table[n] = t
        BY <1>0, <1>1, <3>1, <3>3 DEF N!ListenersAreListed, N!In
      <4>2. table[n] # t
        BY <1>1, HostAssumption
      <4> QED BY <1>5, <2>2, <4>1, <4>2
    <3> QED BY <3>1, <3>2, <3>3
  <2>3. CASE q # s /\ t # s
    <3>1. server[t].rival
      BY <1>0, <1>1, <1>5, <2>3 DEF Overlaps
    <3> QED BY <1>5, <2>3, <3>1
  <2> QED BY <2>1, <2>2, <2>3
<1>11. N!ListenersAreListed'
  <2>1. ASSUME NEW m \in Names, table'[m] # N!NoServer
        PROVE  server'[table'[m]].state = "listening" /\ server'[table'[m]].name = m
    <3>1. table[m] \in Servers /\ server[table[m]].state = "listening"
            /\ server[table[m]].name = m /\ table'[m] = table[m]
      BY <1>0, <1>1, <2>1 DEF N!ListenersAreListed, N!TypeOK
    <3> QED BY <1>1, <1>5, <3>1
  <2>2. ASSUME NEW t \in Servers, server'[t].state = "listening"
        PROVE  server'[t].rival \/ table'[server'[t].name] = t
    <3>1. t # s
      BY <1>3, <1>4, <2>2
    <3>2. server[t].rival \/ table[server[t].name] = t
      BY <1>0, <1>1, <1>5, <2>2, <3>1 DEF N!ListenersAreListed, N!In
    <3> QED BY <1>1, <1>5, <3>1, <3>2
  <2> QED BY <2>1, <2>2 DEF N!ListenersAreListed, N!In
<1>12. (\A r \in Requests : RequestOK(request[r])') /\ N!TrafficIsPerServer'
  <2>1. \A t \in Servers : server'[t].requests = server[t].requests
                           /\ server'[t].served = server[t].served
    BY <1>3, <1>4, <1>5
  <2>2. \A t \in Servers : server[t].state # "unused" =>
          /\ server'[t].state # "unused" /\ server'[t].name = server[t].name
          /\ server[t].rival => server'[t].rival
    BY <1>1, <1>5
  <2>3. UNCHANGED <<request, late>>
    BY <1>1
  <2> QED BY <1>6, <2>1, <2>2, <2>3, KeepCounts
<1> QED BY <1>8, <1>9, <1>10, <1>11, <1>12 DEF NetsInv

(* One server changes its state and nothing else.                          *)
Turns(s, st) ==
    /\ server' \in [Servers -> N!Server] /\ server'[s].state = st
    /\ \A t \in Servers : t # s => server'[t] = server[t]
    /\ server'[s].name = server[s].name /\ server'[s].rival = server[s].rival
    /\ server'[s].requests = server[s].requests /\ server'[s].served = server[s].served

(* A callback, or net.stop, changes the state of one server.               *)
LEMMA TurnsFacts ==
  ASSUME server \in [Servers -> N!Server], NEW s \in Servers,
         NEW st \in {"listening", "closed"}, server' = [server EXCEPT ![s].state = st]
  PROVE  Turns(s, st)
<1>1. server[s] \in N!Server
  OBVIOUS
<1> DEFINE z == [server[s] EXCEPT !.state = st]
<1>2. server' = [server EXCEPT ![s] = z]
  OBVIOUS
<1>3. /\ z \in N!Server /\ z.state = st /\ z.name = server[s].name
      /\ z.requests = server[s].requests /\ z.served = server[s].served
      /\ z.rival = server[s].rival
  BY <1>1, PutState
<1> HIDE DEF z
<1>4. server'[s] = z /\ server' \in [Servers -> N!Server]
        /\ \A t \in Servers : t # s => server'[t] = server[t]
  BY <1>2, <1>3
<1> QED BY <1>3, <1>4 DEF Turns

(* A server in use that changes its state keeps all but what is listed.    *)
LEMMA TurnsNets ==
  ASSUME NetsInv, NEW s \in Servers, NEW st \in {"listening", "closed"},
         Turns(s, st), server[s].state # "unused", UNCHANGED <<up, request, conns, late>>,
         table' \in [Names -> Servers \cup {N!NoServer}],
         st = "listening" => server[s].state = "binding",
         N!ListenersAreListed'
  PROVE  NetsInv'
<1>0. /\ N!TypeOK /\ (up => Overlaps) /\ Connected /\ \A t \in Servers : Named(t)
  BY DEF NetsInv
<1>1. N!TypeOK' /\ Connected'
  BY <1>0 DEF N!TypeOK, Turns, Connected
<1>2. \A t \in Servers : Named(t)'
  BY <1>0 DEF Named, Turns
<1>3. up' => Overlaps'
  BY <1>0 DEF Overlaps, Turns
<1>4. (\A r \in Requests : RequestOK(request[r])') /\ N!TrafficIsPerServer'
  BY KeepCounts DEF Turns
<1> QED BY <1>1, <1>2, <1>3, <1>4 DEF NetsInv

(* The 'listening' callback lists its server; one that it displaces has    *)
(* had a rival.                                                            *)
LEMMA ListeningNets ==
  ASSUME NetsInv, NEW s \in Servers, N!Listening(s)
  PROVE  NetsInv'
<1> DEFINE n == server[s].name
<1>0. /\ N!TypeOK /\ server \in [Servers -> N!Server] /\ N!ListenersAreListed
      /\ (up => Overlaps) /\ \A t \in Servers : Named(t)
      /\ table \in [Names -> Servers \cup {N!NoServer}]
  BY DEF NetsInv, N!TypeOK
<1>1. /\ up /\ server[s].state = "binding" /\ table' = [table EXCEPT ![n] = s]
      /\ server' = [server EXCEPT ![s].state = "listening"]
      /\ UNCHANGED <<up, request, conns, late>>
  BY DEF N!Listening, N!links
<1>2. Turns(s, "listening") /\ n \in Names
  BY <1>0, <1>1, TurnsFacts DEF Named
<1> HIDE DEF n
<1>3. /\ table' \in [Names -> Servers \cup {N!NoServer}] /\ table'[n] = s
      /\ \A m \in Names : m # n => table'[m] = table[m]
  BY <1>0, <1>1, <1>2
<1>4. ASSUME NEW m \in Names, table'[m] # N!NoServer
      PROVE  server'[table'[m]].state = "listening" /\ server'[table'[m]].name = m
  <2>1. CASE m = n
    BY <1>2, <1>3, <2>1 DEF Turns, n
  <2>2. CASE m # n
    <3>1. table[m] \in Servers /\ server[table[m]].state = "listening"
            /\ server[table[m]].name = m
      BY <1>0, <1>1, <1>3, <1>4, <2>2 DEF N!ListenersAreListed
    <3>2. table[m] # s
      BY <1>1, <3>1
    <3> QED BY <1>2, <1>3, <2>2, <3>1, <3>2 DEF Turns
  <2> QED BY <2>1, <2>2
<1>5. ASSUME NEW t \in Servers, server'[t].state = "listening"
      PROVE  server'[t].rival \/ table'[server'[t].name] = t
  <2>1. CASE t = s
    BY <1>2, <1>3, <2>1 DEF Turns, n
  <2>2. CASE t # s /\ server[t].name = n
    <3>1. server[t].rival
      BY <1>0, <1>1, <1>2, <1>5, <2>2 DEF Overlaps, Turns, n
    <3> QED BY <1>2, <2>2, <3>1 DEF Turns
  <2>3. CASE t # s /\ server[t].name # n
    <3>1. server'[t] = server[t] /\ (server[t].rival \/ table[server[t].name] = t)
      BY <1>0, <1>1, <1>2, <1>5, <2>3 DEF N!ListenersAreListed, N!In, Turns
    <3>2. server[t].name \in Names
      BY <1>0, <1>5, <3>1 DEF Named
    <3> QED BY <1>3, <2>3, <3>1, <3>2
  <2> QED BY <2>1, <2>2, <2>3
<1>6. N!ListenersAreListed'
  BY <1>4, <1>5 DEF N!ListenersAreListed, N!In
<1> QED BY <1>1, <1>2, <1>3, <1>6, TurnsNets

(* The 'error' callback, and net.stop.                                     *)
LEMMA CloseNets ==
  ASSUME NetsInv, (\E s \in Servers : N!BindFails(s)) \/ (\E n \in Names : N!stop(n))
  PROVE  NetsInv'
<1>0. /\ N!TypeOK /\ server \in [Servers -> N!Server] /\ N!ListenersAreListed
      /\ \A t \in Servers : Named(t)
      /\ table \in [Names -> Servers \cup {N!NoServer}]
  BY DEF NetsInv, N!TypeOK
<1>1. ASSUME NEW s \in Servers, N!BindFails(s)  PROVE NetsInv'
  <2>1. /\ up /\ server[s].state = "binding" /\ UNCHANGED <<up, table, request, conns, late>>
        /\ server' = [server EXCEPT ![s].state = "closed"]
    BY <1>1 DEF N!BindFails, N!links
  <2>2. Turns(s, "closed")
    BY <1>0, <2>1, TurnsFacts
  <2>3. ASSUME NEW m \in Names, table'[m] # N!NoServer
        PROVE  server'[table'[m]].state = "listening" /\ server'[table'[m]].name = m
    <3>1. table[m] \in Servers /\ server[table[m]].state = "listening"
            /\ server[table[m]].name = m
      BY <1>0, <2>1, <2>3 DEF N!ListenersAreListed
    <3>2. table[m] # s
      BY <2>1, <3>1
    <3> QED BY <2>1, <2>2, <3>1, <3>2 DEF Turns
  <2>4. ASSUME NEW t \in Servers, server'[t].state = "listening"
        PROVE  server'[t].rival \/ table'[server'[t].name] = t
    BY <1>0, <2>1, <2>2, <2>4 DEF N!ListenersAreListed, N!In, Turns
  <2>5. N!ListenersAreListed'
    BY <2>3, <2>4 DEF N!ListenersAreListed, N!In
  <2> QED BY <1>0, <2>1, <2>2, <2>5, TurnsNets
<1>2. ASSUME NEW n \in Names, N!stop(n)  PROVE NetsInv'
  <2> DEFINE s == table[n]
  <2>1. /\ up /\ s # N!NoServer /\ UNCHANGED <<up, request, conns, late>>
        /\ server' = [server EXCEPT ![s].state = "closed"]
        /\ table' = [table EXCEPT ![n] = N!NoServer]
    BY <1>2 DEF N!stop, N!close, N!links
  <2>2. s \in Servers /\ server[s].state = "listening" /\ server[s].name = n
    BY <1>0, <2>1 DEF N!ListenersAreListed
  <2>3. Turns(s, "closed")
    BY <1>0, <2>1, <2>2, TurnsFacts
  <2>4. /\ table' \in [Names -> Servers \cup {N!NoServer}] /\ table'[n] = N!NoServer
        /\ \A m \in Names : m # n => table'[m] = table[m]
    BY <1>0, <2>1
  <2>5. ASSUME NEW m \in Names, table'[m] # N!NoServer
        PROVE  server'[table'[m]].state = "listening" /\ server'[table'[m]].name = m
    <3>1. m # n /\ table'[m] = table[m]
      BY <2>4, <2>5
    <3>2. table[m] \in Servers /\ server[table[m]].state = "listening"
            /\ server[table[m]].name = m
      BY <1>0, <2>1, <2>5, <3>1 DEF N!ListenersAreListed
    <3>3. table[m] # s
      BY <2>2, <3>1, <3>2
    <3> QED BY <2>3, <3>1, <3>2, <3>3 DEF Turns
  <2>6. ASSUME NEW t \in Servers, server'[t].state = "listening"
        PROVE  server'[t].rival \/ table'[server'[t].name] = t
    <3>1. t # s /\ server'[t] = server[t]
      BY <2>3, <2>6 DEF Turns
    <3>2. server[t].rival \/ table[server[t].name] = t
      BY <1>0, <2>1, <2>6, <3>1 DEF N!ListenersAreListed, N!In
    <3>3. server[t].name \in Names
      BY <1>0, <2>6, <3>1 DEF Named
    <3>4. server[t].name = n => table[server[t].name] # t
      BY <3>1
    <3> QED BY <2>4, <3>1, <3>2, <3>3, <3>4
  <2>7. N!ListenersAreListed'
    BY <2>5, <2>6 DEF N!ListenersAreListed, N!In
  <2> HIDE DEF s
  <2> QED BY <2>1, <2>2, <2>3, <2>4, <2>7, TurnsNets
<1> QED BY <1>1, <1>2

(* handle() begins: the entry found under the server's name is the server  *)
(* itself, unless that has had a rival or is closed.                       *)
LEMMA ArrivesNets ==
  ASSUME NetsInv, NEW r \in Requests, NEW s \in Servers, N!Arrives(r, s)
  PROVE  NetsInv'
<1>0. /\ N!TypeOK /\ N!ListenersAreListed /\ (up => Overlaps) /\ N!TrafficIsPerServer
      /\ Connected /\ conns \subseteq Servers /\ late \subseteq Servers
      /\ (\A t \in Servers : Named(t)) /\ (\A q \in Requests : RequestOK(request[q]))
      /\ request \in [Requests -> N!Request]
      /\ table \in [Names -> Servers \cup {N!NoServer}]
  BY DEF NetsInv, N!TypeOK
<1> DEFINE e == table[server[s].name]
           z == [state |-> "open", at |-> s, entry |-> e]
<1>1. /\ up /\ server[s].state \in {"listening", "closed"}
      /\ request' = [request EXCEPT ![r] = z]
      /\ UNCHANGED <<up, table, server, conns>>
      /\ late \subseteq late' /\ late' \subseteq Servers
      /\ server[s].state = "closed" => s \in late'
  BY <1>0 DEF N!Arrives, N!reaches, Connected
<1>2. server[s].name \in Names /\ e \in Servers \cup {N!NoServer}
  BY <1>0, <1>1 DEF Named
<1>3. server[s].rival \/ s \in late' \/ e = s
  BY <1>0, <1>1 DEF N!ListenersAreListed, N!In
<1>4. e # N!NoServer => Used(e) /\ server[e].name = server[s].name
  <2>1. e # N!NoServer => server[e].state = "listening" /\ server[e].name = server[s].name
    BY <1>0, <1>1, <1>2 DEF N!ListenersAreListed
  <2> HIDE DEF e
  <2> QED BY <1>2, <2>1 DEF Used
<1> HIDE DEF e
<1>5. z \in N!Request /\ z.state = "open" /\ z.at = s /\ z.entry = e
  BY <1>2 DEF N!Request
<1> HIDE DEF z
<1>7. request' \in [Requests -> N!Request] /\ request'[r] = z
        /\ \A q \in Requests : q # r => request'[q] = request[q]
  BY <1>0, <1>1, <1>5
<1>9. \A q \in Requests : RequestOK(request[q])'
  <2> TAKE q \in Requests
  <2>1. CASE q = r
    BY <1>1, <1>3, <1>4, <1>5, <1>7, <2>1 DEF RequestOK, Used, Odd
  <2>2. CASE q # r
    <3>1. RequestOK(request[q]) /\ request'[q] = request[q]
      BY <1>0, <1>7, <2>2
    <3> QED BY <1>1, <3>1 DEF RequestOK, Used, Odd
  <2> QED BY <2>1, <2>2
<1>10. N!TypeOK' /\ Connected'
  BY <1>0, <1>1, <1>7 DEF N!TypeOK, Connected
<1>11. N!ListenersAreListed' /\ (up' => Overlaps') /\ N!TrafficIsPerServer'
  BY <1>0, <1>1 DEF N!ListenersAreListed, N!In, Overlaps, N!TrafficIsPerServer
<1>12. \A t \in Servers : Named(t)'
  BY <1>0, <1>1 DEF Named
<1> QED BY <1>9, <1>10, <1>11, <1>12 DEF NetsInv

(* An undecodable request ends the kernel; the rest is as it was.          *)
LEMMA MalformedNets ==
  ASSUME NetsInv, NEW r \in Requests, NEW s \in Servers, N!Malformed(r, s)
  PROVE  NetsInv'
<1>0. /\ N!TypeOK /\ N!TrafficIsPerServer /\ Connected /\ late \subseteq Servers
      /\ (\A t \in Servers : Named(t)) /\ (\A q \in Requests : RequestOK(request[q]))
      /\ request \in [Requests -> N!Request]
  BY DEF NetsInv, N!TypeOK
<1>1. /\ up' = FALSE /\ request' = [request EXCEPT ![r].state = "fatal"]
      /\ UNCHANGED <<table, server, conns>>
      /\ late \subseteq late' /\ late' \subseteq Servers
  BY <1>0 DEF N!Malformed, N!reaches
<1>2. /\ request' \in [Requests -> N!Request] /\ request'[r].state = "fatal"
      /\ \A q \in Requests : q # r => request'[q] = request[q]
  BY <1>0, <1>1 DEF N!Request
<1>3. \A q \in Requests : RequestOK(request[q])'
  <2> TAKE q \in Requests
  <2>1. CASE q = r
    BY <1>2, <2>1 DEF RequestOK
  <2>2. CASE q # r
    <3>1. RequestOK(request[q]) /\ request'[q] = request[q]
      BY <1>0, <1>2, <2>2
    <3> QED BY <1>1, <3>1 DEF RequestOK, Used, Odd
  <2> QED BY <2>1, <2>2
<1>4. N!TypeOK' /\ Connected'
  BY <1>0, <1>1, <1>2 DEF N!TypeOK, Connected
<1>5. N!ListenersAreListed' /\ (up' => Overlaps') /\ N!TrafficIsPerServer'
  BY <1>0, <1>1 DEF N!ListenersAreListed, N!TrafficIsPerServer
<1>6. \A t \in Servers : Named(t)'
  BY <1>0, <1>1 DEF Named
<1> QED BY <1>3, <1>4, <1>5, <1>6 DEF NetsInv

(* handle() ends: both counters grow, on one server or under a name that   *)
(* has had a rival or a late request.                                      *)
LEMMA AnsweredNets ==
  ASSUME NetsInv, NEW r \in Requests, N!Answered(r)
  PROVE  NetsInv'
<1>0. /\ N!TypeOK /\ N!ListenersAreListed /\ (up => Overlaps) /\ N!TrafficIsPerServer
      /\ (\A t \in Servers : Named(t)) /\ (\A q \in Requests : RequestOK(request[q]))
      /\ request \in [Requests -> N!Request] /\ server \in [Servers -> N!Server]
      /\ Connected
  BY DEF NetsInv, N!TypeOK
<1> DEFINE a == request[r].at
           e == request[r].entry
           sv(s) == IF s = a THEN server[s].served + 1 ELSE server[s].served
           rq(s) == IF s = e THEN server[s].requests + 1 ELSE server[s].requests
<1>1. /\ up /\ request[r].state = "open" /\ request' = [request EXCEPT ![r].state = "done"]
      /\ server' = [s \in Servers |-> [server[s] EXCEPT !.served = sv(s), !.requests = rq(s)]]
      /\ UNCHANGED <<up, table, conns, late>>
  BY DEF N!Answered, N!countedOn, N!links
<1>2. /\ Used(a)
      /\ \/ e = a
         \/ Odd(a) /\ e = N!NoServer
         \/ Odd(a) /\ Used(e) /\ server[e].name = server[a].name
  BY <1>0, <1>1 DEF RequestOK
<1>3. ASSUME NEW s \in Servers
      PROVE  /\ server'[s] \in N!Server /\ server'[s].state = server[s].state
             /\ server'[s].name = server[s].name /\ server'[s].rival = server[s].rival
             /\ server'[s].served = sv(s) /\ server'[s].requests = rq(s)
  <2>1. server[s] \in N!Server /\ sv(s) \in Nat /\ rq(s) \in Nat
    BY <1>0, ServerFields
  <2> DEFINE z == Counted(server[s], sv(s), rq(s))
  <2>2. server'[s] = z
    BY <1>1 DEF Counted
  <2> HIDE DEF sv, rq
  <2>3. /\ z \in N!Server /\ z.state = server[s].state /\ z.name = server[s].name
        /\ z.served = sv(s) /\ z.requests = rq(s) /\ z.rival = server[s].rival
    BY <2>1, PutCounts
  <2> HIDE DEF z
  <2> QED BY <2>2, <2>3
<1>4. server' \in [Servers -> N!Server]
  <2>1. \A s \in Servers : server'[s] \in N!Server
    BY <1>3
  <2> QED BY <1>1, <2>1
<1>5. /\ request' \in [Requests -> N!Request] /\ request'[r].state = "done"
      /\ \A q \in Requests : q # r => request'[q] = request[q]
  BY <1>0, <1>1 DEF N!Request
<1>late. late' = late
  BY <1>1
<1>6. \A q \in Requests : RequestOK(request[q])'
  <2> TAKE q \in Requests
  <2>1. CASE q = r
    BY <1>5, <2>1 DEF RequestOK
  <2>2. CASE q # r
    <3>1. RequestOK(request[q]) /\ request'[q] = request[q]
      BY <1>0, <1>5, <2>2
    <3> QED BY <1>late, <1>3, <3>1 DEF RequestOK, Used, Odd
  <2> QED BY <2>1, <2>2
<1>7. N!TrafficIsPerServer'
  <2> SUFFICES ASSUME NEW s \in Servers, server'[s].requests # server'[s].served
               PROVE  \E t \in Servers : server'[t].name = server'[s].name
                                           /\ (server'[t].rival \/ t \in late')
    BY DEF N!TrafficIsPerServer
  <2>1. CASE server[s].requests # server[s].served
    <3>1. PICK t \in Servers : server[t].name = server[s].name
                                  /\ (server[t].rival \/ t \in late)
      BY <1>0, <2>1 DEF N!TrafficIsPerServer
    <3> QED BY <1>late, <1>3, <3>1
  <2>2. CASE server[s].requests = server[s].served
    <3>1. s \in {a, e} /\ a # e
      BY <1>3, <2>2
    <3>2. a \in Servers /\ Odd(a) /\ server[s].name = server[a].name
      BY <1>2, <3>1, HostAssumption DEF Used
    <3> QED BY <1>late, <1>3, <3>2 DEF Odd
  <2> QED BY <2>1, <2>2
<1>8. N!TypeOK' /\ Connected'
  BY <1>0, <1>1, <1>3, <1>4, <1>5 DEF N!TypeOK, Connected
<1>9. up' => Overlaps'
  <2> SUFFICES ASSUME NEW q \in Servers, NEW t \in Servers, q # t,
                      server'[q].state = "binding",
                      server'[t].state \in {"binding", "listening"},
                      server'[q].name = server'[t].name
               PROVE  server'[t].rival
    BY DEF Overlaps
  <2>1. /\ server[q].state = "binding" /\ server[t].state \in {"binding", "listening"}
        /\ server[q].name = server[t].name
    BY <1>3
  <2>2. Overlaps
    BY <1>0, <1>1
  <2>3. server[t].rival
    BY <2>1, <2>2 DEF Overlaps
  <2> QED BY <1>3, <2>3
<1>10. N!ListenersAreListed'
  <2>1. ASSUME NEW n \in Names, table'[n] # N!NoServer
        PROVE  server'[table'[n]].state = "listening" /\ server'[table'[n]].name = n
    <3>1. table'[n] = table[n] /\ table[n] \in Servers
            /\ server[table[n]].state = "listening" /\ server[table[n]].name = n
      BY <1>0, <1>1, <2>1 DEF N!ListenersAreListed, N!TypeOK
    <3> QED BY <1>3, <3>1
  <2>2. ASSUME NEW t \in Servers, server'[t].state = "listening"
        PROVE  server'[t].rival \/ table'[server'[t].name] = t
    <3>1. server[t].state = "listening" /\ up /\ table' = table
      BY <1>1, <1>3, <2>2
    <3>2. server[t].rival \/ table[server[t].name] = t
      BY <1>0, <3>1 DEF N!ListenersAreListed, N!In
    <3> QED BY <1>3, <3>1, <3>2
  <2> QED BY <2>1, <2>2 DEF N!ListenersAreListed, N!In
<1>11. \A t \in Servers : Named(t)'
  <2> TAKE t \in Servers
  <2>1. CASE server[t].state = "unused"
    <3>1. server[t] = NewServer /\ t # a /\ t # e
      BY <1>0, <1>2, <2>1, HostAssumption DEF Named, Used
    <3>2. server[t] \in N!Server
      BY <1>0
    <3>3. server'[t] = [server[t] EXCEPT !.served = server[t].served,
                                         !.requests = server[t].requests]
      BY <1>1, <3>1
    <3>4. server'[t] = server[t]
      BY <3>2, <3>3 DEF N!Server
    <3> QED BY <2>1, <3>1, <3>4 DEF Named
  <2>2. CASE server[t].state # "unused"
    BY <1>0, <1>3, <2>2 DEF Named
  <2> QED BY <2>1, <2>2
<1> QED BY <1>6, <1>7, <1>8, <1>9, <1>10, <1>11 DEF NetsInv

(* Every step of the network manager keeps its invariant.                  *)
LEMMA NextNets == NetsInv /\ [N!Next]_(N!vars) => NetsInv'
<1> SUFFICES ASSUME NetsInv, [N!Next]_(N!vars) PROVE NetsInv'
  OBVIOUS
<1>1. CASE N!Halt
  <2>0. /\ N!TypeOK /\ server \in [Servers -> N!Server] /\ \A t \in Servers : Named(t)
        /\ N!ListenersAreListed /\ Connected
    BY DEF NetsInv, N!TypeOK
  <2>1. /\ up /\ up' = FALSE /\ UNCHANGED <<table, request, conns, late>>
        /\ server' = [s \in Servers |-> IF s \in N!Range(table)
                        THEN [server[s] EXCEPT !.state = "closed"] ELSE server[s]]
    BY <1>1 DEF N!Halt, N!links
  <2>2. \A s \in N!Range(table) : s \in Servers => server[s].state = "listening"
    BY <2>0, <2>1, HostAssumption DEF N!Range, N!ListenersAreListed, N!TypeOK
  <2>3. ASSUME NEW s \in Servers
        PROVE  /\ server'[s] \in N!Server /\ server'[s].name = server[s].name
               /\ server'[s].requests = server[s].requests
               /\ server'[s].served = server[s].served
               /\ server'[s].rival = server[s].rival
               /\ server[s].state = "unused" => server'[s] = server[s]
               /\ server[s].state # "unused" => server'[s].state # "unused"
               /\ server'[s].state \in {server[s].state, "closed"}
    <3>1. server[s] \in N!Server
      BY <2>0
    <3>2. CASE s \in N!Range(table)
      <4> DEFINE z == [server[s] EXCEPT !.state = "closed"]
      <4>1. server'[s] = z
        BY <2>1, <3>2
      <4>2. server[s].state = "listening"
        BY <2>2, <3>2
      <4>3. /\ z \in N!Server /\ z.state = "closed" /\ z.name = server[s].name
            /\ z.requests = server[s].requests /\ z.served = server[s].served
            /\ z.rival = server[s].rival
        BY <3>1, PutState
      <4> HIDE DEF z
      <4> QED BY <4>1, <4>2, <4>3
    <3>3. CASE s \notin N!Range(table)
      BY <2>1, <3>1, <3>3
    <3> QED BY <3>2, <3>3
  <2>4. server' \in [Servers -> N!Server]
    <3>1. \A s \in Servers : server'[s] \in N!Server
      BY <2>3
    <3> QED BY <2>1, <3>1
  <2>5. (\A r \in Requests : RequestOK(request[r])') /\ N!TrafficIsPerServer'
    BY <2>1, <2>3, <2>4, KeepCounts
  <2>6. \A t \in Servers : Named(t)'
    BY <2>0, <2>3 DEF Named
  <2>7. N!TypeOK' /\ Connected'
    BY <2>0, <2>1, <2>3, <2>4 DEF N!TypeOK, Connected
  <2>8. N!ListenersAreListed' /\ (up' => Overlaps')
    BY <2>1 DEF N!ListenersAreListed
  <2> QED BY <2>5, <2>6, <2>7, <2>8 DEF NetsInv
<1>2. CASE UNCHANGED N!vars
  BY <1>2 DEF N!vars, NetsInv, N!TypeOK, Named, N!ListenersAreListed, N!In, Overlaps,
              RequestOK, Used, Odd, N!TrafficIsPerServer, Connected
<1>3. ASSUME NEW s \in Servers, N!Connects(s) \/ N!Disconnects(s)  PROVE NetsInv'
  <2>1. /\ UNCHANGED <<up, table, server, request, late>>
        /\ \A t \in conns' : t \in conns \/ (t = s /\ server[s].state = "listening")
    BY <1>3 DEF N!Connects, N!Disconnects
  <2> QED BY <2>1 DEF NetsInv, N!TypeOK, Named, N!ListenersAreListed, N!In, Overlaps,
              RequestOK, Used, Odd, N!TrafficIsPerServer, Connected
<1> QED BY <1>1, <1>2, <1>3, ServeNets, ListeningNets, CloseNets, ArrivesNets,
           MalformedNets, AnsweredNets DEF N!Next

(* The network manager keeps its invariant on the host.                    *)
LEMMA NetsCorrect == Spec => []NetsInv
  BY InitNets, NextNets, StepOfParts, PTL DEF Spec, Init

(* net.list shows every server that listens, and only those, except where  *)
(* two net.serve calls of one name overlapped.                             *)
THEOREM ListenersCorrect == Spec => []ListenersAreListed
<1>1. NetsInv => ListenersAreListed
  BY DEF NetsInv, ListenersAreListed
<1> QED BY <1>1, NetsCorrect, PTL

(* The counter of a server counts its own requests, also when its name was *)
(* reused while one of them was in progress, unless servers of that name   *)
(* overlapped or one took a request after its net.stop.                    *)
THEOREM TrafficCorrect == Spec => []TrafficIsPerServer
<1>1. NetsInv => TrafficIsPerServer
  BY DEF NetsInv, TrafficIsPerServer
<1> QED BY <1>1, NetsCorrect, PTL
=============================================================================
