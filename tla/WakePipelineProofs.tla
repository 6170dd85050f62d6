------------------------- MODULE WakePipelineProofs -------------------------
(***************************************************************************)
(* Proofs about WakePipeline, for every set of names and job objects,      *)
(* every count, configuration and number of signals.  Three inductive      *)
(* invariants, one per concern: what a job object has pending (the         *)
(* scheduler), whom voidinit has told to stop, and where each wakeup is on *)
(* its way from the timer to the mind.                                     *)
(***************************************************************************)
EXTENDS WakePipeline, FiniteSetTheorems, TLAPS

----------------------------------------------------------------------------
(* Types, with what a kernel that does not answer has to its name (before  *)
(* it listens nothing at all, after its death no job and no queue), and    *)
(* with the phases in which voidinit may hold drained wakeups.             *)
Late == {"waking", "turn", "stopping", "exiting", "ended"}

Unused == /\ table = [n \in Names |-> S!NoJob] /\ made = {}
          /\ job = [j \in Jobs |-> S!Blank]
          /\ wakeQueue = <<>> /\ seq = 0

Types ==
    /\ S!TypeOK
    /\ handed \in Seq(S!Wakeup) /\ batch \in Seq(S!Wakeup) /\ taken \in Seq(S!Wakeup)
    /\ ~ready => Unused
    /\ ready => proc["kernel"] # "dead"
    /\ ~ready /\ proc["kernel"] # "dead" => handed = <<>> /\ batch = <<>> /\ taken = <<>>
    /\ phase = "waking" => batch # <<>>
    /\ phase \notin Late => batch = <<>>

(* The jobs.                                                               *)
Limit(s) == IF s.maxRuns > 0 THEN s.maxRuns ELSE 1

(* A pending timer has a run left to it.                                   *)
JobOK(s) ==
    /\ s.timers + s.kids <= 1
    /\ s.kids > 0 => s.kind = "shell"
    /\ s.capped => s.runs + s.timers <= Limit(s)

Carried(s) == s.timers + s.kids = IF s.enabled THEN 1 ELSE 0

JobsInv ==
    /\ \A j \in Jobs : JobOK(job[j])
    /\ \A j \in Jobs : j \notin made => job[j] = S!Blank
    /\ \A n \in Names : table[n] # S!NoJob => table[n] \in made /\ Carried(job[table[n]])
    /\ \A n, m \in Names : table[n] # S!NoJob /\ table[n] = table[m] => n = m
    /\ \A j \in made : (\A n \in Names : table[n] # j) /\ job[j].timers > 0 =>
          job[j].kind = "shell" /\ job[j].recurring

(* voidinit's children: who has been told, from the phase it is in.        *)
StopInv ==
    /\ proc \in [V!Children -> {"none", "alive", "told", "killed", "dead"}]
    /\ proc["kernel"] # "none" /\ proc["console"] # "killed"
    /\ phase = "naming" \/ "console" \in known => proc["console"] # "none"
    /\ phase \in {"stopping", "exiting"} \/ (phase = "ended" /\ end = "asked") =>
         ("console" \in known => proc["console"] \in {"told", "dead"})
    /\ phase = "exiting" \/ (phase = "ended" /\ end = "asked") =>
         ("kernel" \in known => proc["kernel"] \in {"dead", "killed"})

----------------------------------------------------------------------------
(* The wakeups: each hand-over keeps the order of firing.                  *)
Rising(q) == \A i, k \in 1 .. Len(q) : i < k => q[i].id < q[k].id
Elems(q) == {q[i] : i \in 1 .. Len(q)}
Before(p, q) == \A x \in Elems(p), y \in Elems(q) : x.id < y.id
Apart(p, q) == \A x \in Elems(p), y \in Elems(q) : x.id # y.id
Wakeups == Elems(handed) \cup Elems(batch) \cup Elems(wakeQueue) \cup Elems(taken)

OrderInv ==
    /\ Rising(handed) /\ Rising(batch) /\ Rising(wakeQueue) /\ Rising(taken)
    /\ Before(handed, batch) /\ Before(handed, wakeQueue) /\ Before(batch, wakeQueue)
    /\ Before(taken, wakeQueue) /\ Apart(handed, taken) /\ Apart(batch, taken)

CountInv ==
    ready =>
      /\ {w.id : w \in Wakeups} = 1 .. seq
      /\ \A j \in Jobs : job[j].kind = "wake" =>
           LET W == {w \in Wakeups : w.job = j}
           IN  IsFiniteSet(W) /\ Cardinality(W) = job[j].runs
----------------------------------------------------------------------------
(* What the steps of voidinit leave alone.                                 *)

BootSteps ==
    \/ V!KernelNamed \/ V!GateReady \/ V!NeverReady \/ V!StartConsole \/ V!ConsoleNamed
    \/ V!BuildMind \/ V!TaskDone \/ V!ShellDone \/ V!Raises
    \/ V!KernelReaped \/ V!Signal \/ V!StopDone \/ V!StopKills \/ V!Exit
    \/ V!Dies("console")

(* Only RunWakeup touches the wakeups, only the kernel's own start makes   *)
(* it ready, and none of these steps is the kernel's death.                *)
LEMMA BootFacts ==
  ASSUME StopInv, Boots
  PROVE  /\ UNCHANGED <<table, made, job, seq, taken, wakeQueue>>
         /\ \/ V!RunWakeup /\ UNCHANGED <<ready, proc>>
            \/ V!TurnEnds /\ UNCHANGED <<ready, proc, batch, handed>>
            \/ V!KernelListens /\ UNCHANGED <<proc, phase, batch, handed>>
            \/ BootSteps /\ UNCHANGED <<ready, batch, handed>>
                 /\ (phase' = "waking" => phase = "waking")
                 /\ (phase \in Late => phase' \in Late)
         /\ proc'["kernel"] = "dead" <=> proc["kernel"] = "dead"
<1>1. UNCHANGED <<table, made, job, seq, taken>>
  BY DEF Boots, jobs
<1>2. CASE V!RunWakeup
  BY <1>1, <1>2 DEF V!RunWakeup
<1>5. CASE V!TurnEnds
  BY <1>1, <1>5 DEF V!TurnEnds, V!wakes
<1>3. CASE V!KernelListens
  BY <1>1, <1>3 DEF V!KernelListens, V!main, V!wakes
<1>4. CASE BootSteps
  <2> DEFINE Quiet == /\ UNCHANGED <<ready, batch, handed, wakeQueue>>
                      /\ proc'["kernel"] = "dead" <=> proc["kernel"] = "dead"
                      /\ phase' = "waking" => phase = "waking"
                      /\ phase \in Late => phase' \in Late
  <2>1. V!KernelNamed \/ V!GateReady \/ V!NeverReady \/ V!StartConsole \/ V!ConsoleNamed
          => Quiet
    BY DEF StopInv, V!KernelNamed, V!GateReady, V!NeverReady, V!StartConsole,
           V!ConsoleNamed, V!wakes, V!Running, V!Children, V!Go, V!Ends, Late
  <2>2. V!shutdown => Quiet
    BY DEF StopInv, V!shutdown, V!wakes, V!Seen, V!Running, V!Children, Late
  <2>3. V!BuildMind \/ V!TaskDone \/ V!ShellDone \/ V!Raises \/ V!KernelReaped \/ V!Signal
          => Quiet
    BY <2>2 DEF V!BuildMind, V!TaskDone, V!ShellDone, V!Raises, V!KernelReaped,
           V!Signal, V!wakes, V!Go, V!Ends, V!AfterBuild, Late
  <2>4. V!StopDone \/ V!StopKills \/ V!Exit \/ V!Dies("console") => Quiet
    BY DEF StopInv, V!StopDone, V!StopKills, V!Exit, V!Dies, V!wakes, V!main,
           V!Seen, V!Running, V!killed, V!Children, V!Go, Late
  <2> QED BY <1>1, <1>4, <2>1, <2>3, <2>4 DEF BootSteps
<1> QED BY <1>2, <1>3, <1>4, <1>5 DEF Boots, V!Boots, BootSteps

(* Everything else leaves voidinit alone, but for the phase it polls in.   *)
LEMMA OtherFacts ==
  ASSUME Schedules \/ Regrants \/ PollFails \/ OtherDrains
  PROVE  UNCHANGED <<phase, known, end, proc, batch, handed, ready>>
  BY DEF Schedules, Regrants, PollFails, OtherDrains, inits, given, S!Works, S!schedule, S!cancel,
         S!fireWake, S!fireShell, S!ChildEnds, S!drainWakeups

----------------------------------------------------------------------------
(* The orderly stop.                                                       *)

(* The kernel has forked and nothing was asked of it.                      *)
LEMMA InitStop == Init => StopInv
  BY DEF Init, V!Init, StopInv, V!Children

(* shutdown() tells the children it sees, and nobody else acts on them but *)
(* by dying.                                                               *)
LEMMA NextStop == StopInv /\ [Next]_vars => StopInv'
<1> SUFFICES ASSUME StopInv, [Next]_vars PROVE StopInv'
  OBVIOUS
<1>0. ASSUME UNCHANGED <<phase, known, end, proc>>  PROVE StopInv'
  BY <1>0 DEF StopInv
<1>1. CASE Schedules \/ Regrants \/ PollFails \/ OtherDrains
  BY <1>0, <1>1, OtherFacts
<1>2. CASE poll_wakeups
  BY <1>2 DEF poll_wakeups, V!poll_wakeups, V!Go, StopInv
<1>3. CASE KernelDies
  BY <1>3 DEF KernelDies, V!Dies, V!main, V!Running, StopInv, V!Children
<1>4. CASE Boots
  <2>1. ASSUME V!shutdown  PROVE StopInv'
    <3>1. /\ phase' = "stopping" /\ known' = known
          /\ proc' = [c \in V!Children |->
                IF V!Seen(c) /\ proc[c] # "killed" THEN "told" ELSE proc[c]]
      BY <2>1 DEF V!shutdown
    <3>2. proc' \in [V!Children -> {"none", "alive", "told", "killed", "dead"}]
      BY <3>1 DEF StopInv
    <3>3. proc'["kernel"] # "none" /\ proc'["console"] # "killed"
      BY <3>1 DEF StopInv, V!Children
    <3>4. "console" \in known => proc'["console"] \in {"told", "dead"}
      BY <3>1 DEF StopInv, V!Children, V!Seen, V!Running
    <3> QED BY <3>1, <3>2, <3>3, <3>4 DEF StopInv
  <2>2. CASE V!RunWakeup \/ V!TurnEnds
    BY <2>2 DEF V!RunWakeup, V!TurnEnds, V!Go, StopInv
  <2>3. CASE V!KernelListens
    BY <1>0, <2>3 DEF V!KernelListens, V!main
  <2>4. CASE V!KernelNamed \/ V!ConsoleNamed
    BY <2>4 DEF V!KernelNamed, V!ConsoleNamed, StopInv
  <2>5. CASE V!GateReady \/ V!Raises \/ V!KernelReaped \/ V!Exit
    BY <2>5 DEF V!GateReady, V!Raises, V!KernelReaped, V!Exit, V!Go, V!Ends, StopInv
  <2>6. CASE V!NeverReady
    BY <2>6 DEF V!NeverReady, V!Ends, V!Running, V!Children, StopInv
  <2>7. CASE V!StartConsole
    BY <2>7 DEF V!StartConsole, V!Go, V!Children, StopInv
  <2>8. CASE V!BuildMind
    BY <2>1, <2>8 DEF V!BuildMind, V!AfterBuild, StopInv
  <2>9. CASE V!TaskDone
    BY <2>1, <2>9 DEF V!TaskDone, V!Go, StopInv
  <2>10. CASE V!ShellDone \/ V!Signal
    BY <2>1, <2>10 DEF V!ShellDone, V!Signal
  <2>11. CASE V!StopDone
    BY <2>11 DEF V!StopDone, V!Go, V!Seen, V!Running, V!Children, StopInv
  <2>12. CASE V!StopKills
    BY <2>12 DEF V!StopKills, V!Go, V!killed, V!Children, StopInv
  <2>13. CASE V!Dies("console")
    BY <2>13 DEF V!Dies, V!main, V!Running, V!Children, StopInv
  <2> QED BY <1>4, <2>2, <2>3, <2>4, <2>5, <2>6, <2>7, <2>8, <2>9, <2>10, <2>11,
             <2>12, <2>13 DEF Boots, V!Boots
<1>5. CASE UNCHANGED vars
  BY <1>0, <1>5 DEF vars, inits
<1> QED BY <1>1, <1>2, <1>3, <1>4, <1>5 DEF Next

(* However many signals arrive and whenever they do, a voidinit that ends  *)
(* because it was asked to has told its Console and outlived its kernel.   *)
THEOREM OrderlyStopCorrect == Spec => []OrderlyStop
<1>1. StopInv => OrderlyStop
  BY DEF StopInv, OrderlyStop, V!OrderlyStop
<1> QED BY <1>1, InitStop, NextStop, PTL DEF Spec
----------------------------------------------------------------------------
(* What the scheduler's methods do to a job object.                        *)

(* Setting a timer changes only the timers.                                *)
LEMMA ArmedFacts ==
  ASSUME NEW s \in S!Job
  PROVE  /\ S!armed(s) \in S!Job
         /\ S!armed(s) = [s EXCEPT !.timers = s.timers + 1]
<1>1. s.timers + 1 \in Nat
  BY DEF S!Job
<1>2. S!armed(s) = [s EXCEPT !.timers = s.timers + 1]
  BY DEF S!armed
<1> QED BY <1>1, <1>2 DEF S!Job

(* A new job has its timer and a run to go.                                *)
LEMMA NewJob ==
  ASSUME NEW kind \in {"shell", "wake"}, NEW s \in S!Schedules
  PROVE  LET z == S!armed([kind |-> kind, recurring |-> s.recurring,
                           capped |-> s.capped, maxRuns |-> s.maxRuns, runs |-> 0,
                           enabled |-> TRUE, timers |-> 0, kids |-> 0])
         IN  z \in S!Job /\ JobOK(z) /\ Carried(z) /\ z.kind = kind /\ z.runs = 0
<1> DEFINE y == [kind |-> kind, recurring |-> s.recurring,
                 capped |-> s.capped, maxRuns |-> s.maxRuns, runs |-> 0,
                 enabled |-> TRUE, timers |-> 0, kids |-> 0]
           z == S!armed(y)
<1>1. s.recurring \in BOOLEAN /\ s.capped \in BOOLEAN /\ s.maxRuns \in Int
  <2>1. CASE s \in [recurring : {TRUE}, capped : {TRUE}, maxRuns : Counts]
    <3>1. s.recurring \in {TRUE} /\ s.capped \in {TRUE} /\ s.maxRuns \in Counts
      BY <2>1
    <3>2. s.recurring \in BOOLEAN /\ s.capped \in BOOLEAN
      BY <3>1, Zenon
    <3> QED BY <3>1, <3>2, PipelineAssumption
  <2>2. CASE s \in [recurring : {TRUE}, capped : {FALSE}, maxRuns : {0}]
    <3>1. s.recurring \in {TRUE} /\ s.capped \in {FALSE} /\ s.maxRuns \in {0}
      BY <2>2
    <3>2. s.recurring \in BOOLEAN /\ s.capped \in BOOLEAN
      BY <3>1, Zenon
    <3> QED BY <3>1, <3>2
  <2>3. CASE s \in [recurring : {FALSE}, capped : {TRUE}, maxRuns : {1}]
    <3>1. s.recurring \in {FALSE} /\ s.capped \in {TRUE} /\ s.maxRuns \in {1}
      BY <2>3
    <3>2. s.recurring \in BOOLEAN /\ s.capped \in BOOLEAN
      BY <3>1, Zenon
    <3> QED BY <3>1, <3>2
  <2> QED BY <2>1, <2>2, <2>3 DEF S!Schedules
<1>2. y \in S!Job /\ y.timers + 1 = 1
  BY <1>1 DEF S!Job
<1>3. z \in S!Job /\ z = [y EXCEPT !.timers = 1]
  <2> HIDE DEF y
  <2> QED BY <1>2, ArmedFacts
<1>4. z.timers = 1 /\ z.kids = 0 /\ z.runs = 0 /\ z.maxRuns = s.maxRuns
        /\ z.enabled = TRUE /\ z.kind = kind
  BY <1>2, <1>3 DEF S!Job
<1> HIDE DEF z
<1>5. JobOK(z) /\ Carried(z)
  BY <1>1, <1>4 DEF JobOK, Carried, Limit
<1> QED BY <1>3, <1>4, <1>5 DEF z

(* Clearing the timer of a job leaves it none.                             *)
LEMMA ClearFacts ==
  ASSUME NEW s \in S!Job, JobOK(s)
  PROVE  LET z == S!clearTimer(s)
         IN  /\ z \in S!Job /\ JobOK(z) /\ z.timers = 0
             /\ z.kind = s.kind /\ z.runs = s.runs
<1> DEFINE z == S!clearTimer(s)
<1>1. z = [s EXCEPT !.timers = 0]
  BY DEF S!clearTimer, S!Job, JobOK
<1>2. z \in S!Job /\ z.timers = 0 /\ z.kids = s.kids /\ z.kind = s.kind
        /\ z.runs = s.runs /\ z.capped = s.capped /\ z.maxRuns = s.maxRuns
  BY <1>1 DEF S!Job
<1> HIDE DEF z
<1>3. JobOK(z)
  BY <1>2 DEF JobOK, Limit, S!Job
<1> QED BY <1>2, <1>3 DEF z

(* The beginning of fire() spends the timer and counts the run.            *)
LEMMA FiredFacts ==
  ASSUME NEW s \in S!Job, JobOK(s), s.timers > 0
  PROVE  LET z == S!fired(s)
         IN  /\ z \in S!Job /\ z.timers = 0 /\ z.kids = 0 /\ s.kids = 0
             /\ z.runs = s.runs + 1
             /\ z.capped => z.runs <= Limit(z)
             /\ z.kind = s.kind /\ z.recurring = s.recurring /\ z.enabled = s.enabled
<1> DEFINE z == S!fired(s)
<1>1. s.timers = 1 /\ s.kids = 0
  BY DEF S!Job, JobOK
<1> DEFINE r == s.runs + 1
<1>2. z = [s EXCEPT !.timers = 0, !.runs = r]
  BY <1>1 DEF S!fired, S!Job
<1>3. r \in Nat /\ r = s.runs + 1
  BY DEF S!Job
<1> HIDE DEF r
<1>4. z \in S!Job
  <2> DEFINE y == [s EXCEPT !.timers = 0]
  <2>1. y \in S!Job
    BY DEF S!Job
  <2>2. z = [y EXCEPT !.runs = r]
    BY <1>2
  <2> HIDE DEF y, z
  <2> QED BY <1>3, <2>1, <2>2 DEF S!Job
<1>6. z.timers = 0 /\ z.runs = r /\ z.kids = s.kids /\ z.kind = s.kind
        /\ z.maxRuns = s.maxRuns
  BY <1>2 DEF S!Job
<1>5. z.recurring = s.recurring /\ z.enabled = s.enabled /\ z.capped = s.capped
  BY <1>2 DEF S!Job
<1> HIDE DEF z
<1> QED BY <1>1, <1>3, <1>4, <1>5, <1>6 DEF JobOK, Limit, S!Job, z

(* afterFire() sets a timer only where a run is left, for a recurring job, *)
(* and otherwise disables the job.                                         *)
LEMMA AfterFacts ==
  ASSUME NEW s \in S!Job, s.timers = 0, s.kids = 0, s.capped => s.runs <= Limit(s)
  PROVE  LET z == S!afterFire(s)
         IN  /\ z \in S!Job /\ JobOK(z) /\ Carried(z)
             /\ z.kind = s.kind /\ z.runs = s.runs
             /\ z.timers > 0 => z.recurring /\ s.recurring
<1> DEFINE z == S!afterFire(s)  a == S!armed(s)
<1>1. CASE s.recurring /\ ~S!reachedMax(s) /\ s.enabled
  <2>1. z = a /\ a \in S!Job /\ a = [s EXCEPT !.timers = 1]
    BY <1>1, ArmedFacts DEF S!afterFire
  <2>2. a.timers = 1 /\ a.kids = 0 /\ a.kind = s.kind /\ a.runs = s.runs
          /\ a.capped = s.capped /\ a.maxRuns = s.maxRuns
          /\ a.recurring = s.recurring /\ a.enabled = s.enabled
    BY <2>1 DEF S!Job
  <2> HIDE DEF a
  <2>3. a.capped => a.runs + a.timers <= Limit(a)
    BY <1>1, <2>2 DEF S!reachedMax, Limit, S!Job
  <2>4. JobOK(a) /\ Carried(a)
    BY <1>1, <2>2, <2>3 DEF JobOK, Carried
  <2> QED BY <1>1, <2>1, <2>2, <2>4
<1>2. CASE ~(s.recurring /\ ~S!reachedMax(s) /\ s.enabled)
  <2>1. z = [s EXCEPT !.enabled = FALSE]
    BY <1>2 DEF S!afterFire
  <2>2. z \in S!Job /\ z.timers = 0 /\ z.kids = 0 /\ z.kind = s.kind /\ z.runs = s.runs
          /\ z.capped = s.capped /\ z.maxRuns = s.maxRuns /\ z.enabled = FALSE
    BY <2>1 DEF S!Job
  <2> HIDE DEF z
  <2>3. JobOK(z) /\ Carried(z)
    BY <2>2 DEF JobOK, Carried, Limit, S!Job
  <2> QED BY <2>2, <2>3 DEF z
<1> QED BY <1>1, <1>2
----------------------------------------------------------------------------
(* The jobs and the map.                                                   *)

(* The object a job is before it is made.                                  *)
LEMMA BlankJob ==
  S!Blank \in S!Job /\ JobOK(S!Blank) /\ S!Blank.timers = 0 /\ S!Blank.kids = 0
    /\ S!Blank.kind = "wake" /\ S!Blank.runs = 0
<1>1. S!Blank \in S!Job
  BY DEF S!Blank, S!Job
<1>2. S!Blank.timers = 0 /\ S!Blank.kids = 0 /\ S!Blank.kind = "wake"
        /\ S!Blank.runs = 0 /\ S!Blank.maxRuns = 1
  BY DEF S!Blank
<1> QED BY <1>1, <1>2 DEF JobOK, Limit

(* An unused scheduler has its types and its jobs in order.                *)
LEMMA UnusedOK ==
  Unused /\ ready \in BOOLEAN => S!TypeOK
<1> SUFFICES ASSUME Unused, ready \in BOOLEAN PROVE S!TypeOK
  OBVIOUS
<1>1. job \in [Jobs -> S!Job]
  BY BlankJob DEF Unused
<1>2. table \in [Names -> Jobs \cup {S!NoJob}] /\ made \subseteq Jobs
  BY DEF Unused
<1>3. wakeQueue \in Seq(S!Wakeup) /\ seq \in Nat
  BY DEF Unused
<1> QED BY <1>1, <1>2, <1>3 DEF S!TypeOK

(* Likewise its invariant.                                                 *)
LEMMA UnusedJobs == Unused => JobsInv
  BY BlankJob DEF Unused, JobsInv

(* A job that keeps its place in the map is replaced by one in order.      *)
LEMMA PutJobs ==
  ASSUME Types, JobsInv, NEW j \in made, NEW z \in S!Job, JobOK(z),
         job' = [job EXCEPT ![j] = z], UNCHANGED <<table, made>>,
         (\E n \in Names : table[n] = j) => Carried(z),
         (\A n \in Names : table[n] # j) /\ z.timers > 0 =>
            z.kind = "shell" /\ z.recurring
  PROVE  JobsInv' /\ job' \in [Jobs -> S!Job]
<1>1. j \in Jobs /\ job \in [Jobs -> S!Job] /\ made \subseteq Jobs
  BY DEF Types, S!TypeOK
<1>2. job' \in [Jobs -> S!Job] /\ job'[j] = z /\ \A k \in Jobs : k # j => job'[k] = job[k]
  BY <1>1
<1>3. \A k \in Jobs : JobOK(job'[k])
  BY <1>2 DEF JobsInv
<1>4. \A k \in Jobs : k \notin made' => job'[k] = S!Blank
  BY <1>2 DEF JobsInv
<1>5. \A n \in Names : table'[n] # S!NoJob => table'[n] \in made' /\ Carried(job'[table'[n]])
  BY <1>1, <1>2 DEF JobsInv
<1>6. \A k \in made' : (\A n \in Names : table'[n] # k) /\ job'[k].timers > 0 =>
          job'[k].kind = "shell" /\ job'[k].recurring
  BY <1>1, <1>2 DEF JobsInv
<1> QED BY <1>2, <1>3, <1>4, <1>5, <1>6 DEF JobsInv

(* schedule() adds an object that is nobody's under a name that is free.   *)
LEMMA ScheduleJobs ==
  ASSUME Types, JobsInv, NEW n \in Names, NEW j \in Jobs,
         NEW kind \in {"shell", "wake"}, NEW s \in S!Schedules,
         S!schedule(n, j, kind, s)
  PROVE  /\ JobsInv' /\ job' \in [Jobs -> S!Job]
         /\ table' \in [Names -> Jobs \cup {S!NoJob}] /\ made' \subseteq Jobs
         /\ job[j] = S!Blank
         /\ \E z \in S!Job : job' = [job EXCEPT ![j] = z] /\ z.kind = kind /\ z.runs = 0
<1> DEFINE z == S!armed([kind |-> kind, recurring |-> s.recurring,
                         capped |-> s.capped, maxRuns |-> s.maxRuns, runs |-> 0,
                         enabled |-> TRUE, timers |-> 0, kids |-> 0])
<1>1. /\ table[n] = S!NoJob /\ j \notin made /\ table' = [table EXCEPT ![n] = j]
      /\ made' = made \cup {j} /\ job' = [job EXCEPT ![j] = z]
  BY DEF S!schedule, S!Has, S!Put
<1>2. z \in S!Job /\ JobOK(z) /\ Carried(z) /\ z.kind = kind /\ z.runs = 0
  BY NewJob
<1> HIDE DEF z
<1>3. job \in [Jobs -> S!Job] /\ made \subseteq Jobs
        /\ table \in [Names -> Jobs \cup {S!NoJob}]
  BY DEF Types, S!TypeOK
<1>4. job' \in [Jobs -> S!Job] /\ job'[j] = z /\ \A k \in Jobs : k # j => job'[k] = job[k]
  BY <1>1, <1>2, <1>3
<1>5. table'[n] = j /\ \A m \in Names : m # n => table'[m] = table[m]
  BY <1>1, <1>3
<1>6. \A m \in Names : table[m] # j
  BY <1>1, PipelineAssumption DEF JobsInv
<1>7. \A k \in Jobs : JobOK(job'[k])
  BY <1>2, <1>4 DEF JobsInv
<1>8. \A k \in Jobs : k \notin made' => job'[k] = S!Blank
  BY <1>1, <1>4 DEF JobsInv
<1>9. \A m \in Names : table'[m] # S!NoJob => table'[m] \in made' /\ Carried(job'[table'[m]])
  BY <1>1, <1>2, <1>3, <1>4, <1>5, <1>6 DEF JobsInv
<1>10. \A m, k \in Names : table'[m] # S!NoJob /\ table'[m] = table'[k] => m = k
  BY <1>5, <1>6 DEF JobsInv
<1>11. \A k \in made' : (\A m \in Names : table'[m] # k) /\ job'[k].timers > 0 =>
          job'[k].kind = "shell" /\ job'[k].recurring
  <2> SUFFICES ASSUME NEW k \in made', \A m \in Names : table'[m] # k, job'[k].timers > 0
               PROVE  job'[k].kind = "shell" /\ job'[k].recurring
    OBVIOUS
  <2>1. k # j /\ k \in made
    BY <1>1, <1>5
  <2>2. \A m \in Names : table[m] # k
    BY <1>1, <1>3, <1>5, <2>1, PipelineAssumption
  <2> QED BY <1>3, <1>4, <2>1, <2>2 DEF JobsInv
<1>12. JobsInv'
  BY <1>7, <1>8, <1>9, <1>10, <1>11 DEF JobsInv
<1>13. job[j] = S!Blank
  BY <1>1 DEF JobsInv
<1>14. table' \in [Names -> Jobs \cup {S!NoJob}] /\ made' \subseteq Jobs
  BY <1>1, <1>3
<1> QED BY <1>1, <1>2, <1>4, <1>12, <1>13, <1>14

(* cancel() frees the name and the timer.                                  *)
LEMMA CancelJobs ==
  ASSUME Types, JobsInv, NEW n \in Names, S!cancel(n)
  PROVE  /\ JobsInv' /\ job' \in [Jobs -> S!Job]
         /\ table' \in [Names -> Jobs \cup {S!NoJob}] /\ made' = made
         /\ \A j \in Jobs : job'[j].kind = job[j].kind /\ job'[j].runs = job[j].runs
<1> DEFINE j == table[n]  z == S!clearTimer(job[j])
<1>1. /\ j # S!NoJob /\ table' = [table EXCEPT ![n] = S!NoJob] /\ made' = made
      /\ job' = [job EXCEPT ![j] = z]
  BY DEF S!cancel, S!Has, S!Put
<1>3. job \in [Jobs -> S!Job] /\ made \subseteq Jobs
        /\ table \in [Names -> Jobs \cup {S!NoJob}]
  BY DEF Types, S!TypeOK
<1>2. j \in made /\ j \in Jobs /\ job[j] \in S!Job /\ JobOK(job[j])
  BY <1>1, <1>3 DEF JobsInv
<1> HIDE DEF j
<1>4. z \in S!Job /\ JobOK(z) /\ z.timers = 0 /\ z.kind = job[j].kind
        /\ z.runs = job[j].runs
  BY <1>2, ClearFacts
<1> HIDE DEF z
<1>5. job' \in [Jobs -> S!Job] /\ job'[j] = z /\ \A k \in Jobs : k # j => job'[k] = job[k]
  BY <1>1, <1>2, <1>3, <1>4
<1>6. table'[n] = S!NoJob /\ \A m \in Names : m # n => table'[m] = table[m]
  BY <1>1, <1>3
<1>7. \A k \in Jobs : JobOK(job'[k])
  BY <1>4, <1>5 DEF JobsInv
<1>8. \A k \in Jobs : k \notin made' => job'[k] = S!Blank
  BY <1>1, <1>2, <1>5 DEF JobsInv
<1>9. \A m \in Names : table'[m] # S!NoJob => table'[m] \in made' /\ Carried(job'[table'[m]])
  BY <1>1, <1>3, <1>5, <1>6 DEF JobsInv, j
<1>10. \A m, k \in Names : table'[m] # S!NoJob /\ table'[m] = table'[k] => m = k
  BY <1>6 DEF JobsInv
<1>11. \A k \in made' : (\A m \in Names : table'[m] # k) /\ job'[k].timers > 0 =>
          job'[k].kind = "shell" /\ job'[k].recurring
  <2> SUFFICES ASSUME NEW k \in made, \A m \in Names : table'[m] # k, job'[k].timers > 0
               PROVE  job'[k].kind = "shell" /\ job'[k].recurring
    BY <1>1
  <2>1. k # j
    BY <1>4, <1>5
  <2>2. \A m \in Names : table[m] # k
    BY <1>6, <2>1 DEF j
  <2> QED BY <1>3, <1>5, <2>1, <2>2 DEF JobsInv
<1>12. JobsInv'
  BY <1>7, <1>8, <1>9, <1>10, <1>11 DEF JobsInv
<1>13. table' \in [Names -> Jobs \cup {S!NoJob}]
  BY <1>1, <1>3
<1> QED BY <1>1, <1>4, <1>5, <1>12, <1>13

(* A job with something pending has been made.                             *)
LEMMA PendingIsMade ==
  ASSUME Types, JobsInv, NEW j \in Jobs, job[j].timers > 0 \/ job[j].kids > 0
  PROVE  j \in made /\ job[j] \in S!Job /\ JobOK(job[j])
  BY BlankJob DEF Types, S!TypeOK, JobsInv

(* A listed job with something pending is enabled.                         *)
LEMMA ListedIsEnabled ==
  ASSUME Types, JobsInv, NEW j \in Jobs, job[j].timers > 0 \/ job[j].kids > 0,
         NEW n \in Names, table[n] = j
  PROVE  Carried(job[j]) /\ job[j].enabled
<1>1. Carried(job[j])
  BY PipelineAssumption DEF JobsInv
<1>2. job[j].timers \in Nat /\ job[j].kids \in Nat
  BY PendingIsMade DEF S!Job
<1> QED BY <1>1, <1>2 DEF Carried

(* The three steps of a job under way.                                     *)
LEMMA FireJobs ==
  ASSUME Types, JobsInv, NEW j \in Jobs,
         S!fireWake(j) \/ S!fireShell(j) \/ S!ChildEnds(j)
  PROVE  /\ JobsInv' /\ UNCHANGED <<table, made>> /\ j \in made
         /\ \E z \in S!Job :
              /\ job' = [job EXCEPT ![j] = z] /\ z.kind = job[j].kind
              /\ S!fireWake(j) => job[j].kind = "wake" /\ z.runs = job[j].runs + 1
              /\ ~S!fireWake(j) => job[j].kind = "shell"
<1> DEFINE s == job[j]
<1>0. s.timers > 0 \/ s.kids > 0
  BY DEF S!fireWake, S!fireShell, S!ChildEnds, S!Firing
<1>1. j \in made /\ s \in S!Job /\ JobOK(s)
  BY <1>0, PendingIsMade
<1>2. (\A n \in Names : table[n] # j) /\ s.timers > 0 => s.kind = "shell" /\ s.recurring
  BY <1>1 DEF JobsInv
<1>3. CASE S!fireWake(j)
  <2> DEFINE f == S!fired(s)  z == S!afterFire(f)
  <2>1. s.timers > 0 /\ s.kind = "wake" /\ job' = [job EXCEPT ![j] = z]
          /\ UNCHANGED <<table, made>>
    BY <1>3 DEF S!fireWake, S!Firing, S!Put
  <2> HIDE DEF s
  <2>2. f \in S!Job /\ f.timers = 0 /\ f.kids = 0 /\ (f.capped => f.runs <= Limit(f))
          /\ f.kind = s.kind /\ f.runs = s.runs + 1
    BY <1>1, <2>1, FiredFacts
  <2> HIDE DEF f
  <2>3. z \in S!Job /\ JobOK(z) /\ Carried(z) /\ z.kind = s.kind /\ z.runs = s.runs + 1
    BY <2>2, AfterFacts
  <2>4. ~\A n \in Names : table[n] # j
    BY <1>2, <2>1
  <2> HIDE DEF z
  <2>5. JobsInv'
    BY <1>1, <2>1, <2>3, <2>4, PutJobs
  <2> QED BY <1>1, <1>3, <2>1, <2>3, <2>5 DEF s
<1>4. CASE S!fireShell(j)
  <2> DEFINE f == S!fired(s)  z == [f EXCEPT !.kids = 1]
  <2>1. s.timers > 0 /\ s.kind = "shell" /\ job' = [job EXCEPT ![j] = [f EXCEPT !.kids = @ + 1]]
          /\ UNCHANGED <<table, made>>
    BY <1>4 DEF S!fireShell, S!Firing, S!Put
  <2>e. ~S!fireWake(j)
    BY <2>1 DEF S!fireWake, S!Firing
  <2>c. \A n \in Names : table[n] = j => s.enabled
    BY <1>0, ListedIsEnabled
  <2> HIDE DEF s
  <2>2. f \in S!Job /\ f.timers = 0 /\ f.kids = 0 /\ (f.capped => f.runs <= Limit(f))
          /\ f.kind = s.kind /\ f.enabled = s.enabled
    BY <1>1, <2>1, FiredFacts
  <2> HIDE DEF f
  <2>3. job' = [job EXCEPT ![j] = z]
    BY <2>1, <2>2 DEF S!Job
  <2>4. z \in S!Job /\ z.timers = 0 /\ z.kids = 1 /\ z.kind = s.kind
          /\ z.runs = f.runs /\ z.maxRuns = f.maxRuns
    BY <2>2 DEF S!Job
  <2>5. z.capped = f.capped /\ z.enabled = f.enabled
    BY <2>2 DEF S!Job
  <2> HIDE DEF z
  <2>6. JobOK(z)
    BY <2>1, <2>2, <2>4, <2>5 DEF JobOK, Limit, S!Job
  <2>7. /\ (\E n \in Names : table[n] = j) => Carried(z)
        /\ ~(z.timers > 0)
    BY <2>2, <2>4, <2>5, <2>c DEF Carried
  <2>8. JobsInv'
    BY <1>1, <2>1, <2>3, <2>4, <2>6, <2>7, PutJobs
  <2> QED BY <1>1, <2>1, <2>3, <2>4, <2>8, <2>e DEF s
<1>5. CASE S!ChildEnds(j)
  <2> DEFINE f == [s EXCEPT !.kids = 0]  z == S!afterFire(f)
  <2>0. s.kids = 1 /\ s.timers = 0 /\ s.kind = "shell"
    BY <1>1, <1>5 DEF S!ChildEnds, JobOK, S!Job
  <2>1. [s EXCEPT !.kids = @ - 1] = f
    BY <1>1, <2>0 DEF S!Job
  <2>2. job' = [job EXCEPT ![j] = z] /\ UNCHANGED <<table, made>>
    BY <1>5, <2>1 DEF S!ChildEnds, S!Put
  <2>e. ~S!fireWake(j)
    BY <2>0 DEF S!fireWake, S!Firing
  <2> HIDE DEF s
  <2>3. f \in S!Job /\ f.timers = 0 /\ f.kids = 0 /\ f.kind = s.kind
          /\ f.runs = s.runs /\ f.maxRuns = s.maxRuns
    BY <1>1, <2>0 DEF S!Job
  <2>4. f.capped = s.capped
    BY <1>1 DEF S!Job
  <2>5. f.capped => f.runs <= Limit(f)
    BY <1>1, <2>0, <2>3, <2>4 DEF JobOK, Limit, S!Job
  <2> HIDE DEF f
  <2>6. z \in S!Job /\ JobOK(z) /\ Carried(z) /\ z.kind = s.kind
          /\ (z.timers > 0 => z.recurring)
    BY <2>3, <2>5, AfterFacts
  <2> HIDE DEF z
  <2>7. JobsInv'
    BY <1>1, <2>0, <2>2, <2>6, PutJobs
  <2> QED BY <1>1, <2>0, <2>2, <2>6, <2>7, <2>e DEF s
<1> QED BY <1>3, <1>4, <1>5

(* The kernel is up when the scheduler works.                              *)
LEMMA WorksFacts ==
  ASSUME Schedules
  PROVE  /\ ready /\ ready' = ready
         /\ UNCHANGED <<handed, batch, taken, proc, phase>>
         /\ \/ UNCHANGED <<wakeQueue, seq>>
            \/ \E j \in Jobs : S!fireWake(j)
<1>1. UNCHANGED <<handed, batch, taken, proc, phase>> /\ S!Works
  BY DEF Schedules, inits, given
<1>2. ASSUME NEW n \in Names, NEW j \in Jobs, NEW kind, NEW s, S!schedule(n, j, kind, s)
      PROVE  ready /\ ready' = ready /\ UNCHANGED <<wakeQueue, seq>>
  BY <1>2 DEF S!schedule, S!wakes
<1>3. ASSUME NEW n \in Names, S!cancel(n)
      PROVE  ready /\ ready' = ready /\ UNCHANGED <<wakeQueue, seq>>
  BY <1>3 DEF S!cancel, S!wakes
<1>4. ASSUME NEW j \in Jobs, S!fireShell(j) \/ S!ChildEnds(j)
      PROVE  ready /\ ready' = ready /\ UNCHANGED <<wakeQueue, seq>>
  BY <1>4 DEF S!fireShell, S!ChildEnds, S!Firing, S!wakes
<1>5. ASSUME NEW j \in Jobs, S!fireWake(j)
      PROVE  ready /\ ready' = ready
  BY <1>5 DEF S!fireWake, S!Firing
<1> QED BY <1>1, <1>2, <1>3, <1>4, <1>5 DEF S!Works

(* Nothing has been made, drained or handed over at first.                 *)
LEMMA InitJobs == Init => Types /\ JobsInv
<1> SUFFICES ASSUME Init PROVE Types /\ JobsInv
  OBVIOUS
<1>1. Unused /\ ready = FALSE
  BY DEF Init, S!Fresh, V!Init, Unused
<1>2. handed = <<>> /\ batch = <<>> /\ taken = <<>>
  BY DEF Init, V!Init
<1>3. <<>> \in Seq(S!Wakeup) /\ phase # "waking"
  BY DEF Init, V!Init
<1>4. S!TypeOK /\ JobsInv
  BY <1>1, UnusedOK, UnusedJobs
<1> QED BY <1>1, <1>2, <1>3, <1>4 DEF Types

(* Every step keeps the types and the jobs in order.                       *)
LEMMA NextJobs == StopInv /\ Types /\ JobsInv /\ [Next]_vars => Types' /\ JobsInv'
<1> SUFFICES ASSUME StopInv, Types, JobsInv, [Next]_vars PROVE Types' /\ JobsInv'
  OBVIOUS
<1>t. /\ ready \in BOOLEAN /\ table \in [Names -> Jobs \cup {S!NoJob}]
      /\ made \subseteq Jobs /\ job \in [Jobs -> S!Job]
      /\ wakeQueue \in Seq(S!Wakeup) /\ seq \in Nat
      /\ handed \in Seq(S!Wakeup) /\ batch \in Seq(S!Wakeup) /\ taken \in Seq(S!Wakeup)
  BY DEF Types, S!TypeOK
<1>0. ASSUME UNCHANGED <<table, made, job>>  PROVE JobsInv'
  BY <1>0 DEF JobsInv
<1>1. CASE Schedules
  <2>1. /\ JobsInv' /\ job' \in [Jobs -> S!Job] /\ made' \subseteq Jobs
        /\ table' \in [Names -> Jobs \cup {S!NoJob}]
    <3>1. ASSUME NEW n \in Names, S!cancel(n)
          PROVE  /\ JobsInv' /\ job' \in [Jobs -> S!Job] /\ made' \subseteq Jobs
                 /\ table' \in [Names -> Jobs \cup {S!NoJob}]
      BY <1>t, <3>1, CancelJobs
    <3>2. ASSUME NEW j \in Jobs, S!fireWake(j) \/ S!fireShell(j) \/ S!ChildEnds(j)
          PROVE  /\ JobsInv' /\ job' \in [Jobs -> S!Job] /\ made' \subseteq Jobs
                 /\ table' \in [Names -> Jobs \cup {S!NoJob}]
      BY <1>t, <3>2, FireJobs
    <3> QED BY <1>1, <3>1, <3>2, ScheduleJobs DEF Schedules, S!Works
  <2>2. wakeQueue' \in Seq(S!Wakeup) /\ seq' \in Nat
    <3>1. ASSUME NEW j \in Jobs, S!fireWake(j)
          PROVE  wakeQueue' \in Seq(S!Wakeup) /\ seq' \in Nat
      <4>1. [id |-> seq + 1, job |-> j] \in S!Wakeup /\ seq + 1 \in Nat
        BY <1>t DEF S!Wakeup
      <4> QED BY <1>t, <3>1, <4>1 DEF S!fireWake
    <3> QED BY <1>1, <1>t, <3>1, WorksFacts
  <2>3. ready /\ ready' = ready /\ UNCHANGED <<handed, batch, taken, proc, phase>>
    BY <1>1, WorksFacts
  <2>4. S!TypeOK'
    BY <1>t, <2>1, <2>2, <2>3 DEF S!TypeOK
  <2> QED BY <1>t, <2>1, <2>3, <2>4 DEF Types
<1>2. CASE Boots
  <2>1. UNCHANGED <<table, made, job, seq, taken, wakeQueue>>
          /\ (proc'["kernel"] = "dead" <=> proc["kernel"] = "dead")
    BY <1>2, BootFacts
  <2>2. JobsInv'
    BY <1>0, <2>1
  <2>3. CASE V!RunWakeup /\ UNCHANGED <<ready, proc>>
    <3>1. /\ handed' = Append(handed, Head(batch)) /\ batch' = Tail(batch)
          /\ phase = "waking" /\ phase' = "turn"
      BY <2>3 DEF V!RunWakeup, V!wakesLeft, V!Go
    <3>2. batch # <<>>
      BY <3>1 DEF Types
    <3>3. handed' \in Seq(S!Wakeup) /\ batch' \in Seq(S!Wakeup)
      BY <1>t, <3>1, <3>2
    <3>4. ready \/ proc["kernel"] = "dead"
      BY <3>2 DEF Types
    <3>5. S!TypeOK' /\ (Unused' <=> Unused)
      BY <2>1, <2>3 DEF Types, S!TypeOK, Unused
    <3> QED BY <1>t, <2>1, <2>2, <2>3, <3>1, <3>3, <3>4, <3>5 DEF Types, Late
  <2>6. CASE V!TurnEnds /\ UNCHANGED <<ready, proc, batch, handed>>
    BY <2>1, <2>2, <2>6 DEF V!TurnEnds, V!Go, Types, S!TypeOK, Unused, Late
  <2>4. CASE V!KernelListens /\ UNCHANGED <<proc, phase, batch, handed>>
    BY <2>1, <2>2, <2>4 DEF V!KernelListens, Types, S!TypeOK
  <2>5. CASE UNCHANGED <<ready, batch, handed>>
               /\ (phase' = "waking" => phase = "waking") /\ (phase \in Late => phase' \in Late)
    BY <2>1, <2>2, <2>5 DEF Types, S!TypeOK, Unused
  <2> QED BY <1>2, <2>3, <2>4, <2>5, <2>6, BootFacts
<1>3. CASE poll_wakeups
  <2>1. /\ batch' = wakeQueue /\ wakeQueue' = <<>> /\ ready
        /\ phase' = "waking" /\ wakeQueue # <<>>
        /\ UNCHANGED <<table, made, job, seq, taken, ready, handed, proc>>
    BY <1>3 DEF poll_wakeups, V!poll_wakeups, S!drainWakeups, V!Go
  <2> QED BY <1>t, <1>0, <2>1 DEF Types, S!TypeOK, Late
<1>4. CASE OtherDrains \/ PollFails
  <2>1. /\ taken' = taken \o wakeQueue /\ wakeQueue' = <<>> /\ ready
        /\ UNCHANGED <<table, made, job, seq, batch, ready, handed, proc, phase>>
    BY <1>4 DEF PollFails, OtherDrains, S!drainWakeups, inits
  <2>2. taken' \in Seq(S!Wakeup)
    BY <1>t, <2>1
  <2> QED BY <1>t, <1>0, <2>1, <2>2 DEF Types, S!TypeOK
<1>5. CASE KernelDies
  <2>1. /\ ready' = FALSE /\ UNCHANGED <<handed, batch, taken, phase>>
        /\ proc'["kernel"] = "dead" /\ wakeQueue' = <<>>
    BY <1>5 DEF KernelDies, V!Dies, V!main, StopInv, V!Children
  <2>2. Unused'
    <3>1. CASE ready
      BY <1>5, <3>1 DEF KernelDies, S!Halt, Unused
    <3>2. CASE ~ready
      BY <1>5, <2>1, <3>2 DEF KernelDies, jobs, Types, Unused
    <3> QED BY <3>1, <3>2
  <2>3. S!TypeOK' /\ JobsInv'
    <3>1. Unused' /\ (ready \in BOOLEAN)' => S!TypeOK' /\ JobsInv'
      BY UnusedOK, UnusedJobs, PTL
    <3> QED BY <2>1, <2>2, <3>1
  <2> QED BY <1>t, <2>1, <2>2, <2>3 DEF Types
<1>6. CASE Regrants \/ UNCHANGED vars
  BY <1>0, <1>6 DEF Regrants, vars, jobs, inits, given, Types, S!TypeOK, Unused
<1> QED BY <1>1, <1>2, <1>3, <1>4, <1>5, <1>6 DEF Next

(* The jobs are in order throughout.                                       *)
LEMMA JobsCorrect == Spec => [](StopInv /\ Types /\ JobsInv)
  BY InitStop, NextStop, InitJobs, NextJobs, PTL DEF Spec

(* Whatever timers, commands and cancellations interleave, a scheduled and *)
(* enabled job has exactly one thing pending, and a cancelled one fires    *)
(* again only as a recurring shell job whose command was running.          *)
THEOREM OnePendingStepCorrect == Spec => []OnePendingStep
<1>1. Types /\ JobsInv => OnePendingStep
  <2> SUFFICES ASSUME Types, JobsInv PROVE OnePendingStep
    OBVIOUS
  <2>1. \A j \in Jobs : job[j].timers + job[j].kids <= 1
    BY DEF JobsInv, JobOK
  <2>2. \A n \in Names : S!Has(n) =>
          LET s == job[table[n]] IN s.timers + s.kids = IF s.enabled THEN 1 ELSE 0
    BY DEF JobsInv, Carried, S!Has
  <2>3. \A j \in made : j \notin S!Range(table) => \A n \in Names : table[n] # j
    BY DEF Types, S!TypeOK, S!Range
  <2>4. \A j \in made : j \notin S!Range(table) /\ job[j].timers > 0 =>
          job[j].kind = "shell" /\ job[j].recurring
    BY <2>3 DEF JobsInv
  <2> QED BY <2>1, <2>2, <2>4 DEF OnePendingStep, S!OnePendingStep
<1> QED BY <1>1, JobsCorrect, PTL

(* A job with a limit runs at most that often (at least once), because a   *)
(* timer is only ever set where a run is left.                             *)
THEOREM RunsWithinCountCorrect == Spec => []RunsWithinCount
<1>1. Types /\ JobsInv => RunsWithinCount
  <2> SUFFICES ASSUME Types, JobsInv, NEW j \in Jobs, job[j].capped
               PROVE  job[j].runs <= IF job[j].maxRuns > 0 THEN job[j].maxRuns ELSE 1
    BY DEF RunsWithinCount, S!RunsWithinCount
  <2>1. job[j] \in S!Job /\ JobOK(job[j])
    BY DEF Types, S!TypeOK, JobsInv
  <2> QED BY <2>1 DEF JobOK, Limit, S!Job
<1> QED BY <1>1, JobsCorrect, PTL

----------------------------------------------------------------------------
(* The way of the wakeups.                                                 *)

Wakes == Seq(S!Wakeup)

(* A sequence and what is appended to it, and the other way round.         *)
LEMMA AppendFacts ==
  ASSUME NEW q \in Wakes, NEW w \in S!Wakeup
  PROVE  LET r == Append(q, w)
         IN  /\ r \in Wakes /\ Len(r) = Len(q) + 1 /\ Len(q) \in Nat
             /\ \A i \in 1 .. Len(q) : r[i] = q[i]
             /\ r[Len(q) + 1] = w
             /\ Elems(r) = Elems(q) \cup {w}
<1> DEFINE r == Append(q, w)
<1>1. /\ r \in Wakes /\ Len(r) = Len(q) + 1 /\ Len(q) \in Nat
      /\ \A i \in 1 .. Len(q) : r[i] = q[i]
      /\ r[Len(q) + 1] = w
  BY DEF Wakes
<1> HIDE DEF r
<1>2. 1 .. Len(r) = (1 .. Len(q)) \cup {Len(q) + 1}
  BY <1>1
<1>3. Elems(r) = Elems(q) \cup {w}
  BY <1>1, <1>2 DEF Elems
<1> QED BY <1>1, <1>3 DEF r

(* Taking the head of a batch.                                             *)
LEMMA TailFacts ==
  ASSUME NEW q \in Wakes, q # <<>>
  PROVE  /\ Head(q) \in S!Wakeup /\ Tail(q) \in Wakes /\ Len(q) \in Nat /\ Len(q) > 0
         /\ Head(q) = q[1] /\ Len(Tail(q)) = Len(q) - 1
         /\ \A i \in 1 .. Len(q) - 1 : Tail(q)[i] = q[i + 1]
         /\ Elems(q) = Elems(Tail(q)) \cup {Head(q)}
<1> DEFINE r == Tail(q)
<1>1. /\ Head(q) \in S!Wakeup /\ r \in Wakes /\ Len(q) \in Nat /\ Len(q) > 0
      /\ Head(q) = q[1] /\ Len(r) = Len(q) - 1
      /\ \A i \in 1 .. Len(q) - 1 : r[i] = q[i + 1]
  BY DEF Wakes
<1> HIDE DEF r
<1>2. \A i \in 1 .. Len(q) : i = 1 \/ (i - 1 \in 1 .. Len(r) /\ r[i - 1] = q[i])
  BY <1>1
<1>3. \A i \in 1 .. Len(r) : i + 1 \in 1 .. Len(q) /\ r[i] = q[i + 1]
  BY <1>1
<1>4. 1 \in 1 .. Len(q)
  BY <1>1
<1>5. Elems(q) = Elems(r) \cup {Head(q)}
  <2>1. ASSUME NEW x \in Elems(q)  PROVE x \in Elems(r) \cup {Head(q)}
    BY <1>1, <1>2, <2>1 DEF Elems
  <2>2. ASSUME NEW x \in Elems(r) \cup {Head(q)}  PROVE x \in Elems(q)
    BY <1>1, <1>3, <1>4, <2>2 DEF Elems
  <2> QED BY <2>1, <2>2
<1> QED BY <1>1, <1>5 DEF r

(* Joining two sequences.                                                  *)
LEMMA JoinFacts ==
  ASSUME NEW p \in Wakes, NEW q \in Wakes
  PROVE  LET r == p \o q
         IN  /\ r \in Wakes /\ Len(r) = Len(p) + Len(q)
             /\ Len(p) \in Nat /\ Len(q) \in Nat
             /\ \A i \in 1 .. Len(p) : r[i] = p[i]
             /\ \A i \in 1 .. Len(q) : r[Len(p) + i] = q[i]
             /\ \A i \in 1 .. Len(r) : \/ i \in 1 .. Len(p) /\ r[i] = p[i]
                                       \/ i - Len(p) \in 1 .. Len(q) /\ r[i] = q[i - Len(p)]
             /\ Elems(r) = Elems(p) \cup Elems(q)
<1> DEFINE r == p \o q
<1>1. /\ r \in Wakes /\ Len(r) = Len(p) + Len(q) /\ Len(p) \in Nat /\ Len(q) \in Nat
      /\ \A i \in 1 .. Len(r) : r[i] = IF i <= Len(p) THEN p[i] ELSE q[i - Len(p)]
  BY DEF Wakes
<1> HIDE DEF r
<1>2. \A i \in 1 .. Len(p) : i \in 1 .. Len(r) /\ r[i] = p[i]
  BY <1>1
<1>3. \A i \in 1 .. Len(q) : Len(p) + i \in 1 .. Len(r) /\ r[Len(p) + i] = q[i]
  <2> TAKE i \in 1 .. Len(q)
  <2>1. Len(p) + i \in 1 .. Len(r) /\ ~(Len(p) + i <= Len(p)) /\ (Len(p) + i) - Len(p) = i
    BY <1>1
  <2> QED BY <1>1, <2>1
<1>4. \A i \in 1 .. Len(r) : \/ i \in 1 .. Len(p) /\ r[i] = p[i]
                             \/ i - Len(p) \in 1 .. Len(q) /\ r[i] = q[i - Len(p)]
  BY <1>1
<1>5. Elems(r) = Elems(p) \cup Elems(q)
  <2>1. ASSUME NEW x \in Elems(r)  PROVE x \in Elems(p) \cup Elems(q)
    BY <1>4, <2>1 DEF Elems
  <2>2. ASSUME NEW x \in Elems(p) \cup Elems(q)  PROVE x \in Elems(r)
    BY <1>2, <1>3, <2>2 DEF Elems
  <2> QED BY <2>1, <2>2
<1> QED BY <1>1, <1>2, <1>3, <1>4, <1>5 DEF r

(* The members of a sequence of wakeups are wakeups; <<>> has none.        *)
LEMMA ElemsFacts ==
  /\ \A q \in Wakes : Elems(q) \subseteq S!Wakeup
  /\ Elems(<<>>) = {} /\ Rising(<<>>) /\ <<>> \in Wakes
<1>1. \A q \in Wakes : Elems(q) \subseteq S!Wakeup
  BY DEF Elems, Wakes
<1>2. Len(<<>>) = 0 /\ <<>> \in Wakes
  BY DEF Wakes
<1>3. Elems(<<>>) = {} /\ Rising(<<>>)
  BY <1>2 DEF Elems, Rising
<1> QED BY <1>1, <1>2, <1>3

(* What comes later may be appended, joined or have its head taken.        *)
LEMMA RisingFacts ==
  ASSUME NEW q \in Wakes, Rising(q)
  PROVE  /\ \A w \in S!Wakeup : (\A x \in Elems(q) : x.id < w.id) => Rising(Append(q, w))
         /\ \A r \in Wakes : Rising(r) /\ Before(q, r) => Rising(q \o r)
         /\ q # <<>> => Rising(Tail(q)) /\ \A x \in Elems(Tail(q)) : Head(q).id < x.id
<1>1. ASSUME NEW w \in S!Wakeup, \A x \in Elems(q) : x.id < w.id
      PROVE  Rising(Append(q, w))
  <2> DEFINE r == Append(q, w)
  <2>1. /\ Len(r) = Len(q) + 1 /\ Len(q) \in Nat /\ r[Len(q) + 1] = w
        /\ \A i \in 1 .. Len(q) : r[i] = q[i] /\ q[i].id < w.id
    BY <1>1, AppendFacts DEF Elems
  <2> HIDE DEF r
  <2> SUFFICES ASSUME NEW i \in 1 .. Len(r), NEW k \in 1 .. Len(r), i < k
               PROVE  r[i].id < r[k].id
    BY DEF Rising, r
  <2>2. i \in 1 .. Len(q) /\ (k \in 1 .. Len(q) \/ k = Len(q) + 1)
    BY <2>1
  <2> QED BY <2>1, <2>2 DEF Rising
<1>2. ASSUME NEW r \in Wakes, Rising(r), Before(q, r)
      PROVE  Rising(q \o r)
  <2> DEFINE j == q \o r
  <2>1. /\ Len(q) \in Nat /\ Len(r) \in Nat /\ Len(j) = Len(q) + Len(r)
        /\ \A i \in 1 .. Len(j) : \/ i \in 1 .. Len(q) /\ j[i] = q[i]
                                  \/ i - Len(q) \in 1 .. Len(r) /\ j[i] = r[i - Len(q)]
    BY JoinFacts
  <2> HIDE DEF j
  <2> SUFFICES ASSUME NEW i \in 1 .. Len(j), NEW k \in 1 .. Len(j), i < k
               PROVE  j[i].id < j[k].id
    BY DEF Rising, j
  <2>2. CASE i \in 1 .. Len(q) /\ j[i] = q[i] /\ k \in 1 .. Len(q) /\ j[k] = q[k]
    BY <2>2 DEF Rising
  <2>3. CASE i \in 1 .. Len(q) /\ j[i] = q[i]
               /\ k - Len(q) \in 1 .. Len(r) /\ j[k] = r[k - Len(q)]
    BY <1>2, <2>3 DEF Before, Elems
  <2>4. CASE i - Len(q) \in 1 .. Len(r) /\ j[i] = r[i - Len(q)]
               /\ k - Len(q) \in 1 .. Len(r) /\ j[k] = r[k - Len(q)]
    <3>1. i - Len(q) < k - Len(q)
      BY <2>1, <2>4
    <3> QED BY <1>2, <2>4, <3>1 DEF Rising
  <2>5. ~(i - Len(q) \in 1 .. Len(r) /\ k \in 1 .. Len(q))
    BY <2>1
  <2> QED BY <2>1, <2>2, <2>3, <2>4, <2>5
<1>3. ASSUME q # <<>>
      PROVE  Rising(Tail(q)) /\ \A x \in Elems(Tail(q)) : Head(q).id < x.id
  <2> DEFINE t == Tail(q)
  <2>1. /\ Len(q) \in Nat /\ Len(q) > 0 /\ Len(t) = Len(q) - 1 /\ Head(q) = q[1]
        /\ \A i \in 1 .. Len(q) - 1 : t[i] = q[i + 1]
    BY <1>3, TailFacts
  <2> HIDE DEF t
  <2>2. \A i \in 1 .. Len(t) : i + 1 \in 1 .. Len(q) /\ t[i] = q[i + 1]
    BY <2>1
  <2>3. Rising(t)
    <3> SUFFICES ASSUME NEW i \in 1 .. Len(t), NEW k \in 1 .. Len(t), i < k
                 PROVE  t[i].id < t[k].id
      BY DEF Rising
    <3>1. i + 1 < k + 1
      OBVIOUS
    <3> QED BY <2>2, <3>1 DEF Rising
  <2>4. \A i \in 1 .. Len(t) : q[1].id < t[i].id
    <3> TAKE i \in 1 .. Len(t)
    <3>1. 1 < i + 1 /\ 1 \in 1 .. Len(q)
      BY <2>1
    <3> QED BY <2>2, <3>1 DEF Rising
  <2> QED BY <2>1, <2>3, <2>4 DEF Elems, t
<1> QED BY <1>1, <1>2, <1>3

(* Nothing has fired at first.                                             *)
LEMMA InitWakes == Init => OrderInv /\ CountInv
<1> SUFFICES ASSUME Init PROVE OrderInv /\ CountInv
  OBVIOUS
<1>1. handed = <<>> /\ batch = <<>> /\ wakeQueue = <<>> /\ taken = <<>> /\ ready = FALSE
  BY DEF Init, S!Fresh, V!Init
<1> QED BY <1>1, ElemsFacts DEF OrderInv, CountInv, Before, Apart

(* A firing adds one wakeup, later than all others, and one run.           *)
LEMMA FireWakes ==
  ASSUME Types, JobsInv, OrderInv, CountInv, NEW j \in Jobs, S!fireWake(j),
         UNCHANGED <<handed, batch, taken>>
  PROVE  OrderInv' /\ CountInv'
<1> DEFINE w == [id |-> seq + 1, job |-> j]
<1>t. /\ handed \in Wakes /\ batch \in Wakes /\ wakeQueue \in Wakes /\ taken \in Wakes
      /\ seq \in Nat /\ job \in [Jobs -> S!Job]
  BY DEF Types, S!TypeOK, Wakes
<1>1. /\ ready /\ ready' = ready /\ seq' = seq + 1 /\ wakeQueue' = Append(wakeQueue, w)
  BY DEF S!fireWake, S!Firing
<1>2. w \in S!Wakeup /\ w.id = seq + 1 /\ w.job = j
  BY <1>t DEF S!Wakeup
<1> HIDE DEF w
<1>3. Elems(wakeQueue') = Elems(wakeQueue) \cup {w}
  BY <1>t, <1>1, <1>2, AppendFacts
<1>4. Wakeups' = Wakeups \cup {w}
  BY <1>3 DEF Wakeups
<1>5. Wakeups \subseteq S!Wakeup
  BY <1>t, ElemsFacts DEF Wakeups
<1>6. {x.id : x \in Wakeups} = 1 .. seq
  BY <1>1 DEF CountInv
<1>7. \A x \in Wakeups : x.id \in 1 .. seq
  BY <1>6
<1>8. \A x \in Wakeups : x.id < w.id
  BY <1>2, <1>7, <1>t
<1>9. /\ \A x \in Elems(handed) : x.id < w.id
      /\ \A x \in Elems(batch) : x.id < w.id
      /\ \A x \in Elems(wakeQueue) : x.id < w.id
      /\ \A x \in Elems(taken) : x.id < w.id
  BY <1>8 DEF Wakeups
<1>10. Rising(wakeQueue')
  BY <1>1, <1>2, <1>9, <1>t, RisingFacts DEF OrderInv
<1>11. OrderInv'
  BY <1>3, <1>9, <1>10 DEF OrderInv, Before, Apart
<1>12. {x.id : x \in Wakeups'} = 1 .. seq'
  <2>1. {x.id : x \in Wakeups'} = (1 .. seq) \cup {seq + 1}
    BY <1>2, <1>4, <1>6
  <2>2. (1 .. seq) \cup {seq + 1} = 1 .. (seq + 1)
    BY <1>t
  <2> QED BY <1>1, <2>1, <2>2
<1>13. ASSUME NEW k \in Jobs, job'[k].kind = "wake"
       PROVE  LET W == {x \in Wakeups' : x.job = k}
              IN  IsFiniteSet(W) /\ Cardinality(W) = job'[k].runs
  <2> DEFINE W == {x \in Wakeups : x.job = k}
  <2>1. PICK z \in S!Job : /\ job' = [job EXCEPT ![j] = z] /\ z.kind = job[j].kind
                           /\ job[j].kind = "wake" /\ z.runs = job[j].runs + 1
    BY FireJobs
  <2>2. job[k].kind = "wake"
    BY <1>13, <1>t, <2>1
  <2>3. IsFiniteSet(W) /\ Cardinality(W) = job[k].runs
    BY <1>1, <2>2 DEF CountInv
  <2>4. CASE k = j
    <3>1. {x \in Wakeups' : x.job = k} = W \cup {w}
      BY <1>2, <1>4, <2>4
    <3>2. w \notin W
      BY <1>2, <1>7, <1>t
    <3>3. IsFiniteSet(W \cup {w}) /\ Cardinality(W \cup {w}) = Cardinality(W) + 1
      BY <2>3, <3>2, FS_AddElement
    <3>4. job'[k].runs = job[k].runs + 1
      BY <1>t, <2>1, <2>4
    <3> QED BY <2>3, <3>1, <3>3, <3>4
  <2>5. CASE k # j
    <3>1. {x \in Wakeups' : x.job = k} = W
      BY <1>2, <1>4, <2>5
    <3>2. job'[k] = job[k]
      BY <1>t, <2>1, <2>5
    <3> QED BY <2>3, <3>1, <3>2
  <2> QED BY <2>4, <2>5
<1>14. CountInv'
  BY <1>12, <1>13 DEF CountInv
<1> QED BY <1>11, <1>14

(* The other steps of the scheduler add neither wakeups nor runs of a wake *)
(* job.                                                                    *)
LEMMA WorkWakes ==
  ASSUME Types, JobsInv, OrderInv, CountInv, ready, ready' = ready,
         UNCHANGED <<handed, batch, taken, wakeQueue, seq>>,
         \A k \in Jobs : job'[k].kind = "wake" =>
             job[k].kind = "wake" /\ job[k].runs = job'[k].runs
  PROVE  OrderInv' /\ CountInv'
<1>1. Wakeups' = Wakeups
  BY DEF Wakeups
<1>2. OrderInv'
  BY DEF OrderInv
<1>3. CountInv'
  BY <1>1 DEF CountInv
<1> QED BY <1>2, <1>3

(* A wakeup that changes hands stays one wakeup.                           *)
LEMMA MoveWakes ==
  ASSUME CountInv, ready' = ready, UNCHANGED <<job, seq>>, Wakeups' = Wakeups
  PROVE  CountInv'
  BY DEF CountInv

(* Every step keeps the wakeups in order and in one place.                 *)
LEMMA NextWakes ==
  StopInv /\ Types /\ JobsInv /\ OrderInv /\ CountInv /\ [Next]_vars
    => OrderInv' /\ CountInv'
<1> SUFFICES ASSUME StopInv, Types, JobsInv, OrderInv, CountInv, [Next]_vars
             PROVE  OrderInv' /\ CountInv'
  OBVIOUS
<1>t. /\ handed \in Wakes /\ batch \in Wakes /\ wakeQueue \in Wakes /\ taken \in Wakes
      /\ seq \in Nat /\ job \in [Jobs -> S!Job] /\ table \in [Names -> Jobs \cup {S!NoJob}]
  BY DEF Types, S!TypeOK, Wakes
<1>0. ASSUME UNCHANGED <<handed, batch, taken, wakeQueue, seq, job>>, ready' => ready
      PROVE  OrderInv' /\ CountInv'
  <2>1. Wakeups' = Wakeups
    BY <1>0 DEF Wakeups
  <2> QED BY <1>0, <2>1 DEF OrderInv, CountInv
<1>1. CASE Schedules
  <2>0. ready /\ ready' = ready /\ UNCHANGED <<handed, batch, taken>>
    BY <1>1, WorksFacts
  <2>1. ASSUME NEW n \in Names, NEW j \in Jobs, NEW kind \in {"shell", "wake"},
               NEW s \in S!Schedules, S!schedule(n, j, kind, s)
        PROVE  OrderInv' /\ CountInv'
    <3>1. UNCHANGED <<wakeQueue, seq>>
      BY <2>1 DEF S!schedule, S!wakes
    <3>2. PICK z \in S!Job : job' = [job EXCEPT ![j] = z] /\ z.kind = kind /\ z.runs = 0
      BY <2>1, ScheduleJobs
    <3>3. job[j].kind = "wake" /\ job[j].runs = 0
      BY <2>1, ScheduleJobs, BlankJob
    <3>4. \A k \in Jobs : job'[k].kind = "wake" =>
             job[k].kind = "wake" /\ job[k].runs = job'[k].runs
      BY <1>t, <3>2, <3>3
    <3> QED BY <2>0, <3>1, <3>4, WorkWakes
  <2>2. ASSUME NEW n \in Names, S!cancel(n)
        PROVE  OrderInv' /\ CountInv'
    <3>1. UNCHANGED <<wakeQueue, seq>>
      BY <2>2 DEF S!cancel, S!wakes
    <3> QED BY <2>0, <2>2, <3>1, CancelJobs, WorkWakes
  <2>3. ASSUME NEW j \in Jobs, S!fireWake(j)
        PROVE  OrderInv' /\ CountInv'
    BY <2>0, <2>3, FireWakes
  <2>4. ASSUME NEW j \in Jobs, S!fireShell(j) \/ S!ChildEnds(j)
        PROVE  OrderInv' /\ CountInv'
    <3>0. CASE S!fireWake(j)
      BY <2>3, <3>0
    <3>e. CASE ~S!fireWake(j)
      <4>1. UNCHANGED <<wakeQueue, seq>>
        BY <2>4 DEF S!fireShell, S!ChildEnds, S!wakes
      <4>2. PICK z \in S!Job : /\ job' = [job EXCEPT ![j] = z] /\ z.kind = job[j].kind
                               /\ job[j].kind = "shell"
        BY <2>4, <3>e, FireJobs
      <4>3. \A k \in Jobs : job'[k].kind = "wake" =>
               job[k].kind = "wake" /\ job[k].runs = job'[k].runs
        BY <1>t, <4>2
      <4> QED BY <2>0, <4>1, <4>3, WorkWakes
    <3> QED BY <3>0, <3>e
  <2> QED BY <1>1, <2>1, <2>2, <2>3, <2>4 DEF Schedules, S!Works
<1>2. CASE Boots
  <2>1. UNCHANGED <<table, made, job, seq, taken, wakeQueue>>
    BY <1>2, BootFacts
  <2>2. CASE V!RunWakeup /\ UNCHANGED <<ready, proc>>
    <3> DEFINE h == Head(batch)  t == Tail(batch)
    <3>1. handed' = Append(handed, h) /\ batch' = t /\ phase = "waking"
      BY <2>2 DEF V!RunWakeup, V!wakesLeft
    <3>2. batch # <<>>
      BY <3>1 DEF Types
    <3>3. h \in S!Wakeup /\ t \in Wakes /\ Elems(batch) = Elems(t) \cup {h}
      BY <1>t, <3>2, TailFacts
    <3>4. Rising(t) /\ \A x \in Elems(t) : h.id < x.id
      BY <1>t, <3>2, RisingFacts DEF OrderInv
    <3> HIDE DEF h, t
    <3>5. Elems(handed') = Elems(handed) \cup {h}
      BY <1>t, <3>1, <3>3, AppendFacts
    <3>6. \A x \in Elems(handed) : x.id < h.id
      BY <3>3 DEF OrderInv, Before
    <3>7. Rising(handed')
      BY <1>t, <3>1, <3>3, <3>6, RisingFacts DEF OrderInv
    <3>8. /\ Before(handed, batch) /\ Before(handed, wakeQueue) /\ Before(batch, wakeQueue)
          /\ Apart(handed, taken) /\ Apart(batch, taken)
      BY DEF OrderInv
    <3>9. /\ Before(handed', batch') /\ Before(handed', wakeQueue) /\ Before(batch', wakeQueue)
          /\ Apart(handed', taken) /\ Apart(batch', taken)
      BY <3>1, <3>3, <3>4, <3>5, <3>8 DEF Before, Apart
    <3>10. OrderInv'
      BY <2>1, <3>1, <3>4, <3>7, <3>9 DEF OrderInv
    <3>11. Wakeups' = Wakeups
      BY <2>1, <3>1, <3>3, <3>5 DEF Wakeups
    <3> QED BY <2>1, <2>2, <3>10, <3>11, MoveWakes
  <2>3. CASE V!KernelListens /\ UNCHANGED <<proc, phase, batch, handed>>
    <3>1. ~ready /\ proc["kernel"] # "dead" /\ ready' = TRUE
      BY <2>3 DEF V!KernelListens
    <3>2. handed = <<>> /\ batch = <<>> /\ taken = <<>> /\ Unused
      BY <3>1 DEF Types
    <3>3. Wakeups = {} /\ Wakeups' = Wakeups /\ seq' = 0
      BY <2>1, <2>3, <3>2, ElemsFacts DEF Wakeups, Unused
    <3>4. \A j \in Jobs : job'[j].runs = 0
      BY <2>1, <3>2, BlankJob DEF Unused
    <3>5. \A j \in Jobs : {w \in Wakeups' : w.job = j} = {}
      BY <3>3
    <3>6. IsFiniteSet({}) /\ Cardinality({}) = 0
      BY FS_EmptySet
    <3>7. {w.id : w \in Wakeups'} = 1 .. seq'
      BY <3>3
    <3>8. CountInv'
      BY <3>4, <3>5, <3>6, <3>7 DEF CountInv
    <3>9. OrderInv'
      BY <2>1, <2>3 DEF OrderInv
    <3> QED BY <3>8, <3>9
  <2>4. CASE UNCHANGED <<ready, batch, handed>>   \* TurnEnds among them
    BY <1>0, <2>1, <2>4
  <2> QED BY <1>2, <2>2, <2>3, <2>4, BootFacts
<1>3. CASE poll_wakeups
  <2>1. /\ batch' = wakeQueue /\ wakeQueue' = <<>> /\ phase = "supervise"
        /\ UNCHANGED <<job, seq, taken, ready, handed>>
    BY <1>3 DEF poll_wakeups, V!poll_wakeups, S!drainWakeups
  <2>2. batch = <<>>
    BY <2>1 DEF Types, Late
  <2>3. Wakeups' = Wakeups
    BY <2>1, <2>2, ElemsFacts DEF Wakeups
  <2>4. Apart(wakeQueue, taken)
    <3>1. \A x \in Elems(taken), y \in Elems(wakeQueue) :
             x.id \in Nat /\ y.id \in Nat /\ x.id < y.id
      BY <1>t, ElemsFacts DEF OrderInv, Before, S!Wakeup
    <3> QED BY <3>1 DEF Apart
  <2>5. OrderInv'
    BY <2>1, <2>4, ElemsFacts DEF OrderInv, Before, Apart
  <2> QED BY <2>1, <2>3, <2>5, MoveWakes
<1>4. CASE OtherDrains \/ PollFails
  <2>1. /\ taken' = taken \o wakeQueue /\ wakeQueue' = <<>>
        /\ UNCHANGED <<job, seq, batch, ready, handed>>
    BY <1>4 DEF PollFails, OtherDrains, S!drainWakeups, inits
  <2>2. Elems(taken') = Elems(taken) \cup Elems(wakeQueue)
    BY <1>t, <2>1, JoinFacts
  <2>3. Rising(taken')
    BY <1>t, <2>1, RisingFacts DEF OrderInv
  <2>4. Wakeups' = Wakeups
    BY <2>1, <2>2, ElemsFacts DEF Wakeups
  <2>5. Apart(handed, wakeQueue) /\ Apart(batch, wakeQueue)
    <3>1. \A x \in Elems(handed) \cup Elems(batch), y \in Elems(wakeQueue) :
             x.id \in Nat /\ y.id \in Nat /\ x.id < y.id
      BY <1>t, ElemsFacts DEF OrderInv, Before, S!Wakeup
    <3> QED BY <3>1 DEF Apart
  <2>6. OrderInv'
    BY <2>1, <2>2, <2>3, <2>5, ElemsFacts DEF OrderInv, Before, Apart
  <2> QED BY <2>1, <2>4, <2>6, MoveWakes
<1>5. CASE KernelDies
  <2>1. ready' = FALSE /\ wakeQueue' = <<>> /\ UNCHANGED <<handed, batch, taken>>
    BY <1>5 DEF KernelDies, V!Dies
  <2> QED BY <2>1, ElemsFacts DEF OrderInv, CountInv, Before, Apart
<1>6. CASE Regrants \/ UNCHANGED vars
  BY <1>0, <1>6 DEF Regrants, vars, jobs, given
<1> QED BY <1>1, <1>2, <1>3, <1>4, <1>5, <1>6 DEF Next
----------------------------------------------------------------------------
(* What the invariants say of all wakeups at once.                         *)

(* Two sets of the same size.                                              *)
LEMMA SameSize ==
  ASSUME NEW A, NEW B, IsFiniteSet(A), NEW f \in [A -> B],
         \A a, b \in A : f[a] = f[b] => a = b,
         \A t \in B : \E a \in A : f[a] = t
  PROVE  IsFiniteSet(B) /\ Cardinality(B) = Cardinality(A)
<1>1. f \in Bijection(A, B)
  BY DEF Bijection, Injection, Surjection, IsInjective
<1>2. ExistsBijection(A, B)
  BY <1>1 DEF ExistsBijection
<1> QED BY <1>2, FS_Bijection

(* No two positions of sequences apart from each other share an id.        *)
LEMMA DistinctIds ==
  ASSUME NEW p \in Wakes, NEW q \in Wakes, Rising(p), Rising(q), Apart(p, q)
  PROVE  LET all == p \o q
         IN  \A i, k \in 1 .. Len(all) : all[i].id = all[k].id => i = k
<1> DEFINE all == p \o q
<1>1. /\ all \in Wakes /\ Len(p) \in Nat /\ Len(q) \in Nat
      /\ Len(all) = Len(p) + Len(q)
      /\ \A i \in 1 .. Len(all) : \/ i \in 1 .. Len(p) /\ all[i] = p[i]
                                  \/ i - Len(p) \in 1 .. Len(q) /\ all[i] = q[i - Len(p)]
  BY JoinFacts
<1>2. \A r \in Wakes : Rising(r) =>
        \A i, k \in 1 .. Len(r) : r[i].id = r[k].id => i = k
  <2> SUFFICES ASSUME NEW r \in Wakes, Rising(r), NEW i \in 1 .. Len(r),
                      NEW k \in 1 .. Len(r), r[i].id = r[k].id
               PROVE  i = k
    OBVIOUS
  <2>1. r[i] \in S!Wakeup /\ r[k] \in S!Wakeup /\ Len(r) \in Nat
    BY DEF Wakes
  <2>2. r[i].id \in Nat /\ r[k].id \in Nat
    BY <2>1 DEF S!Wakeup
  <2>3. ~(i < k) /\ ~(k < i)
    BY <2>2 DEF Rising
  <2> QED BY <2>1, <2>3
<1> HIDE DEF all
<1> SUFFICES ASSUME NEW i \in 1 .. Len(all), NEW k \in 1 .. Len(all),
                    all[i].id = all[k].id
             PROVE  i = k
  BY DEF all
<1>3. CASE i \in 1 .. Len(p) /\ all[i] = p[i] /\ k \in 1 .. Len(p) /\ all[k] = p[k]
  BY <1>2, <1>3
<1>4. CASE i - Len(p) \in 1 .. Len(q) /\ all[i] = q[i - Len(p)]
             /\ k - Len(p) \in 1 .. Len(q) /\ all[k] = q[k - Len(p)]
  <2>1. i - Len(p) = k - Len(p)
    BY <1>2, <1>4
  <2> QED BY <1>1, <2>1
<1>5. \A a \in 1 .. Len(p), b \in 1 .. Len(q) : p[a].id # q[b].id
  BY DEF Apart, Elems
<1> QED BY <1>1, <1>3, <1>4, <1>5

(* Every firing of a wake job reaches exactly one place, and voidinit's    *)
(* mind is handed the wakeups in the order of their firing: whoever drains *)
(* the queue, whenever the kernel or voidinit stops.                       *)
THEOREM WakeupsCorrect == Spec => []WakeupsExactlyOnce
<1>1. Types /\ OrderInv /\ CountInv => WakeupsExactlyOnce
  <2> SUFFICES ASSUME Types, OrderInv, CountInv PROVE WakeupsExactlyOnce
    OBVIOUS
  <2> DEFINE front == handed \o batch
             mine  == front \o wakeQueue
             all   == mine \o taken
             ids   == {all[i].id : i \in DOMAIN all}
             dom   == 1 .. Len(all)
  <2>1. handed \in Wakes /\ batch \in Wakes /\ wakeQueue \in Wakes /\ taken \in Wakes
    BY DEF Types, S!TypeOK, Wakes
  <2>2. front \in Wakes /\ Elems(front) = Elems(handed) \cup Elems(batch)
    BY <2>1, JoinFacts
  <2>3. Rising(front)
    BY <2>1, RisingFacts DEF OrderInv
  <2>4. Before(front, wakeQueue)
    BY <2>2 DEF OrderInv, Before
  <2> HIDE DEF front
  <2>5. mine \in Wakes /\ Elems(mine) = Elems(front) \cup Elems(wakeQueue)
    BY <2>1, <2>2, JoinFacts
  <2>6. Rising(mine)
    BY <2>1, <2>2, <2>3, <2>4, RisingFacts DEF OrderInv
  <2>7. Apart(mine, taken)
    <3>1. \A x \in Elems(taken), y \in Elems(wakeQueue) : x.id # y.id
      <4>1. \A x \in Elems(taken), y \in Elems(wakeQueue) :
               x.id \in Nat /\ y.id \in Nat /\ x.id < y.id
        BY <2>1, ElemsFacts DEF OrderInv, Before, S!Wakeup
      <4> QED BY <4>1
    <3> QED BY <2>2, <2>5, <3>1 DEF OrderInv, Apart
  <2>8. \A i \in 1 .. Len(mine) - 1 : mine[i].id < mine[i + 1].id
    <3>1. Len(mine) \in Nat
      BY <2>5 DEF Wakes
    <3>2. \A i \in 1 .. Len(mine) - 1 : i \in 1 .. Len(mine) /\ i + 1 \in 1 .. Len(mine)
                                        /\ i < i + 1
      BY <3>1
    <3> QED BY <2>6, <3>2 DEF Rising
  <2> HIDE DEF mine
  <2>9. all \in Wakes /\ Elems(all) = Wakeups
    <3>1. all \in Wakes /\ Elems(all) = Elems(mine) \cup Elems(taken)
      BY <2>1, <2>5, JoinFacts
    <3> HIDE DEF all
    <3> QED BY <2>2, <2>5, <3>1, Zenon DEF Wakeups
  <2>10. \A i, k \in dom : all[i].id = all[k].id => i = k
    BY <2>1, <2>5, <2>6, <2>7, DistinctIds DEF OrderInv
  <2> HIDE DEF all
  <2>11. Len(all) \in Nat /\ DOMAIN all = dom /\ all \in [dom -> S!Wakeup]
    BY <2>9 DEF Wakes
  <2>12. IsFiniteSet(dom) /\ Cardinality(dom) = Len(all)
    BY <2>11, FS_Interval
  <2>13. Cardinality(ids) = Len(all)
    <3> DEFINE f == [i \in dom |-> all[i].id]
    <3>1. f \in [dom -> ids] /\ \A t \in ids : \E i \in dom : f[i] = t
      BY <2>11
    <3>2. \A a, b \in dom : f[a] = f[b] => a = b
      BY <2>10
    <3> HIDE DEF f, ids, dom
    <3> QED BY <2>12, <3>1, <3>2, SameSize
  <2>14. ids = {w.id : w \in Wakeups}
    BY <2>9, <2>11 DEF Elems
  <2>15. ASSUME ready, NEW j \in Jobs, job[j].kind = "wake"
         PROVE  Cardinality({i \in DOMAIN all : all[i].job = j}) = job[j].runs
    <3> DEFINE I == {i \in dom : all[i].job = j}
               W == {w \in Wakeups : w.job = j}
               f == [i \in I |-> all[i]]
    <3>1. IsFiniteSet(I)
      <4>1. I \subseteq dom
        OBVIOUS
      <4> HIDE DEF I, dom
      <4> QED BY <2>12, <4>1, FS_Subset
    <3>2. f \in [I -> W] /\ \A t \in W : \E i \in I : f[i] = t
      BY <2>9, <2>11 DEF Elems
    <3>3. \A a, b \in I : f[a] = f[b] => a = b
      BY <2>10
    <3>4. Cardinality(W) = job[j].runs
      BY <2>15 DEF CountInv
    <3>5. I = {i \in DOMAIN all : all[i].job = j}
      BY <2>11
    <3> HIDE DEF f, I, W, dom
    <3>6. Cardinality(W) = Cardinality(I)
      BY <3>1, <3>2, <3>3, SameSize
    <3> QED BY <3>4, <3>5, <3>6
  <2>16. ready => ids = 1 .. seq
    BY <2>14 DEF CountInv
  <2> QED BY <2>8, <2>13, <2>15, <2>16 DEF WakeupsExactlyOnce, all, mine, front
<1>2. Init => StopInv /\ Types /\ JobsInv /\ OrderInv /\ CountInv
  BY InitStop, InitJobs, InitWakes
<1> QED BY <1>1, <1>2, JobsCorrect, NextWakes, PTL DEF Spec
=============================================================================
