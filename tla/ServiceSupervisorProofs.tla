---------------------- MODULE ServiceSupervisorProofs ----------------------
(***************************************************************************)
(* Proofs about ServiceSupervisor, for every set of names and entry        *)
(* objects, every restart policy and every value of maxRestarts.           *)
(*                                                                         *)
(* The inductive invariant says what each entry object looks like between  *)
(* two ticks of the event loop: a process only under status "running", a   *)
(* pending restart only under "restarting" and only for a service that is  *)
(* wanted, and the ghost `streak` tied to the counter the code keeps.      *)
(***************************************************************************)
EXTENDS ServiceSupervisor, TLAPS

Limit(s) == 1 + (IF s.maxRestarts > 0 THEN s.maxRestarts ELSE 0)

(* What holds of one entry object by itself.                               *)
Shape(s) ==
    /\ s.alive + s.timers <= 1
    /\ s.streak <= Limit(s)
    /\ s.alive > 0 => /\ s.status = "running" /\ s.child = "live"
                      /\ s.streak >= 1 /\ s.streak <= s.restarts + 1
    /\ s.timers > 0 => /\ s.status = "restarting" /\ s.desired = "running"
                       /\ s.streak <= s.restarts /\ s.restarts <= s.maxRestarts
    /\ s.desired = "running" => s.asked = "running"
    /\ s.status = "running" => s.child # "none"

(* What holds of it while the kernel runs: the shell it is listed with has *)
(* not ended.                                                              *)
Truthful(s) == s.status = "running" /\ s.child = "live" => s.alive = 1

(* What holds of an entry object and the map: a wanted service is defined. *)
Placed == \A e \in Entries : svc[e].desired = "running" => e \in Range(table)

(* A shell that no record of a running kernel shows was told to end.       *)
Told ==
    \A e \in Entries : svc[e].alive > 0 /\ ~Listed(e) =>
        svc[e].told # "no" \/ (crashed /\ e \in Range(table))

IInv ==
    /\ TypeOK
    /\ \A e \in Entries : Shape(svc[e])
    /\ Placed
    /\ up => \A e \in Entries : Truthful(svc[e])
    /\ Told

----------------------------------------------------------------------------
(* The methods, on one entry object.                                       *)

(* z differs from s in nothing the invariant speaks of but its timers, its *)
(* wish and the signal it was sent.                                        *)
Alike(s, z) ==
    /\ z.maxRestarts = s.maxRestarts /\ z.restarts = s.restarts
    /\ z.alive = s.alive /\ z.child = s.child /\ z.status = s.status
    /\ z.streak = s.streak

(* Sending a signal changes only what the process was told.                *)
LEMMA KillFacts ==
  ASSUME NEW s \in Entry, NEW sig \in {"term", "kill"}
  PROVE  /\ kill(s, sig) \in Entry
         /\ Alike(s, kill(s, sig))
         /\ kill(s, sig).timers = s.timers
         /\ kill(s, sig).desired = s.desired /\ kill(s, sig).asked = s.asked
         /\ s.told # "no" => kill(s, sig).told # "no"
         /\ s.child = "live" => kill(s, sig).told # "no"
<1>1. kill(s, sig) \in Entry
  BY DEF kill, Entry
<1>2. QED
  BY <1>1 DEF kill, Entry, Alike

(* Clearing the timer changes only the timers.                             *)
LEMMA ClearFacts ==
  ASSUME NEW s \in Entry, Shape(s)
  PROVE  /\ clearTimer(s) \in Entry
         /\ Alike(s, clearTimer(s))
         /\ clearTimer(s).timers = 0
         /\ clearTimer(s).desired = s.desired /\ clearTimer(s).asked = s.asked
         /\ clearTimer(s).told = s.told
<1>1. s.timers = 0 \/ s.timers = 1
  BY DEF Shape, Entry
<1>2. CASE s.timers = 0
  BY <1>2 DEF clearTimer, Alike
<1>3. CASE s.timers = 1
  <2>1. clearTimer(s) = [s EXCEPT !.timers = 0]
    BY <1>3 DEF clearTimer, Entry
  <2> QED BY <2>1 DEF Entry, Alike
<1> QED BY <1>1, <1>2, <1>3

(* launch() of an entry with neither process nor timer, whose streak the   *)
(* restart counter still covers, gives a well-shaped entry.                *)
LEMMA LaunchShape ==
  ASSUME NEW s \in Entry, NEW ok \in BOOLEAN,
         s.alive = 0, s.timers = 0, s.streak <= s.restarts,
         s.streak + 1 <= Limit(s), s.desired = "running", s.asked = "running"
  PROVE  /\ launch(s, ok) \in Entry
         /\ Shape(launch(s, ok)) /\ Truthful(launch(s, ok))
         /\ launch(s, ok).asked = "running"
<1> DEFINE z == launch(s, ok)
<1>1. ASSUME NEW c \in {"none", "live", "dud"}, NEW a \in Nat,
             NEW t \in {"no", "term", "kill"}, NEW k \in Nat
      PROVE  [s EXCEPT !.child = c, !.status = "running", !.alive = a,
                       !.told = t, !.streak = k] \in Entry
  BY DEF Entry, Statuses
<1>2. /\ (IF ok THEN "live" ELSE "dud") \in {"none", "live", "dud"}
      /\ (IF ok THEN s.alive + 1 ELSE s.alive) \in Nat
      /\ (IF ok THEN "no" ELSE s.told) \in {"no", "term", "kill"}
      /\ s.streak + 1 \in Nat
  BY DEF Entry
<1>3. z \in Entry
  BY <1>1, <1>2 DEF launch
<1>4. /\ z.status = "running" /\ z.alive = (IF ok THEN s.alive + 1 ELSE s.alive)
      /\ z.child = (IF ok THEN "live" ELSE "dud") /\ z.timers = s.timers
      /\ z.streak = s.streak + 1 /\ z.restarts = s.restarts
      /\ z.maxRestarts = s.maxRestarts /\ z.asked = s.asked
  BY DEF launch, Entry
<1> HIDE DEF z
<1>5. z.alive + z.timers <= 1 /\ z.streak <= Limit(z)
  BY <1>4 DEF Limit, Entry
<1>6. Shape(z) /\ Truthful(z)
  BY <1>4, <1>5 DEF Shape, Truthful, Entry
<1> QED BY <1>3, <1>4, <1>6 DEF z

(* start() keeps an entry well-shaped, and what it launches was asked for. *)
LEMMA StartShape ==
  ASSUME NEW s \in Entry, NEW ok \in BOOLEAN, Shape(s), Truthful(s)
  PROVE  /\ start(s, ok) \in Entry
         /\ Shape(start(s, ok)) /\ Truthful(start(s, ok))
         /\ start(s, ok).asked = "running"
<1>1. CASE startable(s)
  <2> DEFINE z == [[s EXCEPT !.asked = "running"] EXCEPT
                     !.desired = "running", !.restarts = 0, !.streak = 0]
  <2>1. z \in Entry
    BY DEF Entry
  <2>2. /\ z.alive = s.alive /\ z.timers = s.timers /\ z.streak = 0
        /\ z.restarts = 0 /\ z.desired = "running" /\ z.asked = "running"
        /\ z.maxRestarts = s.maxRestarts
    BY DEF Entry
  <2>3. s.alive = 0 /\ s.timers = 0
    BY <1>1 DEF startable, Shape, Entry
  <2>4. start(s, ok) = launch(z, ok)
    BY <1>1 DEF start
  <2> HIDE DEF z
  <2>5. z.streak <= z.restarts /\ z.streak + 1 <= Limit(z)
    BY <2>1, <2>2 DEF Limit, Entry
  <2> QED BY <2>1, <2>2, <2>3, <2>4, <2>5, LaunchShape
<1>2. CASE ~startable(s)
  <2> DEFINE z == [s EXCEPT !.asked = "running"]
  <2>1. z \in Entry /\ Alike(s, z) /\ z.timers = s.timers
          /\ z.desired = s.desired /\ z.asked = "running"
    BY DEF Entry, Alike
  <2>2. start(s, ok) = z
    BY <1>2 DEF start
  <2> HIDE DEF z
  <2>3. Shape(z) /\ Truthful(z)
    BY <2>1 DEF Shape, Truthful, Limit, Alike, Entry
  <2> QED BY <2>1, <2>2, <2>3
<1> QED BY <1>1, <1>2

(* Calling off: without timers and without the wish, an entry stays        *)
(* well-shaped.                                                            *)
LEMMA CalledOff ==
  ASSUME NEW s \in Entry, NEW z \in Entry, Shape(s), Alike(s, z),
         z.timers = 0, z.desired = "stopped"
  PROVE  Shape(z)
  BY DEF Shape, Limit, Alike, Entry

(* stop() keeps an entry well-shaped and launches nothing.                 *)
LEMMA StopShape ==
  ASSUME NEW s \in Entry, Shape(s), Truthful(s)
  PROVE  /\ stop(s) \in Entry /\ Shape(stop(s)) /\ Truthful(stop(s))
         /\ stop(s).desired = "stopped" /\ stop(s).streak = s.streak
<1> DEFINE d == [clearTimer(s) EXCEPT !.desired = "stopped", !.asked = "stopped"]
<1>1. d \in Entry /\ Alike(clearTimer(s), d) /\ d.timers = clearTimer(s).timers
        /\ d.desired = "stopped"
  BY ClearFacts DEF Entry, Alike
<1>2. Alike(s, d) /\ d.timers = 0
  BY <1>1, ClearFacts DEF Alike
<1>3. stop(s) = IF d.child # "none" /\ d.status = "running"
                  THEN kill(d, "term") ELSE [d EXCEPT !.status = "stopped"]
  BY DEF stop
<1> HIDE DEF d
<1>4. CASE d.child # "none" /\ d.status = "running"
  <2> DEFINE k == kill(d, "term")
  <2>1. k \in Entry /\ Alike(d, k) /\ k.timers = 0 /\ k.desired = "stopped"
    BY <1>1, <1>2, KillFacts
  <2> HIDE DEF k
  <2>2. Alike(s, k)
    BY <1>2, <2>1 DEF Alike
  <2>3. Truthful(k)
    BY <2>2 DEF Alike, Truthful
  <2> QED BY <1>3, <1>4, <2>1, <2>2, <2>3, CalledOff DEF k, Alike
<1>5. CASE ~(d.child # "none" /\ d.status = "running")
  <2> DEFINE k == [d EXCEPT !.status = "stopped"]
  <2>1. k \in Entry /\ k.alive = d.alive /\ k.timers = 0 /\ k.desired = "stopped"
          /\ k.streak = d.streak /\ k.maxRestarts = d.maxRestarts
          /\ k.status = "stopped"
    BY <1>1, <1>2 DEF Entry, Statuses
  <2> HIDE DEF k
  <2>2. d.alive = 0
    BY <1>1, <1>2, <1>5 DEF Shape, Alike, Entry
  <2>3. Shape(k) /\ Truthful(k)
    BY <1>1, <1>2, <2>1, <2>2 DEF Shape, Truthful, Limit, Alike, Entry
  <2> QED BY <1>2, <1>3, <1>5, <2>1, <2>3 DEF k, Alike
<1> QED BY <1>4, <1>5

(* remove() keeps an entry well-shaped, launches nothing, and leaves no    *)
(* process that was not told.                                              *)
LEMMA RemoveShape ==
  ASSUME NEW s \in Entry, Shape(s)
  PROVE  /\ remove(s) \in Entry /\ Shape(remove(s))
         /\ Truthful(s) => Truthful(remove(s))
         /\ remove(s).desired = "stopped" /\ remove(s).streak = s.streak
         /\ remove(s).alive > 0 => remove(s).told # "no"
<1> DEFINE d == [clearTimer(s) EXCEPT !.desired = "stopped", !.asked = "stopped"]
           k == kill(d, "kill")
<1>1. d \in Entry /\ Alike(clearTimer(s), d) /\ d.timers = clearTimer(s).timers
        /\ d.desired = "stopped"
  BY ClearFacts DEF Entry, Alike
<1>2. Alike(s, d) /\ d.timers = 0
  BY <1>1, ClearFacts DEF Alike
<1>3. remove(s) = k
  BY DEF remove
<1> HIDE DEF d
<1>4. k \in Entry /\ Alike(d, k) /\ k.timers = 0 /\ k.desired = "stopped"
        /\ (d.child = "live" => k.told # "no")
  BY <1>1, <1>2, KillFacts
<1> HIDE DEF k
<1>5. Alike(s, k)
  BY <1>2, <1>4 DEF Alike
<1>6. Shape(k)
  BY <1>4, <1>5, CalledOff
<1>7. k.alive > 0 => k.told # "no"
  BY <1>2, <1>4, <1>6 DEF Shape, Alike
<1>8. Truthful(s) => Truthful(k)
  BY <1>5 DEF Alike, Truthful
<1> QED BY <1>3, <1>4, <1>5, <1>6, <1>7, <1>8 DEF Alike

(* Likewise shutdown().                                                    *)
LEMMA ShutdownShape ==
  ASSUME NEW s \in Entry, Shape(s)
  PROVE  /\ shutdown(s) \in Entry /\ Shape(shutdown(s))
         /\ shutdown(s).desired = "stopped" /\ shutdown(s).streak = s.streak
         /\ shutdown(s).alive > 0 => shutdown(s).told # "no"
<1> DEFINE d == [clearTimer(s) EXCEPT !.desired = "stopped"]
           k == kill(d, "term")
<1>1. d \in Entry /\ Alike(clearTimer(s), d) /\ d.timers = clearTimer(s).timers
        /\ d.desired = "stopped"
  BY ClearFacts DEF Entry, Alike
<1>2. Alike(s, d) /\ d.timers = 0
  BY <1>1, ClearFacts DEF Alike
<1>3. shutdown(s) = k
  BY DEF shutdown
<1> HIDE DEF d
<1>4. k \in Entry /\ Alike(d, k) /\ k.timers = 0 /\ k.desired = "stopped"
        /\ (d.child = "live" => k.told # "no")
  BY <1>1, <1>2, KillFacts
<1> HIDE DEF k
<1>5. Alike(s, k)
  BY <1>2, <1>4 DEF Alike
<1>6. Shape(k)
  BY <1>4, <1>5, CalledOff
<1>7. k.alive > 0 => k.told # "no"
  BY <1>2, <1>4, <1>6 DEF Shape, Alike
<1> QED BY <1>3, <1>4, <1>5, <1>6, <1>7 DEF Alike

(* onExit() of the one process: no process is left, at most one restart is *)
(* pending, and the wish is what it was.                                   *)
LEMMA ExitShape ==
  ASSUME NEW s \in Entry, Shape(s), s.alive > 0,
         NEW failure \in BOOLEAN, NEW stable \in BOOLEAN
  PROVE  /\ onExit(s, failure, stable) \in Entry
         /\ Shape(onExit(s, failure, stable))
         /\ Truthful(onExit(s, failure, stable))
         /\ onExit(s, failure, stable).alive = 0
         /\ onExit(s, failure, stable).desired = s.desired
         /\ onExit(s, failure, stable).streak <= s.streak
<1> DEFINE x == [s EXCEPT !.child = "none", !.alive = @ - 1]
           r == countExit(s, stable)
           k == IF stable THEN 1 ELSE s.streak
           c == [x EXCEPT !.restarts = r, !.streak = IF stable THEN 1 ELSE @]
           y == onExit(s, failure, stable)
<1>1. s.alive = 1 /\ s.timers = 0
  BY DEF Shape, Entry
<1>2. x \in Entry /\ x.alive = 0 /\ x.timers = 0 /\ x.streak = s.streak
        /\ x.maxRestarts = s.maxRestarts /\ x.desired = s.desired
        /\ x.asked = s.asked
  <2>1. x = [s EXCEPT !.child = "none", !.alive = 0]
    BY <1>1 DEF Entry
  <2> QED BY <1>1, <2>1 DEF Entry
<1>3. r \in Nat /\ k \in Nat /\ k <= r /\ k <= s.streak /\ 1 <= s.streak
  BY DEF countExit, Shape, Entry
<1>4. y = IF ~shouldRestart(s, failure) THEN [x EXCEPT !.status = "stopped"]
          ELSE IF r > s.maxRestarts THEN [c EXCEPT !.status = "failed"]
          ELSE [c EXCEPT !.status = "restarting", !.timers = @ + 1]
  BY DEF onExit
<1>5. c = [x EXCEPT !.restarts = r, !.streak = k]
  BY <1>2 DEF Entry
<1> HIDE DEF x, r, k, y
<1>6. c \in Entry /\ c.alive = 0 /\ c.timers = 0 /\ c.streak = k
        /\ c.restarts = r /\ c.maxRestarts = s.maxRestarts
        /\ c.desired = s.desired /\ c.asked = s.asked
  BY <1>2, <1>3, <1>5 DEF Entry
<1> HIDE DEF c
<1>7. CASE ~shouldRestart(s, failure)
  <2>1. y = [x EXCEPT !.status = "stopped"]
    BY <1>4, <1>7
  <2>2. y \in Entry /\ y.alive = 0 /\ y.timers = 0 /\ y.streak = s.streak
          /\ y.maxRestarts = s.maxRestarts /\ y.desired = s.desired
          /\ y.asked = s.asked /\ y.status = "stopped"
    BY <1>2, <2>1 DEF Entry, Statuses
  <2>3. Shape(y) /\ Truthful(y)
    BY <2>2 DEF Shape, Truthful, Limit, Entry
  <2> QED BY <2>2, <2>3 DEF y, Entry
<1>8. CASE shouldRestart(s, failure) /\ r > s.maxRestarts
  <2>1. y = [c EXCEPT !.status = "failed"]
    BY <1>4, <1>8
  <2>2. y \in Entry /\ y.alive = 0 /\ y.timers = 0 /\ y.streak = k
          /\ y.maxRestarts = s.maxRestarts /\ y.desired = s.desired
          /\ y.asked = s.asked /\ y.status = "failed"
    BY <1>6, <2>1 DEF Entry, Statuses
  <2>3. Shape(y) /\ Truthful(y)
    BY <1>3, <2>2 DEF Shape, Truthful, Limit, Entry
  <2> QED BY <1>3, <2>2, <2>3 DEF y
<1>9. CASE shouldRestart(s, failure) /\ ~(r > s.maxRestarts)
  <2>0. c.timers + 1 = 1
    BY <1>6
  <2>1. y = [c EXCEPT !.status = "restarting", !.timers = 1]
    BY <1>4, <1>6, <1>9, <2>0 DEF Entry
  <2>2. y \in Entry /\ y.alive = 0 /\ y.timers = 1 /\ y.streak = k
          /\ y.status = "restarting" /\ y.restarts = r
          /\ y.maxRestarts = s.maxRestarts /\ y.desired = s.desired
          /\ y.asked = s.asked
    BY <1>6, <2>1 DEF Entry, Statuses
  <2>3. s.desired = "running"
    BY <1>9 DEF shouldRestart
  <2>4. Shape(y) /\ Truthful(y)
    BY <1>3, <1>9, <2>2, <2>3 DEF Shape, Truthful, Limit, Entry
  <2> QED BY <1>3, <2>2, <2>4 DEF y
<1> QED BY <1>7, <1>8, <1>9

(* The restart timer: the count that let it be set leaves room for one     *)
(* more launch.                                                            *)
LEMMA TimerShape ==
  ASSUME NEW s \in Entry, Shape(s), s.timers > 0, NEW ok \in BOOLEAN
  PROVE  LET t == [s EXCEPT !.timers = @ - 1]
             z == IF t.desired = "running" THEN launch(t, ok) ELSE t
         IN  z \in Entry /\ Shape(z) /\ Truthful(z) /\ z.asked = "running"
<1> DEFINE t == [s EXCEPT !.timers = @ - 1]
<1>1. s.timers = 1 /\ s.alive = 0
  BY DEF Shape, Entry
<1>2. t \in Entry /\ t.timers = 0 /\ t.alive = 0 /\ t.streak = s.streak
        /\ t.restarts = s.restarts /\ t.maxRestarts = s.maxRestarts
        /\ t.desired = s.desired /\ t.asked = s.asked
  <2>1. t = [s EXCEPT !.timers = 0]
    BY <1>1 DEF Entry
  <2> QED BY <1>1, <2>1 DEF Entry
<1> HIDE DEF t
<1>3. t.streak <= t.restarts /\ t.streak + 1 <= Limit(t)
        /\ t.desired = "running" /\ t.asked = "running"
  BY <1>2 DEF Shape, Limit, Entry
<1>4. launch(t, ok) \in Entry /\ Shape(launch(t, ok)) /\ Truthful(launch(t, ok))
        /\ launch(t, ok).asked = "running"
  BY <1>2, <1>3, LaunchShape
<1> QED BY <1>3, <1>4 DEF t

(* A new entry object, as define() builds it.                              *)
LEMMA BlankShape ==
  ASSUME NEW p \in Policies, NEW m \in MaxRestarts
  PROVE  LET new == [Blank EXCEPT !.restart = p, !.maxRestarts = m]
         IN  new \in Entry /\ Shape(new) /\ Truthful(new) /\ new.desired = "stopped"
               /\ new.streak = 0 /\ new.alive = 0
<1> DEFINE new == [Blank EXCEPT !.restart = p, !.maxRestarts = m]
<1>1. m \in Int
  BY PolicyAssumption
<1>2. Blank \in Entry /\ Blank.desired = "stopped" /\ Blank.streak = 0
        /\ Blank.alive = 0 /\ Blank.timers = 0 /\ Blank.status = "stopped"
  BY DEF Blank, Entry, Statuses
<1>3. new \in Entry
  BY <1>1, <1>2 DEF Entry
<1>4. new.desired = "stopped" /\ new.streak = 0 /\ new.alive = 0
        /\ new.timers = 0 /\ new.maxRestarts = m /\ new.status = "stopped"
  BY <1>1, <1>2 DEF Entry
<1> HIDE DEF new
<1>5. Shape(new) /\ Truthful(new)
  BY <1>1, <1>4 DEF Shape, Truthful, Limit
<1> QED BY <1>3, <1>4, <1>5 DEF new

----------------------------------------------------------------------------
(* The map and the entry objects together.                                 *)

(* What a step does to the streaks: the action of LaunchWasAsked.          *)
Launches == \A e \in Entries : svc'[e].streak > svc[e].streak =>
                svc'[e].asked = "running" /\ e \in Range(table')

(* A step that replaces one entry object, keeps the other entries' places  *)
(* in the map, and neither wants nor leaves behind a process outside it.   *)
LEMMA PutInv ==
  ASSUME IInv, NEW e \in Entries, NEW z \in Entry, Shape(z),
         Put(e, z), UNCHANGED <<up, world>>, up => Truthful(z),
         table' \in [Names -> Entries \cup {NoEntry}],
         made' \subseteq Entries,
         \A d \in Entries : d # e /\ d \in Range(table) => d \in Range(table'),
         z.desired = "running" => e \in Range(table'),
         \A d \in Entries : d # e /\ d \in Range(table') => d \in Range(table),
         z.alive > 0 /\ ~(up /\ e \in Range(table')) =>
            z.told # "no" \/ (crashed /\ e \in Range(table')),
         z.streak > svc[e].streak => z.asked = "running" /\ e \in Range(table')
  PROVE  IInv' /\ Launches
<1>1. svc' = [svc EXCEPT ![e] = z] /\ svc \in [Entries -> Entry]
  BY DEF Put, IInv, TypeOK
<1>2. svc' \in [Entries -> Entry] /\ svc'[e] = z
        /\ \A d \in Entries : d # e => svc'[d] = svc[d]
  BY <1>1
<1>3. TypeOK'
  BY <1>2 DEF IInv, TypeOK, world
<1>4. \A d \in Entries : Shape(svc'[d])
  BY <1>2 DEF IInv
<1>5. Placed'
  BY <1>2 DEF IInv, Placed
<1>6. Told' /\ (up' => \A d \in Entries : Truthful(svc'[d]))
  BY <1>2 DEF IInv, Told, Listed, world
<1>7. Launches
  <2> SUFFICES ASSUME NEW d \in Entries, svc'[d].streak > svc[d].streak
               PROVE  svc'[d].asked = "running" /\ d \in Range(table')
    BY DEF Launches
  <2>1. CASE d = e  BY <1>2, <2>1
  <2>2. CASE d # e  BY <1>1, <1>2, <2>2 DEF Entry
  <2> QED BY <2>1, <2>2
<1> QED BY <1>3, <1>4, <1>5, <1>6, <1>7 DEF IInv

(* Initially no entry is wanted, launched or listed.                       *)
LEMMA InitInv == Init => IInv
<1> SUFFICES ASSUME Init PROVE IInv
  OBVIOUS
<1>1. Blank \in Entry
  BY DEF Blank, Entry, Statuses
<1>2. Blank.alive = 0 /\ Blank.timers = 0 /\ Blank.streak = 0
        /\ Blank.maxRestarts = 0 /\ Blank.desired = "stopped"
        /\ Blank.status = "stopped"
  BY DEF Blank
<1>3. Shape(Blank)
  BY <1>2 DEF Shape, Limit
<1>4. \A e \in Entries : svc[e] = Blank
  BY DEF Init
<1>5. TypeOK
  BY <1>1 DEF Init, TypeOK
<1> QED BY <1>2, <1>3, <1>4, <1>5 DEF IInv, Placed, Told, Truthful

(* Every step keeps the invariant, and launches only what was asked for.   *)
LEMMA NextInv == IInv /\ [Next]_vars => IInv' /\ Launches
<1> SUFFICES ASSUME IInv, [Next]_vars PROVE IInv' /\ Launches
  OBVIOUS
<1>0. /\ table \in [Names -> Entries \cup {NoEntry}] /\ made \subseteq Entries
      /\ \A e \in Entries : svc[e] \in Entry /\ Shape(svc[e])
      /\ \A n \in Names : Has(n) => table[n] \in Entries /\ table[n] \in Range(table)
      /\ up => \A e \in Entries : Truthful(svc[e])
  BY DEF IInv, TypeOK, Has, Range
<1>1. ASSUME NEW n \in Names, NEW e \in Entries, NEW p \in Policies,
             NEW m \in MaxRestarts, NEW autostart \in BOOLEAN, NEW ok \in BOOLEAN,
             Define(n, e, p, m, autostart, ok)
      PROVE  IInv' /\ Launches
  <2> DEFINE new == [Blank EXCEPT !.restart = p, !.maxRestarts = m]
             z == IF autostart THEN start(new, ok) ELSE new
  <2>1. new \in Entry /\ Shape(new) /\ Truthful(new) /\ new.desired = "stopped" /\ new.streak = 0
          /\ new.alive = 0
    BY BlankShape
  <2>2. Put(e, z) /\ UNCHANGED <<up, world>> /\ table' = [table EXCEPT ![n] = e]
          /\ made' = made \cup {e} /\ table[n] = NoEntry /\ up
    BY <1>1 DEF Define, Has
  <2> HIDE DEF new
  <2>3. z \in Entry /\ Shape(z) /\ Truthful(z) /\ (z.streak > 0 => z.asked = "running")
    BY <2>1, StartShape
  <2> HIDE DEF z
  <2>4. table' \in [Names -> Entries \cup {NoEntry}] /\ table'[n] = e
          /\ made' \subseteq Entries
    BY <1>0, <2>2
  <2>5. e \in Range(table')
    BY <2>4 DEF Range
  <2>6. \A d \in Entries : d # e => (d \in Range(table) <=> d \in Range(table'))
    BY <1>0, <2>2, EntryAssumption DEF Range
  <2>7. z.streak > svc[e].streak => z.asked = "running"
    BY <1>0, <2>3 DEF Entry
  <2> QED BY <2>2, <2>3, <2>4, <2>5, <2>6, <2>7, PutInv
<1>2. ASSUME NEW n \in Names, NEW ok \in BOOLEAN, Start(n, ok)
      PROVE  IInv' /\ Launches
  <2> DEFINE e == table[n]  z == start(svc[e], ok)
  <2>1. e \in Entries /\ e \in Range(table) /\ Put(e, z) /\ up
          /\ UNCHANGED <<up, world>> /\ table' = table /\ made' = made
    BY <1>0, <1>2 DEF Start
  <2>2. z \in Entry /\ Shape(z) /\ Truthful(z) /\ z.asked = "running"
    BY <1>0, <2>1, StartShape
  <2> HIDE DEF e, z
  <2> QED BY <1>0, <2>1, <2>2, PutInv
<1>3. ASSUME NEW n \in Names, Stop(n)  PROVE IInv' /\ Launches
  <2> DEFINE e == table[n]  z == stop(svc[e])
  <2>1. e \in Entries /\ e \in Range(table) /\ Put(e, z) /\ up
          /\ UNCHANGED <<up, world>> /\ table' = table /\ made' = made
    BY <1>0, <1>3 DEF Stop
  <2>2. z \in Entry /\ Shape(z) /\ Truthful(z) /\ z.streak = svc[e].streak
    BY <1>0, <2>1, StopShape
  <2>3. ~(z.streak > svc[e].streak)
    BY <1>0, <2>1, <2>2 DEF Entry
  <2> HIDE DEF e, z
  <2> QED BY <1>0, <2>1, <2>2, <2>3, PutInv
<1>4. ASSUME NEW n \in Names, Remove(n)  PROVE IInv' /\ Launches
  <2> DEFINE e == table[n]  z == remove(svc[e])
  <2>1. e \in Entries /\ Put(e, z) /\ UNCHANGED <<up, world>> /\ made' = made
          /\ up /\ table' = [table EXCEPT ![n] = NoEntry]
    BY <1>0, <1>4 DEF Remove
  <2>2. z \in Entry /\ Shape(z) /\ Truthful(z) /\ z.desired = "stopped"
          /\ z.streak = svc[e].streak /\ (z.alive > 0 => z.told # "no")
    BY <1>0, <2>1, RemoveShape
  <2>3. ~(z.streak > svc[e].streak)
    BY <1>0, <2>1, <2>2 DEF Entry
  <2>4. table' \in [Names -> Entries \cup {NoEntry}]
    BY <1>0, <2>1
  <2>5. \A d \in Entries : d # e => (d \in Range(table) <=> d \in Range(table'))
    BY <1>0, <2>1, EntryAssumption DEF Range
  <2> HIDE DEF e, z
  <2> QED BY <1>0, <2>1, <2>2, <2>3, <2>4, <2>5, PutInv
<1>5. ASSUME NEW e \in Entries, NEW failure \in BOOLEAN, NEW stable \in BOOLEAN,
             Exit(e, failure, stable)
      PROVE  IInv' /\ Launches
  <2>1. svc[e].alive > 0 /\ UNCHANGED <<up, world>> /\ table' = table /\ made' = made
    BY <1>5 DEF Exit
  <2> DEFINE s == svc[e]
             z == IF up THEN onExit(s, failure, stable) ELSE [s EXCEPT !.alive = @ - 1]
  <2>2. z \in Entry /\ Shape(z) /\ z.alive = 0 /\ z.desired = s.desired
          /\ z.streak <= s.streak /\ (up => Truthful(z))
    <3>1. CASE up
      BY <1>0, <2>1, <3>1, ExitShape
    <3>2. CASE ~up
      <4> DEFINE y == [s EXCEPT !.alive = 0]
      <4>1. s \in Entry /\ Shape(s)
        BY <1>0
      <4> HIDE DEF s
      <4>2. s.alive = 1 /\ s.timers = 0
        BY <2>1, <4>1 DEF s, Shape, Entry
      <4>3. z = y
        BY <3>2, <4>1, <4>2 DEF Entry
      <4>4. y \in Entry /\ y.alive = 0 /\ y.timers = 0 /\ y.streak = s.streak
              /\ y.maxRestarts = s.maxRestarts /\ y.desired = s.desired
              /\ y.asked = s.asked /\ y.status = s.status /\ y.child = s.child
        BY <4>1, <4>2 DEF Entry
      <4> HIDE DEF y
      <4>5. Shape(y)
        BY <4>1, <4>4 DEF Shape, Limit, Entry
      <4>6. y.streak <= s.streak
        BY <4>1, <4>4 DEF Entry
      <4> QED BY <3>2, <4>3, <4>4, <4>5, <4>6
    <3> QED BY <3>1, <3>2
  <2>3. Put(e, z)
    BY <1>5 DEF Exit
  <2> HIDE DEF z
  <2>4. z.desired = "running" => e \in Range(table')
    BY <2>1, <2>2 DEF IInv, Placed
  <2>5. ~(z.streak > svc[e].streak)
    BY <1>0, <2>2 DEF Entry
  <2> QED BY <1>0, <2>1, <2>2, <2>3, <2>4, <2>5, PutInv
<1>6. ASSUME NEW e \in Entries, NEW ok \in BOOLEAN, RestartTimer(e, ok)
      PROVE  IInv' /\ Launches
  <2> DEFINE t == [svc[e] EXCEPT !.timers = @ - 1]
             z == IF t.desired = "running" THEN launch(t, ok) ELSE t
  <2>1. svc[e].timers > 0 /\ up /\ UNCHANGED <<up, world>> /\ table' = table /\ made' = made
          /\ Put(e, z)
    BY <1>6 DEF RestartTimer
  <2>2. z \in Entry /\ Shape(z) /\ Truthful(z) /\ z.asked = "running"
    BY <1>0, <2>1, TimerShape
  <2>3. e \in Range(table)
    BY <1>0, <2>1 DEF Shape, IInv, Placed
  <2> HIDE DEF z
  <2> QED BY <1>0, <2>1, <2>2, <2>3, PutInv
<1>7. CASE Halt
  <2>1. /\ up' = FALSE /\ table' = table /\ made' = made /\ UNCHANGED world
        /\ svc' = [e \in Entries |->
                     IF e \in Range(table) THEN shutdown(svc[e]) ELSE svc[e]]
    BY <1>7 DEF Halt
  <2>2. \A e \in Entries : svc'[e] = IF e \in Range(table) THEN shutdown(svc[e])
                                     ELSE svc[e]
    BY <2>1
  <2>3. \A e \in Entries :
          /\ svc'[e] \in Entry /\ Shape(svc'[e]) /\ svc'[e].streak = svc[e].streak
          /\ svc'[e].desired = "running" => e \in Range(table)
          /\ svc'[e].alive > 0 => svc'[e].told # "no"
    <3> TAKE e \in Entries
    <3>1. CASE e \in Range(table)
      BY <1>0, <2>2, <3>1, ShutdownShape
    <3>2. CASE e \notin Range(table)
      BY <1>0, <2>2, <3>2 DEF IInv, Placed, Told, Listed
    <3> QED BY <3>1, <3>2
  <2>4. TypeOK'
    BY <1>0, <2>1, <2>3 DEF IInv, TypeOK, world
  <2>5. Placed' /\ Told' /\ ~up'
    BY <2>1, <2>3 DEF Placed, Told
  <2>6. Launches
    BY <1>0, <2>3 DEF Launches, Entry
  <2> QED BY <2>3, <2>4, <2>5, <2>6 DEF IInv
<1>8. CASE UNCHANGED vars
  <2>1. IInv'
    BY <1>8 DEF IInv, TypeOK, Placed, Told, Listed, vars
  <2>2. Launches
    BY <1>0, <1>8 DEF Launches, Entry, vars
  <2> QED BY <2>1, <2>2
<1>9. ASSUME NEW e \in Entries, Fork(e) \/ StraysEnd(e)  PROVE IInv' /\ Launches
  <2>1. UNCHANGED <<up, table, made, svc, crashed>> /\ strays' \subseteq Entries
    BY <1>9 DEF Fork, StraysEnd, IInv, TypeOK
  <2>2. IInv'
    BY <2>1 DEF IInv, TypeOK, Placed, Told, Listed
  <2>3. Launches
    BY <1>0, <2>1 DEF Launches, Entry
  <2> QED BY <2>2, <2>3
<1>10. CASE Crash
  <2>1. UNCHANGED <<table, made, svc, strays>> /\ ~up' /\ crashed' /\ up /\ up' = FALSE
          /\ crashed' = TRUE
    BY <1>10 DEF Crash
  <2>2. Told'
    <3> SUFFICES ASSUME NEW e \in Entries, svc[e].alive > 0, e \notin Range(table)
                 PROVE  svc[e].told # "no"
      BY <2>1 DEF Told
    <3> QED BY DEF IInv, Told, Listed
  <2>3. IInv'
    BY <2>1, <2>2 DEF IInv, TypeOK, Placed
  <2>4. Launches
    BY <1>0, <2>1 DEF Launches, Entry
  <2> QED BY <2>3, <2>4
<1> QED BY <1>1, <1>2, <1>3, <1>4, <1>5, <1>6, <1>7, <1>8, <1>9, <1>10 DEF Next

----------------------------------------------------------------------------
(* The invariant holds throughout.                                         *)
LEMMA InvCorrect == Spec => []IInv
  BY InitInv, NextInv, PTL DEF Spec

(* A service never has two shells, two pending restarts, or one of         *)
(* each: start() cannot overtake the restart that onExit() scheduled.      *)
THEOREM OneIncarnationCorrect == Spec => []OneIncarnation
<1>1. IInv => OneIncarnation
  BY DEF IInv, Shape, OneIncarnation
<1> QED BY <1>1, InvCorrect, PTL

(* The crash-loop guard of onExit(): at most 1 + maxRestarts launches in a *)
(* row without a manual start or a stable run.                             *)
THEOREM CrashLoopCorrect == Spec => []CrashLoopBound
<1>1. IInv => CrashLoopBound
  BY DEF IInv, Shape, Limit, CrashLoopBound
<1> QED BY <1>1, InvCorrect, PTL

(* A running kernel lists a service as running exactly when its shell has  *)
(* not ended (or never began); remove() and shutdown() leave no shell that *)
(* was not signalled.  The shell's own descendants are not part of this.   *)
THEOREM ShellsCorrect == Spec => []ShellsAreAccounted
<1>1. IInv => ShellsAreAccounted
  <2> SUFFICES ASSUME IInv, NEW e \in Entries
               PROVE  /\ svc[e].alive > 0 =>
                           IF Listed(e) THEN svc[e].status = "running"
                           ELSE svc[e].told # "no" \/ (crashed /\ e \in Range(table))
                      /\ Listed(e) /\ svc[e].status = "running" =>
                           svc[e].alive = 1 \/ svc[e].child = "dud"
    BY DEF ShellsAreAccounted
  <2>1. svc[e] \in Entry /\ Shape(svc[e]) /\ (up => Truthful(svc[e]))
    BY DEF IInv, TypeOK
  <2>2. svc[e].alive > 0 /\ ~Listed(e) =>
          svc[e].told # "no" \/ (crashed /\ e \in Range(table))
    BY DEF IInv, Told
  <2>3. Listed(e) /\ svc[e].status = "running" =>
          svc[e].alive = 1 \/ svc[e].child = "dud"
    BY <2>1 DEF Truthful, Shape, Entry, Listed
  <2> QED BY <2>1, <2>2, <2>3 DEF Shape
<1> QED BY <1>1, InvCorrect, PTL

(* No launch for a service that was removed or last asked to stop, whatever*)
(* exit or timer callback was still on its way.                            *)
THEOREM LaunchWasAskedCorrect == Spec => LaunchWasAsked
<1>1. IInv /\ [Next]_vars => [Launches]_vars
  BY NextInv
<1>2. [Launches]_vars =>
        [\A e \in Entries : svc'[e].streak > svc[e].streak =>
            svc'[e].asked = "running" /\ e \in Range(table')]_vars
  BY DEF Launches
<1> QED BY <1>1, <1>2, InvCorrect, PTL DEF Spec, LaunchWasAsked

----------------------------------------------------------------------------
(* The per-name contract.                                                  *)

(* The map names every entry at most once, and only entries it made: what  *)
(* keeps a removed entry's callbacks away from its name's next service.    *)
Keyed ==
    /\ \A n \in Names : Has(n) => table[n] \in made
    /\ \A n, m \in Names : Has(n) /\ table[n] = table[m] => n = m

(* A step that neither makes an entry nor adds one to the map keeps it     *)
(* keyed; define() adds an entry that is nobody's.                         *)
LEMMA KeyedInv == IInv /\ Keyed /\ [Next]_vars => Keyed'
<1> SUFFICES ASSUME IInv, Keyed, [Next]_vars PROVE Keyed'
  OBVIOUS
<1>0. table \in [Names -> Entries \cup {NoEntry}]
  BY DEF IInv, TypeOK
<1>1. ASSUME NEW n \in Names, NEW e \in Entries, e \notin made, ~Has(n),
             table' = [table EXCEPT ![n] = e], made' = made \cup {e}
      PROVE  Keyed'
  <2>1. table'[n] = e /\ \A k \in Names : k # n => table'[k] = table[k]
    BY <1>0, <1>1
  <2>2. \A k \in Names : Has(k) => table[k] # e
    BY <1>1 DEF Keyed
  <2> QED BY <1>1, <2>1, <2>2, EntryAssumption DEF Keyed, Has
<1>2. ASSUME NEW n \in Names, table' = [table EXCEPT ![n] = NoEntry], made' = made
      PROVE  Keyed'
  <2>1. table'[n] = NoEntry /\ \A k \in Names : k # n => table'[k] = table[k]
    BY <1>0, <1>2
  <2> QED BY <1>2, <2>1 DEF Keyed, Has
<1>3. ASSUME table' = table, made' = made  PROVE Keyed'
  BY <1>3 DEF Keyed, Has
<1>4. CASE UNCHANGED vars
  BY <1>3, <1>4 DEF vars
<1> QED BY <1>1, <1>2, <1>3, <1>4
        DEF Next, Define, Start, Stop, Remove, Exit, RestartTimer, Halt,
            Crash, Fork, StraysEnd

(* What the contract sees of each name, and the step it calls Become.      *)
StView == [n \in Names |-> IF Has(n) THEN svc[table[n]].status ELSE "absent"]
WantView == [n \in Names |-> IF Has(n) THEN svc[table[n]].desired ELSE "stopped"]
PolView == [n \in Names |-> IF Has(n) THEN svc[table[n]].restart ELSE "no"]
Shows(n, s, w, p) == /\ StView' = [StView EXCEPT ![n] = s]
                     /\ WantView' = [WantView EXCEPT ![n] = w]
                     /\ PolView' = [PolView EXCEPT ![n] = p]

(* A step that leaves the view of every name but n alone.                  *)
LEMMA ShowsAt ==
  ASSUME NEW n \in Names, NEW s, NEW w, NEW p,
         StView'[n] = s, WantView'[n] = w, PolView'[n] = p,
         \A k \in Names : k # n => /\ StView'[k] = StView[k]
                                   /\ WantView'[k] = WantView[k]
                                   /\ PolView'[k] = PolView[k]
  PROVE  Shows(n, s, w, p)
<1>1. StView' = [StView EXCEPT ![n] = s]
  BY DEF StView
<1>2. WantView' = [WantView EXCEPT ![n] = w]
  BY DEF WantView
<1>3. PolView' = [PolView EXCEPT ![n] = p]
  BY DEF PolView
<1> QED BY <1>1, <1>2, <1>3 DEF Shows

(* A step that shows what n showed already.                                *)
LEMMA ShowsNothing ==
  ASSUME NEW n \in Names, Shows(n, StView[n], WantView[n], PolView[n])
  PROVE  UNCHANGED Contract!cvars
<1>1. StView' = StView
  BY DEF Shows, StView
<1>2. WantView' = WantView
  BY DEF Shows, WantView
<1>3. PolView' = PolView
  BY DEF Shows, PolView
<1> QED BY <1>1, <1>2, <1>3 DEF Contract!cvars, StView, WantView, PolView

(* Replacing the entry object a name holds shows under that name alone.    *)
LEMMA PutView ==
  ASSUME IInv, Keyed, NEW n \in Names, Has(n), NEW z \in Entry,
         Put(table[n], z), table' = table
  PROVE  Shows(n, z.status, z.desired, z.restart)
<1>1. /\ table[n] \in Entries /\ svc \in [Entries -> Entry]
      /\ \A k \in Names : Has(k) => table[k] \in Entries
  BY DEF IInv, TypeOK, Has
<1>2. svc'[table[n]] = z /\ \A k \in Names : Has(k) /\ k # n => svc'[table[k]] = svc[table[k]]
  BY <1>1 DEF Put, Keyed
<1>3. Has(n)' /\ \A k \in Names : Has(k)' <=> Has(k)
  BY DEF Has
<1> QED BY <1>1, <1>2, <1>3 DEF Shows, StView, WantView, PolView, Has

(* Replacing an entry object no name holds shows nowhere.                  *)
LEMMA PutUnseen ==
  ASSUME IInv, NEW e \in Entries, e \notin Range(table), NEW z \in Entry,
         Put(e, z), table' = table
  PROVE  UNCHANGED Contract!cvars
<1>1. \A n \in Names : Has(n) => table[n] \in Entries /\ table[n] # e
  BY DEF IInv, TypeOK, Has, Range
<1>2. svc \in [Entries -> Entry]
  BY DEF IInv, TypeOK
<1>3. \A n \in Names : Has(n) => svc'[table[n]] = svc[table[n]]
  BY <1>1, <1>2 DEF Put
<1> QED BY <1>3 DEF Contract!cvars, Has

(* What each method does to the fields the contract speaks of.             *)
Seen(z, status, desired, restart) ==
    z.status = status /\ z.desired = desired /\ z.restart = restart

(* launch() shows as a running service.                                    *)
LEMMA LaunchSeen ==
  ASSUME NEW s \in Entry, NEW ok \in BOOLEAN
  PROVE  Seen(launch(s, ok), "running", s.desired, s.restart)
  BY DEF launch, Entry, Seen

(* start() shows as a running service, or as nothing.                      *)
LEMMA StartSeen ==
  ASSUME NEW s \in Entry, NEW ok \in BOOLEAN
  PROVE  IF startable(s) THEN Seen(start(s, ok), "running", "running", s.restart)
                         ELSE Seen(start(s, ok), s.status, s.desired, s.restart)
<1>1. CASE startable(s)
  <2> DEFINE z == [[s EXCEPT !.asked = "running"] EXCEPT
                     !.desired = "running", !.restarts = 0, !.streak = 0]
  <2>1. z \in Entry /\ z.desired = "running" /\ z.restart = s.restart
    BY DEF Entry
  <2>2. start(s, ok) = launch(z, ok)
    BY <1>1 DEF start
  <2> HIDE DEF z
  <2> QED BY <1>1, <2>1, <2>2, LaunchSeen DEF Seen
<1>2. CASE ~startable(s)
  BY <1>2 DEF start, Entry, Seen
<1> QED BY <1>1, <1>2

(* Signals and timers do not show.                                         *)
LEMMA QuietSeen ==
  ASSUME NEW s \in Entry, NEW sig \in {"term", "kill"}
  PROVE  /\ Seen(kill(s, sig), s.status, s.desired, s.restart)
         /\ Seen(clearTimer(s), s.status, s.desired, s.restart)
  BY DEF kill, clearTimer, Entry, Seen

(* stop() withdraws the wish; only a running process keeps the status.     *)
LEMMA StopSeen ==
  ASSUME NEW s \in Entry, Shape(s)
  PROVE  Seen(stop(s), IF s.status = "running" THEN "running" ELSE "stopped",
              "stopped", s.restart)
<1> DEFINE d == [clearTimer(s) EXCEPT !.desired = "stopped", !.asked = "stopped"]
<1>1. d \in Entry /\ Seen(d, s.status, "stopped", s.restart) /\ d.child = s.child
  BY ClearFacts, QuietSeen DEF Entry, Seen, Alike
<1>2. stop(s) = IF d.child # "none" /\ d.status = "running"
                  THEN kill(d, "term") ELSE [d EXCEPT !.status = "stopped"]
  BY DEF stop
<1>3. s.status = "running" => s.child # "none"
  BY DEF Shape
<1> HIDE DEF d
<1>4. CASE s.status = "running"
  BY <1>1, <1>2, <1>3, <1>4, QuietSeen DEF Seen
<1>5. CASE s.status # "running"
  <2>1. stop(s) = [d EXCEPT !.status = "stopped"]
    BY <1>1, <1>2, <1>5 DEF Seen
  <2> QED BY <1>1, <1>5, <2>1 DEF Seen, Entry
<1> QED BY <1>4, <1>5

(* shutdown() withdraws the wish and shows nothing else.                   *)
LEMMA ShutdownSeen ==
  ASSUME NEW s \in Entry, Shape(s)
  PROVE  Seen(shutdown(s), s.status, "stopped", s.restart)
<1> DEFINE d == [clearTimer(s) EXCEPT !.desired = "stopped"]
<1>1. d \in Entry /\ Seen(d, s.status, "stopped", s.restart)
  BY ClearFacts, QuietSeen DEF Entry, Seen, Alike
<1>2. shutdown(s) = kill(d, "term")
  BY DEF shutdown
<1> HIDE DEF d
<1> QED BY <1>1, <1>2, QuietSeen DEF Seen

(* onExit(): down for good, given up on, or to be restarted.               *)
LEMMA ExitSeen ==
  ASSUME NEW s \in Entry, NEW failure \in BOOLEAN, NEW stable \in BOOLEAN
  PROVE  \E status \in {"stopped", "failed", "restarting"} :
           /\ Seen(onExit(s, failure, stable), status, s.desired, s.restart)
           /\ status = "stopped" <=> ~shouldRestart(s, failure)
<1> DEFINE x == [s EXCEPT !.child = "none", !.alive = @ - 1]
           r == countExit(s, stable)
           c == [x EXCEPT !.restarts = r, !.streak = IF stable THEN 1 ELSE @]
           y == onExit(s, failure, stable)
<1>1. y = IF ~shouldRestart(s, failure) THEN [x EXCEPT !.status = "stopped"]
          ELSE IF r > s.maxRestarts THEN [c EXCEPT !.status = "failed"]
          ELSE [c EXCEPT !.status = "restarting", !.timers = @ + 1]
  BY DEF onExit
<1> HIDE DEF r, y
<1>2. Seen([x EXCEPT !.status = "stopped"], "stopped", s.desired, s.restart)
  BY DEF Entry, Seen
<1>3. Seen([c EXCEPT !.status = "failed"], "failed", s.desired, s.restart)
  BY DEF Entry, Seen
<1>4. Seen([c EXCEPT !.status = "restarting", !.timers = @ + 1], "restarting",
           s.desired, s.restart)
  BY DEF Entry, Seen
<1> HIDE DEF x, c
<1>5. CASE ~shouldRestart(s, failure)
  BY <1>1, <1>2, <1>5 DEF y
<1>6. CASE shouldRestart(s, failure) /\ r > s.maxRestarts
  BY <1>1, <1>3, <1>6 DEF y
<1>7. CASE shouldRestart(s, failure) /\ ~(r > s.maxRestarts)
  BY <1>1, <1>4, <1>7 DEF y
<1> QED BY <1>5, <1>6, <1>7

(* Every step of the supervisor is a step of the contract, or shows        *)
(* nothing.                                                                *)
LEMMA NextContract == IInv /\ Keyed /\ [Next]_vars => [Contract!CNext]_(Contract!cvars)
<1> SUFFICES ASSUME IInv, Keyed, [Next]_vars
             PROVE  Contract!CNext \/ UNCHANGED Contract!cvars
  OBVIOUS
<1> USE DEF Seen
<1> DEFINE View(n) == svc[table[n]]
<1>0. /\ table \in [Names -> Entries \cup {NoEntry}]
      /\ svc \in [Entries -> Entry]
      /\ \A e \in Entries : svc[e] \in Entry /\ Shape(svc[e])
      /\ \A n \in Names : Has(n) => table[n] \in Entries /\ table[n] \in Range(table)
      /\ \A e \in Entries : e \in Range(table) => \E n \in Names : Has(n) /\ table[n] = e
  BY EntryAssumption DEF IInv, TypeOK, Has, Range
<1>1. ASSUME NEW n \in Names, NEW e \in Entries, NEW p \in Policies,
             NEW m \in MaxRestarts, NEW autostart \in BOOLEAN, NEW ok \in BOOLEAN,
             Define(n, e, p, m, autostart, ok)
      PROVE  Contract!CDefine(n)
  <2> DEFINE new == [Blank EXCEPT !.restart = p, !.maxRestarts = m]
             z == IF autostart THEN start(new, ok) ELSE new
             w == IF autostart THEN "running" ELSE "stopped"
  <2>1. new \in Entry /\ Seen(new, "stopped", "stopped", p)
    BY BlankShape DEF Blank
  <2>2. Put(e, z) /\ table' = [table EXCEPT ![n] = e] /\ ~Has(n) /\ e \notin made
    BY <1>1 DEF Define
  <2> HIDE DEF new
  <2>3. Seen(z, w, w, p)
    BY <2>1, StartSeen DEF startable
  <2> HIDE DEF z
  <2>4. table'[n] = e /\ Has(n)' /\ \A k \in Names : k # n => table'[k] = table[k]
    BY <1>0, <2>2, EntryAssumption DEF Has
  <2>5. svc'[e] = z /\ \A k \in Names : Has(k) => svc'[table[k]] = svc[table[k]]
    BY <1>0, <2>2 DEF Put, Keyed
  <2> HIDE DEF w
  <2>6. Shows(n, w, w, p)
    BY <2>2, <2>3, <2>4, <2>5, ShowsAt DEF StView, WantView, PolView, Has
  <2> QED BY <2>2, <2>6
         DEF w, Contract!CDefine, Contract!Become, Shows, StView, WantView, PolView
<1>2. ASSUME NEW n \in Names, NEW ok \in BOOLEAN, Start(n, ok)
      PROVE  Contract!CStart(n) \/ UNCHANGED Contract!cvars
  <2> DEFINE s == View(n)  z == start(s, ok)
  <2>1. Has(n) /\ Put(table[n], z) /\ table' = table
    BY <1>2 DEF Start
  <2>2. s \in Entry /\ Shape(s) /\ z \in Entry
    BY <1>0, <1>2, <2>1, StartShape DEF Start, IInv
  <2>3. Shows(n, z.status, z.desired, z.restart)
    BY <2>1, <2>2, PutView
  <2>4. IF startable(s) THEN Seen(z, "running", "running", s.restart)
                        ELSE Seen(z, s.status, s.desired, s.restart)
    BY <2>2, StartSeen
  <2> HIDE DEF z
  <2>5. CASE startable(s)
    <3>1. s.status \in {"stopped", "failed"}
      BY <2>2, <2>5 DEF startable, Entry, Statuses
    <3> QED BY <2>1, <2>3, <2>4, <2>5, <3>1
           DEF Contract!CStart, Contract!Become, Shows, StView, WantView, PolView
  <2>6. CASE ~startable(s)
    <3>1. z.status = StView[n] /\ z.desired = WantView[n] /\ z.restart = PolView[n]
      BY <2>1, <2>4, <2>6 DEF StView, WantView, PolView
    <3>2. Shows(n, StView[n], WantView[n], PolView[n])
      BY <2>3, <3>1
    <3> QED BY <3>2, ShowsNothing
  <2> QED BY <2>5, <2>6
<1>3. ASSUME NEW n \in Names, Stop(n)  PROVE Contract!CStop(n)
  <2> DEFINE s == View(n)  z == stop(s)
  <2>1. Has(n) /\ Put(table[n], z) /\ table' = table
    BY <1>3 DEF Stop
  <2>2. s \in Entry /\ Shape(s) /\ z \in Entry
    BY <1>0, <1>3, <2>1, StopShape DEF Stop, IInv
  <2>3. Shows(n, z.status, z.desired, z.restart)
    BY <2>1, <2>2, PutView
  <2>4. Seen(z, IF s.status = "running" THEN "running" ELSE "stopped",
             "stopped", s.restart)
    BY <2>2, StopSeen
  <2>5. s.status # "absent"
    BY <2>2 DEF Entry, Statuses
  <2> HIDE DEF z
  <2> QED BY <2>1, <2>3, <2>4, <2>5
         DEF Contract!CStop, Contract!Become, Shows, StView, WantView, PolView
<1>4. ASSUME NEW n \in Names, Remove(n)  PROVE Contract!CRemove(n)
  <2> DEFINE s == View(n)
  <2>1. Has(n) /\ Put(table[n], remove(s)) /\ table' = [table EXCEPT ![n] = NoEntry]
    BY <1>4 DEF Remove
  <2>2. s.status # "absent"
    BY <1>0, <2>1 DEF Entry, Statuses
  <2>3. ~Has(n)' /\ \A k \in Names : k # n => table'[k] = table[k]
    BY <1>0, <2>1 DEF Has
  <2>4. \A k \in Names : Has(k) /\ k # n => svc'[table[k]] = svc[table[k]]
    BY <1>0, <2>1 DEF Put, Keyed
  <2>5. Shows(n, "absent", "stopped", "no")
    BY <2>1, <2>3, <2>4, ShowsAt DEF StView, WantView, PolView, Has
  <2> QED BY <2>1, <2>2, <2>5
         DEF Contract!CRemove, Contract!Become, Shows, StView, WantView, PolView
<1>5. ASSUME NEW e \in Entries, NEW failure \in BOOLEAN, NEW stable \in BOOLEAN,
             Exit(e, failure, stable)
      PROVE  Contract!CNext \/ UNCHANGED Contract!cvars
  <2> DEFINE s == svc[e]
             z == IF up THEN onExit(s, failure, stable) ELSE [s EXCEPT !.alive = @ - 1]
  <2>1. Put(e, z) /\ table' = table /\ s.alive > 0
    BY <1>5 DEF Exit
  <2>2. s \in Entry /\ Shape(s) /\ s.status = "running"
    BY <1>0, <2>1 DEF Shape
  <2>3. z \in Entry
    <3>1. s.alive - 1 \in Nat
      BY <2>1, <2>2 DEF Entry
    <3>2. CASE ~up
      BY <2>2, <3>1, <3>2 DEF Entry
    <3>3. CASE up
      BY <2>1, <2>2, <3>3, ExitShape
    <3> QED BY <3>2, <3>3
  <2>4. CASE e \notin Range(table)
    BY <2>1, <2>3, <2>4, PutUnseen
  <2>5. CASE e \in Range(table)
    <3>1. PICK n \in Names : Has(n) /\ table[n] = e
      BY <1>0, <2>5
    <3>2. Shows(n, z.status, z.desired, z.restart)
      BY <2>1, <2>3, <3>1, PutView
    <3>3. CASE ~up
      <4>1. Seen(z, s.status, s.desired, s.restart)
        BY <2>2, <3>3 DEF Entry
      <4> HIDE DEF z
      <4>2. z.status = StView[n] /\ z.desired = WantView[n] /\ z.restart = PolView[n]
        BY <3>1, <4>1 DEF StView, WantView, PolView
      <4>3. Shows(n, StView[n], WantView[n], PolView[n])
        BY <3>2, <4>2
      <4> QED BY <4>3, ShowsNothing
    <3>4. CASE up
      <4>1. PICK status \in {"stopped", "failed", "restarting"} :
              /\ Seen(z, status, s.desired, s.restart)
              /\ status = "stopped" <=> ~shouldRestart(s, failure)
        BY <2>2, <3>4, ExitSeen
      <4> HIDE DEF z
      <4>2. Shows(n, status, s.desired, s.restart)
        BY <3>2, <4>1
      <4>3. CASE status = "stopped"
        <5>1. s.desired = "stopped" \/ s.restart # "always"
          BY <2>2, <4>1, <4>3 DEF shouldRestart, Entry
        <5> QED BY <2>2, <3>1, <4>2, <4>3, <5>1
               DEF Contract!CNext, Contract!CExit, Contract!Become, Shows, StView, WantView, PolView
      <4>4. CASE status # "stopped"
        <5>1. s.desired = "running" /\ s.restart # "no"
                /\ status \in {"restarting", "failed"}
          BY <4>1, <4>4 DEF shouldRestart
        <5> QED BY <2>2, <3>1, <4>2, <4>4, <5>1
               DEF Contract!CNext, Contract!CExit, Contract!Become, Shows, StView, WantView, PolView
      <4> QED BY <4>3, <4>4
    <3> QED BY <3>3, <3>4
  <2> QED BY <2>4, <2>5
<1>6. ASSUME NEW e \in Entries, NEW ok \in BOOLEAN, RestartTimer(e, ok)
      PROVE  Contract!CNext
  <2> DEFINE t == [svc[e] EXCEPT !.timers = @ - 1]  z == launch(t, ok)
  <2>1. svc[e].timers > 0 /\ table' = table
          /\ Put(e, IF t.desired = "running" THEN z ELSE t)
    BY <1>6 DEF RestartTimer
  <2>2. /\ svc[e] \in Entry /\ Shape(svc[e])
        /\ svc[e].status = "restarting" /\ svc[e].desired = "running"
    BY <1>0, <2>1 DEF Shape
  <2>3. t \in Entry /\ t.desired = "running" /\ t.restart = svc[e].restart
    <3>1. svc[e].timers - 1 \in Nat
      BY <2>1, <2>2 DEF Entry
    <3> QED BY <2>2, <3>1 DEF Entry
  <2> HIDE DEF t
  <2>4. Put(e, z) /\ Seen(z, "running", "running", svc[e].restart)
    BY <2>1, <2>3, LaunchSeen
  <2>5. z \in Entry
    BY <2>1, <2>2, <2>3, TimerShape DEF t
  <2>6. PICK n \in Names : Has(n) /\ table[n] = e
    BY <1>0, <2>2 DEF IInv, Placed
  <2>7. Shows(n, z.status, z.desired, z.restart)
    BY <2>1, <2>4, <2>5, <2>6, PutView
  <2> HIDE DEF z
  <2> QED BY <2>2, <2>4, <2>6, <2>7
         DEF Contract!CNext, Contract!CRelaunch, Contract!Become, Shows, StView, WantView, PolView
<1>7. CASE Halt
  <2>1. /\ table' = table
        /\ svc' = [e \in Entries |->
                     IF e \in Range(table) THEN shutdown(svc[e]) ELSE svc[e]]
    BY <1>7 DEF Halt
  <2>2. \A n \in Names : Has(n) =>
          Seen(svc'[table[n]], View(n).status, "stopped", View(n).restart)
    BY <1>0, <2>1, ShutdownSeen
  <2>3. \A n \in Names : Has(n)' <=> Has(n)
    BY <2>1 DEF Has
  <2> QED BY <2>1, <2>2, <2>3 DEF Contract!CNext, Contract!CHalt, Has
<1>8. CASE UNCHANGED vars
  BY <1>8 DEF vars, Contract!cvars, Has
<1>9. ASSUME NEW e \in Entries, Fork(e) \/ StraysEnd(e)
      PROVE  UNCHANGED Contract!cvars
  BY <1>9 DEF Fork, StraysEnd, Contract!cvars, Has
<1>10. CASE Crash
  BY <1>10 DEF Crash, Contract!cvars, Has
<1> QED BY <1>1, <1>2, <1>3, <1>4, <1>5, <1>6, <1>7, <1>8, <1>9, <1>10
        DEF Next, Contract!CNext

(* The supervisor implements the per-name contract: no exit or timer of a  *)
(* removed entry ever shows in the service that took over its name.        *)
THEOREM ContractCorrect == Spec => ImplementsContract
<1>1. Init => Keyed
  BY DEF Init, Keyed, Has
<1>2. Init => Contract!CInit
  BY DEF Init, Contract!CInit, Has
<1>3. IInv /\ Keyed /\ [Next]_vars => Keyed'
  BY KeyedInv
<1>4. IInv /\ Keyed /\ [Next]_vars => [Contract!CNext]_(Contract!cvars)
  BY NextContract
<1> QED BY <1>1, <1>2, <1>3, <1>4, InvCorrect, PTL
        DEF Spec, ImplementsContract, Contract!CSpec

============================================================================
