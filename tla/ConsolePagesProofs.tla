------------------------- MODULE ConsolePagesProofs -------------------------
(***************************************************************************)
(* Proofs about the Console and its pages, in three parts that share no    *)
(* state: ConsolePages, for every set of requests, backends, models and    *)
(* chat windows and every number of kernel stops; the Files window of the  *)
(* /os page, for every tree of folders and every number of windows and     *)
(* requests; and its icon layer, for every set of names and every number   *)
(* of chains of requests under way.                                        *)
(***************************************************************************)
EXTENDS ConsolePages, FilesApp, DesktopIcons, FiniteSetTheorems, FunctionTheorems, TLAPS
----------------------------------------------------------------------------
(* A request that was made has its kind.                                   *)
Kinds == \A r \in Reqs : req[r].st # "new" => req[r].kind \in {"her", "chat", "switch"}

(* An agent that was built since the grant was last taken away was built   *)
(* by a process that found the kernel up and granted.                      *)
Authority == \A kind \in {"her", "chat"} :
                Cached(kind) # NoAgent /\ kind \notin stale => up /\ granted

(* Whoever builds, switches or takes a turn has the lock, and a turn has   *)
(* its agent: no switch replaces it meanwhile.                             *)
Holding == \A r \in Reqs : /\ req[r].st \in {"held", "turn"} => lock = r
                           /\ req[r].st = "turn" => /\ req[r].kind \in {"her", "chat"}
                                                    /\ Cached(req[r].kind) # NoAgent

(* A chat window waits for a question of its own kind.                     *)
Inputs == \A w \in Windows : busy[w] # None =>
              req[busy[w]].kind = "chat" /\ req[busy[w]].st # "new"

(* A surface that thinks has its last question out; one that was not asked *)
(* while another was out has no other out, and shows its answer after.     *)
Surface ==
    /\ mood = "thinking" => you \in HerOut
    /\ ~mixed => HerOut \subseteq {you} /\ (you \in HerOut \/ shown = you)

IInv == PagesTypeOK /\ Kinds /\ Authority /\ Holding /\ CompanionIsCurrent /\ Inputs /\ Surface
----------------------------------------------------------------------------
(* One request goes on and the others stay.                                *)
States  == {"new", "waiting", "held", "turn", "done", "seen"}
Replies == {"none", "reply", "busy", "error", "nomodel", "nokey", "lost"}

GoesOn(r) ==
    /\ req' \in [Reqs -> Request] /\ \A q \in Reqs : q # r => req'[q] = req[q]
    /\ req'[r].kind = req[r].kind

(* A handler writes the state of its request, and with it the reply.       *)
LEMMA PutReq ==
  ASSUME NEW r \in Reqs, req \in [Reqs -> Request], NEW s \in States,
         \/ req' = [req EXCEPT ![r].st = s]
         \/ \E reply \in Replies : req' = [req EXCEPT ![r].st = s, ![r].reply = reply]
  PROVE  GoesOn(r) /\ req'[r].st = s
<1>1. CASE req' = [req EXCEPT ![r].st = s]
  BY <1>1 DEF GoesOn, Request, States
<1>2. ASSUME NEW reply \in Replies,
             req' = [req EXCEPT ![r].st = s, ![r].reply = reply]
      PROVE  GoesOn(r) /\ req'[r].st = s
  BY <1>2 DEF GoesOn, Request, States, Replies
<1> QED BY <1>1, <1>2

(* What the server does for a request keeps it out, moves to a turn only   *)
(* by Builds and changes the rest of the server only by building or        *)
(* switching.                                                              *)
LEMMA ServeFacts ==
  ASSUME TypeOK, NEW r \in Reqs, Serves(r)
  PROVE  /\ GoesOn(r) /\ lock' \in Reqs \cup {None}
         /\ Out(r) /\ req'[r].st \notin {"new", "seen"}
         /\ UNCHANGED <<up, stops>> /\ (req'[r].st = "turn" => Builds(r))
         /\ \/ lock = None /\ lock' = r
            \/ lock' = lock /\ req[r].st = "waiting" /\ req'[r].st = "done"
            \/ lock' = lock /\ Builds(r)
            \/ lock' = None /\ req[r].st \in {"held", "turn"} /\ req'[r].st = "done"
         /\ \/ UNCHANGED <<env, companion, agent, granted, stale>>
            \/ Builds(r) \/ BuildFails(r) \/ \E w \in Wish : Switches(r, w)
<1>0. req \in [Reqs -> Request] /\ lock \in Reqs \cup {None}
  BY DEF TypeOK
<1>1. CASE Acquires(r)
  <2>1. GoesOn(r) /\ req'[r].st = "held"
    BY <1>0, <1>1, PutReq DEF Acquires, States
  <2> QED BY <1>0, <1>1, <2>1 DEF Acquires, kernel, Out
<1>8. CASE GivesUp(r) \/ SwitchUnknown(r)
  <2>1. GoesOn(r) /\ req'[r].st = "done"
    BY <1>0, <1>8, PutReq DEF GivesUp, SwitchUnknown, States, Replies
  <2> QED BY <1>0, <1>8, <2>1 DEF GivesUp, SwitchUnknown, kernel, Out
<1>2. ASSUME NEW reply \in Replies, Finish(r, reply)
      PROVE  GoesOn(r) /\ req'[r].st = "done" /\ lock' = None
  BY <1>0, <1>2, PutReq DEF Finish, lockAfter, States
<1>3. CASE Builds(r)
  <2>1. GoesOn(r) /\ req'[r].st = "turn"
    BY <1>0, <1>3, PutReq DEF Builds, States
  <2> QED BY <1>0, <1>3, <2>1 DEF Builds, Out
<1>4. CASE BuildFails(r)
  BY <1>2, <1>4 DEF BuildFails, Replies, Out
<1>5. CASE \E w \in Wish : SwitchRefused(r, w)
  BY <1>2, <1>5 DEF SwitchRefused, Replies, Out, kernel
<1>6. ASSUME NEW w \in Wish, Switches(r, w)
      PROVE  /\ GoesOn(r) /\ req'[r].st = "done" /\ lock' = None /\ req[r].st = "held"
             /\ Out(r) /\ UNCHANGED <<up, stops>>
  BY <1>2, <1>6 DEF Switches, Replies, Out
<1>7. CASE \E reply \in {"reply", "error"} : TurnEnds(r, reply)
  BY <1>2, <1>7 DEF TurnEnds, Replies, Out, kernel
<1> QED BY <1>1, <1>3, <1>4, <1>5, <1>6, <1>7, <1>8 DEF Serves, Handles

----------------------------------------------------------------------------
(* The settings.                                                           *)

(* A backend is always chosen from those in use.                           *)
LEMMA SettingsType ==
  ASSUME NEW e \in Env
  PROVE  Effective(e) \in Backends /\ Settings(e) \in Built
<1>1. e.choice \in Backends \cup {""} /\ e.keys \subseteq Backends /\ e.host \in BOOLEAN
        /\ e.model \in Models \cup {"default"}
  BY DEF Env
<1>2. Effective(e) \in Backends
  BY <1>1, BackendsAssumption DEF Effective
<1>3. (Effective(e) \in e.keys) \in BOOLEAN
  OBVIOUS
<1> QED BY <1>1, <1>2, <1>3 DEF Settings, Built

(* A switch leaves an environment; one that asks for nothing leaves the    *)
(* same.                                                                   *)
LEMMA SwitchedFacts ==
  ASSUME env \in Env, NEW w \in Wish
  PROVE  Switched(w) \in Env /\ (~Changed(w) => Switched(w) = env)
<1>1. /\ env.choice \in Backends \cup {""} /\ env.keys \subseteq Backends
      /\ env.host \in BOOLEAN /\ env.model \in Models \cup {"default"}
      /\ env = [choice |-> env.choice, keys |-> env.keys, host |-> env.host,
                model |-> env.model]
  BY DEF Env
<1>2. w.backend \in Backends \cup {""} /\ w.model \in Models \cup {""}
        /\ w.key \in BOOLEAN /\ w.host \in BOOLEAN
  BY DEF Wish
<1>3. Target(w) \in Backends
  BY <1>2, SettingsType DEF Target
<1>4. (env.host \/ w.host) \in BOOLEAN
  BY <1>1, <1>2
<1>5. Switched(w) \in Env
  BY <1>1, <1>2, <1>3, <1>4 DEF Switched, Env
<1>6. ASSUME ~Changed(w)  PROVE Switched(w) = env
  <2>1. w.backend = "" /\ w.model = "" /\ ~w.key /\ ~w.host
    BY <1>6 DEF Changed
  <2>2. (env.host \/ w.host) = env.host
    BY <1>1, <2>1
  <2> QED BY <1>1, <2>1, <2>2 DEF Switched
<1> QED BY <1>5, <1>6
----------------------------------------------------------------------------
(* The invariant.                                                          *)

(* The bound on the stops of the kernel is a number.                       *)
LEMMA RebootsBound == Reboots \in Nat
  BY BackendsAssumption, Zenon

(* Nothing was asked and nothing was built.                                *)
LEMMA InitIInv == PagesInit => IInv
<1> SUFFICES ASSUME PagesInit PROVE IInv
  OBVIOUS
<1>1. \A r \in Reqs : req[r] = [kind |-> "none", st |-> "new", reply |-> "none"]
  BY DEF PagesInit, Init
<1>2. req \in [Reqs -> Request]
  BY DEF PagesInit, Init, Request
<1>3. \A r \in Reqs : req[r].st = "new"
  <2> TAKE r \in Reqs
  <2>1. req[r] = [kind |-> "none", st |-> "new", reply |-> "none"]
    BY <1>1
  <2> QED BY <2>1
<1>4. HerOut = {}
  BY <1>3 DEF HerOut, Out
<1>5. up \in BOOLEAN /\ granted \in BOOLEAN /\ stops \in 0 .. Reboots
  <2>1. up \in BOOLEAN /\ granted \in BOOLEAN /\ stops = 0
    BY DEF PagesInit, Init
  <2>2. 0 \in 0 .. Reboots
    BY RebootsBound
  <2> QED BY <2>1, <2>2
<1>6. PagesTypeOK
  BY <1>2, <1>5 DEF PagesTypeOK, TypeOK, PagesInit, Init
<1>7. Kinds /\ Authority /\ Holding /\ CompanionIsCurrent /\ Inputs
  BY <1>3 DEF Kinds, Authority, Holding, Cached, CompanionIsCurrent, Inputs, PagesInit, Init
<1>8. Surface
  BY <1>4 DEF Surface, PagesInit
<1> QED BY <1>6, <1>7, <1>8 DEF IInv

(* What the server knows and keeps.                                        *)
Server == TypeOK /\ Kinds /\ Authority /\ Holding /\ CompanionIsCurrent

(* Building, or switching, leaves a companion with the settings in force   *)
(* and an authority for whatever was built.                                *)
LEMMA ServeServer ==
  ASSUME Server, NEW r \in Reqs, Serves(r)
  PROVE  Server'
<1>1. TypeOK /\ Kinds /\ Authority /\ Holding /\ CompanionIsCurrent
  BY DEF Server
<1>2. /\ GoesOn(r) /\ lock' \in Reqs \cup {None}
      /\ Out(r) /\ req'[r].st \notin {"new", "seen"} /\ UNCHANGED <<up, stops>>
      /\ (req'[r].st = "turn" => Builds(r))
      /\ \/ lock = None /\ lock' = r
         \/ lock' = lock /\ req[r].st = "waiting" /\ req'[r].st = "done"
         \/ lock' = lock /\ Builds(r)
         \/ lock' = None /\ req[r].st \in {"held", "turn"} /\ req'[r].st = "done"
      /\ \/ UNCHANGED <<env, companion, agent, granted, stale>>
         \/ Builds(r) \/ BuildFails(r) \/ \E w \in Wish : Switches(r, w)
  BY <1>1, ServeFacts
<1>3. Kinds'
  BY <1>1, <1>2 DEF Kinds, GoesOn, Out
<1>4. env \in Env /\ companion \in Built \cup {NoAgent} /\ agent \in Built \cup {NoAgent}
        /\ granted \in BOOLEAN /\ up \in BOOLEAN /\ stale \subseteq {"her", "chat"}
  BY <1>1 DEF TypeOK
<1>k. ASSUME NEW q \in Reqs, q # r, req'[q].st \in {"held", "turn"} PROVE lock' = q
  <2>1. req'[q] = req[q] /\ lock = q
    BY <1>1, <1>2, <1>k DEF GoesOn, Holding
  <2>2. q # None
    BY BackendsAssumption, Zenon
  <2>3. req[r].st \notin {"held", "turn"}
    BY <1>1, <1>k, <2>1 DEF Holding
  <2> QED BY <1>2, <2>1, <2>2, <2>3 DEF Builds
<1>l. req'[r].st \in {"held", "turn"} => lock' = r
  BY <1>1, <1>2 DEF Builds, Holding
<1> DEFINE Kept == /\ env' \in Env /\ companion' \in Built \cup {NoAgent}
                   /\ agent' \in Built \cup {NoAgent} /\ granted' \in BOOLEAN
                   /\ stale' \subseteq {"her", "chat"}
                   /\ Authority' /\ CompanionIsCurrent'
                   /\ companion # NoAgent => companion' # NoAgent \/ req[r].st = "held"
                   /\ agent # NoAgent => agent' # NoAgent
<1>5. ASSUME UNCHANGED <<env, companion, agent, granted, stale>>  PROVE Kept
  <2>1. Authority' /\ CompanionIsCurrent'
    BY <1>1, <1>2, <1>5 DEF Authority, Cached, CompanionIsCurrent
  <2> QED BY <1>4, <1>5, <2>1
<1>6. ASSUME Builds(r)  PROVE Kept
  <2>1. Settings(env) \in Built /\ env' = env
    BY <1>4, <1>6, SettingsType DEF Builds
  <2>3. granted' \in BOOLEAN /\ (granted => granted')
    BY <1>4, <1>6 DEF Builds, grantedBy
  <2>4. /\ UNCHANGED <<companion, agent, stale>> \/ (up /\ granted')
        /\ companion' = companion \/ (companion = NoAgent /\ companion' = Settings(env))
        /\ agent' = agent \/ (agent = NoAgent /\ agent' = Settings(env))
        /\ stale' \subseteq {"her", "chat"}
    <3> DEFINE her0 == req[r].kind = "her"
               old  == Cached(req[r].kind)
    <3>1. /\ old # NoAgent \/ up
          /\ companion' = IF her0 /\ old = NoAgent THEN Settings(env) ELSE companion
          /\ agent' = IF ~her0 /\ old = NoAgent THEN Settings(env) ELSE agent
          /\ granted' = (granted \/ old = NoAgent)
          /\ stale' = IF old = NoAgent THEN stale \ {req[r].kind} ELSE stale
      BY <1>6 DEF Builds, grantedBy
    <3> QED BY <1>4, <3>1 DEF Cached
  <2>5. Authority'
    BY <1>1, <1>2, <2>3, <2>4 DEF Authority, Cached
  <2>6. CompanionIsCurrent'
    BY <1>1, <2>1, <2>4 DEF CompanionIsCurrent
  <2>7. companion' \in Built \cup {NoAgent} /\ agent' \in Built \cup {NoAgent}
    BY <1>4, <2>1, <2>4
  <2> QED BY <1>4, <2>1, <2>3, <2>4, <2>5, <2>6, <2>7
<1>7. ASSUME BuildFails(r)  PROVE Kept
  <2>1. UNCHANGED <<env, companion, agent, stale>> /\ granted' \in BOOLEAN /\ (granted => granted')
    BY <1>4, <1>7 DEF BuildFails, grantedBy
  <2>2. Authority' /\ CompanionIsCurrent'
    BY <1>1, <1>2, <2>1 DEF Authority, Cached, CompanionIsCurrent
  <2> QED BY <1>4, <2>1, <2>2
<1>8. ASSUME NEW w \in Wish, Switches(r, w)  PROVE Kept
  <2> DEFINE e   == Switched(w)
             old == IF Changed(w) THEN NoAgent ELSE companion
             ok  == old # NoAgent \/ (HasModel(e) /\ up /\ Constructs(e))
  <2>1. /\ env' = e /\ companion' = IF ok /\ old = NoAgent THEN Settings(e) ELSE old
        /\ granted' = (granted \/ (old = NoAgent /\ HasModel(e) /\ up)) /\ agent' = agent
        /\ stale' = IF old = NoAgent THEN stale \ {"her"} ELSE stale
        /\ req[r].st = "held"
    BY <1>8 DEF Switches, grantedBy
  <2>2. e \in Env /\ (~Changed(w) => e = env) /\ Settings(e) \in Built
    BY <1>4, SwitchedFacts, SettingsType
  <2>3. granted' \in BOOLEAN /\ (granted => granted')
    BY <1>4, <2>1
  <2>4. CompanionIsCurrent'
    BY <1>1, <2>1, <2>2 DEF CompanionIsCurrent
  <2>5. /\ companion' = NoAgent \/ UNCHANGED <<companion, stale>> \/ (up /\ granted')
        /\ stale' \subseteq {"her", "chat"} /\ stale \ {"her"} \subseteq stale'
    BY <1>4, <2>1
  <2>6. Authority'
    BY <1>1, <1>2, <2>1, <2>3, <2>5 DEF Authority, Cached
  <2> HIDE DEF e
  <2> QED BY <1>4, <2>1, <2>2, <2>3, <2>4, <2>5, <2>6
<1>9. Kept
  <2> HIDE DEF Kept
  <2> QED BY <1>2, <1>5, <1>6, <1>7, <1>8
<1>10. TypeOK'
  BY <1>1, <1>2, <1>9 DEF TypeOK, GoesOn
<1>11. Holding'
  <2>1. ASSUME NEW q \in Reqs, q # r, req'[q].st = "turn"
        PROVE  req'[q].kind \in {"her", "chat"} /\ Cached(req[q].kind)' # NoAgent
    <3>1. req'[q] = req[q] /\ lock = q /\ req[q].kind \in {"her", "chat"}
            /\ Cached(req[q].kind) # NoAgent
      BY <1>1, <1>2, <2>1 DEF GoesOn, Holding
    <3>2. req[r].st # "held"
      BY <1>1, <2>1, <3>1 DEF Holding
    <3> QED BY <1>9, <3>1, <3>2 DEF Cached
  <2>2. ASSUME req'[r].st = "turn"
        PROVE  req'[r].kind \in {"her", "chat"} /\ Cached(req[r].kind)' # NoAgent
    <3>1. Builds(r) /\ req'[r].kind = req[r].kind
      BY <1>2, <2>2 DEF GoesOn
    <3>2. Settings(env) # NoAgent
      BY SettingsType, <1>4, BackendsAssumption DEF Settings, NoAgent, Cloud
    <3> QED BY <3>1, <3>2 DEF Builds, Cached
  <2> QED BY <1>k, <1>l, <2>1, <2>2 DEF Holding
<1> QED BY <1>3, <1>9, <1>10, <1>11 DEF Server

(* The kernel's own steps.                                                 *)
LEMMA KernelServer ==
  ASSUME Server, KernelMoves
  PROVE  Server' /\ req' = req
<1>0. stops \in Nat /\ stops \in 0 .. Reboots /\ Reboots \in Nat
  <2>1. stops \in 0 .. Reboots
    BY DEF Server, TypeOK
  <2> QED BY <2>1, RebootsBound
<1>1. stops' \in 0 .. Reboots /\ up' \in BOOLEAN /\ granted' \in BOOLEAN
  <2>1. stops' = stops \/ (stops < Reboots /\ stops' = stops + 1)
    BY DEF KernelMoves, KernelStops, KernelBoots, Grants, Revokes
  <2>2. stops' \in 0 .. Reboots
    BY <1>0, <2>1
  <2>3. up' \in BOOLEAN /\ granted' \in BOOLEAN
    BY DEF Server, TypeOK, KernelMoves, KernelStops, KernelBoots, Grants, Revokes, Withdrawn
  <2> QED BY <2>2, <2>3
<1>2. Authority' /\ stale' \subseteq {"her", "chat"}
  <2>1. CASE KernelStops \/ Revokes
    <3>1. /\ stale' = {kind \in {"her", "chat"} : Cached(kind) # NoAgent}
          /\ UNCHANGED <<companion, agent>>
      BY <2>1 DEF KernelStops, Revokes, Withdrawn
    <3> QED BY <3>1 DEF Authority, Cached
  <2>2. CASE KernelBoots
    BY <2>2 DEF Server, TypeOK, KernelBoots, Authority, Cached
  <2>3. CASE Grants
    BY <2>3 DEF Server, TypeOK, Grants, Authority, Cached
  <2> QED BY <2>1, <2>2, <2>3 DEF KernelMoves
<1>3. UNCHANGED <<env, companion, agent, lock, req>>
  BY DEF KernelMoves, KernelStops, KernelBoots, Grants, Revokes
<1> QED BY <1>1, <1>2, <1>3 DEF Server, TypeOK, Kinds, Holding, Cached, CompanionIsCurrent

(* What the pages show, when the questions that are out stay the same.     *)
LEMMA StillOut ==
  ASSUME Inputs, Surface, UNCHANGED <<pages>>, HerOut' = HerOut,
         PagesTypeOK, \A q \in Reqs : req[q].st # "new" =>
            req'[q].kind = req[q].kind /\ req'[q].st # "new"
  PROVE  Inputs' /\ Surface'
<1>1. UNCHANGED <<you, shown, mood, mixed, busy>>
  BY DEF pages, her
<1>2. Inputs'
  BY <1>1 DEF Inputs, PagesTypeOK
<1>3. Surface'
  BY <1>1 DEF Surface
<1> QED BY <1>2, <1>3

(* A question that is asked is the one on the screen and out; a question   *)
(* submitted to a chat window belongs to that window.                      *)
LEMMA ArriveFacts ==
  ASSUME TypeOK, NEW r \in Reqs, NEW kind \in {"her", "switch", "chat"}, Arrives(r, kind)
  PROVE  /\ req' \in [Reqs -> Request] /\ \A q \in Reqs : q # r => req'[q] = req[q]
         /\ req[r].st = "new" /\ req'[r].kind = kind /\ req'[r].st = "waiting"
         /\ HerOut' = IF kind = "chat" THEN HerOut ELSE HerOut \cup {r}
<1>1. req \in [Reqs -> Request] /\ req[r].st = "new"
        /\ req' = [req EXCEPT ![r].kind = kind, ![r].st = "waiting"]
  BY DEF TypeOK, Arrives
<1>2. /\ req' \in [Reqs -> Request] /\ \A q \in Reqs : q # r => req'[q] = req[q]
      /\ req'[r].kind = kind /\ req'[r].st = "waiting"
  BY <1>1 DEF Request
<1>3. HerOut' = IF kind = "chat" THEN HerOut ELSE HerOut \cup {r}
  BY <1>1, <1>2 DEF HerOut, Out
<1> QED BY <1>1, <1>2, <1>3

(* Every step of the pages and of the server keeps the invariant.          *)
LEMMA NextIInv == IInv /\ [Next]_all => IInv'
<1> SUFFICES ASSUME IInv, [Next]_all PROVE IInv'
  OBVIOUS
<1>0. /\ PagesTypeOK /\ TypeOK /\ Server /\ Kinds /\ Inputs /\ Surface
      /\ you \in Reqs \cup {None} /\ shown \in Reqs \cup {None}
      /\ mood \in {"idle", "thinking", "responding"} /\ timer \in BOOLEAN
      /\ busy \in [Windows -> Reqs \cup {None}] /\ mixed \in BOOLEAN
      /\ req \in [Reqs -> Request]
  BY DEF IInv, Server, PagesTypeOK, TypeOK
<1>1. ASSUME NEW r \in Reqs, Serves(r), UNCHANGED pages  PROVE IInv'
  <2>1. Server' /\ GoesOn(r) /\ Out(r) /\ req'[r].st \notin {"new", "seen"}
    BY <1>0, <1>1, ServeFacts, ServeServer
  <2>2. HerOut' = HerOut
    BY <2>1 DEF HerOut, Out, GoesOn
  <2>3. \A q \in Reqs : req[q].st # "new" => req'[q].kind = req[q].kind /\ req'[q].st # "new"
    BY <2>1 DEF GoesOn
  <2>4. Inputs' /\ Surface'
    BY <1>0, <1>1, <2>2, <2>3, StillOut
  <2>5. PagesTypeOK'
    BY <1>0, <1>1, <2>1 DEF PagesTypeOK, Server, pages, her
  <2> QED BY <2>1, <2>4, <2>5 DEF IInv, Server
<1>2. ASSUME KernelMoves, UNCHANGED pages  PROVE IInv'
  <2>1. Server' /\ req' = req
    BY <1>0, <1>2, KernelServer
  <2>2. HerOut' = HerOut
    BY <2>1 DEF HerOut, Out
  <2>3. Inputs' /\ Surface'
    BY <1>0, <1>2, <2>1, <2>2, StillOut
  <2>4. PagesTypeOK'
    BY <1>0, <1>2, <2>1 DEF PagesTypeOK, Server, pages, her
  <2> QED BY <2>1, <2>3, <2>4 DEF IInv, Server
<1>3. ASSUME NEW r \in Reqs, NEW kind \in {"her", "switch", "chat"}, Arrives(r, kind)
      PROVE  Server'
  <2>1. UNCHANGED <<env, companion, agent, lock, up, stops, granted, stale>>
    BY <1>3 DEF Arrives, kernel
  <2>2. Kinds'
    BY <1>0, <1>3, ArriveFacts DEF Kinds
  <2>3. TypeOK'
    BY <1>0, <1>3, <2>1, ArriveFacts DEF TypeOK
  <2>4. Holding'
    <3>1. Holding
      BY <1>0 DEF Server
    <3> QED BY <1>0, <1>3, <2>1, <3>1, ArriveFacts DEF Holding, Cached
  <2> QED BY <1>0, <2>1, <2>2, <2>3, <2>4 DEF Server, Authority, Cached, CompanionIsCurrent
<1>4. ASSUME NEW r \in Reqs, NEW kind \in {"her", "switch"}, ask(r, kind)  PROVE IInv'
  <2>1. /\ Arrives(r, kind) /\ you' = r /\ shown' = None /\ mood' = "thinking"
        /\ mixed' = (HerOut # {}) /\ UNCHANGED <<timer, busy>>
    BY <1>4 DEF ask
  <2>2. /\ \A q \in Reqs : q # r => req'[q] = req[q]
        /\ req[r].st = "new" /\ HerOut' = HerOut \cup {r}
    BY <1>0, <2>1, ArriveFacts
  <2>3. Server'
    BY <1>3, <2>1
  <2>4. PagesTypeOK'
    <3>1. mixed' \in BOOLEAN
      BY <2>1
    <3> QED BY <1>0, <2>1, <2>3, <3>1 DEF PagesTypeOK, Server
  <2>5. Inputs'
    BY <1>0, <2>1, <2>2 DEF Inputs
  <2>6. Surface'
    <3>1. you' \in HerOut'
      BY <2>1, <2>2
    <3>2. ~mixed' => HerOut' \subseteq {you'}
      BY <2>1, <2>2
    <3> QED BY <3>1, <3>2 DEF Surface
  <2> QED BY <2>3, <2>4, <2>5, <2>6 DEF IInv, Server
<1>5. ASSUME NEW r \in Reqs, NEW w \in Windows, Submits(r, w)  PROVE IInv'
  <2>1. Arrives(r, "chat") /\ busy' = [busy EXCEPT ![w] = r] /\ UNCHANGED her
    BY <1>5 DEF Submits
  <2>2. /\ \A q \in Reqs : q # r => req'[q] = req[q]
        /\ req[r].st = "new" /\ HerOut' = HerOut
        /\ req'[r].kind = "chat" /\ req'[r].st # "new"
    BY <1>0, <2>1, ArriveFacts
  <2>3. Server'
    BY <1>3, <2>1
  <2>4. PagesTypeOK'
    BY <1>0, <2>1, <2>3 DEF PagesTypeOK, Server, her
  <2>5. Inputs'
    BY <1>0, <2>1, <2>2 DEF Inputs
  <2>6. Surface'
    BY <1>0, <2>1, <2>2 DEF Surface, her
  <2> QED BY <2>3, <2>4, <2>5, <2>6 DEF IInv, Server
<1>6. ASSUME NEW r \in Reqs, Seen(r)
      PROVE  /\ Server' /\ GoesOn(r) /\ req'[r].st = "seen" /\ HerOut' = HerOut \ {r}
             /\ req[r].st = "done"
             /\ \A q \in Reqs : req[q].st # "new" =>
                    req'[q].kind = req[q].kind /\ req'[q].st # "new"
  <2>1. /\ req' = [req EXCEPT ![r].st = "seen"] /\ req[r].st = "done"
        /\ UNCHANGED <<env, companion, agent, lock, up, stops, granted, stale>>
    BY <1>6 DEF Seen, kernel
  <2>2. GoesOn(r) /\ req'[r].st = "seen"
    BY <1>0, <2>1, PutReq DEF States
  <2>3. HerOut' = HerOut \ {r}
    BY <2>2 DEF HerOut, Out, GoesOn
  <2>4. \A q \in Reqs : req[q].st # "new" => req'[q].kind = req[q].kind /\ req'[q].st # "new"
    BY <2>2 DEF GoesOn
  <2>5. Kinds'
    BY <1>0, <2>1, <2>2 DEF Kinds, GoesOn
  <2>6. TypeOK'
    BY <1>0, <2>1, <2>2 DEF TypeOK, GoesOn
  <2>7. Server'
    BY <1>0, <2>1, <2>2, <2>5, <2>6 DEF Server, Authority, Holding, GoesOn, Cached, CompanionIsCurrent
  <2> QED BY <2>1, <2>2, <2>3, <2>4, <2>7
<1>7. ASSUME NEW r \in Reqs, HerAnswered(r)  PROVE IInv'
  <2>1. /\ req[r].kind # "chat" /\ Seen(r) /\ shown' = r
        /\ mood' = moodAfter(req[r].reply)
        /\ timer' = (timer \/ req[r].reply # "lost") /\ UNCHANGED <<you, busy, mixed>>
    BY <1>7 DEF HerAnswered
  <2>2. /\ Server' /\ HerOut' = HerOut \ {r} /\ req[r].st = "done"
        /\ \A q \in Reqs : req[q].st # "new" =>
               req'[q].kind = req[q].kind /\ req'[q].st # "new"
    BY <1>6, <2>1
  <2>3. r \in HerOut
    BY <1>0, <2>1, <2>2 DEF Kinds, HerOut, Out
  <2>4. mood' \in {"idle", "responding"}
    BY <2>1 DEF moodAfter
  <2>5. PagesTypeOK'
    <3>1. timer' \in BOOLEAN
      BY <2>1
    <3> QED BY <1>0, <2>1, <2>2, <2>4, <3>1 DEF PagesTypeOK, Server
  <2>6. Inputs'
    BY <1>0, <2>1, <2>2 DEF Inputs
  <2>7. Surface'
    BY <1>0, <2>1, <2>2, <2>3, <2>4 DEF Surface
  <2> QED BY <2>2, <2>5, <2>6, <2>7 DEF IInv, Server
<1>8. ASSUME NEW r \in Reqs, NEW w \in Windows, ChatAnswered(r, w)  PROVE IInv'
  <2>1. busy[w] = r /\ Seen(r) /\ busy' = [busy EXCEPT ![w] = None] /\ UNCHANGED her
    BY <1>8 DEF ChatAnswered
  <2>2. /\ Server' /\ HerOut' = HerOut \ {r} /\ req[r].st = "done"
        /\ \A q \in Reqs : req[q].st # "new" =>
               req'[q].kind = req[q].kind /\ req'[q].st # "new"
    BY <1>6, <2>1
  <2>3. HerOut' = HerOut
    <3>1. r # None
      BY BackendsAssumption, Zenon
    <3>2. req[r].kind = "chat"
      BY <1>0, <2>1, <3>1 DEF Inputs
    <3>3. r \notin HerOut
      BY <3>2 DEF HerOut
    <3> QED BY <2>2, <3>3
  <2>4. PagesTypeOK'
    BY <1>0, <2>1, <2>2 DEF PagesTypeOK, Server, her
  <2>5. Inputs'
    BY <1>0, <2>1, <2>2 DEF Inputs
  <2>6. Surface'
    BY <1>0, <2>1, <2>3 DEF Surface, her
  <2> QED BY <2>2, <2>4, <2>5, <2>6 DEF IInv, Server
<1>9. ASSUME UNCHANGED vars
      PROVE  Server' /\ HerOut' = HerOut /\ req' = req
  BY <1>0, <1>9 DEF vars, kernel, Server, TypeOK, Kinds, Authority, Holding, Cached,
                    CompanionIsCurrent, HerOut, Out
<1>10. CASE Settles
  <2>1. /\ UNCHANGED vars /\ timer' = FALSE /\ mood' = "idle"
        /\ UNCHANGED <<you, shown, busy, mixed>>
    BY <1>10 DEF Settles
  <2>2. PagesTypeOK'
    BY <1>0, <1>9, <2>1 DEF PagesTypeOK, Server
  <2>3. Inputs' /\ Surface'
    BY <1>0, <1>9, <2>1 DEF Inputs, Surface
  <2> QED BY <1>9, <2>1, <2>2, <2>3 DEF IInv, Server
<1>11. CASE UNCHANGED all
  <2>1. UNCHANGED vars /\ UNCHANGED pages
    BY <1>11 DEF all
  <2>2. Inputs' /\ Surface'
    BY <1>0, <1>9, <2>1, StillOut
  <2>3. PagesTypeOK'
    BY <1>0, <1>9, <2>1 DEF PagesTypeOK, Server, pages, her
  <2> QED BY <1>9, <2>1, <2>2, <2>3 DEF IInv, Server
<1> QED BY <1>1, <1>2, <1>4, <1>5, <1>7, <1>8, <1>10, <1>11 DEF Next, Delivers

(* The invariant holds throughout.                                         *)
LEMMA IInvCorrect == Spec => []IInv
  BY InitIInv, NextIInv, PTL DEF Spec

(* No switch, in whatever order with turns, builds and kernel stops,       *)
(* leaves the companion on settings that are no longer in force.           *)
THEOREM CompanionCorrect == Spec => []CompanionIsCurrent
<1>1. IInv => CompanionIsCurrent
  BY DEF IInv
<1> QED BY <1>1, IInvCorrect, PTL

(* When nothing of the voice surface is out it does not think, and it      *)
(* shows the answer to the question on its screen.                         *)
THEOREM SurfaceCorrect == Spec => []SurfaceAnswers
<1>1. IInv => SurfaceAnswers
  BY DEF IInv, Surface, SurfaceAnswers
<1> QED BY <1>1, IInvCorrect, PTL

(* The Console's grant is in the ledger of a running kernel throughout a   *)
(* turn, unless a reboot or another operator took it away after the turn's *)
(* agent was built, however the two were started and stopped before.       *)
THEOREM AuthorityCorrect == Spec => []TurnsAreAuthorised
<1>1. IInv => TurnsAreAuthorised
  BY DEF IInv, Holding, Authority, TurnsAreAuthorised
<1> QED BY <1>1, IInvCorrect, PTL

----------------------------------------------------------------------------
(* What the grid may show, and the shape of the window's state.            *)
Panes == {Loading, ErrorGrid} \cup [kind : {"list"}, dir : Paths, items : SUBSET Paths]
Window == [cwd : Dirs, hist : Seq(Dirs), sel : Paths \cup {NoEntry}, grid : Panes]

FilesTypes ==
    /\ disk \subseteq Paths
    /\ win \in [Wins -> Window]
    /\ cur \in Wins \cup {0} /\ made \in 0 .. MaxWins
    /\ cur <= made /\ sent \in [Conns -> FsRequest \cup {NoEntry}]
    /\ \A s \in Conns : sent[s] # NoEntry => sent[s].w <= made

(* What is listed is the folder in the path bar, as it is on disk.         *)
GridIsTrue ==
    win[cur].grid.kind = "list" => win[cur].grid = Listing(win[cur].cwd, Children(win[cur].cwd))

(* A request of the window on the page, when no other is out: a listing    *)
(* finds the grid cleared and nothing selected, and what it brings is      *)
(* still so; a change that has not reached the disk leaves the grid true   *)
(* unless an earlier one did unseen, and a file that is being written has  *)
(* its folder.                                                             *)
RequestOK(s) ==
    LET q == sent[s] IN
    /\ q.w = cur
    /\ q.op = "list" => /\ win[cur].sel = NoEntry /\ win[cur].grid = Loading
                        /\ q.path = win[cur].cwd /\ q.at # "made"
                        /\ q.at = "ok" => q.items = Children(q.path)
    /\ q.op # "list" /\ q.at \in {"sent", "error"} => unseen \/ GridIsTrue
    /\ q.op = "write" => q.path \in Files
    /\ q.at = "made" => Parent[q.path] \in disk

AtMostOne == \A s, t \in Conns : sent[s] # NoEntry /\ sent[t] # NoEntry => s = t

WindowOK ==
    /\ win[cur].sel # NoEntry => win[cur].sel \in Shown(cur)
    /\ \A s \in Conns : sent[s] # NoEntry => RequestOK(s)
    /\ (\A s \in Conns : sent[s] = NoEntry) => unseen \/ GridIsTrue

FilesInv == FilesTypes /\ (~overlap => AtMostOne /\ (cur # 0 => WindowOK))

----------------------------------------------------------------------------
(* A request goes out: it is the only one unless requests now overlap.     *)
LEMMA SendFacts ==
  ASSUME FilesTypes, NEW s \in Conns, NEW w \in Wins, NEW op \in {"list", "write", "remove"},
         NEW p \in Paths, Send(s, w, op, p)
  PROVE  /\ sent' \in [Conns -> FsRequest \cup {NoEntry}]
         /\ sent'[s] = [w |-> w, op |-> op, path |-> p, at |-> "sent", items |-> {}]
         /\ \A t \in Conns : t # s => sent'[t] = sent[t]
         /\ ~overlap' => \A t \in Conns : t # s => sent[t] = NoEntry
         /\ ~overlap' /\ overlap => op = "list" /\ (w = cur \/ w > made)
         /\ ~unseen' => ~unseen \/ op = "list"
<1> DEFINE q == [w |-> w, op |-> op, path |-> p, at |-> "sent", items |-> {}]
<1>1. sent' = [sent EXCEPT ![s] = q] /\ sent \in [Conns -> FsRequest \cup {NoEntry}]
  BY DEF Send, FilesTypes
<1>2. q \in FsRequest
  BY DEF FsRequest
<1> HIDE DEF q
<1>3. /\ sent' \in [Conns -> FsRequest \cup {NoEntry}] /\ sent'[s] = q
      /\ \A t \in Conns : t # s => sent'[t] = sent[t]
  BY <1>1, <1>2
<1>4. ~overlap' => \A t \in Conns : t # s => sent[t] = NoEntry
  BY Zenon DEF Send
<1>5. ~overlap' /\ overlap => op = "list" /\ (w = cur \/ w > made)
  BY Zenon DEF Send
<1>6. ~unseen' => ~unseen \/ op = "list"
  BY Zenon DEF Send
<1> QED BY <1>3, <1>4, <1>5, <1>6 DEF q

(* load(): the window shows the path, nothing is selected, and its listing *)
(* is out.                                                                 *)
LEMMA LoadFacts ==
  ASSUME FilesTypes, NEW s \in Conns, NEW w \in Wins, NEW d \in Dirs,
         NEW h \in Seq(Dirs), load(w, s, d, h)
  PROVE  /\ win' \in [Wins -> Window]
         /\ \A v \in Wins : v # w => win'[v] = win[v]
         /\ win'[w].cwd = d /\ win'[w].sel = NoEntry /\ win'[w].grid = Loading
         /\ Send(s, w, "list", d) /\ d \in Paths
<1>1. /\ win' = [win EXCEPT ![w] = [cwd |-> d, hist |-> h, sel |-> NoEntry, grid |-> Loading]]
      /\ Send(s, w, "list", d)
  BY DEF load, Loaded
<1>2. Loading \in Panes /\ d \in Paths
  BY DEF Panes, Paths
<1>3. win \in [Wins -> Window]
  BY DEF FilesTypes
<1> QED BY <1>1, <1>2, <1>3 DEF Window

(* A load of the window that is on the page thereafter.                    *)
LEMMA LoadKeeps ==
  ASSUME FilesTypes, NEW s \in Conns, NEW w \in Wins, NEW d \in Dirs,
         NEW h \in Seq(Dirs), load(w, s, d, h), disk' = disk, made' \in 0 .. MaxWins,
         made <= made', cur' = w, w <= made'
  PROVE  FilesInv'
<1>1. /\ win' \in [Wins -> Window]
      /\ win'[w].cwd = d /\ win'[w].sel = NoEntry /\ win'[w].grid = Loading
      /\ Send(s, w, "list", d) /\ d \in Paths
  BY LoadFacts
<1>2. /\ sent' \in [Conns -> FsRequest \cup {NoEntry}]
      /\ sent'[s] = [w |-> w, op |-> "list", path |-> d, at |-> "sent", items |-> {}]
      /\ \A t \in Conns : t # s => sent'[t] = sent[t]
      /\ ~overlap' => \A t \in Conns : t # s => sent[t] = NoEntry
  BY <1>1, SendFacts
<1>3. FilesTypes'
  <2>1. ASSUME NEW t \in Conns, sent'[t] # NoEntry PROVE sent'[t].w <= made'
    <3>1. CASE t = s
      BY <1>2, <3>1
    <3>2. CASE t # s
      <4>1. sent[t].w <= made /\ sent[t].w \in Wins
        BY <1>2, <2>1, <3>2 DEF FilesTypes, FsRequest
      <4>2. sent[t].w \in Int /\ made \in Int /\ made' \in Int
        BY <4>1 DEF FilesTypes, Wins
      <4> QED BY <1>2, <3>2, <4>1, <4>2
    <3> QED BY <3>1, <3>2
  <2> QED BY <1>1, <1>2, <2>1 DEF FilesTypes
<1>4. ASSUME ~overlap' PROVE AtMostOne' /\ WindowOK'
  <2>1. \A t \in Conns : sent'[t] # NoEntry => t = s
    BY <1>2, <1>4
  <2>2. AtMostOne'
    BY <2>1 DEF AtMostOne
  <2>3. RequestOK(s)'
    BY <1>1, <1>2 DEF RequestOK
  <2>4. GridIsTrue'
    BY <1>1 DEF GridIsTrue, Loading
  <2> QED BY <1>1, <2>1, <2>2, <2>3, <2>4 DEF WindowOK
<1> QED BY <1>3, <1>4 DEF FilesInv

(* A change is sent by the window on the page.                             *)
LEMMA ChangeKeeps ==
  ASSUME FilesInv, NEW s \in Conns, NEW w \in Wins, NEW op \in {"write", "remove"},
         NEW p \in Paths, op = "write" => p \in Files, MayClick(w, s), Send(s, w, op, p),
         UNCHANGED <<disk, win, cur, made>>
  PROVE  FilesInv'
<1>1. w = cur /\ w # 0 /\ sent[s] = NoEntry /\ FilesTypes
  BY DEF MayClick, FilesInv
<1>2. /\ sent' \in [Conns -> FsRequest \cup {NoEntry}]
      /\ sent'[s] = [w |-> w, op |-> op, path |-> p, at |-> "sent", items |-> {}]
      /\ \A t \in Conns : t # s => sent'[t] = sent[t]
      /\ ~overlap' => \A t \in Conns : t # s => sent[t] = NoEntry
      /\ ~overlap' => ~overlap
      /\ ~unseen' => ~unseen
  BY <1>1, SendFacts
<1>3. FilesTypes'
  BY <1>1, <1>2 DEF FilesTypes
<1>4. ASSUME ~overlap' PROVE AtMostOne' /\ WindowOK'
  <2>1. /\ \A t \in Conns : sent[t] = NoEntry
        /\ \A t \in Conns : sent'[t] # NoEntry => t = s
    BY <1>1, <1>2, <1>4
  <2>2. AtMostOne'
    BY <2>1 DEF AtMostOne
  <2>3. (unseen \/ GridIsTrue) /\ (win[cur].sel # NoEntry => win[cur].sel \in Shown(cur))
    BY <1>1, <1>2, <1>4, <2>1 DEF FilesInv, WindowOK
  <2>4. (unseen' \/ GridIsTrue') /\ (win[cur].sel # NoEntry => win[cur].sel \in Shown(cur))'
    BY <1>2, <2>3 DEF GridIsTrue, Shown, Children
  <2>5. RequestOK(s)'
    BY <1>1, <1>2, <2>4 DEF RequestOK
  <2> QED BY <2>1, <2>2, <2>4, <2>5 DEF WindowOK
<1> QED BY <1>3, <1>4 DEF FilesInv

(* The parts of a window.                                                  *)
LEMMA WinParts ==
  ASSUME FilesTypes, NEW w \in Wins
  PROVE  /\ win[w].cwd \in Dirs /\ win[w].hist \in Seq(Dirs) /\ Push(w) \in Seq(Dirs)
         /\ Parent[win[w].cwd] \in Dirs /\ win[w].sel \in Paths \cup {NoEntry}
<1>1. win[w] \in Window
  BY DEF FilesTypes
<1>2. win[w].cwd \in Dirs /\ win[w].hist \in Seq(Dirs) /\ win[w].sel \in Paths \cup {NoEntry}
  BY <1>1 DEF Window
<1>3. Push(w) \in Seq(Dirs)
  BY <1>2 DEF Push
<1>4. Parent[win[w].cwd] \in Dirs
  BY <1>2, TreeAssumption DEF Paths
<1> QED BY <1>2, <1>3, <1>4

(* What the user does.                                                     *)
LEMMA UserFiles == ASSUME FilesInv, User PROVE FilesInv'
<1>t. /\ FilesTypes /\ MaxWins \in Nat /\ made \in 0 .. MaxWins /\ cur \in Wins \cup {0}
      /\ cur <= made
  BY FilesBounds DEF FilesInv, FilesTypes
<1>l. ASSUME NEW w \in Wins, w = cur, NEW s \in Conns, NEW d \in Dirs, NEW h \in Seq(Dirs),
             load(w, s, d, h), UNCHANGED <<disk, cur, made>>
      PROVE  FilesInv'
  <2>1. made' \in 0 .. MaxWins /\ made <= made' /\ cur' = w /\ w <= made'
    BY <1>t, <1>l
  <2> QED BY <1>t, <1>l, <2>1, LoadKeeps
<1>1. ASSUME NEW p \in Dirs, openFiles(p) PROVE FilesInv'
  <2>1. PICK s \in Conns :
          /\ sent[s] = NoEntry
          /\ IF cur # 0
               THEN navigate(cur, s, p) /\ UNCHANGED <<disk, cur, made>>
               ELSE /\ made < MaxWins /\ made' = made + 1 /\ cur' = made + 1
                    /\ load(made + 1, s, p, <<>>) /\ UNCHANGED disk
    BY <1>1 DEF openFiles
  <2>2. CASE cur # 0
    <3>1. cur \in Wins
      BY <1>t, <2>2
    <3>2. PICK h \in Seq(Dirs) : load(cur, s, p, h)
      BY <1>t, <2>1, <2>2, <3>1, WinParts DEF navigate
    <3> QED BY <1>l, <2>1, <2>2, <3>1, <3>2
  <2>3. CASE cur = 0
    <3>1. PICK w : w = made + 1
      OBVIOUS
    <3>2. w \in Wins /\ made' \in 0 .. MaxWins /\ made <= made' /\ cur' = w /\ w <= made'
      BY <1>t, <2>1, <2>3, <3>1 DEF Wins
    <3>3. load(w, s, p, <<>>) /\ <<>> \in Seq(Dirs) /\ disk' = disk
      BY <2>1, <2>3, <3>1
    <3> QED BY <1>t, <3>2, <3>3, LoadKeeps
  <2> QED BY <2>2, <2>3
<1>2. ASSUME closeWin PROVE FilesInv'
  <2>1. /\ cur \in Wins /\ cur' = 0 /\ UNCHANGED <<disk, made, sent, overlap, unseen>>
        /\ win' = [win EXCEPT ![cur] = [Fresh EXCEPT !.cwd = win[cur].cwd]]
    BY <1>2, <1>t DEF closeWin
  <2>2. [Fresh EXCEPT !.cwd = win[cur].cwd] \in
            Window
    <3>1. win[cur].cwd \in Dirs /\ <<>> \in Seq(Dirs) /\ Loading \in Panes
      BY <1>t, <2>1, WinParts DEF Panes
    <3> QED BY <3>1 DEF Fresh, Window
  <2>3. FilesTypes'
    BY <1>t, <2>1, <2>2 DEF FilesTypes
  <2> QED BY <2>1, <2>3 DEF FilesInv, AtMostOne
<1>3. ASSUME NEW w \in Wins, refresh(w) \/ upDir(w) PROVE FilesInv'
  BY <1>3, <1>l, <1>t, WinParts DEF refresh, upDir, MayClick
<1>4. ASSUME NEW w \in Wins, back(w) PROVE FilesInv'
  <2> DEFINE h == win[w].hist
  <2>1. PICK s \in Conns : /\ MayClick(w, s) /\ h # <<>>
                             /\ load(w, s, h[Len(h)], SubSeq(h, 1, Len(h) - 1))
                             /\ UNCHANGED <<disk, cur, made>>
    BY <1>4 DEF back
  <2>2. h \in Seq(Dirs)
    BY <1>t, WinParts
  <2> HIDE DEF h
  <2>3. h[Len(h)] \in Dirs /\ SubSeq(h, 1, Len(h) - 1) \in Seq(Dirs)
    BY <2>1, <2>2
  <2>4. w = cur
    BY <2>1 DEF MayClick
  <2> QED BY <1>l, <2>1, <2>3, <2>4
<1>5. ASSUME NEW w \in Wins, del(w) PROVE FilesInv'
  BY <1>5, <1>t, WinParts, ChangeKeeps DEF del
<1>6. ASSUME NEW w \in Wins, NEW e \in Paths, click(w, e) PROVE FilesInv'
  <2>1. /\ w = cur /\ e \in Shown(w) /\ UNCHANGED <<disk, cur, made, sent, overlap, unseen>>
        /\ win' = [win EXCEPT ![w].sel = e]
    BY <1>6 DEF click
  <2>2. win \in [Wins -> Window]
    BY <1>t DEF FilesTypes
  <2>3. /\ win' \in [Wins -> Window]
        /\ win'[w].sel = e /\ win'[w].cwd = win[w].cwd /\ win'[w].grid = win[w].grid
    BY <2>1, <2>2 DEF Window
  <2>4. FilesTypes'
    BY <1>t, <2>1, <2>3 DEF FilesTypes
  <2>5. ASSUME ~overlap PROVE AtMostOne' /\ WindowOK'
    <3>0. AtMostOne /\ WindowOK /\ cur \in Wins /\ cur # 0
      BY <1>t, <2>1, <2>5 DEF FilesInv, Wins
    <3>1. win[cur].grid.kind = "list"
      BY <2>1 DEF Shown
    <3>2. GridIsTrue => GridIsTrue'
      BY <2>1, <2>3 DEF GridIsTrue, Children
    <3>3. ASSUME NEW s \in Conns, sent[s] # NoEntry PROVE RequestOK(s)'
      <4>1. RequestOK(s)
        BY <3>0, <3>3 DEF WindowOK
      <4>2. sent[s].op # "list"
        BY <3>1, <4>1 DEF RequestOK, Loading
      <4> QED BY <2>1, <2>3, <3>2, <4>1, <4>2 DEF RequestOK
    <3>4. (win[cur].sel \in Shown(cur))'
      BY <2>1, <2>3 DEF Shown
    <3>5. AtMostOne'
      BY <2>1, <3>0 DEF AtMostOne
    <3> QED BY <2>1, <3>0, <3>2, <3>3, <3>4, <3>5 DEF WindowOK
  <2> QED BY <2>1, <2>4, <2>5 DEF FilesInv
<1>7. ASSUME NEW w \in Wins, NEW e \in Paths, dblclick(w, e) PROVE FilesInv'
  BY <1>7, <1>l, <1>t, WinParts DEF dblclick, MayClick
<1>8. ASSUME NEW w \in Wins, NEW f \in Files, newfile(w, f) PROVE FilesInv'
  BY <1>8, ChangeKeeps DEF newfile, Paths
<1>9. ASSUME NEW w \in Wins, NEW d \in Dirs, newfolder(w, d) PROVE FilesInv'
  <2>1. d # Root => Keep[d] \in Files
    BY TreeAssumption
  <2> QED BY <1>9, <2>1, ChangeKeeps DEF newfolder, Paths
<1> QED BY <1>1, <1>2, <1>3, <1>4, <1>5, <1>6, <1>7, <1>8, <1>9, Zenon DEF User

(* A request that is out is answered, or forgotten.                        *)
Moves(s) ==
    /\ sent' \in [Conns -> FsRequest \cup {NoEntry}] /\ \A t \in Conns : t # s => sent'[t] = sent[t]
    /\ sent'[s] = NoEntry \/ (sent'[s].w = sent[s].w /\ sent'[s].op = sent[s].op
                              /\ sent'[s].path = sent[s].path)
    /\ UNCHANGED <<cur, made, overlap>>

(* The invariant stays while no request overlaps it, if it stays for the   *)
(* window and for that request.                                            *)
LEMMA MovesKeeps ==
  ASSUME FilesInv, NEW s \in Conns, sent[s] # NoEntry, Moves(s), disk' \subseteq Paths,
         win' \in [Wins -> Window],
         ASSUME ~overlap, cur # 0, RequestOK(s), win[cur].sel # NoEntry => win[cur].sel \in Shown(cur)
         PROVE  /\ (win[cur].sel # NoEntry => win[cur].sel \in Shown(cur))'
                /\ sent'[s] # NoEntry => RequestOK(s)'
                /\ sent'[s] = NoEntry => unseen' \/ GridIsTrue'
  PROVE  FilesInv'
<1>1. FilesTypes /\ FilesTypes'
  <2>1. FilesTypes /\ sent[s].w <= made
    BY DEF FilesInv, FilesTypes
  <2> QED BY <2>1 DEF FilesTypes, Moves
<1>2. ASSUME ~overlap' PROVE AtMostOne'
  BY <1>2 DEF FilesInv, Moves, AtMostOne
<1>3. ASSUME ~overlap', cur' # 0 PROVE WindowOK'
  <2>1. ~overlap /\ cur # 0 /\ AtMostOne /\ WindowOK
    BY <1>3 DEF Moves, FilesInv
  <2>2. \A t \in Conns : t # s => sent'[t] = NoEntry
    BY <2>1 DEF AtMostOne, Moves
  <2>3. RequestOK(s) /\ (win[cur].sel # NoEntry => win[cur].sel \in Shown(cur))
    BY <2>1 DEF WindowOK
  <2>4. /\ (win[cur].sel # NoEntry => win[cur].sel \in Shown(cur))'
        /\ sent'[s] # NoEntry => RequestOK(s)'
        /\ sent'[s] = NoEntry => unseen' \/ GridIsTrue'
    BY <2>1, <2>3
  <2> QED BY <2>2, <2>4 DEF WindowOK
<1> QED BY <1>1, <1>2, <1>3 DEF FilesInv

(* What is above a path are paths.                                         *)
LEMMA UpwardPaths ==
  ASSUME NEW p \in Paths
  PROVE  Upward[p] \subseteq Paths /\ Parent[p] \in Dirs /\ Parent[p] \in Upward[p]
<1>1. Parent[p] \in Dirs /\ Parent[p] \in Paths
  BY TreeAssumption DEF Paths
<1>2. Upward[p] = {q \in Paths : \A S \in SUBSET Paths :
                      p \in S /\ (\A x \in S : Parent[x] \in S) => q \in S}
  BY DEF Upward
<1> QED BY <1>1, <1>2

(* The kernel's side of a request, its refusal and its failures.           *)
LEMMA KernelFiles ==
  ASSUME FilesInv, NEW s \in Conns, FsKernel(s) \/ Refuse(s) \/ Fails(s) \/ Lose(s)
  PROVE  FilesInv'
<1>t. /\ disk \subseteq Paths /\ sent \in [Conns -> FsRequest \cup {NoEntry}]
      /\ win \in [Wins -> Window]
  BY DEF FilesInv, FilesTypes
<1>b. /\ sent[s] # NoEntry /\ sent[s] \in FsRequest /\ UNCHANGED <<win, cur, made, overlap>>
  <2>1. sent[s] # NoEntry /\ UNCHANGED <<win, cur, made, overlap>>
    BY DEF FsKernel, Refuse, Fails, Lose, fsList, fsMkdir, fsWrite, fsRemove
  <2> QED BY <1>t, <2>1
<1>p. sent[s].path \in Paths
  BY <1>b DEF FsRequest
<1>m. ASSUME NEW at \in {"made", "ok", "error"}, sent' = [sent EXCEPT ![s].at = at]
      PROVE  Moves(s) /\ sent'[s].at = at /\ sent'[s] \in FsRequest
  BY <1>t, <1>b, <1>m DEF Moves, FsRequest
<1>w. win' = win /\ cur' = cur
  BY <1>b
<1>s. (win[cur].sel # NoEntry => win[cur].sel \in Shown(cur)) =>
      (win[cur].sel # NoEntry => win[cur].sel \in Shown(cur))'
  BY <1>w DEF Shown
<1>g. disk' = disk /\ GridIsTrue => GridIsTrue'
  BY <1>w DEF GridIsTrue, Children
<1>1. CASE fsList(s) /\ sent[s].path \in disk
  <2>1. /\ sent' = [sent EXCEPT ![s].at = "ok", ![s].items = Children(sent[s].path)]
        /\ UNCHANGED <<disk, unseen>> /\ sent[s].op = "list"
    BY <1>1 DEF fsList
  <2>2. Children(sent[s].path) \subseteq Paths
    BY <1>t DEF Children
  <2>3. /\ Moves(s) /\ sent'[s] \in FsRequest
        /\ sent'[s].at = "ok" /\ sent'[s].items = Children(sent[s].path)
    BY <1>t, <1>b, <2>1, <2>2 DEF Moves, FsRequest
  <2>4. sent'[s] # NoEntry
    BY <2>3, NoEntryAssumption
  <2>5. ASSUME RequestOK(s) PROVE RequestOK(s)'
    <3>1. PICK q : q = sent'[s]
      OBVIOUS
    <3>2. q.w = sent[s].w /\ q.op = sent[s].op /\ q.path = sent[s].path /\ q.at = "ok"
      BY <2>3, <2>4, <3>1 DEF Moves
    <3>3. Children(q.path)' = Children(q.path) /\ q.items = Children(q.path)
      BY <2>1, <2>3, <3>1, <3>2 DEF Children
    <3> QED BY <1>w, <2>1, <2>5, <3>1, <3>2, <3>3 DEF RequestOK
  <2> QED BY <1>t, <1>b, <1>s, <2>1, <2>3, <2>4, <2>5, MovesKeeps
<1>2. ASSUME NEW at \in {"made", "ok", "error"}, sent' = [sent EXCEPT ![s].at = at],
             disk' \subseteq Paths,
             ASSUME ~overlap, cur # 0, RequestOK(s) PROVE RequestOK(s)'
      PROVE  FilesInv'
  <2>1. Moves(s) /\ sent'[s] # NoEntry
    BY <1>m, <1>2, NoEntryAssumption
  <2> QED BY <1>t, <1>b, <1>2, <1>s, <2>1, MovesKeeps
<1>r. ASSUME NEW at \in {"made", "ok", "error"}, sent' = [sent EXCEPT ![s].at = at]
      PROVE  /\ sent'[s].w = sent[s].w /\ sent'[s].op = sent[s].op
             /\ sent'[s].path = sent[s].path /\ sent'[s].at = at
  BY <1>m, <1>r, NoEntryAssumption DEF Moves
<1>3. CASE Refuse(s) \/ (fsList(s) /\ sent[s].path \notin disk)
  <2>1. sent' = [sent EXCEPT ![s].at = "error"] /\ UNCHANGED <<disk, unseen>> /\ sent[s].at = "sent"
    BY <1>3 DEF Refuse, fsList
  <2>2. ASSUME RequestOK(s) PROVE RequestOK(s)'
    BY <1>g, <1>r, <1>w, <2>1, <2>2 DEF RequestOK
  <2> QED BY <1>t, <1>2, <2>1, <2>2
<1>4. CASE fsMkdir(s)
  <2>1. /\ sent' = [sent EXCEPT ![s].at = "made"] /\ sent[s].op = "write"
        /\ disk' = disk \cup (Upward[sent[s].path] \ {sent[s].path})
    BY <1>4 DEF fsMkdir
  <2>2. disk' \subseteq Paths /\ Parent[sent[s].path] \in Dirs
    BY <1>t, <1>p, <2>1, UpwardPaths
  <2>3. ASSUME RequestOK(s) PROVE RequestOK(s)'
    <3>1. sent[s].path \in Files
      BY <2>1, <2>3 DEF RequestOK
    <3>2. Parent[sent[s].path] # sent[s].path
      BY <2>2, <3>1, TreeAssumption
    <3>3. Parent[sent[s].path] \in disk'
      BY <1>p, <2>1, <3>2, UpwardPaths
    <3> QED BY <1>r, <1>w, <2>1, <2>3, <3>1, <3>3 DEF RequestOK
  <2> QED BY <1>2, <2>1, <2>2, <2>3
<1>5. CASE fsWrite(s) /\ Parent[sent[s].path] \in disk
  <2>1. /\ sent' = [sent EXCEPT ![s].at = "ok"] /\ sent[s].at = "made"
        /\ disk' = disk \cup {sent[s].path}
    BY <1>5 DEF fsWrite
  <2>2. ASSUME RequestOK(s) PROVE RequestOK(s)'
    BY <1>r, <1>w, <2>1, <2>2 DEF RequestOK
  <2> QED BY <1>t, <1>p, <1>2, <2>1, <2>2
<1>6. CASE fsWrite(s) /\ Parent[sent[s].path] \notin disk
  <2>1. sent' = [sent EXCEPT ![s].at = "error"] /\ sent[s].at = "made" /\ disk' = disk
    BY <1>6 DEF fsWrite
  <2>2. ~RequestOK(s)
    BY <1>6, <2>1 DEF RequestOK
  <2> QED BY <1>t, <1>2, <2>1, <2>2
<1>7. CASE fsRemove(s)
  <2>1. /\ sent' = [sent EXCEPT ![s].at = "ok"] /\ sent[s].op = "remove"
        /\ disk' = disk \ Under(sent[s].path)
    BY <1>7 DEF fsRemove
  <2>2. ASSUME RequestOK(s) PROVE RequestOK(s)'
    BY <1>r, <1>w, <2>1, <2>2 DEF RequestOK
  <2> QED BY <1>t, <1>2, <2>1, <2>2
<1>8. CASE Fails(s) \/ (Lose(s) /\ sent[s].op # "list")
  <2>1. sent' = [sent EXCEPT ![s].at = "error"] /\ unseen' = TRUE
    BY <1>8, Zenon DEF Fails, Lose
  <2>2. disk' \subseteq Paths
    BY <1>t, <1>p, <1>8 DEF Fails, Lose
  <2>3. ASSUME RequestOK(s) PROVE RequestOK(s)'
    <3>1. sent[s].op # "list"
      BY <1>8, <2>3 DEF Fails, RequestOK
    <3> QED BY <1>r, <1>w, <2>1, <2>3, <3>1 DEF RequestOK
  <2> QED BY <1>2, <2>1, <2>2, <2>3
<1>9. CASE Lose(s) /\ sent[s].op = "list"
  <2>1. sent' = [sent EXCEPT ![s].at = "error"] /\ disk' = disk
    BY <1>9 DEF Lose
  <2>2. ASSUME RequestOK(s) PROVE RequestOK(s)'
    BY <1>r, <1>w, <1>9, <2>1, <2>2 DEF RequestOK
  <2> QED BY <1>t, <1>2, <2>1, <2>2
<1> QED BY <1>1, <1>3, <1>4, <1>5, <1>6, <1>7, <1>8, <1>9, Zenon DEF FsKernel

(* An answer reaches the page.                                             *)
LEMMA AnswerFiles == ASSUME FilesInv, NEW s \in Conns, Answer(s) PROVE FilesInv'
<1>t. /\ FilesTypes /\ disk \subseteq Paths /\ sent \in [Conns -> FsRequest \cup {NoEntry}]
      /\ win \in [Wins -> Window]
      /\ cur \in Wins \cup {0} /\ made \in 0 .. MaxWins /\ cur <= made
  BY DEF FilesInv, FilesTypes
<1>b. sent[s] # NoEntry /\ sent[s] \in FsRequest
  BY <1>t DEF Answer, listAnswer, changeAnswer, changeFails
<1>d. ASSUME sent' = [sent EXCEPT ![s] = NoEntry], UNCHANGED <<cur, made, overlap>>
      PROVE  Moves(s) /\ sent'[s] = NoEntry
  BY <1>t, <1>d DEF Moves
<1>1. CASE listAnswer(s)
  <2> DEFINE g == IF sent[s].at = "ok" THEN Listing(sent[s].path, sent[s].items) ELSE ErrorGrid
  <2>1. /\ sent[s].op = "list" /\ sent' = [sent EXCEPT ![s] = NoEntry]
        /\ UNCHANGED <<disk, cur, made, overlap>>
        /\ win' = IF sent[s].w # cur THEN win ELSE [win EXCEPT ![cur].grid = g]
    BY <1>1 DEF listAnswer
  <2>2. /\ win' \in [Wins -> [cwd : Dirs, hist : Seq(Dirs), sel : Paths \cup {NoEntry},
                                grid : Panes \cup {g}]]
        /\ sent[s].w = cur =>
              win'[cur].grid = g /\ win'[cur].cwd = win[cur].cwd /\ win'[cur].sel = win[cur].sel
    <3> HIDE DEF g
    <3>1. sent[s].w \in Wins
      BY <1>b DEF FsRequest
    <3> QED BY <1>t, <2>1, <3>1 DEF Window
  <2>3. Moves(s) /\ sent'[s] = NoEntry /\ cur' = cur
    BY <1>d, <2>1
  <2>4. ASSUME RequestOK(s)
        PROVE  /\ GridIsTrue'
               /\ (win[cur].sel # NoEntry => win[cur].sel \in Shown(cur))'
    <3>1. /\ sent[s].w = cur /\ win[cur].sel = NoEntry /\ sent[s].path = win[cur].cwd
          /\ sent[s].at = "ok" => sent[s].items = Children(sent[s].path)
      BY <2>1, <2>4 DEF RequestOK
    <3>2. /\ win'[cur'].grid = g /\ win'[cur'].cwd = win[cur].cwd /\ win'[cur'].sel = NoEntry
      BY <2>2, <2>3, <3>1
    <3>3. PICK d : d = win[cur].cwd
      OBVIOUS
    <3>4. Children(d)' = Children(d)
      BY <2>1 DEF Children
    <3>5. sent[s].at = "ok" => g = Listing(d, Children(d))
      BY <3>1, <3>3
    <3>6. sent[s].at # "ok" => g.kind = "error"
      BY DEF ErrorGrid
    <3>7. GridIsTrue'
      <4>1. CASE sent[s].at = "ok"
        BY <3>2, <3>3, <3>4, <3>5, <4>1 DEF GridIsTrue
      <4>2. CASE sent[s].at # "ok"
        BY <3>2, <3>6, <4>2 DEF GridIsTrue
      <4> QED BY <4>1, <4>2
    <3> QED BY <3>2, <3>7
  <2>5. g \in Panes
    BY <1>b DEF FsRequest, Panes, Listing
  <2> HIDE DEF g
  <2>6. Panes \cup {g} = Panes
    BY <2>5
  <2>7. win' \in [Wins -> Window]
    BY <2>2, <2>6 DEF Window
  <2> QED BY <1>t, <1>b, <2>1, <2>3, <2>4, <2>7, MovesKeeps
<1>2. CASE changeAnswer(s)
  <2> DEFINE w == sent[s].w
  <2>1. /\ load(w, s, win[w].cwd, win[w].hist) /\ UNCHANGED <<disk, cur, made>>
    BY <1>2 DEF changeAnswer
  <2>2. w \in Wins /\ w <= made
    BY <1>b, <1>t DEF FsRequest, FilesTypes
  <2>3. win[w].cwd \in Dirs /\ win[w].hist \in Seq(Dirs)
    BY <1>t, <2>2, WinParts
  <2> HIDE DEF w
  <2>4. CASE w = cur
    <3>1. made' \in 0 .. MaxWins /\ made <= made' /\ cur' = w /\ w <= made'
      BY <1>t, <2>1, <2>2, <2>4
    <3> QED BY <1>t, <2>1, <2>2, <2>3, <3>1, LoadKeeps
  <2>5. CASE w # cur
    <3>1. /\ win' \in [Wins -> Window]
          /\ Send(s, w, "list", win[w].cwd) /\ win[w].cwd \in Paths
      BY <1>t, <2>1, <2>2, <2>3, LoadFacts
    <3>2. /\ sent' \in [Conns -> FsRequest \cup {NoEntry}]
          /\ sent'[s] = [w |-> w, op |-> "list", path |-> win[w].cwd, at |-> "sent", items |-> {}]
          /\ \A t \in Conns : t # s => sent'[t] = sent[t]
          /\ ~overlap' => \A t \in Conns : t # s => sent[t] = NoEntry
          /\ ~overlap' /\ overlap => w = cur \/ w > made
      BY <1>t, <2>2, <3>1, SendFacts
    <3>3. ~ (w > made)
      BY <1>t, <2>2 DEF Wins
    <3>4. FilesTypes'
      <4>1. ASSUME NEW t \in Conns, sent'[t] # NoEntry PROVE sent'[t].w <= made
        BY <1>t, <2>2, <3>2, <4>1 DEF FilesTypes
      <4> QED BY <1>t, <2>1, <3>1, <3>2, <4>1 DEF FilesTypes
    <3>5. ASSUME ~overlap' PROVE AtMostOne' /\ cur' = 0
      <4>1. ~overlap
        BY <2>5, <3>2, <3>3, <3>5
      <4>2. cur # 0 => w = cur
        BY <1>b, <4>1 DEF FilesInv, WindowOK, RequestOK, w
      <4>3. AtMostOne'
        BY <3>2, <3>5 DEF AtMostOne
      <4> QED BY <2>1, <2>5, <4>2, <4>3
    <3> QED BY <3>4, <3>5 DEF FilesInv
  <2> QED BY <2>4, <2>5
<1>3. CASE changeFails(s)
  <2>1. /\ sent[s].op # "list" /\ sent[s].at = "error" /\ sent' = [sent EXCEPT ![s] = NoEntry]
        /\ UNCHANGED <<disk, win, cur, made, overlap, unseen>>
    BY <1>3 DEF changeFails
  <2>2. Moves(s) /\ sent'[s] = NoEntry
    BY <1>d, <2>1
  <2>3. RequestOK(s) => unseen' \/ GridIsTrue'
    BY <2>1 DEF RequestOK, GridIsTrue, Children
  <2>4. (win[cur].sel # NoEntry => win[cur].sel \in Shown(cur)) =>
        (win[cur].sel # NoEntry => win[cur].sel \in Shown(cur))'
    BY <2>1 DEF Shown
  <2> QED BY <1>t, <1>b, <2>1, <2>2, <2>3, <2>4, MovesKeeps
<1> QED BY <1>1, <1>2, <1>3 DEF Answer

(* The window before anything is opened.                                   *)
LEMMA InitFiles == FilesInit => FilesInv
<1> SUFFICES ASSUME FilesInit PROVE FilesInv
  OBVIOUS
<1>1. Root \in Dirs /\ MaxWins \in Nat
  BY TreeAssumption, FilesBounds
<1>2. Fresh \in Window
  BY <1>1 DEF Fresh, Panes, Window
<1>3. /\ disk \subseteq Paths /\ win = [w \in Wins |-> Fresh] /\ cur = 0 /\ made = 0
      /\ sent = [s \in Conns |-> NoEntry]
  BY DEF FilesInit
<1>4. FilesTypes
  BY <1>1, <1>2, <1>3 DEF FilesTypes
<1> QED BY <1>3, <1>4 DEF FilesInv, AtMostOne

(* Each step.                                                              *)
LEMMA NextFiles == FilesInv /\ [FilesNext]_filesVars => FilesInv'
<1> SUFFICES ASSUME FilesInv, [FilesNext]_filesVars PROVE FilesInv'
  OBVIOUS
<1>1. CASE RemovedElsewhere
  <2>1. disk' \subseteq disk /\ overlap' = TRUE /\ UNCHANGED <<win, cur, made, sent>>
    BY <1>1 DEF RemovedElsewhere
  <2>2. FilesTypes'
    BY <2>1 DEF FilesInv, FilesTypes
  <2> QED BY <2>1, <2>2 DEF FilesInv
<1>2. CASE UNCHANGED filesVars
  BY <1>2 DEF filesVars, FilesInv, FilesTypes, AtMostOne, WindowOK, RequestOK, GridIsTrue,
              Shown, Children
<1> QED BY <1>1, <1>2, UserFiles, KernelFiles, AnswerFiles, Zenon DEF FilesNext

(* What Delete would remove is an item the user sees, for every tree of    *)
(* files and every number of requests out, unless requests overlapped.     *)
THEOREM SelectionCorrect == FilesSpec => []SelectionIsShown
<1>1. FilesInv => SelectionIsShown
  <2>1. \A w \in Wins : w # 0
    BY DEF Wins
  <2> QED BY <2>1 DEF FilesInv, WindowOK, SelectionIsShown, OnPage
<1>2. FilesInit => FilesInv
  BY InitFiles
<1>3. FilesInv /\ [FilesNext]_filesVars => FilesInv'
  BY NextFiles
<1> QED BY <1>1, <1>2, <1>3, PTL DEF FilesSpec

(* A window at rest shows its folder as it is on disk, for every tree,     *)
(* unless requests overlapped, another client changed the disk or a change *)
(* was made and answered with an error since it was listed.                *)
THEOREM RestCorrect == FilesSpec => []RestIsCurrent
<1>1. FilesInv => RestIsCurrent
  <2>1. \A w \in Wins : w # 0
    BY DEF Wins
  <2> QED BY <2>1 DEF FilesInv, WindowOK, GridIsTrue, RestIsCurrent, OnPage
<1>2. FilesInit => FilesInv
  BY InitFiles
<1>3. FilesInv /\ [FilesNext]_filesVars => FilesInv'
  BY NextFiles
<1> QED BY <1>1, <1>2, <1>3, PTL DEF FilesSpec

----------------------------------------------------------------------------
(* Nothing is under way.                                                   *)
Quiet == \A s \in Slots : chain[s] = NoChain

(* The layer shows the folder as the layout has it.                        *)
LayerIsTrue ==
    /\ \A n \in Names : icons[n] = IF n \in folder THEN layout.pos[n] ELSE 0
    /\ \A n \in folder : icons[n] # 0

(* The kernel's memory holds the page's layout, and another client that    *)
(* has read it will write the same back.                                   *)
Stored == mem = layout /\ other \subseteq {mem}

(* A chain that no other crosses: what it was answered is still so, and    *)
(* when it saves the layout that was drawn, it saves the page's.           *)
ChainOK(c) ==
    /\ c.then # "gone"
    /\ c.op \in {"list", "relist"} /\ c.at = "ok" => c.items = folder
    /\ c.op = "set" /\ c.then = "end" => LayerIsTrue /\ c.val = layout /\ (c.at = "ok" => Stored)

Uncrossed ==
    /\ \A s, t \in Slots : chain[s] # NoChain /\ chain[t] # NoChain => s = t
    /\ \A s \in Slots : chain[s] # NoChain => ChainOK(chain[s])
    /\ Quiet => LayerIsTrue /\ Stored

(* A page that has not fetched the layout is about to.                     *)
Fetches(s) == chain[s] # NoChain /\ chain[s].op = "get" /\ chain[s].then # "gone"

Fetching == ~ready => \E s \in Slots : Fetches(s)

(* The page that remembers: a layout l has the places the user chose and   *)
(* tells whether the folder was seeded.                                    *)
Remembers(l) == /\ \A n \in Names : meant[n] # 0 => l.pos[n] = meant[n]
                /\ seeds # 0 => l.seeded

Remembering ==
    /\ ready => /\ Remembers(layout) /\ seeds \in {0, 1}
                /\ \A s \in Slots : chain[s] # NoChain =>
                      chain[s].op # "get" /\ (chain[s].op = "seed" => seeds = 0)
    /\ ~ready => /\ Remembers(mem) /\ seeds \in {0, 1} /\ other \subseteq {mem}
                 /\ \A s \in Slots : chain[s] # NoChain =>
                       chain[s].op = "get" /\ (chain[s].at = "ok" => chain[s].val = mem) /\ Alone(s)

Layouts == [pos : [Names -> Places], seeded : BOOLEAN]

IconsTypes ==
    /\ folder \subseteq Names /\ mem \in Layouts /\ other \subseteq Layouts
    /\ layout \in Layouts /\ icons \in [Names -> Places]
    /\ chain \in [Slots -> Chain \cup {NoChain}] /\ meant \in [Names -> {0, Far}]

IconsInv == IconsTypes /\ Fetching /\ (~crossed => Uncrossed) /\ (~forgot => Remembering)

----------------------------------------------------------------------------
(* No layout yet, and the first request of a chain.                        *)
LEMMA CallFacts ==
  ASSUME NEW op \in {"get", "list", "seed", "relist", "write", "remove", "mv", "set"}
  PROVE  /\ Empty \in Layouts /\ NoPos \in [Names -> Places]
         /\ Call(op) \in Chain /\ Call(op).op = op /\ Call(op).at = "sent"
         /\ Call(op).then = "end" /\ Call(op).val = Empty /\ Call(op).items = {}
         /\ 0 \in Places /\ Far \in Places /\ Cardinality(Names) \in Nat
         /\ Len(Seeds) \in Nat /\ 1 \in 1 .. Len(Seeds)
<1>1. Cardinality(Names) \in Nat
  BY FS_CardinalityType, NamesAssumption
<1>2. 0 \in Places /\ Far \in Places
  BY <1>1 DEF Places
<1>3. NoPos \in [Names -> Places]
  BY <1>2 DEF NoPos
<1>4. Empty \in Layouts
  BY <1>3, Zenon DEF Empty, Layouts
<1>5. Len(Seeds) \in Nat /\ 1 \in 1 .. Len(Seeds) /\ Seeds[1] \in Names
  BY NamesAssumption
<1>6. Any \in Names
  BY <1>5 DEF Any
<1>7. Call(op) \in Chain
  BY <1>4, <1>5, <1>6 DEF Call, Chain, Layouts
<1> QED BY <1>1, <1>2, <1>3, <1>4, <1>5, <1>7 DEF Call

(* A chain goes on and the others stay.                                    *)
LEMMA GoesFacts ==
  ASSUME IconsTypes, NEW s \in Slots, NEW c \in Chain \cup {NoChain}, Goes(s, c)
  PROVE  /\ chain' \in [Slots -> Chain \cup {NoChain}] /\ chain'[s] = c
         /\ \A t \in Slots : t # s => chain'[t] = chain[t]
BY DEF IconsTypes, Goes

(* New icons get a place, the others keep theirs.                          *)
LEMMA PlacedFacts ==
  ASSUME layout \in Layouts, NEW items \in SUBSET Names
  PROVE  /\ Placed(items) \in [Names -> Places]
         /\ \A n \in Names : layout.pos[n] # 0 => Placed(items)[n] = layout.pos[n]
         /\ \A n \in items : Placed(items)[n] # 0
<1> DEFINE new == {n \in items : layout.pos[n] = 0}
           k == Cardinality(new)
           Ranks(f) == f \in [new -> 1 .. k] /\ \A a, b \in new : a # b => f[a] # f[b]
           rank == CHOOSE f \in [new -> 1 .. k] : \A a, b \in new : a # b => f[a] # f[b]
<1>0. IsFiniteSet(Names) /\ new \in SUBSET Names /\ Far # 0
  BY NamesAssumption
<1>1. IsFiniteSet(new) /\ k <= Cardinality(Names) /\ k \in Nat /\ Cardinality(Names) \in Nat
  <2> HIDE DEF new
  <2>1. IsFiniteSet(new) /\ Cardinality(new) <= Cardinality(Names)
    BY <1>0, FS_Subset
  <2> QED BY <1>0, <2>1, FS_CardinalityType
<1>2. ExistsBijection(1 .. k, new)
  <2> HIDE DEF new
  <2> QED BY <1>1, FS_CardinalityType
<1>3. ExistsBijection(new, 1 .. k)
  <2> HIDE DEF new, k
  <2> QED BY <1>2, Fun_ExistsBijSymmetric
<1> HIDE DEF new, k
<1>4. \E f : Ranks(f)
  BY <1>3 DEF ExistsBijection, Bijection, Injection, IsInjective
<1>5. Ranks(rank)
  BY <1>4
<1>6. Placed(items) = [n \in Names |-> IF n \in new THEN rank[n] ELSE layout.pos[n]]
  BY DEF Placed, new, k
<1> HIDE DEF rank
<1>7. \A n \in new : rank[n] \in 1 .. k
  BY <1>5
<1>8. \A i \in 1 .. k : i \in Places /\ i # 0
  BY <1>1 DEF Places
<1>9. layout.pos \in [Names -> Places]
  BY DEF Layouts
<1>10. \A n \in Names : n \in new => layout.pos[n] = 0
  BY DEF new
<1>11. \A n \in items : n \notin new => layout.pos[n] # 0
  BY DEF new
<1>12. Placed(items) \in [Names -> Places]
  BY <1>6, <1>7, <1>8, <1>9
<1>13. \A n \in Names : layout.pos[n] # 0 => Placed(items)[n] = layout.pos[n]
  BY <1>6, <1>10
<1>14. \A n \in items : Placed(items)[n] # 0
  BY <1>6, <1>7, <1>8, <1>11
<1> QED BY <1>12, <1>13, <1>14

----------------------------------------------------------------------------
(* What one chain's step has to keep.                                      *)
OneMoves(s) == \A t \in Slots : t # s => chain'[t] = chain[t]

(* The page goes on fetching its layout.                                   *)
LEMMA FetchingKeeps ==
  ASSUME Fetching, NEW s \in Slots, OneMoves(s), ready' = ready, Fetches(s) => Fetches(s)'
  PROVE  Fetching'
<1> SUFFICES ASSUME ~ready' PROVE \E t \in Slots : Fetches(t)'
  BY DEF Fetching
<1>1. PICK t \in Slots : Fetches(t)
  BY DEF Fetching
<1>2. CASE t = s
  BY <1>1, <1>2
<1>3. CASE t # s
  BY <1>1, <1>3 DEF OneMoves, Fetches
<1> QED BY <1>2, <1>3

(* A chain that is not crossed.                                            *)
LEMMA UncrossedKeeps ==
  ASSUME NEW s \in Slots, OneMoves(s),
         \A t \in Slots : t # s => chain[t] = NoChain,
         chain'[s] # NoChain => ChainOK(chain[s])',
         chain'[s] = NoChain => LayerIsTrue' /\ Stored'
  PROVE  Uncrossed'
<1>1. \A t \in Slots : chain'[t] # NoChain => t = s
  BY DEF OneMoves
<1>2. ASSUME Quiet' PROVE LayerIsTrue' /\ Stored'
  BY <1>2 DEF Quiet
<1> QED BY <1>1, <1>2 DEF Uncrossed

(* An uncrossed chain is the only one.                                     *)
LEMMA OnlyOne ==
  ASSUME Uncrossed, NEW s \in Slots, chain[s] # NoChain
  PROVE  ChainOK(chain[s]) /\ \A t \in Slots : t # s => chain[t] = NoChain
BY DEF Uncrossed

(* The user begins a chain.                                                *)
LEMMA StartKeeps ==
  ASSUME IconsInv, NEW s \in Slots, NEW c \in Chain, Goes(s, c), c.op \notin {"get", "seed"},
         chain[s] = NoChain, ready' = ready, layout' \in Layouts, icons' \in [Names -> Places],
         meant' \in [Names -> {0, Far}], UNCHANGED <<folder, mem, other, seeds>>,
         ~crossed' => Alone(s) /\ (c # NoChain => ChainOK(c)') /\ (c = NoChain => LayerIsTrue' /\ Stored'),
         ~forgot' => ~forgot /\ ready /\ (Remembers(layout) => Remembers(layout)')
  PROVE  IconsInv'
<1>1. IconsTypes /\ Fetching
  BY DEF IconsInv
<1>2. chain' \in [Slots -> Chain \cup {NoChain}] /\ chain'[s] = c /\ OneMoves(s)
  BY <1>1, GoesFacts DEF OneMoves
<1>3. IconsTypes'
  BY <1>1, <1>2 DEF IconsTypes
<1>4. Fetching'
  BY <1>1, <1>2, FetchingKeeps DEF Fetches
<1>5. ASSUME ~crossed' PROVE Uncrossed'
  <2>1. \A t \in Slots : t # s => chain[t] = NoChain
    BY <1>5 DEF Alone
  <2>2. (c # NoChain => ChainOK(c)') /\ (c = NoChain => LayerIsTrue' /\ Stored')
    BY <1>5
  <2>3. chain'[s] # NoChain => ChainOK(chain[s])'
    BY <1>2, <2>2 DEF ChainOK
  <2> QED BY <1>2, <2>1, <2>2, <2>3, UncrossedKeeps
<1>6. ASSUME ~forgot' PROVE Remembering'
  <2>1. ~forgot /\ ready /\ Remembering
    BY <1>6 DEF IconsInv
  <2>2. Remembers(layout)' /\ seeds' \in {0, 1}
    BY <1>6, <2>1 DEF Remembering
  <2>3. ASSUME NEW t \in Slots, chain'[t] # NoChain
        PROVE  chain'[t].op # "get" /\ (chain'[t].op = "seed" => seeds' = 0)
    <3>1. CASE t = s
      BY <1>2, <3>1
    <3>2. CASE t # s
      BY <1>2, <2>1, <2>3, <3>2 DEF OneMoves, Remembering
    <3> QED BY <3>1, <3>2
  <2> QED BY <2>1, <2>2, <2>3 DEF Remembering
<1> QED BY <1>3, <1>4, <1>5, <1>6 DEF IconsInv

(* The page goes on with a chain that is not fetching the layout.          *)
LEMMA PageKeeps ==
  ASSUME IconsInv, NEW s \in Slots, NEW c \in Chain \cup {NoChain}, Goes(s, c),
         c # NoChain => c.op # "get", chain[s] # NoChain, chain[s].op # "get",
         ready' = ready, layout' \in Layouts, icons' \in [Names -> Places],
         meant' \in [Names -> {0, Far}], UNCHANGED <<folder, mem, other>>,
         ~crossed' => ~crossed,
         ASSUME ~crossed', ~crossed, ChainOK(chain[s])
         PROVE  (c # NoChain => ChainOK(c)') /\ (c = NoChain => LayerIsTrue' /\ Stored'),
         ~forgot' => ~forgot,
         ASSUME ~forgot', ready, Remembers(layout), seeds \in {0, 1}, chain[s].op = "seed" => seeds = 0
         PROVE  /\ Remembers(layout)' /\ seeds' \in {0, 1} /\ (c # NoChain /\ c.op = "seed" => seeds' = 0)
                /\ seeds' = seeds \/ Alone(s)
  PROVE  IconsInv'
<1>1. IconsTypes /\ Fetching
  BY DEF IconsInv
<1>2. chain' \in [Slots -> Chain \cup {NoChain}] /\ chain'[s] = c /\ OneMoves(s)
  BY <1>1, GoesFacts DEF OneMoves
<1>3. IconsTypes'
  BY <1>1, <1>2 DEF IconsTypes
<1>4. Fetching'
  BY <1>1, <1>2, FetchingKeeps DEF Fetches
<1>5. ASSUME ~crossed' PROVE Uncrossed'
  <2>1. ~crossed /\ Uncrossed
    BY <1>5 DEF IconsInv
  <2>2. ChainOK(chain[s]) /\ \A t \in Slots : t # s => chain[t] = NoChain
    BY <2>1, OnlyOne
  <2>3. (c # NoChain => ChainOK(c)') /\ (c = NoChain => LayerIsTrue' /\ Stored')
    BY <1>5, <2>1, <2>2
  <2>4. chain'[s] # NoChain => ChainOK(chain[s])'
    BY <1>2, <2>3 DEF ChainOK
  <2> QED BY <1>2, <2>2, <2>3, <2>4, UncrossedKeeps
<1>6. ASSUME ~forgot' PROVE Remembering'
  <2>1. ~forgot /\ Remembering
    BY <1>6 DEF IconsInv
  <2>2. ready
    BY <2>1 DEF Remembering
  <2>3. /\ Remembers(layout) /\ seeds \in {0, 1}
        /\ \A t \in Slots : chain[t] # NoChain =>
              chain[t].op # "get" /\ (chain[t].op = "seed" => seeds = 0)
    BY <2>1, <2>2 DEF Remembering
  <2>4. /\ Remembers(layout)' /\ seeds' \in {0, 1} /\ (c # NoChain /\ c.op = "seed" => seeds' = 0)
        /\ seeds' = seeds \/ Alone(s)
    BY <1>6, <2>2, <2>3
  <2>5. ASSUME NEW t \in Slots, chain'[t] # NoChain
        PROVE  chain'[t].op # "get" /\ (chain'[t].op = "seed" => seeds' = 0)
    <3>1. CASE t = s
      BY <1>2, <2>4, <2>5, <3>1
    <3>2. CASE t # s
      BY <1>2, <2>3, <2>4, <2>5, <3>2 DEF OneMoves, Alone
    <3> QED BY <3>1, <3>2
  <2> QED BY <2>2, <2>4, <2>5 DEF Remembering
<1> QED BY <1>3, <1>4, <1>5, <1>6 DEF IconsInv

----------------------------------------------------------------------------
(* The steps.                                                              *)

(* The request that saves the layout.                                      *)
LEMMA SaveFacts ==
  ASSUME layout' \in Layouts, NEW then \in {"end", "render"}
  PROVE  /\ saveLayout(then) \in Chain /\ saveLayout(then).op = "set"
         /\ saveLayout(then).at = "sent" /\ saveLayout(then).then = then
         /\ saveLayout(then).val = layout'
<1>1. Call("set") \in Chain /\ Call("set").op = "set" /\ Call("set").at = "sent"
  BY CallFacts
<1> QED BY <1>1 DEF saveLayout, Chain, Layouts

(* An entry of the menu.                                                   *)
LEMMA MenuIcons == ASSUME IconsInv, NEW s \in Slots, Menu(s) PROVE IconsInv'
<1>1. /\ chain[s] = NoChain /\ UNCHANGED <<folder, mem, other, layout, icons, ready, meant, seeds>>
      /\ MayAct(s) /\ Begins(s, TRUE)
  BY DEF Menu, MayAct
<1>2. ~forgot' => ~forgot /\ ready
  BY <1>1, Zenon DEF MayAct
<1>3. ~crossed' => Alone(s)
  BY <1>1, Zenon DEF Begins
<1>c. \A op \in {"list", "write", "remove", "mv"} :
         Call(op) \in Chain /\ Call(op).op = op /\ Call(op).at = "sent" /\ Call(op).then = "end"
  BY CallFacts
<1>4. PICK c \in Chain : Goes(s, c) /\ c.op \in {"list", "write", "remove", "mv"}
                           /\ c.at = "sent" /\ c.then = "end"
  <2>1. CASE Goes(s, Call("list"))
    BY <1>c, <2>1
  <2>2. ASSUME NEW n \in Names, Goes(s, [Call("write") EXCEPT !.name = n])
        PROVE  \E c \in Chain : Goes(s, c) /\ c.op \in {"list", "write", "remove", "mv"}
                                  /\ c.at = "sent" /\ c.then = "end"
    <3>1. PICK c : c = [Call("write") EXCEPT !.name = n]
      OBVIOUS
    <3>2. c \in Chain /\ c.op = "write" /\ c.at = "sent" /\ c.then = "end"
      BY <1>c, <3>1 DEF Chain
    <3> QED BY <2>2, <3>1, <3>2
  <2>3. ASSUME NEW n \in Names, Goes(s, [Call("remove") EXCEPT !.name = n])
        PROVE  \E c \in Chain : Goes(s, c) /\ c.op \in {"list", "write", "remove", "mv"}
                                  /\ c.at = "sent" /\ c.then = "end"
    <3>1. PICK c : c = [Call("remove") EXCEPT !.name = n]
      OBVIOUS
    <3>2. c \in Chain /\ c.op = "remove" /\ c.at = "sent" /\ c.then = "end"
      BY <1>c, <3>1 DEF Chain
    <3> QED BY <2>3, <3>1, <3>2
  <2>4. ASSUME NEW n \in Names, NEW m \in Names,
               Goes(s, [Call("mv") EXCEPT !.name = n, !.to = m])
        PROVE  \E c \in Chain : Goes(s, c) /\ c.op \in {"list", "write", "remove", "mv"}
                                  /\ c.at = "sent" /\ c.then = "end"
    <3>1. PICK c : c = [Call("mv") EXCEPT !.name = n, !.to = m]
      OBVIOUS
    <3>2. c \in Chain /\ c.op = "mv" /\ c.at = "sent" /\ c.then = "end"
      BY <1>c, <3>1 DEF Chain
    <3> QED BY <2>4, <3>1, <3>2
  <2> QED BY <2>1, <2>2, <2>3, <2>4, Zenon DEF Menu
<1>5. c # NoChain
  BY <1>4, NoChainAssumption
<1>6. ChainOK(c)'
  BY <1>4 DEF ChainOK
<1>7. layout' \in Layouts /\ icons' \in [Names -> Places] /\ meant' \in [Names -> {0, Far}]
  BY <1>1 DEF IconsInv, IconsTypes
<1>8. Remembers(layout) => Remembers(layout)'
  BY <1>1 DEF Remembers
<1> QED BY <1>1, <1>2, <1>3, <1>4, <1>5, <1>6, <1>7, <1>8, StartKeeps

(* An icon is dropped.                                                     *)
LEMMA DragIcons ==
  ASSUME IconsInv, NEW s \in Slots, NEW n \in Names, Drag(s, n) PROVE IconsInv'
<1>1. /\ chain[s] = NoChain /\ icons[n] # 0 /\ UNCHANGED <<folder, mem, other, ready, seeds>>
      /\ layout' = [layout EXCEPT !.pos[n] = Far] /\ icons' = [icons EXCEPT ![n] = Far]
      /\ meant' = [meant EXCEPT ![n] = Far] /\ Goes(s, saveLayout("end"))
      /\ MayAct(s) /\ Begins(s, FALSE)
  BY DEF Drag, MayAct
<1>2. ~forgot' => ~forgot /\ ready
  BY <1>1, Zenon DEF MayAct
<1>3. ~crossed' => Alone(s) /\ ~crossed
  BY <1>1, Zenon DEF Begins
<1>4. /\ layout \in Layouts /\ icons \in [Names -> Places] /\ meant \in [Names -> {0, Far}]
      /\ Far \in Places /\ Far # 0
  BY CallFacts, NamesAssumption DEF IconsInv, IconsTypes
<1>5. /\ layout' \in Layouts /\ layout'.pos = [layout.pos EXCEPT ![n] = Far]
      /\ layout'.seeded = layout.seeded /\ layout.pos \in [Names -> Places]
  BY <1>1, <1>4 DEF Layouts
<1>6. icons' \in [Names -> Places] /\ meant' \in [Names -> {0, Far}]
  BY <1>1, <1>4
<1>7. PICK c : c = saveLayout("end")
  OBVIOUS
<1>8. c \in Chain /\ c.op = "set" /\ c.at = "sent" /\ c.then = "end" /\ c.val = layout'
  BY <1>5, <1>7, SaveFacts
<1>9. ASSUME ~crossed' PROVE ChainOK(c)'
  <2>1. Alone(s) /\ Uncrossed
    BY <1>3, <1>9 DEF IconsInv
  <2>2. LayerIsTrue
    BY <1>1, <2>1 DEF Uncrossed, Quiet, Alone
  <2>3. LayerIsTrue'
    <3>1. n \in folder
      BY <1>1, <2>2 DEF LayerIsTrue
    <3>2. \A m \in Names : /\ icons'[m] = IF m = n THEN Far ELSE icons[m]
                           /\ layout'.pos[m] = IF m = n THEN Far ELSE layout.pos[m]
      BY <1>1, <1>4, <1>5
    <3>3. folder \subseteq Names /\ folder' = folder
      BY <1>1 DEF IconsInv, IconsTypes
    <3> QED BY <1>4, <2>2, <3>1, <3>2, <3>3 DEF LayerIsTrue
  <2> QED BY <1>8, <2>3 DEF ChainOK
<1>10. Remembers(layout) => Remembers(layout)'
  <2>1. \A m \in Names : /\ meant'[m] = IF m = n THEN Far ELSE meant[m]
                         /\ layout'.pos[m] = IF m = n THEN Far ELSE layout.pos[m]
    BY <1>1, <1>4, <1>5
  <2> QED BY <1>1, <1>5, <2>1 DEF Remembers
<1>11. c # NoChain
  BY <1>8, NoChainAssumption
<1>12. Goes(s, c)
  BY <1>1, <1>7
<1> QED BY <1>1, <1>2, <1>3, <1>5, <1>6, <1>8, <1>9, <1>10, <1>11, <1>12, StartKeeps

(* The end of a render: what was listed is drawn, and the layout saved.    *)
LEMMA DrawsKeeps ==
  ASSUME IconsInv, NEW s \in Slots, chain[s] # NoChain,
         chain[s].op \in {"list", "relist"}, Draws(s, chain[s].items),
         UNCHANGED <<folder, mem, other, ready, meant, seeds>>,
         ~crossed' => ~crossed /\ chain[s].at = "ok", ~forgot' => ~forgot
  PROVE  IconsInv'
<1>1. PICK items : items = chain[s].items
  OBVIOUS
<1>2. /\ layout' = [layout EXCEPT !.pos = Placed(items)] /\ Goes(s, saveLayout("end"))
      /\ icons' = [n \in Names |-> IF n \in items THEN layout'.pos[n] ELSE 0]
  BY <1>1 DEF Draws
<1>3. /\ layout \in Layouts /\ folder \subseteq Names /\ meant \in [Names -> {0, Far}]
      /\ chain \in [Slots -> Chain \cup {NoChain}] /\ 0 \in Places
  BY CallFacts DEF IconsInv, IconsTypes
<1>4. items \in SUBSET Names
  BY <1>1, <1>3 DEF Chain
<1>5. PICK p : p = Placed(items)
  OBVIOUS
<1>6. /\ p \in [Names -> Places] /\ \A n \in Names : layout.pos[n] # 0 => p[n] = layout.pos[n]
      /\ \A n \in items : p[n] # 0
  BY <1>3, <1>4, <1>5, PlacedFacts
<1>7. layout' \in Layouts /\ layout'.pos = p /\ layout'.seeded = layout.seeded
  BY <1>2, <1>3, <1>5, <1>6 DEF Layouts
<1>8. icons' \in [Names -> Places] /\ \A n \in Names : icons'[n] = IF n \in items THEN p[n] ELSE 0
  BY <1>2, <1>3, <1>6, <1>7
<1>9. PICK c : c = saveLayout("end")
  OBVIOUS
<1>10. c \in Chain /\ c.op = "set" /\ c.at = "sent" /\ c.then = "end" /\ c.val = layout'
  BY <1>7, <1>9, SaveFacts
<1>11. Goes(s, c) /\ c # NoChain
  BY <1>2, <1>9, <1>10, NoChainAssumption
<1>12. ASSUME ~crossed', ~crossed, ChainOK(chain[s]) PROVE ChainOK(c)'
  <2>1. items = folder
    BY <1>1, <1>12 DEF ChainOK
  <2>2. LayerIsTrue'
    BY <1>3, <1>6, <1>7, <1>8, <2>1 DEF LayerIsTrue
  <2> QED BY <1>10, <2>2 DEF ChainOK
<1>13. ASSUME Remembers(layout) PROVE Remembers(layout)'
  <2>1. Far # 0
    BY NamesAssumption
  <2> QED BY <1>3, <1>6, <1>7, <1>13, <2>1 DEF Remembers
<1>14. meant' \in [Names -> {0, Far}]
  BY <1>3
<1> QED BY <1>7, <1>8, <1>10, <1>11, <1>12, <1>13, <1>14, PageKeeps

(* The stored layout has come, or could not be fetched.                    *)
LEMMA LayoutIcons == ASSUME IconsInv, NEW s \in Slots, gotLayout(s) PROVE IconsInv'
<1>1. /\ chain[s] # NoChain /\ chain[s].op = "get" /\ chain[s].at # "sent"
      /\ layout' = chain[s].val /\ ready' = TRUE /\ Goes(s, Call("list"))
      /\ UNCHANGED <<folder, mem, other, icons, meant, seeds, crossed>>
  BY DEF gotLayout, Answered
<1>2. ~forgot' => ~forgot /\ chain[s].at # "error"
  BY Zenon DEF gotLayout, Failed
<1>3. /\ IconsTypes /\ chain[s] \in Chain
  BY <1>1 DEF IconsInv, IconsTypes
<1>4. PICK c : c = Call("list")
  OBVIOUS
<1>5. c \in Chain /\ c.op = "list" /\ c.at = "sent" /\ c.then = "end"
  BY <1>4, CallFacts
<1>6. chain' \in [Slots -> Chain \cup {NoChain}] /\ chain'[s] = c /\ OneMoves(s)
  BY <1>1, <1>3, <1>4, <1>5, GoesFacts DEF OneMoves
<1>7. IconsTypes'
  BY <1>1, <1>3, <1>6 DEF IconsTypes, Chain, Layouts
<1>8. Fetching'
  BY <1>1 DEF Fetching
<1>9. ASSUME ~crossed' PROVE Uncrossed'
  <2>1. Uncrossed
    BY <1>1, <1>9 DEF IconsInv
  <2>2. \A t \in Slots : t # s => chain[t] = NoChain
    BY <1>1, <2>1, OnlyOne
  <2>3. chain'[s] # NoChain /\ ChainOK(chain[s])'
    BY <1>5, <1>6, NoChainAssumption DEF ChainOK
  <2> QED BY <1>6, <2>2, <2>3, UncrossedKeeps
<1>10. ASSUME ~forgot' PROVE Remembering'
  <2>1. Remembering /\ chain[s].at = "ok"
    BY <1>1, <1>2, <1>3, <1>10 DEF IconsInv, Chain
  <2>2. ~ready
    BY <1>1, <2>1 DEF Remembering
  <2>3. Remembers(mem) /\ seeds \in {0, 1} /\ chain[s].val = mem /\ Alone(s)
    BY <1>1, <2>1, <2>2 DEF Remembering
  <2>4. Remembers(layout)' /\ seeds' \in {0, 1}
    BY <1>1, <2>3 DEF Remembers
  <2>5. \A t \in Slots : chain'[t] # NoChain => t = s
    BY <1>6, <2>3 DEF OneMoves, Alone
  <2> QED BY <1>1, <1>5, <1>6, <2>4, <2>5 DEF Remembering
<1> QED BY <1>7, <1>8, <1>9, <1>10 DEF IconsInv

(* The other answers the page waits for.                                   *)
LEMMA PageIcons == ASSUME IconsInv, NEW s \in Slots, Page(s) PROVE IconsInv'
<1>t. /\ layout \in Layouts /\ icons \in [Names -> Places] /\ meant \in [Names -> {0, Far}]
      /\ chain \in [Slots -> Chain \cup {NoChain}]
  BY DEF IconsInv, IconsTypes
<1>b. chain[s] # NoChain /\ chain[s] \in Chain /\ chain[s].at # "sent"
  <2>1. chain[s] # NoChain /\ chain[s].at # "sent"
    BY DEF Page, gotLayout, gotList, gotSeed, gotRelist, gotWrite, gotChange, gotSet,
           Breaks, Answered
  <2> QED BY <1>t, <2>1
<1>o. chain[s].at \in {"ok", "error"}
  BY <1>b DEF Chain
<1>c. \A op \in {"list", "seed", "relist"} :
         /\ Call(op) \in Chain /\ Call(op) # NoChain /\ Call(op).op = op
         /\ Call(op).at = "sent" /\ Call(op).then = "end"
  BY CallFacts, NoChainAssumption
<1>g. ASSUME NEW c \in Chain, Goes(s, c), c.op \in {"list", "seed", "relist"},
             c.at = "sent", c.then = "end", chain[s].op # "get", c.op = "seed" => seeds = 0 \/ forgot',
             UNCHANGED <<folder, mem, other, layout, icons, ready, meant, seeds>>, ~crossed' => ~crossed,
             ~forgot' => ~forgot
      PROVE  IconsInv'
  <2>1. c # NoChain
    BY NoChainAssumption
  <2>2. ChainOK(c)'
    BY <1>g DEF ChainOK
  <2>3. Remembers(layout) => Remembers(layout)'
    BY <1>g DEF Remembers
  <2>4. layout' \in Layouts /\ icons' \in [Names -> Places] /\ meant' \in [Names -> {0, Far}]
    BY <1>g, <1>t
  <2> QED BY <1>b, <1>g, <2>1, <2>2, <2>3, <2>4, PageKeeps
<1>1. CASE gotList(s)
  <2>1. /\ chain[s].op = "list" /\ UNCHANGED <<folder, mem, other, ready, meant, seeds, forgot>>
    BY <1>1 DEF gotList, Answered
  <2>2. ~crossed' => ~crossed /\ chain[s].at # "error"
    BY <1>1, Zenon DEF gotList, Failed
  <2>3. CASE toSeed(chain[s].items)
    <3>1. Goes(s, Call("seed")) /\ UNCHANGED <<layout, icons>> /\ ~layout.seeded
      BY <1>1, <2>3 DEF gotList, toSeed
    <3>2. seeds = 0 \/ forgot'
      <4>1. ASSUME ~forgot PROVE seeds = 0
        <5>1. Remembering
          BY <4>1 DEF IconsInv
        <5>2. ready
          BY <1>b, <2>1, <5>1 DEF Remembering
        <5> QED BY <3>1, <5>1, <5>2 DEF Remembering, Remembers
      <4> QED BY <2>1, <4>1
    <3> QED BY <1>c, <1>g, <2>1, <2>2, <3>1, <3>2
  <2>4. CASE ~toSeed(chain[s].items)
    <3>1. Draws(s, chain[s].items)
      BY <1>1, <2>4 DEF gotList
    <3> QED BY <1>b, <1>o, <2>1, <2>2, <3>1, DrawsKeeps
  <2> QED BY <2>3, <2>4
<1>2. CASE gotSeed(s) /\ chain[s].k < Len(Seeds)
  <2>1. /\ chain[s].op = "seed" /\ Goes(s, [Call("seed") EXCEPT !.k = chain[s].k + 1])
        /\ UNCHANGED <<folder, mem, other, layout, icons, ready, meant, seeds, crossed, forgot>>
    BY <1>2 DEF gotSeed, Answered
  <2>2. chain[s].k + 1 \in 1 .. Len(Seeds)
    <3>1. chain[s].k \in 1 .. Len(Seeds) /\ Len(Seeds) \in Nat
      BY <1>b, CallFacts DEF Chain
    <3> QED BY <1>2, <3>1
  <2>3. PICK c : c = [Call("seed") EXCEPT !.k = chain[s].k + 1]
    OBVIOUS
  <2>4. c \in Chain /\ c.op = "seed" /\ c.at = "sent" /\ c.then = "end"
    BY <1>c, <2>2, <2>3 DEF Chain
  <2>5. seeds = 0 \/ forgot'
    <3>1. ASSUME ~forgot PROVE seeds = 0
      <4>1. Remembering
        BY <3>1 DEF IconsInv
      <4>2. ready
        BY <1>b, <2>1, <4>1 DEF Remembering
      <4> QED BY <1>b, <2>1, <4>1, <4>2 DEF Remembering
    <3> QED BY <2>1, <3>1
  <2> QED BY <1>g, <2>1, <2>3, <2>4, <2>5
<1>3. CASE gotSeed(s) /\ ~ (chain[s].k < Len(Seeds))
  <2>1. /\ chain[s].op = "seed" /\ Goes(s, Call("relist")) /\ seeds' = seeds + 1
        /\ layout' = [layout EXCEPT !.seeded = TRUE]
        /\ UNCHANGED <<folder, mem, other, icons, ready, meant, crossed>>
    BY <1>3 DEF gotSeed, Answered
  <2>2. ~forgot' => ~forgot /\ Alone(s)
    BY <1>3, Zenon DEF gotSeed
  <2>3. layout' \in Layouts /\ layout'.pos = layout.pos
    BY <1>t, <2>1 DEF Layouts
  <2>4. layout'.seeded
    BY <1>t, <2>1 DEF Layouts
  <2>5. PICK c : c = Call("relist")
    OBVIOUS
  <2>6. c \in Chain /\ c # NoChain /\ c.op = "relist" /\ c.at = "sent" /\ c.then = "end" /\ Goes(s, c)
    BY <1>c, <2>1, <2>5
  <2>7. ChainOK(c)'
    BY <2>6 DEF ChainOK
  <2>8. ASSUME Remembers(layout) PROVE Remembers(layout)'
    BY <2>1, <2>3, <2>4, <2>8 DEF Remembers
  <2>9. seeds = 0 => seeds' \in {0, 1}
    BY <2>1
  <2>10. icons' \in [Names -> Places] /\ meant' \in [Names -> {0, Far}]
    BY <1>t, <2>1
  <2> QED BY <1>b, <2>1, <2>2, <2>3, <2>6, <2>7, <2>8, <2>9, <2>10, PageKeeps
<1>4. CASE gotRelist(s)
  <2>1. /\ chain[s].op = "relist" /\ chain[s].at # "error" /\ Draws(s, chain[s].items)
        /\ UNCHANGED <<folder, mem, other, ready, meant, seeds, crossed, forgot>>
    BY <1>4 DEF gotRelist, Answered, Failed
  <2> QED BY <1>b, <1>o, <2>1, DrawsKeeps
<1>5. CASE gotWrite(s)
  <2>1. /\ chain[s].op = "write" /\ Goes(s, Call("list"))
        /\ UNCHANGED <<folder, mem, other, layout, icons, ready, meant, seeds, crossed, forgot>>
    BY <1>5 DEF gotWrite, Answered
  <2> QED BY <1>c, <1>g, <2>1
<1>6. CASE gotChange(s)
  <2> DEFINE n == chain[s].name
  <2>1. /\ chain[s].op \in {"remove", "mv"} /\ Goes(s, saveLayout("render"))
        /\ layout' = [layout EXCEPT !.pos[n] = 0] /\ meant' = [meant EXCEPT ![n] = 0]
        /\ UNCHANGED <<folder, mem, other, icons, ready, seeds, crossed, forgot>>
    BY <1>6 DEF gotChange, Answered
  <2>2. n \in Names /\ 0 \in Places
    BY <1>b, CallFacts DEF Chain
  <2> HIDE DEF n
  <2>3. /\ layout' \in Layouts /\ layout'.pos = [layout.pos EXCEPT ![n] = 0]
        /\ layout'.seeded = layout.seeded /\ layout.pos \in [Names -> Places]
    BY <1>t, <2>1, <2>2 DEF Layouts
  <2>4. meant' \in [Names -> {0, Far}] /\ icons' \in [Names -> Places]
    BY <1>t, <2>1
  <2>5. PICK c : c = saveLayout("render")
    OBVIOUS
  <2>6. c \in Chain /\ c.op = "set" /\ c.at = "sent" /\ c.then = "render"
    BY <2>3, <2>5, SaveFacts
  <2>7. Goes(s, c) /\ c # NoChain
    BY <2>1, <2>5, <2>6, NoChainAssumption
  <2>8. ChainOK(c)'
    BY <2>6 DEF ChainOK
  <2>9. ASSUME Remembers(layout) PROVE Remembers(layout)'
    <3>1. \A m \in Names : /\ meant'[m] = IF m = n THEN 0 ELSE meant[m]
                           /\ layout'.pos[m] = IF m = n THEN 0 ELSE layout.pos[m]
      BY <1>t, <2>1, <2>2, <2>3
    <3> QED BY <2>1, <2>3, <2>9, <3>1 DEF Remembers
  <2> QED BY <1>b, <2>1, <2>3, <2>4, <2>6, <2>7, <2>8, <2>9, PageKeeps
<1>7. CASE gotSet(s) /\ chain[s].then = "render"
  <2>1. /\ chain[s].op = "set" /\ Goes(s, Call("list"))
        /\ UNCHANGED <<folder, mem, other, layout, icons, ready, meant, seeds, forgot>>
    BY <1>7 DEF gotSet, Answered
  <2>2. ~crossed' => ~crossed
    BY <1>7, Zenon DEF gotSet
  <2> QED BY <1>c, <1>g, <2>1, <2>2
<1>e. ASSUME Goes(s, NoChain), chain[s].op # "get", ~crossed' => ~crossed, ~forgot' => ~forgot,
             UNCHANGED <<folder, mem, other, layout, icons, ready, meant, seeds>>,
             ASSUME ~crossed', ChainOK(chain[s]) PROVE LayerIsTrue' /\ Stored'
      PROVE  IconsInv'
  <2>1. layout' \in Layouts /\ icons' \in [Names -> Places] /\ meant' \in [Names -> {0, Far}]
    BY <1>e, <1>t
  <2>2. Remembers(layout) => Remembers(layout)'
    BY <1>e DEF Remembers
  <2> QED BY <1>b, <1>e, <2>1, <2>2, PageKeeps
<1>8. CASE gotSet(s) /\ chain[s].then # "render"
  <2>1. /\ chain[s].op = "set" /\ Goes(s, NoChain)
        /\ UNCHANGED <<folder, mem, other, layout, icons, ready, meant, seeds, forgot>>
    BY <1>8 DEF gotSet, Answered
  <2>2. ~crossed' => ~crossed /\ chain[s].at # "error"
    BY <1>8, Zenon DEF gotSet, Failed
  <2>3. ASSUME ~crossed', ChainOK(chain[s]) PROVE LayerIsTrue' /\ Stored'
    <3>1. chain[s].then = "end"
      BY <1>b, <1>8, <2>3 DEF ChainOK, Chain
    <3>2. LayerIsTrue /\ Stored
      BY <1>o, <2>1, <2>2, <2>3, <3>1 DEF ChainOK
    <3> QED BY <2>1, <3>2 DEF LayerIsTrue, Stored
  <2> QED BY <1>e, <2>1, <2>2, <2>3
<1>9. CASE Breaks(s)
  <2>1. /\ chain[s].op # "get" /\ Goes(s, NoChain) /\ crossed' = TRUE
        /\ UNCHANGED <<folder, mem, other, layout, icons, ready, meant, seeds, forgot>>
    BY <1>9 DEF Breaks, Answered
  <2> QED BY <1>e, <2>1
<1>10. CASE gotLayout(s)
  BY <1>10, LayoutIcons
<1> QED BY <1>1, <1>2, <1>3, <1>4, <1>5, <1>6, <1>7, <1>8, <1>9, <1>10, Zenon DEF Page

(* The kernel answers a request, or a request is refused.                  *)
LEMMA AnswerKeeps ==
  ASSUME IconsInv, NEW s \in Slots, chain[s] # NoChain,
         NEW d \in Chain \cup {NoChain}, Goes(s, d),
         IF chain[s].then = "gone" THEN d = NoChain
         ELSE /\ d # NoChain /\ d.op = chain[s].op /\ d.then = chain[s].then
              /\ chain[s].op # "get" => d.val = chain[s].val
              /\ d.at = "ok" /\ d.op = "get" /\ ~forgot' => d.val = mem
              /\ d.at = "ok" /\ d.op = "set" /\ ~crossed' => mem' = chain[s].val /\ other' = {}
              /\ d.at = "ok" /\ d.op \in {"list", "relist"} => d.items = folder,
         folder' \subseteq Names, mem' \in Layouts, other' \subseteq Layouts,
         chain[s].op \in {"get", "list", "relist", "set"} => folder' = folder,
         chain[s].op # "set" => mem' = mem /\ other' = other,
         ~crossed' => ~crossed, ~forgot' => ~forgot,
         UNCHANGED <<layout, icons, ready, meant, seeds>>
  PROVE  IconsInv'
<1>1. IconsTypes /\ Fetching
  BY DEF IconsInv
<1>2. chain' \in [Slots -> Chain \cup {NoChain}] /\ chain'[s] = d /\ OneMoves(s)
  BY <1>1, GoesFacts DEF OneMoves
<1>3. IconsTypes'
  BY <1>1, <1>2 DEF IconsTypes
<1>4. Fetching'
  <2>1. Fetches(s) => Fetches(s)'
    BY <1>2 DEF Fetches
  <2> QED BY <1>1, <1>2, <2>1, FetchingKeeps
<1>5. ASSUME ~crossed' PROVE Uncrossed'
  <2>1. Uncrossed
    BY <1>5 DEF IconsInv
  <2>2. ChainOK(chain[s]) /\ \A t \in Slots : t # s => chain[t] = NoChain
    BY <2>1, OnlyOne
  <2>3. /\ d # NoChain /\ d.op = chain[s].op /\ d.then = chain[s].then /\ d.then # "gone"
    BY <2>2 DEF ChainOK
  <2>4. folder' = folder /\ LayerIsTrue => LayerIsTrue'
    BY DEF LayerIsTrue
  <2>5. d.op \in {"list", "relist"} /\ d.at = "ok" => d.items = folder'
    BY <2>3
  <2>6. d.op = "set" /\ d.then = "end" =>
           LayerIsTrue' /\ d.val = layout' /\ (d.at = "ok" => Stored')
    BY <1>5, <2>2, <2>3, <2>4 DEF ChainOK, Stored
  <2>7. ChainOK(d)'
    BY <2>3, <2>5, <2>6 DEF ChainOK
  <2>8. ChainOK(chain[s])'
    BY <1>2, <2>7 DEF ChainOK
  <2> QED BY <1>2, <2>2, <2>3, <2>8, UncrossedKeeps
<1>6. ASSUME ~forgot' PROVE Remembering'
  <2>0. Remembering
    BY <1>6 DEF IconsInv
  <2>1. CASE ready
    <3>1. Remembers(layout) /\ seeds \in {0, 1}
      BY <2>0, <2>1 DEF Remembering
    <3>2. Remembers(layout)'
      BY <3>1 DEF Remembers
    <3>3. ASSUME NEW t \in Slots, chain'[t] # NoChain
          PROVE  chain'[t].op # "get" /\ (chain'[t].op = "seed" => seeds = 0)
      <4>1. CASE t = s
        BY <1>2, <2>0, <2>1, <3>3, <4>1 DEF Remembering
      <4>2. CASE t # s
        BY <1>2, <2>0, <2>1, <3>3, <4>2 DEF Remembering, OneMoves
      <4> QED BY <4>1, <4>2
    <3> QED BY <2>1, <3>1, <3>2, <3>3 DEF Remembering
  <2>2. CASE ~ready
    <3>1. /\ Remembers(mem) /\ seeds \in {0, 1} /\ chain[s].op = "get" /\ Alone(s)
          /\ other \subseteq {mem}
      BY <2>0, <2>2 DEF Remembering
    <3>2. mem' = mem /\ other' = other /\ Remembers(mem)'
      BY <3>1 DEF Remembers
    <3>3. Alone(s)' /\ \A t \in Slots : chain'[t] # NoChain => t = s
      BY <1>2, <3>1 DEF Alone, OneMoves
    <3>4. chain'[s] # NoChain => chain'[s].op = "get" /\ (chain'[s].at = "ok" => chain'[s].val = mem)
      BY <1>2, <1>6, <3>1
    <3> QED BY <2>2, <3>1, <3>2, <3>3, <3>4 DEF Remembering
  <2> QED BY <2>1, <2>2
<1> QED BY <1>3, <1>4, <1>5, <1>6 DEF IconsInv

(* The kernel.                                                             *)
LEMMA KernelIcons ==
  ASSUME IconsInv, NEW s \in Slots, NEW at \in {"ok", "error"}, Kernel(s, at) PROVE IconsInv'
<1> DEFINE c == chain[s]
<1>t. /\ folder \subseteq Names /\ mem \in Layouts /\ other \subseteq Layouts /\ Empty \in Layouts
      /\ chain \in [Slots -> Chain \cup {NoChain}]
  BY CallFacts DEF IconsInv, IconsTypes
<1>1. /\ c # NoChain
      /\ folder' \in CASE c.op = "write" -> {folder \cup {c.name}}
                       [] c.op = "seed"  -> {folder \cup {Seeds[c.k]}}
                       [] c.op = "remove" -> {folder \ {c.name}}
                       [] c.op = "mv" -> moved(c.name, c.to)
                       [] OTHER -> {folder}
      /\ IF c.op = "set"
           THEN /\ mem' \in {c.val} \cup Torn(crossed \/ other # {} \/ at = "error")
                /\ other' = other \cup Torn(other # {})
                /\ crossed' = (crossed \/ other # {})
           ELSE UNCHANGED <<mem, other, crossed>>
      /\ UNCHANGED <<layout, icons, ready, meant, seeds>>
  BY DEF Kernel
<1>r. PICK read \in IF c.op = "get" /\ at = "ok" THEN {mem, Empty} ELSE {c.val} :
        /\ forgot' = (forgot \/ (c.op = "get" /\ at = "ok" /\ read # mem))
        /\ Goes(s, IF c.then = "gone" THEN NoChain
                   ELSE [c EXCEPT !.at = at, !.val = read,
                                  !.items = IF c.op \in {"list", "relist"} /\ at = "ok"
                                              THEN folder ELSE @])
  BY DEF Kernel
<1>2. /\ c \in Chain /\ c.name \in Names /\ c.to \in Names /\ c.val \in Layouts
      /\ c.op \in {"get", "list", "seed", "relist", "write", "remove", "mv", "set"}
      /\ Seeds[c.k] \in Names
  <2>1. c \in Chain
    BY <1>t, <1>1
  <2>2. Seeds \in Seq(Names) /\ c.k \in 1 .. Len(Seeds)
    BY <2>1, NamesAssumption DEF Chain
  <2> QED BY <2>1, <2>2 DEF Chain, Layouts
<1>3. PICK d : d = IF c.then = "gone" THEN NoChain
                   ELSE [c EXCEPT !.at = at, !.val = read,
                                  !.items = IF c.op \in {"list", "relist"} /\ at = "ok"
                                              THEN folder ELSE @]
  OBVIOUS
<1>4. Goes(s, d)
  BY <1>r, <1>3
<1> HIDE DEF c
<1>v. /\ read \in Layouts /\ (c.op # "get" => read = c.val)
      /\ c.op = "get" /\ at = "ok" /\ ~forgot' => read = mem
  BY <1>t, <1>r, <1>2
<1>f. ~forgot' => ~forgot
  BY <1>r, Zenon
<1>5. ASSUME c.then # "gone"
      PROVE  /\ d \in Chain /\ d.at = at /\ d.op = c.op /\ d.then = c.then /\ d.val = read
             /\ c.op \in {"list", "relist"} /\ at = "ok" => d.items = folder
  BY <1>t, <1>2, <1>3, <1>v, <1>5 DEF Chain, Layouts
<1>6. c.then # "gone" => d # NoChain
  BY <1>5, NoChainAssumption
<1>7. c.then = "gone" => d = NoChain
  BY <1>3
<1>8. d \in Chain \cup {NoChain}
  BY <1>5, <1>7
<1>9. folder' \subseteq Names /\ (c.op \in {"get", "list", "relist", "set"} => folder' = folder)
  <2>1. CASE c.op \in {"get", "list", "relist", "set"}
    <3>1. folder' = folder
      BY <1>1, <2>1
    <3> QED BY <1>t, <3>1
  <2>2. CASE c.op \in {"write", "seed", "remove"}
    BY <1>t, <1>1, <1>2, <2>2
  <2>3. CASE c.op = "mv"
    <3>1. folder' \in moved(c.name, c.to)
      BY <1>1, <2>3
    <3> QED BY <1>t, <1>2, <2>3, <3>1 DEF moved
  <2> QED BY <1>2, <2>1, <2>2, <2>3
<1>10. /\ mem' \in Layouts /\ other' \subseteq Layouts /\ (~crossed' => ~crossed)
       /\ c.op # "set" => mem' = mem /\ other' = other
       /\ c.op = "set" /\ at = "ok" /\ ~crossed' => mem' = c.val /\ other' = {}
  <2>1. CASE c.op # "set"
    BY <1>t, <1>1, <2>1
  <2>2. CASE c.op = "set"
    <3>1. /\ mem' \in {c.val} \cup Torn(crossed \/ other # {} \/ at = "error")
          /\ other' = other \cup Torn(other # {}) /\ crossed' = (crossed \/ other # {})
      BY <1>1, <2>2
    <3>2. \A o \in BOOLEAN : Torn(o) \subseteq {Empty} /\ (~o => Torn(o) = {})
      BY DEF Torn
    <3>3. /\ Torn(crossed \/ other # {} \/ at = "error") \subseteq {Empty}
          /\ Torn(other # {}) \subseteq {Empty}
      BY DEF Torn
    <3>4. ~crossed' => ~crossed /\ other = {}
      BY <3>1, Zenon
    <3>5. ASSUME ~crossed', at = "ok" PROVE mem' = c.val /\ other' = {}
      <4>1. Torn(crossed \/ other # {} \/ at = "error") = {} /\ Torn(other # {}) = {}
        BY <3>4, <3>5 DEF Torn
      <4> QED BY <3>1, <3>4, <3>5, <4>1
    <3> QED BY <1>t, <1>2, <2>2, <3>1, <3>3, <3>4, <3>5
  <2> QED BY <2>1, <2>2
<1> QED BY <1>1, <1>4, <1>5, <1>6, <1>7, <1>8, <1>9, <1>10, <1>v, <1>f, AnswerKeeps DEF c

(* A request is refused.                                                   *)
LEMMA RefusedIcons == ASSUME IconsInv, NEW s \in Slots, Refused(s) PROVE IconsInv'
<1>1. /\ chain[s] # NoChain
      /\ Goes(s, IF chain[s].then = "gone" THEN NoChain ELSE [chain[s] EXCEPT !.at = "error"])
      /\ UNCHANGED <<folder, mem, other, layout, icons, ready, meant, seeds, crossed, forgot>>
  BY DEF Refused
<1>2. chain[s] \in Chain /\ folder \subseteq Names /\ mem \in Layouts /\ other \subseteq Layouts
  BY <1>1 DEF IconsInv, IconsTypes
<1>3. PICK d : d = IF chain[s].then = "gone" THEN NoChain ELSE [chain[s] EXCEPT !.at = "error"]
  OBVIOUS
<1>4. ASSUME chain[s].then # "gone"
      PROVE  /\ d \in Chain /\ d # NoChain /\ d.op = chain[s].op /\ d.then = chain[s].then
             /\ d.val = chain[s].val /\ d.at = "error"
  <2>1. /\ d \in Chain /\ d.op = chain[s].op /\ d.then = chain[s].then
        /\ d.val = chain[s].val /\ d.at = "error"
    BY <1>2, <1>3, <1>4 DEF Chain
  <2> QED BY <2>1, NoChainAssumption
<1>5. (chain[s].then = "gone" => d = NoChain) /\ Goes(s, d)
  BY <1>1, <1>3
<1>6. d \in Chain \cup {NoChain}
  BY <1>4, <1>5
<1>7. folder' \subseteq Names /\ mem' \in Layouts /\ other' \subseteq Layouts
  BY <1>1, <1>2
<1> QED BY <1>1, <1>4, <1>5, <1>6, <1>7, AnswerKeeps

(* The page starts anew.                                                   *)
LEMMA ReloadIcons == ASSUME IconsInv, Reload PROVE IconsInv'
<1>t. IconsTypes /\ Fetching
  BY DEF IconsInv
<1>1. PICK s \in Slots :
        /\ chain[s] = NoChain
        /\ chain' = [t \in Slots |-> IF t = s THEN Call("get")
                       ELSE IF chain[t] # NoChain /\ chain[t].at = "sent"
                              THEN [chain[t] EXCEPT !.then = "gone"] ELSE NoChain]
  BY DEF Reload
<1>2. /\ layout' = Empty /\ icons' = NoPos /\ ready' = FALSE
      /\ UNCHANGED <<folder, mem, other, meant, seeds>>
  BY DEF Reload
<1>3. ~forgot' => ~forgot /\ ~crossed /\ Quiet
  BY Zenon DEF Reload, Quiet
<1>4. ~crossed' => \A t \in Slots : ~ (chain[t] # NoChain /\ chain[t].at = "sent")
  BY Zenon DEF Reload
<1>5. PICK c : c = Call("get")
  OBVIOUS
<1>6. /\ c \in Chain /\ c.op = "get" /\ c.at = "sent" /\ c.then = "end"
      /\ Empty \in Layouts /\ NoPos \in [Names -> Places]
  BY <1>5, CallFacts
<1>7. c # NoChain
  BY <1>6, NoChainAssumption
<1>8. \A t \in Slots : chain[t] # NoChain => [chain[t] EXCEPT !.then = "gone"] \in Chain
  BY <1>t DEF IconsTypes, Chain
<1>9. chain'[s] = c /\ chain' \in [Slots -> Chain \cup {NoChain}]
  BY <1>1, <1>5, <1>6, <1>8
<1>10. IconsTypes'
  BY <1>t, <1>2, <1>6, <1>9 DEF IconsTypes
<1>11. Fetching'
  BY <1>6, <1>7, <1>9 DEF Fetching, Fetches
<1>12. ASSUME \A t \in Slots : ~ (chain[t] # NoChain /\ chain[t].at = "sent")
       PROVE  \A t \in Slots : chain'[t] # NoChain => t = s
  BY <1>1, <1>12
<1>13. ASSUME ~crossed' PROVE Uncrossed'
  <2>1. \A t \in Slots : chain'[t] # NoChain => t = s
    BY <1>4, <1>12, <1>13
  <2>2. ChainOK(chain[s])'
    BY <1>6, <1>9 DEF ChainOK
  <2>3. ~Quiet'
    BY <1>7, <1>9 DEF Quiet
  <2> QED BY <2>1, <2>2, <2>3 DEF Uncrossed
<1>14. ASSUME ~forgot' PROVE Remembering'
  <2>1. ~forgot /\ ~crossed /\ Quiet
    BY <1>3, <1>14
  <2>2. Uncrossed /\ Remembering /\ ready
    BY <1>t, <2>1 DEF IconsInv, Fetching, Fetches, Quiet
  <2>3. mem = layout /\ other \subseteq {mem} /\ Remembers(layout) /\ seeds \in {0, 1}
    BY <2>1, <2>2 DEF Uncrossed, Stored, Remembering
  <2>4. Remembers(mem)' /\ seeds' \in {0, 1}
    BY <1>2, <2>3 DEF Remembers
  <2>5. \A t \in Slots : chain'[t] # NoChain => t = s
    BY <1>12, <2>1 DEF Quiet
  <2>6. Alone(s)'
    BY <2>5 DEF Alone
  <2> QED BY <1>2, <1>6, <1>9, <2>3, <2>4, <2>5, <2>6 DEF Remembering
<1> QED BY <1>10, <1>11, <1>13, <1>14 DEF IconsInv

(* The page has just been opened for the first time.                       *)
LEMMA InitIcons == IconsInit => IconsInv
<1> SUFFICES ASSUME IconsInit PROVE IconsInv
  OBVIOUS
<1>1. /\ folder \in SUBSET {Any} /\ mem = Empty /\ other = {} /\ layout = Empty /\ icons = NoPos
      /\ ready = FALSE /\ meant = NoPos /\ seeds = 0
      /\ chain = [s \in Slots |-> IF s = 1 THEN Call("get") ELSE NoChain]
  BY DEF IconsInit
<1>2. /\ Call("get") \in Chain /\ Call("get").op = "get" /\ Call("get").at = "sent"
      /\ Call("get").then = "end" /\ Empty \in Layouts /\ NoPos \in [Names -> Places]
  BY CallFacts
<1>3. Call("get") # NoChain /\ 1 \in Slots /\ Any \in Names
  <2>1. Call("get").name \in Names
    BY <1>2 DEF Chain
  <2>2. Any \in Names
    BY <2>1 DEF Call
  <2> QED BY <1>2, <2>2, NoChainAssumption, IconsBounds DEF Slots
<1>4. NoPos \in [Names -> {0, Far}] /\ \A n \in Names : NoPos[n] = 0
  BY DEF NoPos
<1>5. chain \in [Slots -> Chain \cup {NoChain}] /\ chain[1] = Call("get")
      /\ \A t \in Slots : chain[t] # NoChain => t = 1
  BY <1>1, <1>2, <1>3
<1>6. IconsTypes
  BY <1>1, <1>2, <1>3, <1>4, <1>5 DEF IconsTypes
<1>7. Fetching
  BY <1>2, <1>3, <1>5 DEF Fetching, Fetches
<1>8. Uncrossed
  <2>1. ChainOK(chain[1])
    BY <1>2, <1>5 DEF ChainOK
  <2>2. ~Quiet
    BY <1>3, <1>5 DEF Quiet
  <2> QED BY <1>5, <2>1, <2>2 DEF Uncrossed
<1>9. Remembering
  <2>1. Remembers(mem) /\ seeds \in {0, 1}
    BY <1>1, <1>4 DEF Remembers
  <2>2. Alone(1)
    BY <1>5 DEF Alone
  <2> QED BY <1>1, <1>2, <1>5, <2>1, <2>2 DEF Remembering
<1> QED BY <1>6, <1>7, <1>8, <1>9 DEF IconsInv

(* Another client's memory.set, which touches only the stored layout.      *)
LEMMA OtherKeeps ==
  ASSUME IconsInv, mem' \in Layouts, other' \subseteq Layouts,
         ~crossed' => ~crossed,
         ~Saving /\ other \subseteq {mem} => mem' = mem /\ other' \subseteq {mem},
         UNCHANGED <<folder, layout, icons, ready, chain, meant, seeds, forgot>>
  PROVE  IconsInv'
<1>1. IconsTypes /\ IconsTypes'
  BY DEF IconsInv, IconsTypes
<1>2. Fetching'
  BY DEF IconsInv, Fetching, Fetches
<1>3. ASSUME ~crossed' PROVE Uncrossed'
  <2>1. Uncrossed /\ (LayerIsTrue => LayerIsTrue')
    BY <1>3 DEF IconsInv, LayerIsTrue
  <2>2. ~Saving /\ Stored => Stored'
    BY <1>3 DEF Stored
  <2>3. Quiet => ~Saving
    BY DEF Quiet, Saving
  <2>4. ASSUME NEW s \in Slots, chain[s] # NoChain, chain[s].at = "ok" PROVE ~Saving
    BY <2>1, <2>4, OnlyOne DEF Saving
  <2>5. ASSUME NEW s \in Slots, chain[s] # NoChain PROVE ChainOK(chain[s])'
    BY <2>1, <2>2, <2>4, <2>5 DEF Uncrossed, ChainOK
  <2> QED BY <2>1, <2>2, <2>3, <2>5 DEF Uncrossed, Quiet
<1>4. ASSUME ~forgot' PROVE Remembering'
  <2>1. Remembering
    BY <1>4 DEF IconsInv
  <2>2. CASE ready
    BY <2>1, <2>2 DEF Remembering, Remembers
  <2>3. CASE ~ready
    <3>1. ~Saving /\ other \subseteq {mem}
      BY <2>1, <2>3 DEF Remembering, Saving
    <3>2. mem' = mem /\ other' \subseteq {mem}
      BY <3>1
    <3> QED BY <2>1, <2>3, <3>2 DEF Remembering, Remembers, Alone
  <2> QED BY <2>2, <2>3
<1> QED BY <1>1, <1>2, <1>3, <1>4 DEF IconsInv

(* Each step.                                                              *)
LEMMA NextIcons == IconsInv /\ [IconsNext]_iconsVars => IconsInv'
<1> SUFFICES ASSUME IconsInv, [IconsNext]_iconsVars PROVE IconsInv'
  OBVIOUS
<1>1. ASSUME NEW n \in Names, Elsewhere(n) PROVE IconsInv'
  <2>1. /\ folder' = (IF n \in folder THEN folder \ {n} ELSE folder \cup {n}) /\ crossed' = TRUE
        /\ UNCHANGED <<mem, other, layout, icons, ready, chain, meant, seeds, forgot>>
    BY <1>1 DEF Elsewhere
  <2>2. IconsTypes'
    BY <2>1 DEF IconsInv, IconsTypes
  <2>3. Fetching'
    BY <2>1 DEF IconsInv, Fetching, Fetches
  <2>4. Remembering => Remembering'
    BY <2>1 DEF Remembering, Remembers, Alone
  <2> QED BY <2>1, <2>2, <2>3, <2>4 DEF IconsInv
<1>2. ASSUME UNCHANGED iconsVars PROVE IconsInv'
  <2>1. UNCHANGED <<folder, mem, other, layout, icons, ready, chain, meant, seeds, crossed, forgot>>
    BY <1>2 DEF iconsVars
  <2>2. IconsTypes'
    BY <2>1 DEF IconsInv, IconsTypes
  <2>3. Fetching'
    BY <2>1 DEF IconsInv, Fetching, Fetches
  <2>4. Remembering => Remembering'
    BY <2>1 DEF Remembering, Remembers, Alone
  <2>5. Uncrossed => Uncrossed'
    BY <2>1 DEF Uncrossed, ChainOK, LayerIsTrue, Stored, Quiet
  <2> QED BY <2>1, <2>2, <2>3, <2>4, <2>5 DEF IconsInv
<1>t. mem \in Layouts /\ other \subseteq Layouts /\ Empty \in Layouts
  BY CallFacts DEF IconsInv, IconsTypes
<1>3. CASE OtherLoads
  <2>1. /\ other' = {mem} \cup Torn(Saving)
        /\ UNCHANGED <<folder, mem, layout, icons, ready, chain, meant, seeds, crossed, forgot>>
    BY <1>3 DEF OtherLoads
  <2>2. Torn(Saving) \subseteq {Empty} /\ (~Saving => Torn(Saving) = {})
    BY DEF Torn
  <2> QED BY <1>t, <2>1, <2>2, OtherKeeps
<1>4. CASE OtherSaves
  <2>1. /\ mem' \in other \cup Torn(Saving) /\ other' = {}
        /\ UNCHANGED <<folder, layout, icons, ready, chain, meant, seeds, forgot>>
    BY <1>4 DEF OtherSaves
  <2>2. Torn(Saving) \subseteq {Empty} /\ (~Saving => Torn(Saving) = {})
    BY DEF Torn
  <2>3. ~crossed' => ~crossed
    BY <1>4, Zenon DEF OtherSaves
  <2> QED BY <1>t, <2>1, <2>2, <2>3, OtherKeeps
<1> QED BY <1>1, <1>2, <1>3, <1>4, MenuIcons, KernelIcons, RefusedIcons, PageIcons, DragIcons,
           ReloadIcons, Zenon DEF IconsNext

(* At rest the icon layer shows the folder as it is and the kernel's       *)
(* memory holds the layout, for every folder and every number of chains.   *)
THEOREM IconsCorrect == IconsSpec => []IconsAreCurrent
<1>1. IconsInv => IconsAreCurrent
  BY DEF IconsInv, Uncrossed, Quiet, LayerIsTrue, Stored, IconsAreCurrent, AtRest
<1>2. IconsInit => IconsInv
  BY InitIcons
<1>3. IconsInv /\ [IconsNext]_iconsVars => IconsInv'
  BY NextIcons
<1> QED BY <1>1, <1>2, <1>3, PTL DEF IconsSpec

(* An icon stays where it was dragged until it is deleted or renamed,      *)
(* unless the page was opened without its layout or left in the middle of  *)
(* something; other clients may store what they like meanwhile.            *)
THEOREM DraggedCorrect == IconsSpec => []DraggedIconsStay
<1>1. IconsInv => DraggedIconsStay
  <2> SUFFICES ASSUME IconsInv, AtRest, ~crossed, ~forgot, NEW n \in folder, meant[n] # 0
               PROVE  icons[n] = meant[n] /\ mem.pos[n] = meant[n]
    BY DEF DraggedIconsStay
  <2>1. Uncrossed /\ Remembering /\ Quiet /\ ready /\ n \in Names
    BY DEF IconsInv, IconsTypes, AtRest, Quiet
  <2>2. LayerIsTrue /\ mem = layout /\ Remembers(layout)
    BY <2>1 DEF Uncrossed, Stored, Remembering
  <2> QED BY <2>1, <2>2 DEF LayerIsTrue, Remembers
<1>2. IconsInit => IconsInv
  BY InitIcons
<1>3. IconsInv /\ [IconsNext]_iconsVars => IconsInv'
  BY NextIcons
<1> QED BY <1>1, <1>2, <1>3, PTL DEF IconsSpec

(* The folder is seeded at most once, however often it is emptied and the  *)
(* page reloaded, unless the page lost its layout.                         *)
THEOREM SeededCorrect == IconsSpec => []SeededOnce
<1>1. IconsInv => SeededOnce
  <2> SUFFICES ASSUME IconsInv, ~forgot PROVE seeds <= 1
    BY DEF SeededOnce
  <2>1. seeds \in {0, 1}
    BY DEF IconsInv, Remembering
  <2> QED BY <2>1
<1>2. IconsInit => IconsInv
  BY InitIcons
<1>3. IconsInv /\ [IconsNext]_iconsVars => IconsInv'
  BY NextIcons
<1> QED BY <1>1, <1>2, <1>3, PTL DEF IconsSpec
=============================================================================
