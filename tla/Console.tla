------------------------------ MODULE Console ------------------------------
(***************************************************************************)
(* The Console's chat surfaces (ui/server.py): a thread per HTTP request,  *)
(* one lock around the shared conversations, two agents built on first use *)
(* (the desktop's `_agent`, the voice `_companion`) and a switch of the    *)
(* model backend at run time through the process environment               *)
(* (void_mind/backends.py: make_backend).                                  *)
(*                                                                         *)
(* The kernel the agents talk to stops and boots on its own; it runs the   *)
(* guarded policy, where the Console must grant "all" before it can act.   *)
(***************************************************************************)
EXTENDS Integers

CONSTANTS Reqs,       \* requests made over the run
          Backends,   \* backends in use, of ollama, openai and anthropic
          Models,     \* model names an operator may ask for
          Installed,  \* backends whose Python package is installed
          Reboots     \* bound: kernel stops

Cloud == {"openai", "anthropic"}
None  == "none"

ASSUME BackendsAssumption ==
    /\ "ollama" \in Backends /\ Backends \subseteq Cloud \cup {"ollama"}
    /\ Installed \subseteq Backends /\ Reboots \in Nat
    /\ {"", "default"} \cap Models = {} /\ None \notin Reqs

(* os.environ: VOID_BACKEND, the API keys that are set, OLLAMA_HOST and    *)
(* VOID_MODEL.                                                             *)
Env == [choice : Backends \cup {""}, keys : SUBSET Backends, host : BOOLEAN,
        model : Models \cup {"default"}]

(* What an agent was built with, and what a switch request asks for.       *)
Built == [backend : Backends, key : BOOLEAN, host : BOOLEAN, model : Models \cup {"default"}]
NoAgent == [backend |-> "", key |-> FALSE, host |-> FALSE, model |-> ""]
Wish  == [backend : Backends \cup {""}, model : Models \cup {""},
          key : BOOLEAN, host : BOOLEAN]

VARIABLES
    env, companion, agent, \* environment and the two agents (or NoAgent)
    lock,     \* _chat_lock: the request that holds it, or None
    req,      \* the requests
    up, stops,\* the kernel is running; how often it has stopped
    granted,  \* the kernel's ledger holds a grant of "all"
    stale     \* ghost: the agents that were built before that grant was last
              \* taken away, by a reboot or by an operator's sys.revoke

kernel == <<up, stops, granted, stale>>
vars   == <<env, companion, agent, lock, req, kernel>>

(***************************************************************************)
(* A request: `reply` is what the browser gets, "lost" when an exception   *)
(* left the handler and the connection just closes, and "seen" the state   *)
(* of a request whose page has the answer.                                 *)
(***************************************************************************)
Request == [kind : {"none", "her", "chat", "switch"},
            st : {"new", "waiting", "held", "turn", "done", "seen"},
            reply : {"none", "reply", "busy", "error", "nomodel", "nokey", "lost"}]

TypeOK ==
    /\ env \in Env /\ companion \in Built \cup {NoAgent} /\ agent \in Built \cup {NoAgent}
    /\ lock \in Reqs \cup {None} /\ req \in [Reqs -> Request]
    /\ up \in BOOLEAN /\ stops \in 0 .. Reboots /\ granted \in BOOLEAN
    /\ stale \subseteq {"her", "chat"}

----------------------------------------------------------------------------
(* make_backend: the choice, or whichever key is present.                  *)
Effective(e) ==
    IF e.choice # "" THEN e.choice
    ELSE IF "anthropic" \in e.keys THEN "anthropic"
    ELSE IF "openai" \in e.keys THEN "openai" ELSE "ollama"

Settings(e) == [backend |-> Effective(e), key |-> Effective(e) \in e.keys,
                host |-> e.host, model |-> e.model]

(* get_agent and get_companion look for Ollama's variables, then reach the *)
(* kernel, then construct the backend.                                     *)
HasModel(e) == "ollama" \in e.keys \/ e.host

(* The constructor of the OpenAI client raises when it has no key.         *)
Constructs(e) == Effective(e) \in Installed /\ (Effective(e) = "openai" => "openai" \in e.keys)

(* Mutant: the lock is given back only after a reply.                      *)
lockAfterReply(r, reply) == IF reply = "reply" THEN None ELSE lock

lockAfter(r, reply) == None

Finish(r, reply) ==
    /\ req' = [req EXCEPT ![r].st = "done", ![r].reply = reply]
    /\ lock' = lockAfter(r, reply)

----------------------------------------------------------------------------
Init ==
    /\ env \in Env
    /\ companion = NoAgent /\ agent = NoAgent /\ lock = None
    /\ req = [r \in Reqs |-> [kind |-> "none", st |-> "new", reply |-> "none"]]
    /\ up \in BOOLEAN /\ stops = 0
    /\ granted = up      \* main() grants when it finds the gate up
    /\ stale = {}

Arrives(r, kind) ==
    /\ req[r].st = "new"
    /\ req' = [req EXCEPT ![r].kind = kind, ![r].st = "waiting"]
    /\ UNCHANGED <<env, companion, agent, lock, kernel>>

Acquires(r) ==
    /\ req[r].st = "waiting" /\ lock = None
    /\ lock' = r /\ req' = [req EXCEPT ![r].st = "held"]
    /\ UNCHANGED <<env, companion, agent, kernel>>

(* Mutant: the companion waits for the lock as the desktop chat does.      *)
GivesUpNever(r) == FALSE /\ UNCHANGED vars

(* run_her waits two seconds for the lock.                                 *)
GivesUp(r) ==
    /\ req[r].kind = "her" /\ req[r].st = "waiting" /\ lock # None
    /\ req' = [req EXCEPT ![r].st = "done", ![r].reply = "busy"]
    /\ UNCHANGED <<env, companion, agent, lock, kernel>>

Cached(kind) == IF kind = "her" THEN companion ELSE agent

(* Mutant: only main() grants.                                             *)
grantedByMain(builds) == granted

(* get_agent and get_companion grant when they build.                      *)
grantedBy(builds) == granted \/ builds

(* The agent of a turn is built under the lock unless it exists already.   *)
Builds(r) ==
    LET her == req[r].kind = "her"
        old == Cached(req[r].kind)
    IN
    /\ req[r].st = "held" /\ req[r].kind \in {"her", "chat"}
    /\ old # NoAgent \/ (HasModel(env) /\ up /\ Constructs(env))
    /\ req' = [req EXCEPT ![r].st = "turn"]
    /\ companion' = IF her /\ old = NoAgent THEN Settings(env) ELSE companion
    /\ agent' = IF ~her /\ old = NoAgent THEN Settings(env) ELSE agent
    /\ granted' = grantedBy(old = NoAgent)
    /\ stale' = IF old = NoAgent THEN stale \ {req[r].kind} ELSE stale
    /\ UNCHANGED <<env, lock, up, stops>>

(* RuntimeError is answered; any other exception leaves the handler.       *)
BuildFails(r) ==
    /\ req[r].st = "held" /\ req[r].kind \in {"her", "chat"}
    /\ Cached(req[r].kind) = NoAgent
    /\ ~(HasModel(env) /\ up /\ Constructs(env))
    /\ Finish(r, IF HasModel(env) THEN "lost" ELSE "nomodel")
    /\ granted' = grantedBy(HasModel(env) /\ up)
    /\ UNCHANGED <<env, companion, agent, up, stops, stale>>

(* agent.run returns or raises.                                            *)
TurnEnds(r, reply) ==
    /\ req[r].st = "turn"
    /\ Finish(r, reply)
    /\ UNCHANGED <<env, companion, agent, kernel>>

----------------------------------------------------------------------------
(* switch_backend                                                          *)

Target(w) == IF w.backend # "" THEN w.backend ELSE Effective(env)

NeedsKey(w) == Target(w) \in Cloud /\ ~w.key /\ Target(w) \notin env.keys

(* Mutant: only a new backend or model counts as a change.                 *)
ChangedNames(w) == w.backend # "" \/ w.model # ""

Changed(w) == w.backend # "" \/ w.model # "" \/ w.key \/ w.host

Switched(w) ==
    [choice |-> IF w.backend # "" THEN w.backend ELSE env.choice,
     keys   |-> IF w.key THEN env.keys \cup {Target(w)} ELSE env.keys,
     host   |-> env.host \/ w.host,
     model  |-> IF w.model # "" THEN w.model
                ELSE IF w.backend # "" THEN "default" ELSE env.model]

(* A name that is no backend is refused before the lock is asked for.      *)
SwitchUnknown(r) ==
    /\ req[r].kind = "switch" /\ req[r].st = "waiting"
    /\ req' = [req EXCEPT ![r].st = "done", ![r].reply = "error"]
    /\ UNCHANGED <<env, companion, agent, lock, kernel>>

SwitchRefused(r, w) ==
    /\ req[r].st = "held" /\ req[r].kind = "switch" /\ NeedsKey(w)
    /\ Finish(r, "nokey")
    /\ UNCHANGED <<env, companion, agent, kernel>>

(* The environment is changed first; then the companion is rebuilt, and    *)
(* every exception of that is answered with an error.                      *)
Switches(r, w) ==
    LET e   == Switched(w)
        old == IF Changed(w) THEN NoAgent ELSE companion
        ok  == old # NoAgent \/ (HasModel(e) /\ up /\ Constructs(e))
    IN
    /\ req[r].st = "held" /\ req[r].kind = "switch" /\ ~NeedsKey(w)
    /\ env' = e
    /\ companion' = IF ok /\ old = NoAgent THEN Settings(e) ELSE old
    /\ granted' = grantedBy(old = NoAgent /\ HasModel(e) /\ up)
    /\ stale' = IF old = NoAgent THEN stale \ {"her"} ELSE stale
    /\ Finish(r, IF ok THEN "reply" ELSE IF HasModel(e) THEN "error" ELSE "nomodel")
    /\ UNCHANGED <<agent, up, stops>>

----------------------------------------------------------------------------
Withdrawn ==
    /\ granted' = FALSE
    /\ stale' = {kind \in {"her", "chat"} : Cached(kind) # NoAgent}

KernelStops ==
    /\ up /\ stops < Reboots
    /\ up' = FALSE /\ stops' = stops + 1 /\ Withdrawn
    /\ UNCHANGED <<env, companion, agent, lock, req>>

KernelBoots ==
    /\ ~up /\ up' = TRUE
    /\ UNCHANGED <<env, companion, agent, lock, req, stops, granted, stale>>

(* Another operator grants "all", as voidinit does, or revokes it.         *)
Grants ==
    /\ up /\ granted' = TRUE
    /\ UNCHANGED <<env, companion, agent, lock, req, up, stops, stale>>

Revokes ==
    /\ up /\ Withdrawn
    /\ UNCHANGED <<env, companion, agent, lock, req, up, stops>>

KernelMoves == KernelStops \/ KernelBoots \/ Grants \/ Revokes

(* The handler of a request goes on; a name that is no backend need not be *)
(* what a switch was asked for, so that is a choice of its own.            *)
Handles(r) ==
    \/ Builds(r) \/ BuildFails(r)
    \/ \E w \in Wish : SwitchRefused(r, w) \/ Switches(r, w)

Serves(r) ==
    \/ Acquires(r) \/ GivesUp(r) \/ SwitchUnknown(r) \/ Handles(r)
    \/ \E reply \in {"reply", "error"} : TurnEnds(r, reply)

----------------------------------------------------------------------------
(* Properties                                                              *)

(***************************************************************************)
(* The companion, once built, runs on the settings in force: no switch of  *)
(* backend, model, key or host leaves it on the old ones.                  *)
(***************************************************************************)
CompanionIsCurrent == companion # NoAgent => companion = Settings(env)

(***************************************************************************)
(* A request to the companion does not wait for another one's turn, even   *)
(* one that never ends: it gets the lock or is told that the mind is busy. *)
(***************************************************************************)
HerIsPrompt ==
    \A r \in Reqs : req[r].kind = "her" /\ req[r].st = "waiting" ~> req[r].st # "waiting"

(***************************************************************************)
(* server.py: "grant all so chat actions go through".  Throughout a turn   *)
(* that grant is in the ledger of a running kernel, whichever of the two   *)
(* was started first and however often the kernel was rebooted or the      *)
(* grant revoked before the turn's agent was built.  The exception is one  *)
(* built before that: it is used again and nobody grants anew, which a     *)
(* switch mends for the companion and nothing but another operator for the *)
(* agent of the desktop.                                                   *)
(***************************************************************************)
TurnsAreAuthorised ==
    \A r \in Reqs : req[r].st = "turn" => (up /\ granted) \/ req[r].kind \in stale
=============================================================================
