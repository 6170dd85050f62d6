-------------------------------- MODULE Mind --------------------------------
(***************************************************************************)
(* The mind at the operator's shell: the agent loop (void_mind/agent.py),  *)
(* the history it hands to a model backend (backends.py, see Backends),    *)
(* the client that carries its syscalls (client.py) and the shell that     *)
(* asks the operator and grants what was approved (mind/shell.py), against *)
(* the part of the kernel's gate they meet (bus.ts, policy.ts).            *)
(*                                                                         *)
(* The agent is one thread.  Around it the model backend answers or fails, *)
(* the operator approves, denies or presses ctrl-C, the kernel stops and   *)
(* boots, and other clients of the same gate make calls of their own.      *)
(***************************************************************************)
EXTENDS Integers, Sequences, FiniteSets, Backends

CONSTANTS ReadCaps, RiskyCaps, \* capabilities offered by sys.list, by risk
          Modes,     \* policy modes the kernel may run in
          MaxSteps,  \* MAX_STEPS of agent.py
          MaxCalls,  \* bound: tool calls in one reply of the model
          MaxTurns,  \* bound: lines the operator types
          MaxHistory,\* bound: messages beyond which the model is not asked
          MaxBoots,  \* bound: kernel boots
          OtherClients \* whether other clients call risky capabilities

ASSUME CapsAssumption ==
    /\ ReadCaps \cap RiskyCaps = {} /\ "unknown" \notin ReadCaps \cup RiskyCaps
    /\ Tools = ReadCaps \cup RiskyCaps \cup {"unknown"}
ASSUME BoundsAssumption ==
    /\ Modes \subseteq {"permissive", "guarded", "paranoid"}
    /\ MaxSteps \in Nat \ {0} /\ MaxCalls \in Nat
    /\ MaxTurns \in Nat /\ MaxHistory \in Nat /\ MaxBoots \in Nat \ {0} /\ OtherClients \in BOOLEAN

(* A tool call of the model.  `good` says whether its arguments satisfy    *)
(* the schema of a risky capability; "unknown" is a name the model made    *)
(* up.  Ids number the calls of one reply, as OllamaBackend does.          *)
Wishes   == [cap : ReadCaps \cup {"unknown"}, good : {TRUE}]
            \cup [cap : RiskyCaps, good : BOOLEAN]
ToolCall == [id : 1 .. MaxCalls, wish : Wishes]

VARIABLES
    (* kernel *)
    up, boot,  \* the kernel is running; number of its latest boot
    mode,      \* its policy
    grants,    \* one-shot grants in its ledger, by capability
    ran,       \* ghost: risky handlers started, by capability
    (* shell *)
    token,     \* the boot whose operator token the shell read when it began
    always,    \* capabilities answered with "always"
    yes,       \* ghost: how often the operator typed y or a, by capability
    issued,    \* ghost: grants the shell obtained, by capability
    (* agent *)
    phase,     \* where run() is
    steps,     \* iterations of run()'s loop done in this turn
    pending,   \* tool calls of the current reply still to execute
    messages,  \* the normalized history
    turns,     \* user lines so far
    broken     \* ghost: some turn was left by an exception

kernel == <<up, boot, mode, grants, ran>>
shell  == <<token, always, yes, issued>>
agent  == <<phase, steps, pending, messages, turns, broken>>
vars   == <<kernel, shell, agent>>

TypeOK ==
    /\ up \in BOOLEAN /\ boot \in 1 .. MaxBoots /\ mode \in Modes
    /\ grants \in [RiskyCaps -> Nat] /\ ran \in [RiskyCaps -> Nat]
    /\ token \in 1 .. MaxBoots /\ always \subseteq RiskyCaps
    /\ yes \in [RiskyCaps -> Nat] /\ issued \in [RiskyCaps -> Nat]
    /\ phase \in {"idle", "chat", "tool", "ask", "grant", "call"}
    /\ steps \in 0 .. MaxSteps /\ pending \in Seq(ToolCall)
    /\ messages \in Seq(Message) /\ turns \in 0 .. MaxTurns /\ broken \in BOOLEAN

----------------------------------------------------------------------------
None == [c \in RiskyCaps |-> 0]
Plus(f, c) == [f EXCEPT ![c] = @ + 1]
Minus(f, c) == [f EXCEPT ![c] = @ - 1]

Init ==
    /\ up = TRUE /\ boot = 1 /\ mode \in Modes /\ grants = None /\ ran = None
    /\ token = 1 /\ always = {} /\ yes = None /\ issued = None
    /\ phase = "idle" /\ steps = 0 /\ pending = <<>> /\ messages = <<>>
    /\ turns = 0 /\ broken = FALSE

----------------------------------------------------------------------------
(* The agent loop.                                                         *)

UserSays ==
    /\ phase = "idle" /\ turns < MaxTurns
    /\ turns' = turns + 1 /\ phase' = "chat" /\ steps' = 0
    /\ messages' = Append(messages, Say("user", <<>>, 0, ""))
    /\ UNCHANGED <<kernel, shell, pending, broken>>

(* backend.chat returns; a reply without tool calls ends the turn.         *)
Replies(wishes) ==
    LET n == Len(wishes) IN
    /\ phase = "chat" /\ Len(messages) < MaxHistory
    /\ pending' = [k \in 1 .. n |-> [id |-> k, wish |-> wishes[k]]]
    /\ messages' = Append(messages, Say("assistant", [k \in 1 .. n |-> wishes[k].cap], 0, ""))
    /\ phase' = IF n = 0 THEN "idle" ELSE "tool"
    /\ UNCHANGED <<kernel, shell, steps, turns, broken>>

Current == Head(pending).wish

stepsAfter(rest) == IF rest = <<>> THEN steps + 1 ELSE steps

(* The result of the current call is appended; the next call, the next     *)
(* iteration or, at the step limit, the prompt follows.                    *)
Answered ==
    LET rest == Tail(pending)
        answer == Say("tool", <<>>, Head(pending).id, Current.cap)
    IN
    /\ pending' = rest
    /\ messages' = Append(messages, answer)
    /\ steps' = stepsAfter(rest)
    /\ phase' = IF rest # <<>> THEN "tool"
                ELSE IF steps' < MaxSteps THEN "chat" ELSE "idle"
    /\ UNCHANGED <<turns, broken>>

(* An exception leaves run(); the shell prints it and prompts again.  What *)
(* run() appended to the history stays.                                    *)
Raises ==
    /\ phase' = "idle" /\ pending' = <<>> /\ broken' = TRUE
    /\ UNCHANGED <<steps, messages, turns>>

(* Mutant: a made-up tool name is skipped without a result.                *)
UnknownToolSkipped ==
    LET rest == Tail(pending) IN
    /\ phase = "tool" /\ Current.cap = "unknown"
    /\ pending' = rest /\ steps' = stepsAfter(rest)
    /\ phase' = IF rest # <<>> THEN "tool"
                ELSE IF steps' < MaxSteps THEN "chat" ELSE "idle"
    /\ UNCHANGED <<kernel, shell, messages, turns, broken>>

UnknownTool ==
    /\ phase = "tool" /\ Current.cap = "unknown"
    /\ Answered
    /\ UNCHANGED <<kernel, shell>>

(* _run_syscall: risky calls go to the approver, which the shell installs  *)
(* unless the policy is permissive; an "always" answers for itself.        *)
BeginCall ==
    LET c == Current.cap IN
    /\ phase = "tool" /\ c # "unknown"
    /\ phase' = IF c \in ReadCaps \/ mode = "permissive" THEN "call"
                ELSE IF c \in always THEN "grant" ELSE "ask"
    /\ UNCHANGED <<kernel, shell, steps, pending, messages, turns, broken>>

alwaysAfter(c) == always \cup {c}

Approves(ans) ==
    LET c == Current.cap IN
    /\ phase = "ask" /\ phase' = "grant"
    /\ yes' = Plus(yes, c)
    /\ always' = IF ans = "a" THEN alwaysAfter(c) ELSE always
    /\ UNCHANGED <<kernel, token, issued, steps, pending, messages, turns, broken>>

Denies ==
    /\ phase = "ask"
    /\ Answered
    /\ UNCHANGED <<kernel, shell>>

(* The granter: sys.grant, one use, with the token read at the start.      *)
Grants ==
    LET c == Current.cap IN
    /\ phase = "grant" /\ up /\ token = boot
    /\ grants' = Plus(grants, c) /\ issued' = Plus(issued, c)
    /\ phase' = "call"
    /\ UNCHANGED <<up, boot, mode, ran, token, always, yes,
                   steps, pending, messages, turns, broken>>

(* The gate is unreachable or no longer knows the token: the granter is    *)
(* called outside _run_syscall's try.                                      *)
GrantFails ==
    /\ phase = "grant" /\ (~up \/ token # boot)
    /\ Raises
    /\ UNCHANGED <<kernel, shell>>

(* Mutant: any guarded call is allowed.                                    *)
AllowedUngranted(c) == c \in ReadCaps \/ mode # "paranoid"

(* What the bus does with a call: permission, validation, then the grant   *)
(* is spent and the handler runs.  Grants of a class or of "all" are not   *)
(* issued here.                                                            *)
Allowed(c) ==
    \/ c \in ReadCaps \/ mode = "permissive"
    \/ mode = "guarded" /\ grants[c] > 0

Dispatch(c, good) ==
    IF c \in RiskyCaps /\ Allowed(c) /\ good
      THEN /\ ran' = Plus(ran, c)
           /\ grants' = IF mode = "guarded" THEN Minus(grants, c) ELSE grants
      ELSE UNCHANGED <<ran, grants>>

Calls ==
    /\ phase = "call" /\ up
    /\ Dispatch(Current.cap, Current.good)
    /\ Answered
    /\ UNCHANGED <<up, boot, mode, shell>>

(* No reply is seen: the kernel was down, or it was stopped, or the        *)
(* operator pressed ctrl-C, after the call had begun.                      *)
CallCut ==
    /\ phase = "call"
    /\ \/ ~up /\ UNCHANGED kernel
       \/ /\ up /\ up' \in BOOLEAN
          /\ Dispatch(Current.cap, Current.good)
          /\ UNCHANGED <<boot, mode>>
    /\ Raises
    /\ UNCHANGED shell

(* The backend fails, or the operator presses ctrl-C.                      *)
Interrupted ==
    /\ phase \in {"chat", "ask", "grant", "call"}
    /\ Raises
    /\ UNCHANGED <<kernel, shell>>

----------------------------------------------------------------------------
(* The surroundings.                                                       *)

OtherCalls(c) ==
    /\ OtherClients /\ up /\ mode = "guarded" /\ grants[c] > 0
    /\ Dispatch(c, TRUE)
    /\ UNCHANGED <<up, boot, mode, shell, agent>>

KernelStops ==
    /\ up /\ up' = FALSE
    /\ UNCHANGED <<boot, mode, grants, ran, shell, agent>>

KernelBoots ==
    /\ ~up /\ boot < MaxBoots
    /\ up' = TRUE /\ boot' = boot + 1 /\ grants' = None
    /\ UNCHANGED <<mode, ran, shell, agent>>

AgentStep ==
    \/ \E n \in 0 .. MaxCalls : \E wishes \in [1 .. n -> Wishes] : Replies(wishes)
    \/ UnknownTool \/ BeginCall
    \/ \E ans \in {"y", "a"} : Approves(ans)
    \/ Denies \/ Grants \/ GrantFails \/ Calls \/ CallCut

Next ==
    \/ UserSays \/ AgentStep \/ Interrupted
    \/ \E c \in RiskyCaps : OtherCalls(c)
    \/ KernelStops \/ KernelBoots

Spec == Init /\ [][Next]_vars

----------------------------------------------------------------------------
(* Properties                                                              *)

(***************************************************************************)
(* Under a policy that needs grants, a risky handler starts at most as     *)
(* often as the shell was granted that capability, and the shell obtains a *)
(* grant only for a yes to that capability or after an "always" to it,     *)
(* whichever client's call spends it and however the kernel reboots in     *)
(* between.                                                                *)
(***************************************************************************)
RunsWereApproved ==
    mode # "permissive" => \A c \in RiskyCaps :
        /\ ran[c] + grants[c] <= issued[c]
        /\ issued[c] > yes[c] => c \in always /\ yes[c] > 0

(***************************************************************************)
(* backends.py: "Claude wants tool results grouped into one user turn".    *)
(* The message after a reply with tool calls answers these calls and no    *)
(* others, in order; whenever the model is consulted, all of them, unless  *)
(* a turn was left by an exception.  (_run_syscall encodes errors inline,  *)
(* but failures of the granter and of the connection are raised, and the   *)
(* calls of that reply stay unanswered in the history.)                    *)
(***************************************************************************)
ResultsAreGrouped ==
    LET a == anthropic(messages)
        ids(i) == [k \in DOMAIN a[i].uses |-> k]
        answers(i) == IF i < Len(a) THEN a[i + 1].results ELSE <<>>
    IN  \A i \in 1 .. Len(a) :
            /\ IsPrefix(answers(i), ids(i))
            /\ phase \in {"idle", "chat"} /\ ~broken => answers(i) = ids(i)

(***************************************************************************)
(* All providers see the same conversation, also in a history with calls   *)
(* left unanswered: with the grouping undone, the Anthropic translation is *)
(* the OpenAI one, and what Ollama is told by tool name is what the others *)
(* are told by id.                                                         *)
(***************************************************************************)
SameConversation ==
    LET a == anthropic(messages)
        o == openai(messages)
        n == ollama(messages)
    IN  /\ FlattenSeq([i \in DOMAIN a |-> Ungrouped(a[i])]) = o
        /\ \A i \in DOMAIN o : o[i].role = "tool" => n[i].results = <<ToolOf(o, i)>>
=============================================================================
