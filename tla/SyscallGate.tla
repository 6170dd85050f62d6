---------------------------- MODULE SyscallGate ----------------------------
(***************************************************************************)
(* The syscall gate of the voidOS kernel: the line-oriented JSON-RPC       *)
(* socket (transport/socket.ts), the bus that decides, validates, runs and *)
(* audits a call (bus.ts), the policy and the grant ledger (policy.ts), and *)
(* the operator calls that change the ledger (capabilities/sys.ts).        *)
(*                                                                         *)
(* The kernel is one event loop.  Everything `dispatch` does up to the     *)
(* `await` of the handler happens in one tick, together with the           *)
(* synchronous prefix of the handler; the audit record and the reply come  *)
(* in a later tick, and the appended audit line later still.  Lines of all *)
(* clients interleave between those ticks.                                 *)
(*                                                                         *)
(* Each element of Calls is one line some client may send, once.           *)
(***************************************************************************)
EXTENDS Integers

CONSTANTS Calls,      \* the lines clients may send over the whole run
          ReadCaps,   \* names of the ordinary capabilities of each risk
          WriteCaps,
          ExecCaps,
          Modes,      \* values VOID_POLICY may have at a boot
          UseCounts,  \* values of `uses` a client may ask for
          MaxBoots    \* bound: number of times the kernel is started

Unlimited == -1       \* GrantStore's Infinity, the way list() reports it
NoKey     == "nokey"  \* permitKey found nothing (null)
NoTarget  == "notarget"

OperatorCaps == {"sys.grant", "sys.revoke"}
RiskyCaps    == WriteCaps \cup ExecCaps
Caps         == ReadCaps \cup RiskyCaps \cup OperatorCaps
Targets      == RiskyCaps \cup {"write", "exec", "all"}

ASSUME NamesAssumption ==
    /\ ReadCaps \cap RiskyCaps = {} /\ WriteCaps \cap ExecCaps = {}
    /\ (ReadCaps \cup RiskyCaps) \cap
          (OperatorCaps \cup {"write", "exec", "all", "nokey", "notarget",
                              "unknown", "malformed"}) = {}

ASSUME BoundsAssumption ==
    /\ Modes \subseteq {"permissive", "guarded", "paranoid"}
    /\ UseCounts \subseteq Int
    /\ MaxBoots \in Nat

(***************************************************************************)
(* A request.  `good` says whether the parameters satisfy the capability's *)
(* schema.  Tokens are named by the boot that minted them; 0 is any string *)
(* that was never a token.  A client that omits `uses` asks for 1; one     *)
(* that omits `target` in sys.revoke sends NoTarget.  "unknown" is a method *)
(* no capability registers, "malformed" a line without a usable method.    *)
(***************************************************************************)
Requests ==
    [cap : Caps \cup {"unknown", "malformed"}, good : BOOLEAN, token : Nat,
     target : Targets \cup {NoTarget}, uses : UseCounts \cup {1}]

Blank == [cap |-> "unknown", good |-> FALSE, token |-> 0,
          target |-> NoTarget, uses |-> 1]

VARIABLES
    up,       \* the kernel process is running
    boot,     \* which boot this is; also names this boot's operator token
    mode,     \* policy.mode
    grants,   \* GrantStore.grants; 0 stands for an absent (or used up) key
    pc,       \* where each line is, see Stages
    req,      \* the request of a line the kernel holds; Blank otherwise
    key,      \* the grant a running call was allowed by
    queued,   \* audit lines handed to appendFile and not yet settled
    logged,   \* audit lines in the file
    failed,   \* calls whose audit line could not be appended
    past,     \* ghost: calls sent to a kernel that has stopped since
    issued,   \* ghost: uses issued per target since its last revoke or boot
    ran,      \* ghost: calls started on the target's grant since then
    vouched   \* ghost: targets some client asked for with this boot's token

ledger == <<grants, issued, ran>>
trail  == <<queued, logged, failed>>
vars   == <<up, boot, mode, grants, pc, req, key, queued, logged, failed,
            past, issued, ran, vouched>>

(***************************************************************************)
(* The stages of a line: not sent; sent and waiting for the event loop;    *)
(* its handler running; then one of the replies (rejected by the           *)
(* transport, refused by the bus, answered with the handler's result or    *)
(* EFAULT) or, when the kernel stops first, dropped (before dispatch) or   *)
(* cut (while its handler ran).                                            *)
(***************************************************************************)
Stages == {"idle", "sent", "running", "rejected", "refused", "answered",
           "dropped", "cut"}

GrantValues == {Unlimited} \cup Nat

TypeOK ==
    /\ up \in BOOLEAN
    /\ boot \in Nat
    /\ mode \in {"permissive", "guarded", "paranoid"}
    /\ grants \in [Targets -> GrantValues]
    /\ pc \in [Calls -> Stages]
    /\ req \in [Calls -> Requests]
    /\ key \in [Calls -> Targets \cup {NoKey}]
    /\ queued \in [Calls -> Nat]
    /\ logged \in [Calls -> Nat]
    /\ failed \subseteq Calls
    /\ past \subseteq Calls
    /\ issued \in [Targets -> GrantValues]
    /\ ran \in [Targets -> Nat]
    /\ vouched \subseteq Targets

----------------------------------------------------------------------------
(* policy.ts                                                               *)

Risk(cap) == IF cap \in WriteCaps THEN "write"
             ELSE IF cap \in ExecCaps THEN "exec" ELSE "read"

Live(n) == n # 0

(* Mutant: the broadest grant is found first.                              *)
permitKeyBroadest(cap) ==
    IF Live(grants["all"]) THEN "all"
    ELSE IF Live(grants[Risk(cap)]) THEN Risk(cap)
    ELSE IF Live(grants[cap]) THEN cap
    ELSE NoKey

(* The most specific live grant: exact name, then risk class, then "all".  *)
permitKey(cap) ==
    IF Live(grants[cap]) THEN cap
    ELSE IF Live(grants[Risk(cap)]) THEN Risk(cap)
    ELSE IF Live(grants["all"]) THEN "all"
    ELSE NoKey

(* The grant an allowed call will spend; NoKey when none backs it.         *)
grantKey(cap) ==
    IF cap \in RiskyCaps /\ mode = "guarded" THEN permitKey(cap) ELSE NoKey

allow(cap) ==
    \/ cap \notin RiskyCaps
    \/ mode = "permissive"
    \/ mode = "guarded" /\ permitKey(cap) # NoKey

(* Mutant: unlimited grants are counted down too.                          *)
SpentAlways(n) == n - 1

Spent(n) == IF n = Unlimited THEN Unlimited ELSE n - 1

(* Mutant: a new grant replaces what is left of the previous one.          *)
ToppedReplaces(n, u) == IF u < 0 THEN Unlimited ELSE u

Topped(n, u) == IF n = Unlimited \/ u < 0 THEN Unlimited ELSE n + u

consume(k) == IF k = NoKey THEN grants ELSE [grants EXCEPT ![k] = Spent(@)]

----------------------------------------------------------------------------
(* The kernel process (index.ts): a boot mints a token; shutdown() exits    *)
(* the process under whatever is in flight, and the in-memory ledger and   *)
(* the appends not yet done go with it.                                    *)

ForgetLedger ==
    /\ grants' = [t \in Targets |-> 0]
    /\ issued' = [t \in Targets |-> 0]
    /\ ran' = [t \in Targets |-> 0]

Init ==
    /\ up = FALSE /\ boot = 0 /\ mode \in Modes /\ vouched = {}
    /\ grants = [t \in Targets |-> 0]
    /\ issued = [t \in Targets |-> 0]
    /\ ran = [t \in Targets |-> 0]
    /\ pc = [c \in Calls |-> "idle"]
    /\ req = [c \in Calls |-> Blank]
    /\ key = [c \in Calls |-> NoKey]
    /\ queued = [c \in Calls |-> 0]
    /\ logged = [c \in Calls |-> 0]
    /\ failed = {} /\ past = {}

Boot ==
    /\ ~up /\ boot < MaxBoots
    /\ up' = TRUE /\ boot' = boot + 1 /\ mode' \in Modes
    /\ UNCHANGED <<ledger, pc, req, key, trail, past, vouched>>

Halt ==
    /\ up
    /\ up' = FALSE
    /\ pc' = [c \in Calls |-> IF pc[c] = "sent" THEN "dropped"
                             ELSE IF pc[c] = "running" THEN "cut" ELSE pc[c]]
    /\ req' = [c \in Calls |-> Blank]
    /\ key' = [c \in Calls |-> NoKey]
    /\ queued' = [c \in Calls |-> 0]
    /\ past' = {c \in Calls : pc[c] # "idle"}
    /\ ForgetLedger /\ vouched' = {}
    /\ UNCHANGED <<boot, mode, logged, failed>>

----------------------------------------------------------------------------
(* transport/socket.ts and bus.ts                                          *)

(* The lines clients send.  An operator call carries the current token or  *)
(* the one before it (0, never minted, in the first boot); one with bad    *)
(* parameters fares like an ordinary read call with bad parameters.        *)
Sendable ==
    [cap : ReadCaps \cup RiskyCaps \cup {"unknown", "malformed"},
     good : BOOLEAN, token : {0}, target : {NoTarget}, uses : {1}]
    \cup [cap : {"sys.grant"}, good : {TRUE}, token : {boot - 1, boot},
          target : Targets, uses : UseCounts]
    \cup [cap : {"sys.revoke"}, good : {TRUE}, token : {boot - 1, boot},
          target : Targets \cup {NoTarget}, uses : {1}]

Vouches(r) == r.cap = "sys.grant" /\ r.token = boot

Send(c, r) ==
    /\ up /\ pc[c] = "idle"
    /\ pc' = [pc EXCEPT ![c] = "sent"]
    /\ req' = [req EXCEPT ![c] = r]
    /\ vouched' = IF Vouches(r) THEN vouched \cup {r.target} ELSE vouched
    /\ UNCHANGED <<up, boot, mode, key, trail, past, ledger>>

(* The reply line goes out and the kernel forgets the request.             *)
Reply(c, stage) ==
    /\ pc' = [pc EXCEPT ![c] = stage]
    /\ req' = [req EXCEPT ![c] = Blank]
    /\ key' = [key EXCEPT ![c] = NoKey]

(* A line that is not a JSON object with a call is answered, not recorded. *)
RejectLine(c) ==
    /\ up /\ pc[c] = "sent" /\ req[c].cap = "malformed"
    /\ Reply(c, "rejected")
    /\ UNCHANGED <<up, boot, mode, trail, past, ledger, vouched>>

(* What dispatch decides before it runs anything, in the order it checks.  *)
Verdict(r) ==
    IF r.cap \notin Caps THEN "ENOSYS"
    ELSE IF ~allow(r.cap) THEN "EPERM"
    ELSE IF ~r.good THEN "EINVAL" ELSE "run"

(* Mutant: a call to an unknown capability is not recorded.                *)
auditKnown(c) ==
    /\ queued' = [queued EXCEPT ![c] = IF req[c].cap \in Caps THEN @ + 1 ELSE @]
    /\ UNCHANGED <<logged, failed>>

audit(c) ==
    /\ queued' = [queued EXCEPT ![c] = @ + 1]
    /\ UNCHANGED <<logged, failed>>

Refuse(c) ==
    /\ up /\ pc[c] = "sent" /\ req[c].cap # "malformed"
    /\ Verdict(req[c]) # "run"
    /\ Reply(c, "refused")
    /\ audit(c)
    /\ UNCHANGED <<up, boot, mode, past, ledger, vouched>>

Starting(c) ==
    /\ up /\ pc[c] = "sent" /\ req[c].cap # "malformed"
    /\ Verdict(req[c]) = "run"
    /\ pc' = [pc EXCEPT ![c] = "running"]
    /\ UNCHANGED <<up, boot, mode, req, trail, past, vouched>>

(* An ordinary handler begins: its grant, if any, is spent in this tick.   *)
StartOrdinary(c) ==
    LET k == grantKey(req[c].cap) IN
    /\ Starting(c)
    /\ req[c].cap \notin OperatorCaps
    /\ key' = [key EXCEPT ![c] = k]
    /\ grants' = consume(k)
    /\ ran' = IF k = NoKey THEN ran ELSE [ran EXCEPT ![k] = @ + 1]
    /\ UNCHANGED issued

(* Mutant: any token some boot minted is accepted.                         *)
TokenOKAnyBoot(r) == r.token # 0

TokenOK(r) == r.token = boot

StartGrant(c) ==
    LET t == req[c].target  u == req[c].uses IN
    /\ Starting(c)
    /\ req[c].cap = "sys.grant"
    /\ IF TokenOK(req[c])
         THEN /\ grants' = [grants EXCEPT ![t] = Topped(@, u)]
              /\ issued' = [issued EXCEPT ![t] =
                              IF @ = Unlimited \/ u < 0 THEN Unlimited ELSE @ + u]
         ELSE UNCHANGED <<grants, issued>>
    /\ UNCHANGED <<key, ran>>

StartRevoke(c) ==
    LET hit(t) == TokenOK(req[c]) /\ req[c].target \in {t, NoTarget}
        cleared(f) == [t \in Targets |-> IF hit(t) THEN 0 ELSE f[t]]
    IN  /\ Starting(c)
        /\ req[c].cap = "sys.revoke"
        /\ grants' = cleared(grants)
        /\ issued' = cleared(issued)
        /\ ran' = cleared(ran)
        /\ UNCHANGED key

(* The handler settles, with a result or with an error that becomes        *)
(* EFAULT: either way one audit record, then the reply.                    *)
Finish(c) ==
    /\ up /\ pc[c] = "running"
    /\ Reply(c, "answered")
    /\ audit(c)
    /\ UNCHANGED <<up, boot, mode, past, ledger, vouched>>

(* The auditor's appendFile settles, in any order; failures are only       *)
(* logged to the console (makeAuditor).                                    *)
AuditWrite(c) ==
    /\ up /\ queued[c] > 0
    /\ queued' = [queued EXCEPT ![c] = @ - 1]
    /\ \/ logged' = [logged EXCEPT ![c] = @ + 1] /\ UNCHANGED failed
       \/ failed' = failed \cup {c} /\ UNCHANGED logged
    /\ UNCHANGED <<up, boot, mode, pc, req, key, past, ledger, vouched>>

Handle(c) == RejectLine(c) \/ Refuse(c) \/ StartOrdinary(c)
                \/ StartGrant(c) \/ StartRevoke(c)

Next ==
    \/ Boot
    \/ Halt
    \/ \E c \in Calls : \/ \E r \in Sendable : Send(c, r)
                        \/ Handle(c)
                        \/ Finish(c)
                        \/ AuditWrite(c)

Spec == Init /\ [][Next]_vars

----------------------------------------------------------------------------
(* Properties                                                              *)

(***************************************************************************)
(* The grant ledger balances: whatever the interleaving of clients, the    *)
(* calls started on a grant plus the uses left never exceed or fall short  *)
(* of the uses the operator issued since the grant was last revoked; an    *)
(* unlimited grant stays unlimited until then.  (GrantStore.grant/consume  *)
(* against Bus.dispatch's decide ... consume.)                             *)
(***************************************************************************)
LedgerBalances ==
    \A t \in Targets :
        IF issued[t] = Unlimited THEN grants[t] = Unlimited
        ELSE grants[t] # Unlimited /\ grants[t] + ran[t] = issued[t]

RunningRisky(c) == pc[c] = "running" /\ req[c].cap \in RiskyCaps

(***************************************************************************)
(* No write or exec handler runs without an operator behind it: under      *)
(* paranoid none runs, and under guarded each running one was let through  *)
(* by a grant that a client holding THIS boot's token asked for.  Grants   *)
(* and tokens of an earlier boot carry no authority.                       *)
(***************************************************************************)
RiskyRunIsVouched ==
    \A c \in Calls : RunningRisky(c) =>
        /\ mode # "paranoid"
        /\ mode = "guarded" => key[c] \in vouched

Settled == {"refused", "answered"}

(***************************************************************************)
(* What the audit trail may be relied on for.  A call has at most one line *)
(* in the file or on its way there, and only if the bus settled it; and    *)
(* every call the running kernel has settled, allowed or denied, has its   *)
(* line, unless that very append failed.  The documentation promises a     *)
(* line for "every dispatch"; a dispatch without one is therefore either   *)
(* a failed append or one of a kernel that has stopped since: shutdown()   *)
(* exits under running handlers, whose entry is made only when they        *)
(* settle, and under appends that nobody awaits.                           *)
(***************************************************************************)
SettledIsAudited ==
    \A c \in Calls :
        /\ queued[c] + logged[c] <= 1
        /\ queued[c] + logged[c] = 1 => pc[c] \in Settled
        /\ pc[c] \in Settled /\ c \notin past \cup failed =>
              queued[c] + logged[c] = 1

Started(c)  == pc[c] = "sent" /\ pc'[c] = "running"
Keys(cap)   == {cap, Risk(cap), "all"}
Narrower(t, cap) == IF t = "all" THEN {cap, Risk(cap)}
                    ELSE IF t = Risk(cap) THEN {cap} ELSE {}

(***************************************************************************)
(* Within a boot the ledger changes only as the effect of one call that    *)
(* the gate let run: a use is spent by a risky call the grant covers, and  *)
(* only when no narrower grant was left; anything else is an operator call *)
(* with the current token.  A refused call (ENOSYS, EPERM, EINVAL) and a   *)
(* finishing one never touch it.                                           *)
(***************************************************************************)
LedgerChangeHasCause ==
    [][ up /\ up' =>
        \A t \in Targets : grants'[t] # grants[t] =>
            \E c \in Calls :
                /\ Started(c)
                /\ \/ /\ req[c].cap \in RiskyCaps /\ t \in Keys(req[c].cap)
                      /\ grants'[t] = grants[t] - 1
                      /\ \A n \in Narrower(t, req[c].cap) : grants[n] = 0
                   \/ req[c].cap \in OperatorCaps /\ req[c].token = boot ]_vars

=============================================================================
