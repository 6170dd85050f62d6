------------------------- MODULE SyscallGateProofs -------------------------
(* Proofs about SyscallGate, for every set of lines, capabilities, modes,  *)
(* use counts and any number of boots.                                     *)
EXTENDS SyscallGate, TLAPS

(* The key permitKey returns for a risky call is a target with uses left.  *)
LEMMA PermitKeyIsLive ==
    ASSUME NEW cap \in RiskyCaps, permitKey(cap) # NoKey
    PROVE  /\ permitKey(cap) \in Targets
           /\ permitKey(cap) \in Keys(cap)
           /\ grants[permitKey(cap)] # 0
BY DEF permitKey, Targets, Risk, Live, Keys, RiskyCaps

(* A call that names a grant is risky, allowed by it, and the grant live.  *)
LEMMA GrantKeyIsLive ==
    ASSUME NEW cap, grantKey(cap) # NoKey
    PROVE  /\ cap \in RiskyCaps /\ grantKey(cap) \in Targets
           /\ grantKey(cap) = permitKey(cap)
           /\ grantKey(cap) \in Keys(cap) /\ grants[grantKey(cap)] # 0
BY PermitKeyIsLive DEF grantKey

(* No target is named like the null key.                                   *)
LEMMA NoKeyIsNoTarget == NoKey \notin Targets
BY NamesAssumption DEF NoKey, Targets, RiskyCaps

(* An unused line holds a request of the right shape.                      *)
LEMMA BlankIsRequest == Blank \in Requests
BY DEF Blank, Requests

(* What clients send are requests.                                         *)
LEMMA SendableAreRequests ==
    ASSUME boot \in Nat \ {0}, NEW r \in Sendable
    PROVE  r \in Requests
<1>1. boot - 1 \in Nat /\ boot \in Nat /\ 0 \in Nat  OBVIOUS
<1>2. CASE r \in [cap : ReadCaps \cup RiskyCaps \cup {"unknown", "malformed"},
                  good : BOOLEAN, token : {0}, target : {NoTarget}, uses : {1}]
  BY <1>1, <1>2 DEF Requests, Caps
<1>3. CASE r \in [cap : {"sys.grant"}, good : {TRUE}, token : {boot - 1, boot},
                  target : Targets, uses : UseCounts]
  BY <1>1, <1>3 DEF Requests, Caps, OperatorCaps
<1>4. CASE r \in [cap : {"sys.revoke"}, good : {TRUE}, token : {boot - 1, boot},
                  target : Targets \cup {NoTarget}, uses : {1}]
  BY <1>1, <1>4 DEF Requests, Caps, OperatorCaps
<1> QED BY <1>2, <1>3, <1>4 DEF Sendable

(* The `uses` of a request is an integer.                                  *)
LEMMA UsesAreInts == ASSUME NEW r \in Requests PROVE r.uses \in Int
<1>1. r.uses \in UseCounts \cup {1}  BY DEF Requests
<1>2. UseCounts \cup {1} \subseteq Int  BY BoundsAssumption
<1> QED BY <1>1, <1>2

(* Spending a use stays within the values a grant can have.                *)
LEMMA SpentType == ASSUME NEW n \in GrantValues, n # 0 PROVE Spent(n) \in GrantValues
BY DEF Spent, GrantValues, Unlimited

(* Likewise for topping up.                                                *)
LEMMA ToppedType ==
    ASSUME NEW n \in GrantValues, NEW u \in Int PROVE Topped(n, u) \in GrantValues
BY DEF Topped, GrantValues, Unlimited

(* The type invariant, with the fact that a running kernel has booted.     *)
BootedOK == TypeOK /\ (up => boot # 0)

(* The kernel starts within the types.                                     *)
LEMMA InitType == Init => BootedOK
<1> SUFFICES ASSUME Init PROVE BootedOK  OBVIOUS
<1>1. 0 \in GrantValues /\ 0 \in Nat  BY DEF GrantValues
<1>2. req \in [Calls -> Requests]  BY BlankIsRequest DEF Init
<1>3. mode \in {"permissive", "guarded", "paranoid"}
  BY BoundsAssumption DEF Init
<1>4. up = FALSE /\ boot = 0 /\ vouched = {}  BY DEF Init
<1> QED BY <1>1, <1>2, <1>3, <1>4 DEF Init, BootedOK, TypeOK, Stages

(* Every step of client, kernel and audit writer stays within them.        *)
LEMMA NextType == BootedOK /\ [Next]_vars => BootedOK'
<1> SUFFICES ASSUME BootedOK, [Next]_vars PROVE BootedOK'  OBVIOUS
<1> USE DEF BootedOK, TypeOK, Stages
<1>1. CASE Boot
  BY <1>1, BoundsAssumption DEF Boot, ledger, trail
<1>2. CASE Halt
  <2>1. 0 \in GrantValues  BY DEF GrantValues
  <2>2. req' \in [Calls -> Requests]  BY <1>2, BlankIsRequest DEF Halt
  <2>3. /\ grants' \in [Targets -> GrantValues]
        /\ issued' \in [Targets -> GrantValues]
        /\ ran' \in [Targets -> Nat]
    BY <1>2, <2>1 DEF Halt, ForgetLedger
  <2>4. pc' \in [Calls -> Stages]  BY <1>2 DEF Halt
  <2>5. queued' \in [Calls -> Nat] /\ past' \subseteq Calls
    BY <1>2 DEF Halt
  <2>6. key' \in [Calls -> Targets \cup {NoKey}]  BY <1>2 DEF Halt
  <2>7. /\ up' = FALSE /\ vouched' = {}
        /\ boot' = boot /\ mode' = mode /\ logged' = logged /\ failed' = failed
    BY <1>2 DEF Halt
  <2> QED BY <2>2, <2>3, <2>4, <2>5, <2>6, <2>7
<1>3. ASSUME NEW c \in Calls, NEW r \in Sendable, Send(c, r) PROVE BootedOK'
  <2>1. r \in Requests  BY <1>3, SendableAreRequests DEF Send
  <2>2. vouched' \subseteq Targets
    BY <1>3 DEF Send, Vouches, Sendable
  <2> QED BY <1>3, <2>1, <2>2 DEF Send, ledger, trail
<1>4. ASSUME NEW c \in Calls, RejectLine(c) PROVE BootedOK'
  BY <1>4, BlankIsRequest DEF RejectLine, Reply, ledger, trail
<1>5. ASSUME NEW c \in Calls, Refuse(c) PROVE BootedOK'
  BY <1>5, BlankIsRequest DEF Refuse, Reply, audit, ledger
<1>6. ASSUME NEW c \in Calls, StartOrdinary(c) PROVE BootedOK'
  <2> DEFINE k == grantKey(req[c].cap)
  <2>1. k = NoKey \/ (k \in Targets /\ Spent(grants[k]) \in GrantValues)
    BY GrantKeyIsLive, SpentType
  <2>2. grants' \in [Targets -> GrantValues] /\ ran' \in [Targets -> Nat]
    BY <1>6, <2>1 DEF StartOrdinary, consume
  <2> QED BY <1>6, <2>1, <2>2 DEF StartOrdinary, Starting, trail
<1>7. ASSUME NEW c \in Calls, StartGrant(c) PROVE BootedOK'
  <2>1. req[c].uses \in Int  BY UsesAreInts
  <2>2. \A n \in GrantValues : Topped(n, req[c].uses) \in GrantValues
    BY <2>1, ToppedType
  <2>3. grants' \in [Targets -> GrantValues] /\ issued' \in [Targets -> GrantValues]
    <3>1. CASE TokenOK(req[c])
      <4>1. /\ grants' = [grants EXCEPT ![req[c].target] =
                                     Topped(grants[req[c].target], req[c].uses)]
            /\ issued' = [issued EXCEPT ![req[c].target] =
                                     Topped(issued[req[c].target], req[c].uses)]
        BY <1>7, <3>1 DEF StartGrant, Topped
      <4> QED BY <2>2, <4>1
    <3>2. CASE ~TokenOK(req[c])
      BY <1>7, <3>2 DEF StartGrant
    <3> QED BY <3>1, <3>2
  <2> QED BY <1>7, <2>3 DEF StartGrant, Starting, trail
<1>8. ASSUME NEW c \in Calls, StartRevoke(c) PROVE BootedOK'
  BY <1>8 DEF StartRevoke, Starting, trail, GrantValues
<1>9. ASSUME NEW c \in Calls, Finish(c) PROVE BootedOK'
  BY <1>9, BlankIsRequest DEF Finish, Reply, audit, ledger
<1>10. ASSUME NEW c \in Calls, AuditWrite(c) PROVE BootedOK'
  BY <1>10 DEF AuditWrite, ledger
<1>11. CASE UNCHANGED vars  BY <1>11 DEF vars
<1> QED
  BY <1>1, <1>2, <1>3, <1>4, <1>5, <1>6, <1>7, <1>8, <1>9, <1>10, <1>11
     DEF Next, Handle

(* Every variable of the gate keeps its type.                              *)
THEOREM TypeCorrect == Spec => []TypeOK
<1>1. Spec => []BootedOK  BY InitType, NextType, PTL DEF Spec
<1> QED BY <1>1, PTL DEF BootedOK

----------------------------------------------------------------------------
(* The ledger.                                                             *)

(* The empty ledger balances.                                              *)
LEMMA InitLedger == Init => LedgerBalances
BY DEF Init, LedgerBalances, Unlimited

(* Every step keeps the ledger balanced.                                   *)
LEMMA NextLedger == BootedOK /\ LedgerBalances /\ [Next]_vars => LedgerBalances'
<1> SUFFICES ASSUME BootedOK, LedgerBalances, [Next]_vars PROVE LedgerBalances'
  OBVIOUS
<1>t. /\ grants \in [Targets -> GrantValues] /\ issued \in [Targets -> GrantValues]
      /\ ran \in [Targets -> Nat] /\ req \in [Calls -> Requests]
  BY DEF BootedOK, TypeOK
<1>1. ASSUME UNCHANGED ledger PROVE LedgerBalances'
  BY <1>1 DEF ledger, LedgerBalances
<1>2. CASE Halt
  BY <1>2 DEF Halt, ForgetLedger, LedgerBalances, Unlimited
<1>3. ASSUME NEW c \in Calls, StartOrdinary(c) PROVE LedgerBalances'
  <2> DEFINE k == grantKey(req[c].cap)
  <2>1. CASE k = NoKey
    BY <1>1, <1>3, <2>1 DEF StartOrdinary, consume, ledger
  <2>2. CASE k # NoKey
    <3>1. k \in Targets /\ grants[k] # 0  BY <2>2, GrantKeyIsLive
    <3>2. /\ grants' = [grants EXCEPT ![k] = Spent(grants[k])]
          /\ ran' = [ran EXCEPT ![k] = ran[k] + 1] /\ issued' = issued
      BY <1>3, <2>2 DEF StartOrdinary, consume
    <3>3. ASSUME NEW t \in Targets, t # k
          PROVE  grants'[t] = grants[t] /\ ran'[t] = ran[t]
      BY <1>t, <3>2, <3>3
    <3>4. grants'[k] = Spent(grants[k]) /\ ran'[k] = ran[k] + 1
      BY <1>t, <3>1, <3>2
    <3> HIDE DEF k
    <3> QED BY <1>t, <3>1, <3>2, <3>3, <3>4
            DEF LedgerBalances, Spent, Unlimited, GrantValues
  <2> QED BY <2>1, <2>2
<1>4. ASSUME NEW c \in Calls, StartGrant(c) PROVE LedgerBalances'
  <2> DEFINE t == req[c].target  u == req[c].uses
  <2>1. CASE ~TokenOK(req[c])
    BY <1>1, <1>4, <2>1 DEF StartGrant, ledger
  <2>2. CASE TokenOK(req[c])
    <3>1. /\ grants' = [grants EXCEPT ![t] = Topped(grants[t], u)]
          /\ issued' = [issued EXCEPT ![t] = Topped(issued[t], u)]
          /\ ran' = ran
      BY <1>4, <2>2 DEF StartGrant, Topped
    <3>2. u \in Int  BY <1>t, UsesAreInts
    <3>3. ASSUME NEW s \in Targets, s # t
          PROVE  grants'[s] = grants[s] /\ issued'[s] = issued[s]
      BY <1>t, <3>1, <3>3
    <3>4. t \in Targets => /\ grants'[t] = Topped(grants[t], u)
                          /\ issued'[t] = Topped(issued[t], u)
      BY <1>t, <3>1
    <3> HIDE DEF t, u
    <3> QED BY <1>t, <3>1, <3>2, <3>3, <3>4
            DEF LedgerBalances, Topped, Unlimited, GrantValues
  <2> QED BY <2>1, <2>2
<1>5. ASSUME NEW c \in Calls, StartRevoke(c) PROVE LedgerBalances'
  BY <1>5, <1>t DEF StartRevoke, LedgerBalances, Unlimited
<1>6. ASSUME NEW c \in Calls, NEW r \in Sendable, Send(c, r)
      PROVE  UNCHANGED ledger
  BY <1>6 DEF Send, ledger
<1>7. ASSUME NEW c \in Calls, RejectLine(c) \/ Refuse(c) \/ Finish(c) \/ AuditWrite(c)
      PROVE  UNCHANGED ledger
  BY <1>7 DEF RejectLine, Refuse, Finish, AuditWrite, ledger
<1>8. CASE Boot  BY <1>1, <1>8 DEF Boot, ledger
<1>9. CASE UNCHANGED vars  BY <1>1, <1>9 DEF vars, ledger
<1> QED BY <1>1, <1>2, <1>3, <1>4, <1>5, <1>6, <1>7, <1>8, <1>9 DEF Next, Handle

(* For every number of clients and any interleaving, uses spent plus uses  *)
(* left equal uses issued: one grant never lets more calls run than the    *)
(* operator authorised.                                                    *)
THEOREM LedgerCorrect == Spec => []LedgerBalances
<1>1. Spec => []BootedOK  BY InitType, NextType, PTL DEF Spec
<1> QED BY <1>1, InitLedger, NextLedger, PTL DEF Spec

----------------------------------------------------------------------------
(* The audit trail.                                                        *)

(* Nothing is answered and nothing audited at first.                       *)
LEMMA InitAudit == Init => SettledIsAudited
<1> SUFFICES ASSUME Init, NEW c \in Calls
             PROVE  /\ queued[c] + logged[c] <= 1
                    /\ queued[c] + logged[c] # 1
                    /\ pc[c] \notin Settled
  BY DEF SettledIsAudited
<1>1. queued[c] = 0 /\ logged[c] = 0 /\ pc[c] = "idle"  BY DEF Init
<1> QED BY <1>1 DEF Settled

(* A reply that is audited keeps the trail exact.                          *)
LEMMA AuditedReply ==
    ASSUME BootedOK, SettledIsAudited, NEW c \in Calls,
           NEW stage \in Settled, past' = past,
           pc[c] \in {"sent", "running"}, Reply(c, stage), audit(c)
    PROVE  SettledIsAudited'
<1>t. /\ pc \in [Calls -> Stages] /\ queued \in [Calls -> Nat]
      /\ logged \in [Calls -> Nat]
  BY DEF BootedOK, TypeOK
<1>1. /\ pc'[c] = stage /\ queued'[c] = queued[c] + 1
      /\ logged' = logged /\ failed' = failed
  BY <1>t DEF Reply, audit
<1>2. ASSUME NEW d \in Calls, d # c
      PROVE  pc'[d] = pc[d] /\ queued'[d] = queued[d]
  BY <1>t, <1>2 DEF Reply, audit
<1>3. queued[c] + logged[c] = 0
  BY <1>t DEF SettledIsAudited, Settled
<1>4. queued'[c] + logged'[c] = 1  BY <1>t, <1>1, <1>3
<1> QED BY <1>1, <1>2, <1>4 DEF SettledIsAudited

(* Every step adds a record exactly where it adds an answer.               *)
LEMMA NextAudit == BootedOK /\ SettledIsAudited /\ [Next]_vars => SettledIsAudited'
<1> SUFFICES ASSUME BootedOK, SettledIsAudited, [Next]_vars
             PROVE  SettledIsAudited'
  OBVIOUS
<1>t. /\ pc \in [Calls -> Stages] /\ queued \in [Calls -> Nat]
      /\ logged \in [Calls -> Nat]
  BY DEF BootedOK, TypeOK
<1> USE DEF SettledIsAudited, Settled
<1>1. CASE Boot  BY <1>1 DEF Boot, trail
<1>2. CASE Halt
  <2>1. ASSUME NEW c \in Calls
        PROVE  queued'[c] + logged'[c] = logged[c] /\ logged[c] <= queued[c] + logged[c]
    BY <1>2, <1>t DEF Halt
  <2>2. ASSUME NEW c \in Calls
        PROVE  /\ pc'[c] \in Settled <=> pc[c] \in Settled
               /\ pc[c] \in Settled => c \in past'
    BY <1>2 DEF Halt
  <2>3. ASSUME NEW c \in Calls
        PROVE  logged[c] <= 1 /\ (logged[c] = 1 => pc[c] \in Settled)
    BY <1>t
  <2> QED BY <2>1, <2>2, <2>3
<1>3. ASSUME NEW c \in Calls, NEW r \in Sendable, Send(c, r) PROVE SettledIsAudited'
  BY <1>3, <1>t DEF Send, trail
<1>4. ASSUME NEW c \in Calls, RejectLine(c) PROVE SettledIsAudited'
  BY <1>4, <1>t DEF RejectLine, Reply, trail
<1>5. ASSUME NEW c \in Calls, Refuse(c) PROVE SettledIsAudited'
  BY <1>5, AuditedReply DEF Refuse
<1>6. ASSUME NEW c \in Calls, Starting(c) PROVE SettledIsAudited'
  BY <1>6, <1>t DEF Starting, trail
<1>7. ASSUME NEW c \in Calls, Finish(c) PROVE SettledIsAudited'
  BY <1>7, AuditedReply DEF Finish
<1>8. ASSUME NEW c \in Calls, AuditWrite(c) PROVE SettledIsAudited'
  <2>1. ASSUME NEW d \in Calls, d # c
        PROVE  queued'[d] = queued[d] /\ logged'[d] = logged[d]
    BY <1>8, <1>t, <2>1 DEF AuditWrite
  <2>2. \/ queued'[c] + logged'[c] = queued[c] + logged[c] /\ failed' = failed
        \/ queued'[c] + logged'[c] < queued[c] + logged[c] /\ failed' = failed \cup {c}
    BY <1>8, <1>t DEF AuditWrite
  <2>3. pc' = pc /\ past' = past  BY <1>8 DEF AuditWrite
  <2>4. queued'[c] + logged'[c] \in Nat  BY <1>8, <1>t DEF AuditWrite
  <2> QED BY <1>t, <2>1, <2>2, <2>3, <2>4
<1>9. CASE UNCHANGED vars  BY <1>9 DEF vars
<1> QED BY <1>1, <1>2, <1>3, <1>4, <1>5, <1>6, <1>7, <1>8, <1>9
        DEF Next, Handle, StartOrdinary, StartGrant, StartRevoke

(* Through any interleaving of clients, sequence of shutdowns and reboots  *)
(* and failing appends, no call is recorded twice, none that the bus did   *)
(* not settle is recorded, and of the calls the running kernel settled     *)
(* only those whose own append failed are missing.                         *)
THEOREM AuditCorrect == Spec => []SettledIsAudited
<1>1. Spec => []BootedOK  BY InitType, NextType, PTL DEF Spec
<1> QED BY <1>1, InitAudit, NextAudit, PTL DEF Spec

----------------------------------------------------------------------------
(* Authority.                                                              *)

(***************************************************************************)
(* RiskyRunIsVouched is not inductive: a call is let through by a grant,   *)
(* so every live grant must already be vouched for, and so must every      *)
(* grant request that is still waiting with the current token; and a       *)
(* kernel that is down holds no call, so that a boot may change the token  *)
(* and the mode.                                                           *)
(***************************************************************************)
AuthorityInv ==
    /\ ~up => \A c \in Calls : pc[c] \notin {"sent", "running"}
    /\ \A t \in Targets : grants[t] # 0 => t \in vouched
    /\ \A c \in Calls : pc[c] = "sent" /\ Vouches(req[c]) => req[c].target \in vouched
    /\ RiskyRunIsVouched

(* At first nothing runs and nothing is granted.                           *)
LEMMA InitAuthority == Init => AuthorityInv
BY DEF Init, AuthorityInv, RiskyRunIsVouched, RunningRisky

(* No step lets a risky call through that nobody vouched for.              *)
LEMMA NextAuthority == BootedOK /\ AuthorityInv /\ [Next]_vars => AuthorityInv'
<1> SUFFICES ASSUME BootedOK, AuthorityInv, [Next]_vars PROVE AuthorityInv'
  OBVIOUS
<1>t. /\ pc \in [Calls -> Stages] /\ req \in [Calls -> Requests]
      /\ key \in [Calls -> Targets \cup {NoKey}]
      /\ grants \in [Targets -> GrantValues]
      /\ mode \in {"permissive", "guarded", "paranoid"}
  BY DEF BootedOK, TypeOK
<1> USE DEF AuthorityInv, RiskyRunIsVouched, RunningRisky
<1>1. CASE Boot
  BY <1>1 DEF Boot, ledger
<1>2. CASE Halt
  <2>1. up' = FALSE /\ \A c \in Calls : pc'[c] \notin {"sent", "running"}
    BY <1>2 DEF Halt
  <2>2. \A t \in Targets : grants'[t] = 0  BY <1>2 DEF Halt, ForgetLedger
  <2> QED BY <2>1, <2>2
<1>3. ASSUME NEW c \in Calls, NEW r \in Sendable, Send(c, r) PROVE AuthorityInv'
  BY <1>3, <1>t DEF Send, Vouches, ledger
<1>4. ASSUME NEW c \in Calls, NEW stage \in {"rejected", "refused", "answered"},
             Reply(c, stage), UNCHANGED <<up, boot, mode, grants, vouched>>
      PROVE  AuthorityInv'
  <2>1. ASSUME NEW d \in Calls, d # c
        PROVE  pc'[d] = pc[d] /\ req'[d] = req[d] /\ key'[d] = key[d]
    BY <1>4, <1>t, <2>1 DEF Reply
  <2>2. pc'[c] = stage  BY <1>4, <1>t DEF Reply
  <2>3. pc'[c] \notin {"sent", "running"}  BY <2>2, <1>4
  <2> QED BY <1>4, <2>1, <2>3 DEF Vouches
<1>5. ASSUME NEW c \in Calls, Starting(c)
      PROVE  /\ \A d \in Calls : d # c => pc'[d] = pc[d]
             /\ pc'[c] = "running" /\ allow(req[c].cap) /\ up
             /\ UNCHANGED <<up, boot, mode, req, vouched>>
  BY <1>5, <1>t DEF Starting, Verdict
<1>6. ASSUME NEW c \in Calls, StartOrdinary(c) PROVE AuthorityInv'
  <2> DEFINE cap == req[c].cap  k == grantKey(cap)
  <2>0. Starting(c)  BY <1>6 DEF StartOrdinary
  <2>1. \A d \in Calls : d # c => key'[d] = key[d]
    BY <1>6, <1>t DEF StartOrdinary
  <2>2. key'[c] = k  BY <1>6, <1>t DEF StartOrdinary
  <2>3. cap \in RiskyCaps => mode # "paranoid" /\ (mode = "guarded" => k # NoKey)
    BY <1>5, <2>0 DEF allow, grantKey
  <2>4. k # NoKey => k \in Targets /\ grants[k] # 0  BY GrantKeyIsLive
  <2>5. cap \in RiskyCaps /\ mode = "guarded" => key'[c] \in vouched
    BY <2>2, <2>3, <2>4
  <2>6. \A t \in Targets : grants'[t] # 0 => grants[t] # 0
    BY <1>6, <1>t, <2>4 DEF StartOrdinary, consume, Spent
  <2> HIDE DEF cap, k
  <2>7. req[c].cap \in RiskyCaps =>
           mode # "paranoid" /\ (mode = "guarded" => key'[c] \in vouched)
    BY <2>3, <2>5 DEF cap
  <2> QED BY <1>5, <2>0, <2>1, <2>6, <2>7 DEF Vouches
<1>7. ASSUME NEW c \in Calls, StartGrant(c) PROVE AuthorityInv'
  <2>0. Starting(c) /\ key' = key /\ pc[c] = "sent" /\ req[c].cap = "sys.grant"
    BY <1>7 DEF StartGrant, Starting
  <2>1. req[c].cap \notin RiskyCaps
    BY <2>0, NamesAssumption DEF OperatorCaps, RiskyCaps
  <2>2. \A t \in Targets : grants'[t] # grants[t] => t = req[c].target /\ TokenOK(req[c])
    BY <1>7, <1>t DEF StartGrant
  <2>3. \A t \in Targets : grants'[t] # 0 => t \in vouched
    BY <2>0, <2>2 DEF Vouches, TokenOK
  <2> QED BY <1>5, <2>0, <2>1, <2>3 DEF Vouches
<1>8. ASSUME NEW c \in Calls, StartRevoke(c) PROVE AuthorityInv'
  <2>0. Starting(c) /\ key' = key /\ req[c].cap = "sys.revoke"
    BY <1>8 DEF StartRevoke
  <2>1. req[c].cap \notin RiskyCaps
    BY <2>0, NamesAssumption DEF OperatorCaps, RiskyCaps
  <2>2. \A t \in Targets : grants'[t] # 0 => grants[t] # 0
    BY <1>8 DEF StartRevoke
  <2> QED BY <1>5, <2>0, <2>1, <2>2 DEF Vouches
<1>9. ASSUME NEW c \in Calls, AuditWrite(c) PROVE AuthorityInv'
  BY <1>9 DEF AuditWrite, ledger, Vouches
<1>10. CASE UNCHANGED vars  BY <1>10 DEF vars, Vouches
<1>11. ASSUME NEW c \in Calls, RejectLine(c) \/ Refuse(c) \/ Finish(c)
       PROVE  AuthorityInv'
  BY <1>4, <1>11 DEF RejectLine, Refuse, Finish, ledger
<1> QED BY <1>1, <1>2, <1>3, <1>6, <1>7, <1>8, <1>9, <1>10, <1>11
        DEF Next, Handle

(* Every write or exec handler that runs under guarded mode was let        *)
(* through by a grant requested with the token of the running boot, and    *)
(* none runs under paranoid mode.                                          *)
THEOREM AuthorityCorrect == Spec => []RiskyRunIsVouched
<1>1. Spec => []BootedOK  BY InitType, NextType, PTL DEF Spec
<1>2. AuthorityInv => RiskyRunIsVouched  BY DEF AuthorityInv
<1> QED BY <1>1, <1>2, InitAuthority, NextAuthority, PTL DEF Spec
----------------------------------------------------------------------------
(* What a step may do to the ledger.                                       *)

(* The call that accounts for a change of the grant of t.                  *)
Cause(t, c) ==
    /\ Started(c)
    /\ \/ /\ req[c].cap \in RiskyCaps /\ t \in Keys(req[c].cap)
          /\ grants'[t] = grants[t] - 1
          /\ \A n \in Narrower(t, req[c].cap) : grants[n] = 0
       \/ req[c].cap \in OperatorCaps /\ req[c].token = boot

ChangesAreCaused ==
    up /\ up' => \A t \in Targets : grants'[t] # grants[t] => \E c \in Calls : Cause(t, c)

(* permitKey() returns a grant only when every narrower one is used up.    *)
LEMMA PermitKeyIsNarrowest ==
    ASSUME NEW cap \in RiskyCaps, permitKey(cap) # NoKey
    PROVE  \A n \in Narrower(permitKey(cap), cap) : grants[n] = 0
<1>1. cap \notin {"write", "exec", "all"}
  BY NamesAssumption
<1>2. Risk(cap) \in {"write", "exec"}
  BY DEF Risk, RiskyCaps
<1>3. cap # Risk(cap) /\ cap # "all" /\ Risk(cap) # "all"
  BY <1>1, <1>2
<1> QED BY <1>3 DEF permitKey, Narrower, Live

(* Only a call that starts changes a grant within a boot, and then for its *)
(* own reason.                                                             *)
LEMMA NextCaused == BootedOK /\ [Next]_vars => ChangesAreCaused
<1> SUFFICES ASSUME BootedOK, [Next]_vars, up, up',
                    NEW t \in Targets, grants'[t] # grants[t]
             PROVE  \E c \in Calls : Cause(t, c)
  BY DEF ChangesAreCaused
<1>t. /\ grants \in [Targets -> GrantValues] /\ pc \in [Calls -> Stages]
  BY DEF BootedOK, TypeOK
<1>1. ASSUME NEW c \in Calls, Starting(c)  PROVE Started(c)
  BY <1>t, <1>1 DEF Starting, Started
<1>2. ASSUME NEW c \in Calls, StartOrdinary(c)  PROVE Cause(t, c)
  <2> DEFINE cap == req[c].cap  k == grantKey(cap)
  <2>1. k # NoKey /\ grants' = [grants EXCEPT ![k] = Spent(grants[k])]
    BY <1>2 DEF StartOrdinary, consume
  <2>2. cap \in RiskyCaps /\ k \in Targets /\ k = permitKey(cap) /\ k \in Keys(cap)
    BY <2>1, GrantKeyIsLive
  <2>3. t = k /\ grants'[t] = Spent(grants[t])
    BY <1>t, <2>1, <2>2
  <2>4. grants'[t] = grants[t] - 1
    BY <2>3 DEF Spent
  <2>5. \A n \in Narrower(t, cap) : grants[n] = 0
    BY <2>1, <2>2, <2>3, PermitKeyIsNarrowest
  <2>6. Started(c)
    BY <1>1, <1>2 DEF StartOrdinary
  <2> QED BY <2>2, <2>3, <2>4, <2>5, <2>6 DEF Cause
<1>3. ASSUME NEW c \in Calls, StartGrant(c)  PROVE Cause(t, c)
  <2>1. TokenOK(req[c]) /\ req[c].cap = "sys.grant" /\ Starting(c)
    BY <1>3 DEF StartGrant
  <2> QED BY <1>1, <2>1 DEF Cause, TokenOK, OperatorCaps
<1>4. ASSUME NEW c \in Calls, StartRevoke(c)  PROVE Cause(t, c)
  <2>1. TokenOK(req[c])
    BY <1>4 DEF StartRevoke
  <2>2. req[c].cap = "sys.revoke" /\ Starting(c)
    BY <1>4 DEF StartRevoke
  <2> QED BY <1>1, <2>1, <2>2 DEF Cause, TokenOK, OperatorCaps
<1>5. ~Boot /\ ~Halt
  BY DEF Boot, Halt
<1>6. ASSUME NEW c \in Calls,
             \/ RejectLine(c) \/ Refuse(c) \/ Finish(c) \/ AuditWrite(c)
             \/ \E r \in Sendable : Send(c, r)
      PROVE  FALSE
  BY <1>6 DEF RejectLine, Refuse, Finish, AuditWrite, Send, ledger
<1>7. ~UNCHANGED vars
  BY DEF vars
<1> QED BY <1>2, <1>3, <1>4, <1>5, <1>6, <1>7 DEF Next, Handle

(* Within a boot a grant is spent only by a risky call it covers, with no  *)
(* narrower grant left, and otherwise changed only by an operator call     *)
(* with the current token: never by a refused or a finishing call.         *)
THEOREM CauseCorrect == Spec => LedgerChangeHasCause
<1>1. Spec => []BootedOK  BY InitType, NextType, PTL DEF Spec
<1>2. BootedOK /\ [Next]_vars => [ChangesAreCaused]_vars
  BY NextCaused
<1>3. [ChangesAreCaused]_vars =>
        [ up /\ up' =>
          \A t \in Targets : grants'[t] # grants[t] =>
            \E c \in Calls :
                /\ Started(c)
                /\ \/ /\ req[c].cap \in RiskyCaps /\ t \in Keys(req[c].cap)
                      /\ grants'[t] = grants[t] - 1
                      /\ \A n \in Narrower(t, req[c].cap) : grants[n] = 0
                   \/ req[c].cap \in OperatorCaps /\ req[c].token = boot ]_vars
  BY DEF ChangesAreCaused, Cause
<1> QED BY <1>1, <1>2, <1>3, PTL DEF Spec, LedgerChangeHasCause
=============================================================================
