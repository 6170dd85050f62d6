----------------------------- MODULE MindProofs -----------------------------
(***************************************************************************)
(* What the operator's approvals are worth, and what the providers are     *)
(* told of a conversation: proved for every set of capabilities, every     *)
(* number of calls, turns and boots, and every mix of other clients.       *)
(***************************************************************************)
EXTENDS Mind, SequenceTheorems, WellFoundedInduction, TLAPS

ApprovalTypes ==
    /\ grants \in [RiskyCaps -> Nat] /\ ran \in [RiskyCaps -> Nat]
    /\ yes \in [RiskyCaps -> Nat] /\ issued \in [RiskyCaps -> Nat]
    /\ pending \in Seq(ToolCall)
    /\ phase \in {"idle", "chat", "tool", "ask", "grant", "call"}

(* A call is at hand while one is carried out, and only risky ones are     *)
(* asked about and granted.                                                *)
AtHand ==
    /\ phase \in {"tool", "ask", "grant", "call"} => pending # <<>>
    /\ phase \in {"ask", "grant"} => Current.cap \in RiskyCaps

(* A yes whose grant has not been asked for yet.                           *)
Owed(c) == IF phase = "grant" /\ Current.cap = c THEN 1 ELSE 0

(* Every grant is used at most once, and was paid for by a yes of its own  *)
(* unless one of them was an "always".                                     *)
Accounts ==
    \A c \in RiskyCaps :
        /\ mode # "permissive" => ran[c] + grants[c] <= issued[c]
        /\ c \notin always => issued[c] + Owed(c) <= yes[c]
        /\ c \in always => yes[c] > 0

ApprovalInv == ApprovalTypes /\ AtHand /\ Accounts

----------------------------------------------------------------------------
(* The steps the handlers share.                                           *)

(* The call at hand is one the model may wish for.                         *)
LEMMA CurrentType ==
  ASSUME ApprovalTypes, pending # <<>>
  PROVE  /\ Head(pending) \in ToolCall
         /\ Current \in Wishes
         /\ Current.cap \in ReadCaps \cup RiskyCaps \cup {"unknown"}
<1>1. Head(pending) \in ToolCall
  BY DEF ApprovalTypes
<1>2. Current \in Wishes
  BY <1>1 DEF Current, ToolCall
<1> QED BY <1>1, <1>2 DEF Wishes

(* With nothing owed afterwards, and nothing changed in the ledger or in   *)
(* what the shell knows, the accounts stay in order.                       *)
LEMMA AccountsKept ==
  ASSUME ApprovalTypes, Accounts, phase' # "grant",
         UNCHANGED <<mode, grants, ran, always, yes, issued>>
  PROVE  Accounts'
<1>1. ASSUME NEW c \in RiskyCaps
      PROVE  /\ mode' # "permissive" => ran'[c] + grants'[c] <= issued'[c]
             /\ c \notin always' => issued'[c] + Owed(c)' <= yes'[c]
             /\ c \in always' => yes'[c] > 0
  <2>1. Owed(c)' = 0 /\ Owed(c) \in {0, 1}
    BY DEF Owed
  <2>2. issued[c] \in Nat /\ yes[c] \in Nat
    BY DEF ApprovalTypes
  <2> QED BY <2>1, <2>2 DEF Accounts
<1> QED BY <1>1 DEF Accounts

(* After a result the next call is at hand or none is being carried out.   *)
LEMMA AnsweredFacts ==
  ASSUME ApprovalTypes, pending # <<>>, Answered
  PROVE  /\ pending' \in Seq(ToolCall)
         /\ phase' \in {"idle", "chat", "tool"}
         /\ AtHand'
<1>1. pending' = Tail(pending) /\ Tail(pending) \in Seq(ToolCall)
  BY DEF ApprovalTypes, Answered
<1>2. phase' \in {"idle", "chat", "tool"} /\ (phase' = "tool" => pending' # <<>>)
  BY DEF Answered
<1> QED BY <1>1, <1>2 DEF AtHand

(* An exception drops the calls that were left.                            *)
LEMMA RaisesFacts ==
  ASSUME Raises
  PROVE  pending' \in Seq(ToolCall) /\ phase' = "idle" /\ AtHand'
BY DEF Raises, AtHand

(* The gate starts a risky handler on a grant and spends it, unless the    *)
(* policy is permissive.                                                   *)
LEMMA DispatchFacts ==
  ASSUME ApprovalTypes, NEW c, NEW good, Dispatch(c, good),
         UNCHANGED <<mode, always, yes, issued>>, Accounts,
         \A d \in RiskyCaps : Owed(d)' = Owed(d) \/ Owed(d)' = 0
  PROVE  /\ grants' \in [RiskyCaps -> Nat] /\ ran' \in [RiskyCaps -> Nat]
         /\ Accounts'
<1> DEFINE Fair(d) == /\ mode' # "permissive" => ran'[d] + grants'[d] <= issued'[d]
                      /\ d \notin always' => issued'[d] + Owed(d)' <= yes'[d]
                      /\ d \in always' => yes'[d] > 0
<1>0. ASSUME NEW d \in RiskyCaps
      PROVE  /\ d \notin always' => issued'[d] + Owed(d)' <= yes'[d]
             /\ d \in always' => yes'[d] > 0
  <2>1. Owed(d) \in {0, 1} /\ issued[d] \in Nat /\ yes[d] \in Nat
    BY DEF Owed, ApprovalTypes
  <2> QED BY <2>1 DEF Accounts
<1>1. CASE UNCHANGED <<ran, grants>>
  <2>1. \A d \in RiskyCaps : Fair(d)
    BY <1>0, <1>1 DEF Accounts
  <2> QED BY <2>1, <1>1 DEF Accounts, ApprovalTypes
<1>2. CASE /\ c \in RiskyCaps /\ Allowed(c)
           /\ ran' = Plus(ran, c)
           /\ grants' = IF mode = "guarded" THEN Minus(grants, c) ELSE grants
  <2>1. ran' \in [RiskyCaps -> Nat] /\ ran'[c] = ran[c] + 1
        /\ \A d \in RiskyCaps \ {c} : ran'[d] = ran[d]
    BY <1>2 DEF ApprovalTypes, Plus
  <2>2. CASE mode # "guarded"
    <3>1. mode = "permissive"
      BY <1>2, <2>2, CapsAssumption DEF Allowed
    <3>2. \A d \in RiskyCaps : Fair(d)
      BY <3>1, <1>0
    <3> QED BY <3>2, <2>1, <1>2, <2>2 DEF Accounts, ApprovalTypes
  <2>3. CASE mode = "guarded"
    <3>1. grants[c] > 0 /\ grants' = Minus(grants, c)
      BY <1>2, <2>3, CapsAssumption DEF Allowed
    <3>2. grants' \in [RiskyCaps -> Nat] /\ grants'[c] = grants[c] - 1
          /\ \A d \in RiskyCaps \ {c} : grants'[d] = grants[d]
      BY <3>1, <1>2 DEF ApprovalTypes, Minus
    <3>3. ran'[c] + grants'[c] = ran[c] + grants[c]
      BY <1>2, <2>1, <3>2 DEF ApprovalTypes
    <3>4. ASSUME NEW d \in RiskyCaps
          PROVE  mode' # "permissive" => ran'[d] + grants'[d] <= issued'[d]
      BY <2>1, <3>2, <3>3 DEF Accounts
    <3>5. \A d \in RiskyCaps : Fair(d)
      BY <3>4, <1>0
    <3> QED BY <3>5, <2>1, <3>2 DEF Accounts
  <2> QED BY <2>2, <2>3
<1> QED BY <1>1, <1>2 DEF Dispatch

----------------------------------------------------------------------------
(* The invariant.                                                          *)

(* The shell starts with nothing approved, granted or run.                 *)
LEMMA InitApproval == Init => ApprovalInv
<1> SUFFICES ASSUME Init PROVE ApprovalInv
  OBVIOUS
<1>1. ApprovalTypes /\ AtHand
  BY DEF Init, ApprovalTypes, AtHand, None
<1>2. \A c \in RiskyCaps : ran[c] = 0 /\ grants[c] = 0 /\ issued[c] = 0 /\ yes[c] = 0
                           /\ Owed(c) = 0 /\ c \notin always
  BY DEF Init, None, Owed
<1> QED BY <1>1, <1>2 DEF ApprovalInv, Accounts

(* Each step keeps the accounts in order.                                  *)
LEMMA NextApproval == ApprovalInv /\ [Next]_vars => ApprovalInv'
<1> SUFFICES ASSUME ApprovalInv, [Next]_vars PROVE ApprovalInv'
  OBVIOUS
<1> USE DEF kernel, shell
<1>t. ApprovalTypes /\ AtHand /\ Accounts
  BY DEF ApprovalInv
<1>1. ASSUME UserSays PROVE ApprovalInv'
  <2>1. ApprovalTypes' /\ AtHand'
    BY <1>1, <1>t DEF UserSays, ApprovalTypes, AtHand
  <2>2. Accounts'
    BY <1>1, <1>t, AccountsKept DEF UserSays
  <2> QED BY <2>1, <2>2 DEF ApprovalInv
<1>2. ASSUME NEW n \in 0 .. MaxCalls, NEW wishes \in [1 .. n -> Wishes], Replies(wishes)
      PROVE ApprovalInv'
  <2>0. n \in Nat /\ MaxCalls \in Nat
    BY BoundsAssumption
  <2>1. Len(wishes) = n /\ wishes \in Seq(Wishes)
    BY <2>0
  <2>2. pending' = [k \in 1 .. n |-> [id |-> k, wish |-> wishes[k]]]
    BY <1>2, <2>1 DEF Replies
  <2>3. \A k \in 1 .. n : [id |-> k, wish |-> wishes[k]] \in ToolCall
    BY <2>0 DEF ToolCall
  <2>4. pending' \in Seq(ToolCall) /\ Len(pending') = n
    BY <2>0, <2>2, <2>3
  <2>5. phase' \in {"idle", "tool"} /\ (phase' = "tool" => n # 0)
    BY <1>2, <2>1 DEF Replies
  <2>6. AtHand'
    BY <2>4, <2>5 DEF AtHand
  <2>7. ApprovalTypes'
    BY <1>2, <1>t, <2>4, <2>5 DEF Replies, ApprovalTypes
  <2>8. Accounts'
    BY <1>2, <1>t, <2>5, AccountsKept DEF Replies
  <2> QED BY <2>6, <2>7, <2>8 DEF ApprovalInv
<1>3. ASSUME UnknownTool \/ Denies PROVE ApprovalInv'
  <2>1. pending # <<>> /\ Answered
    BY <1>3, <1>t DEF UnknownTool, Denies, AtHand
  <2>2. /\ pending' \in Seq(ToolCall) /\ phase' \in {"idle", "chat", "tool"} /\ AtHand'
    BY <2>1, <1>t, AnsweredFacts
  <2>3. UNCHANGED <<kernel, shell>>
    BY <1>3 DEF UnknownTool, Denies
  <2>4. ApprovalTypes'
    BY <2>2, <2>3, <1>t DEF ApprovalTypes
  <2>5. Accounts'
    BY <2>2, <2>3, <1>t, AccountsKept
  <2> QED BY <2>2, <2>4, <2>5 DEF ApprovalInv
<1>4. ASSUME BeginCall PROVE ApprovalInv'
  <2>1. /\ pending # <<>> /\ phase = "tool" /\ Current.cap # "unknown"
        /\ UNCHANGED <<kernel, shell, pending>>
    BY <1>4, <1>t DEF BeginCall, AtHand
  <2>2. Current' = Current
    BY <2>1 DEF Current
  <2>3. phase' \in {"ask", "grant", "call"}
        /\ (phase' \in {"ask", "grant"} => Current.cap \notin ReadCaps)
        /\ (phase' = "grant" => Current.cap \in always)
    BY <1>4 DEF BeginCall
  <2>4. phase' \in {"ask", "grant"} => Current.cap \in RiskyCaps
    BY <2>1, <2>3, <1>t, CurrentType
  <2>5. ApprovalTypes' /\ AtHand'
    BY <2>1, <2>2, <2>3, <2>4, <1>t DEF ApprovalTypes, AtHand
  <2>6. \A c \in RiskyCaps : c \notin always => Owed(c)' = 0 /\ Owed(c) = 0
    BY <2>1, <2>2, <2>3 DEF Owed
  <2>7. Accounts'
    BY <2>1, <2>6, <1>t DEF Accounts
  <2> QED BY <2>5, <2>7 DEF ApprovalInv
<1>5. ASSUME NEW ans \in {"y", "a"}, Approves(ans) PROVE ApprovalInv'
  <2> DEFINE c == Current.cap
  <2>1. /\ phase = "ask" /\ phase' = "grant" /\ UNCHANGED <<kernel, token, issued, pending>>
        /\ yes' = Plus(yes, c) /\ always' \in {always, always \cup {c}}
    BY <1>5 DEF Approves, alwaysAfter
  <2>2. c \in RiskyCaps /\ Current' = Current
    BY <2>1, <1>t DEF AtHand, Current
  <2>3. /\ yes' \in [RiskyCaps -> Nat] /\ yes'[c] = yes[c] + 1
        /\ \A d \in RiskyCaps \ {c} : yes'[d] = yes[d]
    BY <2>1, <2>2, <1>t DEF ApprovalTypes, Plus
  <2>4. ApprovalTypes'
    BY <2>1, <2>3, <1>t DEF ApprovalTypes
  <2>5. AtHand'
    BY <2>1, <2>2, <1>t DEF AtHand
  <2>6. ASSUME NEW d \in RiskyCaps
        PROVE  /\ d \notin always' => issued'[d] + Owed(d)' <= yes'[d]
               /\ d \in always' => yes'[d] > 0
    <3>1. issued[d] \in Nat /\ yes[d] \in Nat /\ issued'[d] = issued[d]
      BY <2>1, <1>t DEF ApprovalTypes
    <3>2. Owed(d) = 0 /\ Owed(d)' = (IF d = c THEN 1 ELSE 0)
      BY <2>1, <2>2 DEF Owed
    <3>3. /\ d \notin always => issued[d] <= yes[d]
          /\ d \in always => yes[d] > 0
      BY <3>1, <3>2, <1>t DEF Accounts
    <3>4. CASE d = c
      BY <2>1, <2>3, <3>1, <3>2, <3>3, <3>4
    <3>5. CASE d # c
      BY <2>1, <2>3, <3>1, <3>2, <3>3, <3>5
    <3> QED BY <3>4, <3>5
  <2>7. Accounts'
    BY <2>1, <2>6, <1>t DEF Accounts
  <2> QED BY <2>4, <2>5, <2>7 DEF ApprovalInv
<1>6. ASSUME Grants PROVE ApprovalInv'
  <2> DEFINE c == Current.cap
  <2>1. /\ phase = "grant" /\ phase' = "call"
        /\ UNCHANGED <<mode, ran, always, yes, pending>>
        /\ grants' = Plus(grants, c) /\ issued' = Plus(issued, c)
    BY <1>6 DEF Grants
  <2>2. c \in RiskyCaps /\ pending # <<>>
    BY <2>1, <1>t DEF AtHand
  <2>3. /\ grants' \in [RiskyCaps -> Nat] /\ grants'[c] = grants[c] + 1
        /\ \A d \in RiskyCaps \ {c} : grants'[d] = grants[d]
    BY <2>1, <2>2, <1>t DEF ApprovalTypes, Plus
  <2>4. /\ issued' \in [RiskyCaps -> Nat] /\ issued'[c] = issued[c] + 1
        /\ \A d \in RiskyCaps \ {c} : issued'[d] = issued[d]
    BY <2>1, <2>2, <1>t DEF ApprovalTypes, Plus
  <2>5. ApprovalTypes' /\ AtHand'
    BY <2>1, <2>2, <2>3, <2>4, <1>t DEF ApprovalTypes, AtHand
  <2>6. ASSUME NEW d \in RiskyCaps
        PROVE  /\ mode' # "permissive" => ran'[d] + grants'[d] <= issued'[d]
               /\ d \notin always' => issued'[d] + Owed(d)' <= yes'[d]
               /\ d \in always' => yes'[d] > 0
    <3>1. issued[d] \in Nat /\ yes[d] \in Nat /\ ran[d] \in Nat /\ grants[d] \in Nat
      BY <1>t DEF ApprovalTypes
    <3>2. Owed(d)' = 0 /\ Owed(d) = (IF d = c THEN 1 ELSE 0)
      BY <2>1 DEF Owed
    <3>3. /\ mode # "permissive" => ran[d] + grants[d] <= issued[d]
          /\ d \notin always => issued[d] + Owed(d) <= yes[d]
          /\ d \in always => yes[d] > 0
      BY <1>t DEF Accounts
    <3>4. CASE d = c
      BY <2>1, <2>3, <2>4, <3>1, <3>2, <3>3, <3>4
    <3>5. CASE d # c
      BY <2>1, <2>3, <2>4, <3>1, <3>2, <3>3, <3>5
    <3> QED BY <3>4, <3>5
  <2>7. Accounts'
    BY <2>6 DEF Accounts
  <2> QED BY <2>5, <2>7 DEF ApprovalInv
<1>7. ASSUME GrantFails \/ Interrupted PROVE ApprovalInv'
  <2>1. Raises /\ UNCHANGED <<kernel, shell>>
    BY <1>7 DEF GrantFails, Interrupted
  <2>2. pending' \in Seq(ToolCall) /\ phase' = "idle" /\ AtHand'
    BY <2>1, RaisesFacts
  <2>3. ApprovalTypes'
    BY <2>1, <2>2, <1>t DEF ApprovalTypes
  <2>4. Accounts'
    BY <2>1, <2>2, <1>t, AccountsKept
  <2> QED BY <2>2, <2>3, <2>4 DEF ApprovalInv
<1>8. ASSUME Calls PROVE ApprovalInv'
  <2>1. /\ pending # <<>> /\ Answered /\ Dispatch(Current.cap, Current.good)
        /\ UNCHANGED <<mode, always, yes, issued>>
    BY <1>8, <1>t DEF Calls, AtHand
  <2>2. pending' \in Seq(ToolCall) /\ phase' \in {"idle", "chat", "tool"} /\ AtHand'
    BY <2>1, <1>t, AnsweredFacts
  <2>3. \A d : Owed(d)' = 0
    BY <2>2 DEF Owed
  <2>4. grants' \in [RiskyCaps -> Nat] /\ ran' \in [RiskyCaps -> Nat] /\ Accounts'
    BY <2>1, <2>3, <1>t, DispatchFacts
  <2>5. ApprovalTypes'
    BY <2>1, <2>2, <2>4, <1>t DEF ApprovalTypes
  <2> QED BY <2>2, <2>4, <2>5 DEF ApprovalInv
<1>9. ASSUME CallCut PROVE ApprovalInv'
  <2>1. Raises /\ UNCHANGED <<mode, always, yes, issued>>
    BY <1>9 DEF CallCut
  <2>2. pending' \in Seq(ToolCall) /\ phase' = "idle" /\ AtHand'
    BY <2>1, RaisesFacts
  <2>3. \A d : Owed(d)' = 0
    BY <2>2 DEF Owed
  <2>4. CASE UNCHANGED kernel
    <3>1. Accounts'
      BY <2>1, <2>2, <2>4, <1>t, AccountsKept
    <3>2. ApprovalTypes'
      BY <2>1, <2>2, <2>4, <1>t DEF ApprovalTypes
    <3> QED BY <3>1, <3>2, <2>2 DEF ApprovalInv
  <2>5. CASE Dispatch(Current.cap, Current.good)
    <3>1. grants' \in [RiskyCaps -> Nat] /\ ran' \in [RiskyCaps -> Nat] /\ Accounts'
      BY <2>1, <2>3, <2>5, <1>t, DispatchFacts
    <3>2. ApprovalTypes'
      BY <2>1, <2>2, <3>1, <1>t DEF ApprovalTypes
    <3> QED BY <3>1, <3>2, <2>2 DEF ApprovalInv
  <2> QED BY <1>9, <2>4, <2>5 DEF CallCut
<1>10. ASSUME NEW c \in RiskyCaps, OtherCalls(c) PROVE ApprovalInv'
  <2>1. Dispatch(c, TRUE) /\ UNCHANGED <<mode, always, yes, issued, phase, pending>>
    BY <1>10 DEF OtherCalls, agent
  <2>2. Current' = Current
    BY <2>1 DEF Current
  <2>3. \A d : Owed(d)' = Owed(d)
    BY <2>1, <2>2 DEF Owed
  <2>4. AtHand'
    BY <2>1, <2>2, <1>t DEF AtHand
  <2>5. grants' \in [RiskyCaps -> Nat] /\ ran' \in [RiskyCaps -> Nat] /\ Accounts'
    BY <2>1, <2>3, <1>t, DispatchFacts
  <2>6. ApprovalTypes'
    BY <2>1, <2>5, <1>t DEF ApprovalTypes
  <2> QED BY <2>4, <2>5, <2>6 DEF ApprovalInv
<1>11. ASSUME KernelStops \/ KernelBoots \/ UNCHANGED vars PROVE ApprovalInv'
  <2>1. /\ UNCHANGED <<mode, ran, always, yes, issued, phase, pending>>
        /\ grants' \in {grants, None}
    BY <1>11 DEF KernelStops, KernelBoots, vars, agent
  <2>2. Current' = Current
    BY <2>1 DEF Current
  <2>3. \A d : Owed(d)' = Owed(d)
    BY <2>1, <2>2 DEF Owed
  <2>4. AtHand'
    BY <2>1, <2>2, <1>t DEF AtHand
  <2>5. grants' \in [RiskyCaps -> Nat] /\ \A d \in RiskyCaps : grants'[d] <= grants[d]
    BY <2>1, <1>t DEF ApprovalTypes, None
  <2>6. ApprovalTypes'
    BY <2>1, <2>5, <1>t DEF ApprovalTypes
  <2>7. ASSUME NEW d \in RiskyCaps, mode # "permissive"
        PROVE  ran[d] + grants'[d] <= issued[d]
    <3>1. /\ ran[d] \in Nat /\ grants[d] \in Nat /\ grants'[d] \in Nat /\ issued[d] \in Nat
          /\ grants'[d] <= grants[d]
      BY <2>5, <1>t DEF ApprovalTypes
    <3>2. ran[d] + grants[d] <= issued[d]
      BY <2>7, <1>t DEF Accounts
    <3> QED BY <3>1, <3>2
  <2>8. Accounts'
    BY <2>1, <2>3, <2>7, <1>t DEF Accounts
  <2> QED BY <2>4, <2>6, <2>8 DEF ApprovalInv
<1>12. ASSUME AgentStep PROVE ApprovalInv'
  <2>1. ASSUME \E n \in 0 .. MaxCalls : \E wishes \in [1 .. n -> Wishes] : Replies(wishes)
        PROVE  ApprovalInv'
    BY <2>1, <1>2, Zenon
  <2>2. ASSUME \E ans \in {"y", "a"} : Approves(ans) PROVE ApprovalInv'
    BY <2>2, <1>5, Zenon
  <2> QED BY <1>12, <2>1, <2>2, <1>3, <1>4, <1>6, <1>7, <1>8, <1>9, Zenon DEF AgentStep
<1> QED BY <1>1, <1>7, <1>10, <1>11, <1>12, Zenon DEF Next

(* Risky handlers start within what the operator approved, whichever       *)
(* client's call spends a grant and however the kernel reboots.            *)
THEOREM ApprovalCorrect == Spec => []RunsWereApproved
<1>1. ApprovalInv => RunsWereApproved
  <2> SUFFICES ASSUME ApprovalInv, mode # "permissive", NEW c \in RiskyCaps
               PROVE  /\ ran[c] + grants[c] <= issued[c]
                      /\ issued[c] > yes[c] => c \in always /\ yes[c] > 0
    BY DEF RunsWereApproved
  <2>1. Owed(c) \in {0, 1} /\ issued[c] \in Nat /\ yes[c] \in Nat
    BY DEF Owed, ApprovalInv, ApprovalTypes
  <2> QED BY <2>1 DEF ApprovalInv, Accounts
<1> QED BY <1>1, InitApproval, NextApproval, PTL DEF Spec

----------------------------------------------------------------------------
(* The history as the Anthropic backend sends it.                          *)

Wires == [role : {"user", "assistant", "tool"}, list : BOOLEAN,
          uses : Seq(Tools), results : Seq(Nat)]

(* The results in the message after message i.                             *)
AnswersIn(a, i) == IF i < Len(a) THEN a[i + 1].results ELSE <<>>

(* s counts from 1, to n at most.                                          *)
Counts(s, n) == Len(s) <= n /\ \A k \in 1 .. Len(s) : s[k] = k

(* Each message is followed by results of its own calls, in order ...      *)
InOrder(a) == \A i \in 1 .. Len(a) : Counts(AnswersIn(a, i), Len(a[i].uses))

(* ... and, but for message r, by all of them.                             *)
CompleteBut(a, r) ==
    \A i \in 1 .. Len(a) : i # r => Len(AnswersIn(a, i)) = Len(a[i].uses)

(* Message r is the reply whose calls ps are still to be executed.         *)
Replying(a, r, ps) ==
    /\ r \in 1 .. Len(a) /\ r >= Len(a) - 1 /\ a[r].role = "assistant"
    /\ r < Len(a) => a[r + 1].role = "user" /\ a[r + 1].list = TRUE
    /\ Len(AnswersIn(a, r)) + Len(ps) = Len(a[r].uses)
    /\ \A j \in 1 .. Len(ps) : ps[j].id = Len(AnswersIn(a, r)) + j

AtWork == phase \in {"tool", "ask", "grant", "call"}

HistoryInv(a) ==
    /\ a \in Seq(Wires) /\ InOrder(a)
    /\ ~AtWork /\ ~broken => CompleteBut(a, 0)
    /\ AtWork => \E r \in 1 .. Len(a) : /\ Replying(a, r, pending)
                                        /\ ~broken => CompleteBut(a, r)

GroupInv == messages \in Seq(Message) /\ broken \in BOOLEAN /\ HistoryInv(anthropic(messages))

----------------------------------------------------------------------------
(* The translation is a loop over the history.                             *)

(* Every nonempty set of natural numbers has a least element.              *)
LEMMA Least ==
  ASSUME NEW T, T \subseteq Nat, T # {}
  PROVE  \E x \in T : \A y \in T : x <= y
<1>1. PICK x \in T : \A y \in T : ~ (<<y, x>> \in OpToRel(<, Nat))
  BY NatLessThanWellFounded, WFMin
<1>2. \A y \in T : ~ (y < x)
  BY <1>1 DEF OpToRel
<1> QED BY <1>2

(* f[i] is the translation of the first i messages.                        *)
Loop(f, ms, n) == f = [i \in 0 .. n |-> IF i = 0 THEN <<>> ELSE translated(f[i - 1], ms[i])]

(* The loop has a result for every history.                                *)
LEMMA LoopExists == ASSUME NEW ms PROVE \A n \in Nat : \E f : Loop(f, ms, n)
<1> DEFINE T == {n \in Nat : ~ \E f : Loop(f, ms, n)}
<1> SUFFICES ASSUME T # {} PROVE FALSE
  OBVIOUS
<1>1. PICK n \in T : \A m \in T : n <= m
  BY Least
<1>2. n # 0
  <2>1. Loop([i \in 0 .. 0 |-> <<>>], ms, 0)
    BY DEF Loop
  <2> QED BY <2>1
<1>3. n - 1 \in Nat /\ n - 1 \notin T
  BY <1>1, <1>2
<1>4. PICK g : Loop(g, ms, n - 1)
  BY <1>3
<1> DEFINE f == [i \in 0 .. n |-> IF i = n THEN translated(g[n - 1], ms[n]) ELSE g[i]]
<1>5. ASSUME NEW i \in 0 .. n
      PROVE  f[i] = IF i = 0 THEN <<>> ELSE translated(f[i - 1], ms[i])
  <2>1. n \in Nat /\ i \in Nat
    OBVIOUS
  <2>2. CASE i = n
    <3>1. f[i] = translated(g[n - 1], ms[n]) /\ n - 1 \in 0 .. n /\ n - 1 # n
      BY <2>1, <2>2, <1>3
    <3>2. f[n - 1] = g[n - 1]
      BY <3>1
    <3> QED BY <2>2, <3>1, <3>2, <1>2
  <2>3. CASE i # n
    <3>1. i \in 0 .. n - 1
      BY <2>1, <2>3
    <3>2. f[i] = g[i]
      BY <2>3
    <3>3. g[i] = IF i = 0 THEN <<>> ELSE translated(g[i - 1], ms[i])
      BY <3>1, <1>4 DEF Loop
    <3>4. CASE i = 0
      BY <3>2, <3>3, <3>4
    <3>5. CASE i # 0
      <4>1. i - 1 \in 0 .. n /\ i - 1 # n
        BY <3>1, <3>5, <2>1
      <4>2. f[i - 1] = g[i - 1]
        BY <4>1
      <4> QED BY <3>2, <3>3, <3>5, <4>2
    <3> QED BY <3>4, <3>5
  <2> QED BY <2>2, <2>3
<1>6. Loop(f, ms, n)
  <2>1. f = [i \in 0 .. n |-> f[i]]
    OBVIOUS
  <2> HIDE DEF f
  <2>2. [i \in 0 .. n |-> f[i]]
        = [i \in 0 .. n |-> IF i = 0 THEN <<>> ELSE translated(f[i - 1], ms[i])]
    BY <1>5
  <2> QED BY <2>1, <2>2 DEF Loop
<1> QED BY <1>6, <1>1

(* anthropic() is its last value.                                          *)
LEMMA AnthropicLoop ==
  ASSUME NEW S, NEW ms \in Seq(S)
  PROVE  \E f : Loop(f, ms, Len(ms)) /\ anthropic(ms) = f[Len(ms)]
<1> DEFINE g == CHOOSE f : Loop(f, ms, Len(ms))
<1>1. Len(ms) \in Nat
  OBVIOUS
<1>2. Loop(g, ms, Len(ms))
  BY <1>1, LoopExists
<1>3. anthropic(ms) = g[Len(ms)]
  BY Zenon DEF anthropic, Loop
<1> QED BY <1>2, <1>3

(* Nothing is sent for an empty history; one more message is one more      *)
(* round of the loop.                                                      *)
LEMMA AnthropicEmpty == anthropic(<<>>) = <<>>
<1>1. PICK f : Loop(f, <<>>, 0) /\ anthropic(<<>>) = f[0]
  <2>1. <<>> \in Seq({}) /\ Len(<<>>) = 0
    OBVIOUS
  <2> QED BY <2>1, AnthropicLoop
<1> QED BY <1>1 DEF Loop

(* One more message is one more round of the loop.                         *)
LEMMA AnthropicAppend ==
  ASSUME NEW S, NEW ms \in Seq(S), NEW m \in S
  PROVE  anthropic(Append(ms, m)) = translated(anthropic(ms), m)
<1> DEFINE ms2 == Append(ms, m)
           n == Len(ms)
<1>1. ms2 \in Seq(S) /\ Len(ms2) = n + 1 /\ ms2[n + 1] = m /\ n \in Nat
      /\ \A i \in 1 .. n : ms2[i] = ms[i]
  OBVIOUS
<1>2. PICK f : Loop(f, ms, n) /\ anthropic(ms) = f[n]
  BY AnthropicLoop
<1>3. PICK g : Loop(g, ms2, n + 1) /\ anthropic(ms2) = g[n + 1]
  BY <1>1, AnthropicLoop
<1> HIDE DEF ms2, n
<1> DEFINE T == {i \in 0 .. n : f[i] # g[i]}
<1>4. T = {}
  <2> SUFFICES ASSUME T # {} PROVE FALSE
    OBVIOUS
  <2>0. T \subseteq Nat
    BY <1>1
  <2>1. PICK i \in T : \A j \in T : i <= j
    <3> HIDE DEF T
    <3> QED BY <2>0, Least
  <2>2. i \in 0 .. n /\ i \in 0 .. n + 1 /\ f[i] # g[i]
    BY <1>1, <2>1
  <2>3. i # 0
    BY <2>2, <1>2, <1>3 DEF Loop
  <2>4. i - 1 \in 0 .. n /\ ~ (i <= i - 1) /\ i \in 1 .. n
    BY <1>1, <2>2, <2>3
  <2>5. f[i - 1] = g[i - 1]
    BY <2>1, <2>4
  <2>6. f[i] = translated(f[i - 1], ms[i])
    BY <2>2, <2>3, <1>2 DEF Loop
  <2>7. g[i] = translated(g[i - 1], ms2[i])
    BY <2>2, <2>3, <1>3 DEF Loop
  <2> QED BY <2>2, <2>4, <2>5, <2>6, <2>7, <1>1
<1>5. f[n] = g[n]
  BY <1>1, <1>4
<1>6. g[n + 1] = translated(g[n], ms2[n + 1])
  <2>1. n + 1 \in 0 .. n + 1 /\ n + 1 # 0 /\ n + 1 - 1 = n
    BY <1>1
  <2>2. PICK k : k = n + 1
    OBVIOUS
  <2>3. g[k] = translated(g[k - 1], ms2[k])
    BY <2>1, <2>2, <1>3 DEF Loop
  <2>4. k - 1 = n
    BY <1>1, <2>2
  <2> QED BY <2>2, <2>3, <2>4
<1>7. anthropic(ms2) = translated(anthropic(ms), m)
  BY <1>1, <1>2, <1>3, <1>5, <1>6
<1> QED BY <1>7 DEF ms2

----------------------------------------------------------------------------
(* One round of the loop.                                                  *)

(* The parts of a provider's message.                                      *)
LEMMA WireFacts ==
  ASSUME NEW role \in {"user", "assistant", "tool"}, NEW list \in BOOLEAN,
         NEW uses \in Seq(Tools), NEW results \in Seq(Nat)
  PROVE  /\ Wire(role, list, uses, results) \in Wires
         /\ Wire(role, list, uses, results).role = role
         /\ Wire(role, list, uses, results).list = list
         /\ Wire(role, list, uses, results).uses = uses
         /\ Wire(role, list, uses, results).results = results
BY Zenon DEF Wire, Wires

(* A message without results leaves the others as they are.                *)
LEMMA QuietAppend ==
  ASSUME NEW a \in Seq(Wires), NEW w \in Wires, w.results = <<>>
  PROVE  LET b == Append(a, w) IN
         /\ b \in Seq(Wires) /\ Len(b) = Len(a) + 1
         /\ b[Len(b)] = w /\ AnswersIn(b, Len(b)) = <<>>
         /\ \A i \in 1 .. Len(a) : b[i] = a[i] /\ AnswersIn(b, i) = AnswersIn(a, i)
<1> DEFINE b == Append(a, w)
<1>1. /\ b \in Seq(Wires) /\ Len(b) = Len(a) + 1 /\ b[Len(a) + 1] = w /\ Len(a) \in Nat
      /\ \A i \in 1 .. Len(a) : b[i] = a[i]
  OBVIOUS
<1> HIDE DEF b
<1>2. AnswersIn(b, Len(b)) = <<>>
  BY <1>1 DEF AnswersIn
<1>3. ASSUME NEW i \in 1 .. Len(a) PROVE AnswersIn(b, i) = AnswersIn(a, i)
  <2>1. CASE i = Len(a)
    BY <1>1, <2>1 DEF AnswersIn
  <2>2. CASE i # Len(a)
    <3>1. i < Len(a) /\ i < Len(b) /\ i + 1 \in 1 .. Len(a)
      BY <1>1, <2>2
    <3> QED BY <3>1, <1>1 DEF AnswersIn
  <2> QED BY <2>1, <2>2
<1> QED BY <1>1, <1>2, <1>3 DEF b

(* b is a with result id added to those of message r.                      *)
OneMore(a, b, r, id) ==
    /\ b \in Seq(Wires) /\ r \in 1 .. Len(a) /\ Len(a) <= Len(b) /\ Len(b) = r + 1
    /\ \A i \in 1 .. Len(a) : /\ b[i].uses = a[i].uses /\ b[i].role = a[i].role
                              /\ i # r => AnswersIn(b, i) = AnswersIn(a, i)
    /\ \A i \in Len(a) + 1 .. Len(b) : Len(b[i].uses) = 0 /\ AnswersIn(b, i) = <<>>
    /\ AnswersIn(b, r) = Append(AnswersIn(a, r), id)
    /\ b[r + 1].role = "user" /\ b[r + 1].list = TRUE

(* The first result of a reply starts a message.                           *)
LEMMA FirstResult ==
  ASSUME NEW a \in Seq(Wires), a # <<>>, NEW id \in Nat
  PROVE  OneMore(a, Append(a, Wire("user", TRUE, <<>>, <<id>>)), Len(a), id)
<1> DEFINE w == Wire("user", TRUE, <<>>, <<id>>)
           b == Append(a, w)
           r == Len(a)
<1>1. w \in Wires /\ w.role = "user" /\ w.list = TRUE /\ w.uses = <<>> /\ w.results = <<id>>
  <2>1. <<>> \in Seq(Tools) /\ <<id>> \in Seq(Nat) /\ TRUE \in BOOLEAN
    OBVIOUS
  <2>2. "user" \in {"user", "assistant", "tool"}
    OBVIOUS
  <2>3. w \in Wires
    BY <2>1, <2>2, Zenon DEF Wire, Wires
  <2>4. w.role = "user" /\ w.list = TRUE
    BY Zenon DEF Wire
  <2>5. w.uses = <<>> /\ w.results = <<id>>
    BY DEF Wire
  <2> QED BY <2>3, <2>4, <2>5
<1> HIDE DEF w
<1>2. /\ b \in Seq(Wires) /\ Len(b) = r + 1 /\ b[r + 1] = w /\ r \in Nat /\ r >= 1
      /\ \A i \in 1 .. r : b[i] = a[i]
  BY <1>1
<1> HIDE DEF b, r
<1>3. ASSUME NEW i \in 1 .. r, i # r PROVE AnswersIn(b, i) = AnswersIn(a, i)
  <2>1. i < r /\ i < Len(b) /\ i + 1 \in 1 .. r
    BY <1>2, <1>3
  <2> QED BY <2>1, <1>2 DEF AnswersIn, r
<1>4. AnswersIn(a, r) = <<>> /\ AnswersIn(b, r) = <<id>> /\ AnswersIn(b, r + 1) = <<>>
  BY <1>1, <1>2 DEF AnswersIn, r
<1>5. Append(<<>>, id) = <<id>>
  OBVIOUS
<1>6. \A i \in r + 1 .. Len(b) : i = r + 1
  BY <1>2
<1>7. \A i \in r + 1 .. Len(b) : Len(b[i].uses) = 0 /\ AnswersIn(b, i) = <<>>
  BY <1>1, <1>2, <1>4, <1>6
<1>8. r \in 1 .. r /\ r <= Len(b)
  BY <1>2
<1>9. OneMore(a, b, r, id)
  BY <1>1, <1>2, <1>3, <1>4, <1>5, <1>7, <1>8 DEF OneMore, r
<1> QED BY <1>9 DEF b, r, w

(* A block added to a message.                                             *)
LEMMA BlockFacts ==
  ASSUME NEW w \in Wires, NEW id \in Nat
  PROVE  /\ withBlock(w, id) \in Wires
         /\ withBlock(w, id).role = w.role /\ withBlock(w, id).list = w.list
         /\ withBlock(w, id).uses = w.uses
         /\ withBlock(w, id).results = Append(w.results, id)
<1>1. Append(w.results, id) \in Seq(Nat)
  BY DEF Wires
<1> QED BY <1>1 DEF withBlock, Wires

(* The others join it.                                                     *)
LEMMA NextResult ==
  ASSUME NEW a \in Seq(Wires), Len(a) > 1, NEW id \in Nat,
         Last(a).role = "user", Last(a).list = TRUE
  PROVE  OneMore(a, Append(Front(a), withBlock(Last(a), id)), Len(a) - 1, id)
<1> DEFINE l == Last(a)
           w == withBlock(l, id)
           b == Append(Front(a), w)
           r == Len(a) - 1
<1>0. l \in Wires /\ l = a[r + 1] /\ Len(a) = r + 1 /\ r \in Nat /\ r >= 1
  BY DEF Last
<1>1. /\ w \in Wires /\ w.role = l.role /\ w.list = l.list /\ w.uses = l.uses
      /\ w.results = Append(l.results, id)
  BY <1>0, BlockFacts
<1> HIDE DEF w, l
<1>2. /\ Front(a) \in Seq(Wires) /\ Len(Front(a)) = r
      /\ \A i \in 1 .. r : Front(a)[i] = a[i]
  BY <1>0 DEF Front
<1>3. /\ b \in Seq(Wires) /\ Len(b) = r + 1 /\ b[r + 1] = w
      /\ \A i \in 1 .. r : b[i] = a[i]
  BY <1>1, <1>2
<1> HIDE DEF b, r
<1>4. ASSUME NEW i \in 1 .. r + 1
      PROVE  b[i].uses = a[i].uses /\ b[i].role = a[i].role
  <2>1. i = r + 1 \/ i \in 1 .. r
    BY <1>0
  <2> QED BY <2>1, <1>0, <1>1, <1>3
<1>5. ASSUME NEW i \in 1 .. r + 1, i # r PROVE AnswersIn(b, i) = AnswersIn(a, i)
  <2>1. i = r + 1 \/ (i + 1 \in 1 .. r /\ i < r + 1)
    BY <1>0, <1>5
  <2> QED BY <2>1, <1>0, <1>3 DEF AnswersIn
<1>6. AnswersIn(b, r) = Append(AnswersIn(a, r), id)
  BY <1>0, <1>1, <1>3 DEF AnswersIn
<1>7. r \in 1 .. Len(a) /\ Len(a) <= Len(b) /\ ~ \E i \in Len(a) + 1 .. Len(b) : TRUE
  BY <1>0, <1>3
<1>8. b[r + 1].role = "user" /\ b[r + 1].list = TRUE
  BY <1>1, <1>3 DEF l
<1>9. OneMore(a, b, r, id)
  BY <1>0, <1>3, <1>4, <1>5, <1>6, <1>7, <1>8 DEF OneMore
<1> QED BY <1>9 DEF b, r, w, l

(* Results are sequences of ids.                                           *)
LEMMA AnswersType ==
  ASSUME NEW a \in Seq(Wires), NEW i \in 1 .. Len(a)
  PROVE  /\ AnswersIn(a, i) \in Seq(Nat) /\ Len(AnswersIn(a, i)) \in Nat
         /\ a[i].uses \in Seq(Tools) /\ Len(a[i].uses) \in Nat
<1>1. \A k \in 1 .. Len(a) : a[k].results \in Seq(Nat) /\ a[k].uses \in Seq(Tools)
  <2>1. \A w \in Wires : w.results \in Seq(Nat) /\ w.uses \in Seq(Tools)
    BY DEF Wires
  <2> QED BY <2>1
<1>2. i < Len(a) => i + 1 \in 1 .. Len(a)
  OBVIOUS
<1>3. AnswersIn(a, i) \in Seq(Nat)
  BY <1>1, <1>2 DEF AnswersIn
<1> QED BY <1>1, <1>3

(* A result reaches the message of the reply it answers.                   *)
LEMMA ToolResult ==
  ASSUME NEW a \in Seq(Wires), NEW r, NEW ps, Replying(a, r, ps), NEW id \in Nat, NEW name
  PROVE  OneMore(a, translated(a, Say("tool", <<>>, id, name)), r, id)
<1> DEFINE m == Say("tool", <<>>, id, name)
<1>1. m.role = "tool" /\ m.id = id
  BY DEF Say
<1> HIDE DEF m
<1>2. translated(a, m) = IF joins(a) THEN Append(Front(a), withBlock(Last(a), id))
                         ELSE Append(a, Wire("user", TRUE, <<>>, <<id>>))
  BY <1>1 DEF translated
<1>3. CASE r = Len(a)
  <2>1. a # <<>> /\ Last(a).role = "assistant"
    BY <1>3 DEF Replying, Last
  <2>2. ~ joins(a)
    BY <2>1 DEF joins
  <2> QED BY <1>2, <1>3, <2>1, <2>2, FirstResult DEF m
<1>4. CASE r < Len(a)
  <2>1. r = Len(a) - 1 /\ Len(a) > 1 /\ r + 1 = Len(a)
    BY <1>4 DEF Replying
  <2>2. Last(a).role = "user" /\ Last(a).list = TRUE
    BY <1>4, <2>1 DEF Replying, Last
  <2>3. a # <<>>
    BY <2>1
  <2>4. joins(a)
    BY <2>2, <2>3 DEF joins
  <2> QED BY <1>2, <2>1, <2>2, <2>4, NextResult DEF m
<1>5. r = Len(a) \/ r < Len(a)
  BY DEF Replying
<1> QED BY <1>3, <1>4, <1>5

(* The next result in order keeps the history in order.                    *)
LEMMA OneMoreKeeps ==
  ASSUME NEW a \in Seq(Wires), NEW b, NEW r, NEW ps \in Seq(ToolCall), ps # <<>>,
         InOrder(a), Replying(a, r, ps), OneMore(a, b, r, Head(ps).id)
  PROVE  /\ b \in Seq(Wires) /\ InOrder(b) /\ Replying(b, r, Tail(ps))
         /\ CompleteBut(a, r) => CompleteBut(b, r)
         /\ Tail(ps) = <<>> => Len(AnswersIn(b, r)) = Len(b[r].uses)
<1> DEFINE s == AnswersIn(a, r)
           t == AnswersIn(b, r)
           n == Len(a[r].uses)
           rest == Tail(ps)
<1>1. /\ b \in Seq(Wires) /\ r \in 1 .. Len(a) /\ r \in 1 .. Len(b) /\ Len(b) = r + 1
      /\ Len(a) \in Nat /\ Len(b) \in Nat
  BY DEF OneMore
<1>2. s \in Seq(Nat) /\ Len(s) \in Nat /\ n \in Nat
  BY <1>1, AnswersType
<1>3. /\ Len(ps) \in Nat /\ Len(ps) >= 1 /\ Head(ps) = ps[1]
      /\ Len(rest) = Len(ps) - 1 /\ \A j \in 1 .. Len(rest) : rest[j] = ps[j + 1]
  OBVIOUS
<1>4. Len(s) + Len(ps) = n /\ \A j \in 1 .. Len(ps) : ps[j].id = Len(s) + j
  BY DEF Replying
<1>5. Head(ps).id = Len(s) + 1
  BY <1>3, <1>4
<1>6. t = Append(s, Len(s) + 1)
  BY <1>5 DEF OneMore
<1>7. Len(t) = Len(s) + 1 /\ t[Len(s) + 1] = Len(s) + 1 /\ \A k \in 1 .. Len(s) : t[k] = s[k]
  <2> HIDE DEF s, t
  <2> QED BY <1>2, <1>6
<1>8. Len(s) <= n /\ \A k \in 1 .. Len(s) : s[k] = k
  BY <1>1 DEF InOrder, Counts
<1> HIDE DEF s, t, n, rest
<1>9. Counts(t, n)
  <2>1. Len(t) <= n
    BY <1>2, <1>3, <1>4, <1>7
  <2>2. ASSUME NEW k \in 1 .. Len(t) PROVE t[k] = k
    <3>1. k \in 1 .. Len(s) \/ k = Len(s) + 1
      BY <1>2, <1>7
    <3> QED BY <3>1, <1>7, <1>8
  <2> QED BY <2>1, <2>2 DEF Counts
<1>10. b[r].uses = a[r].uses /\ b[r].role = a[r].role
  BY <1>1 DEF OneMore
<1>11. ASSUME NEW i \in 1 .. Len(b), i # r
       PROVE  \/ i \in 1 .. Len(a) /\ b[i].uses = a[i].uses /\ AnswersIn(b, i) = AnswersIn(a, i)
              \/ Len(b[i].uses) = 0 /\ AnswersIn(b, i) = <<>>
  <2>1. i \in 1 .. Len(a) \/ i \in Len(a) + 1 .. Len(b)
    BY <1>1
  <2> QED BY <2>1, <1>11 DEF OneMore
<1>12. InOrder(b)
  <2> SUFFICES ASSUME NEW i \in 1 .. Len(b) PROVE Counts(AnswersIn(b, i), Len(b[i].uses))
    BY DEF InOrder
  <2>1. CASE i = r
    BY <1>9, <1>10, <2>1 DEF t, n
  <2>2. CASE i # r
    <3>1. Counts(<<>>, 0)
      BY DEF Counts
    <3> QED BY <3>1, <1>11, <2>2 DEF InOrder
  <2> QED BY <2>1, <2>2
<1>13. CompleteBut(a, r) => CompleteBut(b, r)
  <2> SUFFICES ASSUME CompleteBut(a, r), NEW i \in 1 .. Len(b), i # r
               PROVE  Len(AnswersIn(b, i)) = Len(b[i].uses)
    BY DEF CompleteBut
  <2>1. Len(<<>>) = 0
    OBVIOUS
  <2> QED BY <1>11, <2>1 DEF CompleteBut
<1>14. Len(t) + Len(rest) = n
  <2>1. Len(t) = Len(s) + 1 /\ Len(s) + Len(ps) = n
    BY <1>4, <1>7
  <2>2. Len(rest) = Len(ps) - 1 /\ Len(ps) \in Nat
    BY <1>3
  <2> QED BY <1>2, <2>1, <2>2
<1>15. \A j \in 1 .. Len(rest) : rest[j].id = Len(t) + j
  <2> SUFFICES ASSUME NEW j \in 1 .. Len(rest) PROVE rest[j].id = Len(t) + j
    OBVIOUS
  <2>1. j + 1 \in 1 .. Len(ps) /\ rest[j] = ps[j + 1] /\ j \in Nat
    BY <1>3
  <2>2. rest[j].id = Len(s) + (j + 1)
    BY <2>1, <1>4
  <2> QED BY <2>1, <2>2, <1>2, <1>7
<1>16. Replying(b, r, rest)
  <2>1. b[r].role = "assistant"
    BY <1>10 DEF Replying
  <2>2. b[r + 1].role = "user" /\ b[r + 1].list = TRUE
    BY DEF OneMore
  <2>3. r \in 1 .. Len(b) /\ r >= Len(b) - 1
    BY <1>1
  <2>4. Len(AnswersIn(b, r)) + Len(rest) = Len(b[r].uses)
    BY <1>10, <1>14 DEF t, n
  <2>5. \A j \in 1 .. Len(rest) : rest[j].id = Len(AnswersIn(b, r)) + j
    BY <1>15 DEF t
  <2> QED BY <2>1, <2>2, <2>3, <2>4, <2>5 DEF Replying
<1>17. rest = <<>> => Len(t) = n
  <2>1. Len(t) \in Nat
    BY <1>2, <1>7
  <2> QED BY <1>14, <1>2, <2>1
<1> QED BY <1>1, <1>10, <1>12, <1>13, <1>16, <1>17 DEF rest, t, n

----------------------------------------------------------------------------
(* The history along the steps of the agent.                               *)

(* The messages the agent appends are messages.                            *)
LEMMA SayType ==
  ASSUME NEW role \in {"user", "assistant", "tool"}, NEW cs \in Seq(Tools), NEW id \in Nat,
         NEW name \in Tools \cup {""}
  PROVE  Say(role, cs, id, name) \in Message
BY DEF Say, Message

(* A message without results, whose own calls are still open.              *)
LEMMA QuietKeeps ==
  ASSUME NEW a \in Seq(Wires), InOrder(a), NEW w \in Wires, w.results = <<>>
  PROVE  LET b == Append(a, w) IN
         /\ InOrder(b)
         /\ CompleteBut(a, 0) => CompleteBut(b, Len(b))
         /\ CompleteBut(a, 0) /\ Len(w.uses) = 0 => CompleteBut(b, 0)
<1> DEFINE b == Append(a, w)
<1>1. /\ b \in Seq(Wires) /\ Len(b) = Len(a) + 1
      /\ b[Len(b)] = w /\ AnswersIn(b, Len(b)) = <<>>
      /\ \A i \in 1 .. Len(a) : b[i] = a[i] /\ AnswersIn(b, i) = AnswersIn(a, i)
  BY QuietAppend
<1>2. Len(a) \in Nat /\ w.uses \in Seq(Tools) /\ Len(w.uses) \in Nat /\ Len(<<>>) = 0
  BY DEF Wires
<1> HIDE DEF b
<1>3. \A i \in 1 .. Len(b) : i \in 1 .. Len(a) \/ i = Len(b)
  BY <1>1, <1>2
<1>4. \A i \in 1 .. Len(a) : i # 0
  BY <1>2
<1>5. Counts(<<>>, Len(w.uses))
  BY <1>2 DEF Counts
<1>6. InOrder(b)
  BY <1>1, <1>3, <1>5 DEF InOrder
<1>7. CompleteBut(a, 0) => CompleteBut(b, Len(b))
  BY <1>1, <1>3, <1>4 DEF CompleteBut
<1>8. CompleteBut(a, 0) /\ Len(w.uses) = 0 => CompleteBut(b, 0)
  BY <1>1, <1>2, <1>3, <1>4 DEF CompleteBut
<1> QED BY <1>6, <1>7, <1>8 DEF b

(* An empty history is in order.                                           *)
LEMMA InitGroup == Init => GroupInv
<1> SUFFICES ASSUME Init PROVE GroupInv
  OBVIOUS
<1>1. messages = <<>> /\ anthropic(messages) = <<>> /\ ~AtWork /\ broken = FALSE
  BY AnthropicEmpty DEF Init, AtWork
<1>2. <<>> \in Seq(Wires) /\ <<>> \in Seq(Message) /\ Len(<<>>) = 0
  OBVIOUS
<1>3. InOrder(<<>>) /\ CompleteBut(<<>>, 0)
  BY <1>2 DEF InOrder, CompleteBut
<1>4. HistoryInv(<<>>)
  BY <1>1, <1>2, <1>3 DEF HistoryInv
<1> QED BY <1>1, <1>2, <1>4 DEF GroupInv

(* A line of the operator.                                                 *)
LEMMA UserGroup == ASSUME GroupInv, UserSays PROVE GroupInv'
<1> DEFINE m == Say("user", <<>>, 0, "")
           w == Wire("user", FALSE, <<>>, <<>>)
<1>1. messages' = Append(messages, m) /\ phase = "idle" /\ phase' = "chat" /\ broken' = broken
  BY DEF UserSays
<1>2. m \in Message /\ m.role = "user"
  <2>1. <<>> \in Seq(Tools)
    OBVIOUS
  <2> QED BY <2>1, SayType DEF Say
<1>3. w \in Wires /\ w.results = <<>> /\ Len(w.uses) = 0
  <2>1. <<>> \in Seq(Tools) /\ <<>> \in Seq(Nat) /\ FALSE \in BOOLEAN /\ Len(<<>>) = 0
        /\ "user" \in {"user", "assistant", "tool"}
    OBVIOUS
  <2>2. w \in Wires
    BY <2>1, Zenon DEF Wire, Wires
  <2>3. w.results = <<>> /\ w.uses = <<>>
    BY DEF Wire
  <2> QED BY <2>1, <2>2, <2>3
<1>4. PICK a : a = anthropic(messages)
  OBVIOUS
<1>5. messages \in Seq(Message) /\ broken \in BOOLEAN /\ HistoryInv(a)
  BY <1>4 DEF GroupInv
<1>6. anthropic(messages') = translated(a, m)
  BY <1>1, <1>2, <1>4, <1>5, AnthropicAppend
<1>7. translated(a, m) = Append(a, w)
  BY <1>2 DEF translated
<1> HIDE DEF w, m
<1>8. PICK b : b = Append(a, w)
  OBVIOUS
<1>9. a \in Seq(Wires) /\ InOrder(a) /\ (~broken => CompleteBut(a, 0))
  BY <1>1, <1>5 DEF HistoryInv, AtWork
<1>10. b \in Seq(Wires) /\ InOrder(b) /\ (~broken => CompleteBut(b, 0))
  BY <1>3, <1>8, <1>9, QuietKeeps
<1>11. HistoryInv(b)'
  BY <1>1, <1>10 DEF HistoryInv, AtWork
<1>12. messages' \in Seq(Message)
  BY <1>1, <1>2, <1>5
<1> QED BY <1>1, <1>5, <1>6, <1>7, <1>8, <1>11, <1>12 DEF GroupInv

(* A reply of the model.                                                   *)
LEMMA RepliesGroup ==
  ASSUME GroupInv, NEW n \in 0 .. MaxCalls, NEW wishes \in [1 .. n -> Wishes], Replies(wishes)
  PROVE  GroupInv'
<1> DEFINE cs == [k \in 1 .. n |-> wishes[k].cap]
           m == Say("assistant", cs, 0, "")
           w == Wire("assistant", TRUE, cs, <<>>)
<1>0. n \in Nat
  BY BoundsAssumption
<1>1. wishes \in Seq(Wishes) /\ Len(wishes) = n
  BY <1>0
<1>2. /\ messages' = Append(messages, m) /\ phase = "chat" /\ broken' = broken
      /\ phase' = IF n = 0 THEN "idle" ELSE "tool"
      /\ pending' = [k \in 1 .. n |-> [id |-> k, wish |-> wishes[k]]]
  BY <1>1 DEF Replies
<1>3. cs \in Seq(Tools) /\ Len(cs) = n
  <2>1. \A x \in Wishes : x.cap \in Tools
    BY CapsAssumption DEF Wishes
  <2>2. cs \in [1 .. n -> Tools]
    BY <2>1
  <2> QED BY <1>0, <2>2
<1> HIDE DEF cs
<1>4. m \in Message /\ m.role = "assistant" /\ m.calls = cs
  BY <1>3, SayType DEF Say
<1>5. w \in Wires /\ w.results = <<>> /\ Len(w.uses) = n /\ w.role = "assistant"
  <2>1. <<>> \in Seq(Nat) /\ TRUE \in BOOLEAN /\ "assistant" \in {"user", "assistant", "tool"}
    OBVIOUS
  <2>2. w \in Wires
    BY <1>3, <2>1, Zenon DEF Wire, Wires
  <2>3. w.results = <<>> /\ w.uses = cs /\ w.role = "assistant"
    BY DEF Wire
  <2> QED BY <1>3, <2>2, <2>3
<1>6. PICK a : a = anthropic(messages)
  OBVIOUS
<1>7. messages \in Seq(Message) /\ broken \in BOOLEAN /\ HistoryInv(a)
  BY <1>6 DEF GroupInv
<1>8. anthropic(messages') = translated(a, m)
  BY <1>2, <1>4, <1>6, <1>7, AnthropicAppend
<1>9. translated(a, m) = Append(a, w)
  BY <1>4 DEF translated
<1> HIDE DEF w, m
<1>10. PICK b : b = Append(a, w)
  OBVIOUS
<1>11. a \in Seq(Wires) /\ InOrder(a) /\ (~broken => CompleteBut(a, 0))
  BY <1>2, <1>7 DEF HistoryInv, AtWork
<1>12. /\ InOrder(b) /\ (~broken => CompleteBut(b, Len(b)))
       /\ (~broken /\ n = 0 => CompleteBut(b, 0))
  BY <1>5, <1>10, <1>11, QuietKeeps
<1>13. /\ b \in Seq(Wires) /\ Len(b) = Len(a) + 1 /\ Len(b) \in 1 .. Len(b)
       /\ b[Len(b)] = w /\ AnswersIn(b, Len(b)) = <<>>
  <2>1. /\ b \in Seq(Wires) /\ Len(b) = Len(a) + 1
        /\ b[Len(b)] = w /\ AnswersIn(b, Len(b)) = <<>>
    BY <1>5, <1>10, <1>11, QuietAppend
  <2>2. Len(b) \in 1 .. Len(b)
    BY <2>1, <1>11
  <2> QED BY <2>1, <2>2
<1>14. Replying(b, Len(b), pending')
  <2>1. Len(pending') = n /\ \A j \in 1 .. n : pending'[j].id = j
    BY <1>0, <1>2
  <2>2. Len(<<>>) = 0 /\ Len(b) >= Len(b) - 1 /\ ~ (Len(b) < Len(b)) /\ 0 + n = n
        /\ \A j \in 1 .. n : 0 + j = j
    BY <1>0, <1>13
  <2> QED BY <2>1, <2>2, <1>5, <1>13 DEF Replying
<1>15. HistoryInv(b)'
  <2>1. CASE n = 0
    BY <1>2, <1>12, <1>13, <2>1 DEF HistoryInv, AtWork
  <2>2. CASE n # 0
    BY <1>2, <1>12, <1>13, <1>14, <2>2 DEF HistoryInv, AtWork
  <2> QED BY <2>1, <2>2
<1>16. messages' \in Seq(Message)
  BY <1>2, <1>4, <1>7
<1> QED BY <1>2, <1>7, <1>8, <1>9, <1>10, <1>15, <1>16 DEF GroupInv

(* A result of a call.                                                     *)
LEMMA AnsweredGroup ==
  ASSUME GroupInv, ApprovalTypes, AtWork, pending # <<>>, Answered
  PROVE  GroupInv'
<1> DEFINE id == Head(pending).id
           m == Say("tool", <<>>, id, Current.cap)
<1>1. /\ messages' = Append(messages, m) /\ pending' = Tail(pending) /\ broken' = broken
      /\ phase' \in {"tool", "chat", "idle"}
      /\ (phase' = "tool" <=> pending' # <<>>)
  BY DEF Answered
<1>2. id \in Nat /\ m \in Message /\ pending \in Seq(ToolCall)
  <2>1. Head(pending) \in ToolCall /\ Current.cap \in ReadCaps \cup RiskyCaps \cup {"unknown"}
    BY CurrentType
  <2>2. id \in Nat
    BY <2>1, BoundsAssumption DEF ToolCall
  <2>3. Current.cap \in Tools \cup {""}
    BY <2>1, CapsAssumption, Zenon
  <2>4. <<>> \in Seq(Tools)
    OBVIOUS
  <2> QED BY <2>2, <2>3, <2>4, SayType DEF ApprovalTypes
<1>3. PICK a : a = anthropic(messages)
  OBVIOUS
<1>4. messages \in Seq(Message) /\ broken \in BOOLEAN /\ HistoryInv(a)
  BY <1>3 DEF GroupInv
<1>5. anthropic(messages') = translated(a, m)
  <2> HIDE DEF m
  <2> QED BY <1>1, <1>2, <1>3, <1>4, AnthropicAppend
<1>6. PICK b : b = translated(a, m)
  OBVIOUS
<1>7. a \in Seq(Wires) /\ InOrder(a)
  BY <1>4 DEF HistoryInv
<1>8. PICK r \in 1 .. Len(a) : Replying(a, r, pending) /\ (~broken => CompleteBut(a, r))
  BY <1>4 DEF HistoryInv
<1>9. OneMore(a, b, r, id)
  BY <1>2, <1>6, <1>7, <1>8, ToolResult
<1>10. /\ b \in Seq(Wires) /\ InOrder(b) /\ Replying(b, r, Tail(pending))
       /\ CompleteBut(a, r) => CompleteBut(b, r)
       /\ Tail(pending) = <<>> => Len(AnswersIn(b, r)) = Len(b[r].uses)
  BY <1>2, <1>7, <1>8, <1>9, OneMoreKeeps
<1>11. r \in 1 .. Len(b)
  BY <1>10 DEF Replying
<1>12. HistoryInv(b)'
  <2>1. CASE pending' # <<>>
    BY <1>1, <1>8, <1>10, <1>11, <2>1 DEF HistoryInv, AtWork
  <2>2. CASE pending' = <<>>
    <3>1. ~broken => CompleteBut(b, 0)
      BY <1>1, <1>8, <1>10, <2>2 DEF CompleteBut
    <3> QED BY <1>1, <1>10, <2>2, <3>1 DEF HistoryInv, AtWork
  <2> QED BY <2>1, <2>2
<1>13. messages' \in Seq(Message)
  BY <1>1, <1>2, <1>4
<1> QED BY <1>1, <1>4, <1>5, <1>6, <1>12, <1>13 DEF GroupInv

(* A turn left by an exception leaves the history as it is.                *)
LEMMA RaisesGroup == ASSUME GroupInv, Raises PROVE GroupInv'
<1>1. messages' = messages /\ phase' = "idle" /\ broken' = TRUE
  BY DEF Raises
<1> QED BY <1>1 DEF GroupInv, HistoryInv, AtWork

(* Each step keeps the history in order.                                   *)
LEMMA NextGroup == ApprovalInv /\ GroupInv /\ [Next]_vars => GroupInv'
<1> SUFFICES ASSUME ApprovalInv, GroupInv, [Next]_vars PROVE GroupInv'
  OBVIOUS
<1>t. ApprovalTypes /\ (AtWork => pending # <<>>)
  BY DEF ApprovalInv, AtHand, AtWork
<1>1. ASSUME UNCHANGED <<messages, pending, broken>>, AtWork' <=> AtWork PROVE GroupInv'
  BY <1>1 DEF GroupInv, HistoryInv
<1>2. ASSUME BeginCall \/ (\E ans \in {"y", "a"} : Approves(ans)) \/ Grants PROVE GroupInv'
  BY <1>1, <1>2 DEF BeginCall, Approves, Grants, AtWork
<1>3. ASSUME (\E c \in RiskyCaps : OtherCalls(c)) \/ KernelStops \/ KernelBoots \/ UNCHANGED vars
      PROVE  GroupInv'
  BY <1>1, <1>3 DEF OtherCalls, KernelStops, KernelBoots, vars, agent, AtWork
<1>4. ASSUME GrantFails \/ CallCut \/ Interrupted PROVE GroupInv'
  BY <1>4, RaisesGroup DEF GrantFails, CallCut, Interrupted
<1>5. ASSUME UnknownTool \/ Denies \/ Calls PROVE GroupInv'
  <2>1. Answered /\ AtWork
    BY <1>5 DEF UnknownTool, Denies, Calls, AtWork
  <2> QED BY <2>1, <1>t, AnsweredGroup
<1>6. ASSUME \E n \in 0 .. MaxCalls : \E wishes \in [1 .. n -> Wishes] : Replies(wishes)
      PROVE  GroupInv'
  BY <1>6, RepliesGroup, Zenon
<1>7. ASSUME AgentStep PROVE GroupInv'
  BY <1>2, <1>4, <1>5, <1>6, <1>7, Zenon DEF AgentStep
<1> QED BY <1>3, <1>4, <1>7, UserGroup, Zenon DEF Next

(* The Anthropic backend groups the results of a reply in one message that *)
(* answers its calls in order, and all of them when the model is asked     *)
(* again, unless an exception has left a turn.                             *)
THEOREM GroupedCorrect == Spec => []ResultsAreGrouped
<1>1. GroupInv => ResultsAreGrouped
  <2> SUFFICES ASSUME GroupInv PROVE ResultsAreGrouped
    OBVIOUS
  <2>1. PICK a : a = anthropic(messages)
    OBVIOUS
  <2>2. a \in Seq(Wires) /\ HistoryInv(a)
    BY <2>1 DEF GroupInv, HistoryInv
  <2> DEFINE ids(i) == [k \in DOMAIN a[i].uses |-> k]
             answers(i) == IF i < Len(a) THEN a[i + 1].results ELSE <<>>
  <2>3. ASSUME NEW i \in 1 .. Len(a)
        PROVE  /\ IsPrefix(answers(i), ids(i))
               /\ phase \in {"idle", "chat"} /\ ~broken => answers(i) = ids(i)
    <3>1. PICK s : s = answers(i)
      OBVIOUS
    <3>2. s = AnswersIn(a, i)
      BY <3>1 DEF AnswersIn
    <3>3. PICK n : n = Len(a[i].uses)
      OBVIOUS
    <3>4. /\ s \in Seq(Nat) /\ Len(s) \in Nat /\ n \in Nat /\ a[i].uses \in Seq(Tools)
      BY <2>2, <2>3, <3>2, <3>3, AnswersType
    <3>5. PICK t : t = ids(i)
      OBVIOUS
    <3>6. t = [k \in 1 .. n |-> k]
      BY <3>3, <3>4, <3>5
    <3>7. Len(s) <= n /\ \A k \in 1 .. Len(s) : s[k] = k
      BY <2>2, <2>3, <3>2, <3>3 DEF HistoryInv, InOrder, Counts
    <3>8. IsPrefix(s, t)
      <4>1. t \in Seq(Nat) /\ Len(t) = n
        BY <3>4, <3>6
      <4>2. SubSeq(s, 1, Len(s)) = [k \in 1 .. Len(s) |-> k]
        BY <3>4, <3>7
      <4>3. SubSeq(t, 1, Len(s)) = [k \in 1 .. Len(s) |-> k]
        BY <3>4, <3>6, <3>7, <4>1
      <4> QED BY <3>7, <4>1, <4>2, <4>3 DEF IsPrefix
    <3>9. ASSUME phase \in {"idle", "chat"}, ~broken PROVE s = t
      <4>1. i # 0 /\ ~AtWork
        BY <3>9 DEF AtWork
      <4>2. Len(s) = n
        BY <2>2, <3>2, <3>3, <3>9, <4>1 DEF HistoryInv, CompleteBut
      <4> QED BY <3>4, <3>6, <3>7, <4>2
    <3> QED BY <3>1, <3>5, <3>8, <3>9
  <2> QED BY <2>1, <2>3 DEF ResultsAreGrouped
<1> QED BY <1>1, InitApproval, NextApproval, InitGroup, NextGroup, PTL DEF Spec

----------------------------------------------------------------------------
(* What the providers are told.                                            *)

(* A list in the user's name holds at least one result.                    *)
ListsFilled(a) ==
    \A i \in 1 .. Len(a) : a[i].role = "user" /\ a[i].list = TRUE => a[i].results # <<>>

(* The history with its grouping undone, message by message.               *)
Spread(a) == [i \in DOMAIN a |-> Ungrouped(a[i])]

(* Message j is the reply before message i.                                *)
ReplyBefore(ms, j, i) ==
    ms[j].role = "assistant" /\ \A k \in j + 1 .. i - 1 : ms[k].role # "assistant"

(* A result bears the name of the tool that the reply before it calls      *)
(* under the result's id.                                                  *)
NamesMatch(ms) ==
    \A i \in 1 .. Len(ms) : ms[i].role = "tool" =>
        \E j \in 1 .. i - 1 : ReplyBefore(ms, j, i) /\ ms[j].calls[ms[i].id] = ms[i].name

(* And so will those of the calls still to be executed.                    *)
NamesWillMatch ==
    AtWork => \E j \in 1 .. Len(messages) :
        /\ ReplyBefore(messages, j, Len(messages) + 1)
        /\ \A q \in 1 .. Len(pending) : messages[j].calls[pending[q].id] = pending[q].wish.cap

(* The providers are told the same of a history.                           *)
ToldAlike(ms) ==
    /\ ListsFilled(anthropic(ms)) /\ FlattenSeq(Spread(anthropic(ms))) = openai(ms)

TalkInv == ToldAlike(messages) /\ NamesMatch(messages) /\ NamesWillMatch

----------------------------------------------------------------------------
(* Flattening a sequence of sequences.                                     *)

(* f[i] joins the first i sequences.                                       *)
Joining(f, ss, n) == f = [i \in 1 .. n |-> IF i = 1 THEN ss[i] ELSE f[i - 1] \o ss[i]]

(* There is such a function.                                               *)
LEMMA JoiningExists == ASSUME NEW ss PROVE \A n \in Nat : \E f : Joining(f, ss, n)
<1> DEFINE T == {n \in Nat : ~ \E f : Joining(f, ss, n)}
<1> SUFFICES ASSUME T # {} PROVE FALSE
  OBVIOUS
<1>1. PICK n \in T : \A m \in T : n <= m
  BY Least
<1>2. n # 0
  <2>1. Joining([i \in 1 .. 0 |-> <<>>], ss, 0)
    BY DEF Joining
  <2> QED BY <2>1
<1>3. n - 1 \in Nat /\ n - 1 \notin T
  BY <1>1, <1>2
<1>4. PICK g : Joining(g, ss, n - 1)
  BY <1>3
<1> DEFINE f == [i \in 1 .. n |-> IF i # n THEN g[i]
                                  ELSE IF n = 1 THEN ss[1] ELSE g[n - 1] \o ss[n]]
<1>5. ASSUME NEW i \in 1 .. n
      PROVE  f[i] = IF i = 1 THEN ss[i] ELSE f[i - 1] \o ss[i]
  <2>1. n \in Nat /\ i \in Nat
    OBVIOUS
  <2>2. CASE i = 1 /\ n = 1
    BY <2>2
  <2>3. CASE i = n /\ n # 1
    <3>1. n - 1 \in 1 .. n /\ n - 1 # n
      BY <2>1, <2>3, <1>3
    <3>2. f[n - 1] = g[n - 1]
      BY <3>1
    <3>3. PICK x : x = g[n - 1] \o ss[n]
      OBVIOUS
    <3>4. f[i] = x
      BY <2>3, <3>3
    <3> QED BY <2>3, <3>2, <3>3, <3>4
  <2>4. CASE i # n
    <3>1. i \in 1 .. n - 1
      BY <2>1, <2>4
    <3>2. f[i] = g[i]
      BY <2>4
    <3>3. g[i] = IF i = 1 THEN ss[i] ELSE g[i - 1] \o ss[i]
      BY <3>1, <1>4 DEF Joining
    <3>4. CASE i = 1
      BY <3>2, <3>3, <3>4
    <3>5. CASE i # 1
      <4>1. i - 1 \in 1 .. n /\ i - 1 # n
        BY <3>1, <3>5, <2>1
      <4>2. f[i - 1] = g[i - 1]
        BY <4>1
      <4> QED BY <3>2, <3>3, <3>5, <4>2
    <3> QED BY <3>4, <3>5
  <2> QED BY <2>2, <2>3, <2>4
<1>6. Joining(f, ss, n)
  <2>1. f = [i \in 1 .. n |-> f[i]]
    OBVIOUS
  <2> HIDE DEF f
  <2>2. [i \in 1 .. n |-> f[i]]
        = [i \in 1 .. n |-> IF i = 1 THEN ss[i] ELSE f[i - 1] \o ss[i]]
    BY <1>5
  <2> QED BY <2>1, <2>2 DEF Joining
<1> QED BY <1>6, <1>1

(* FlattenSeq is its last value, a sequence over the same elements.        *)
LEMMA FlattenJoining ==
  ASSUME NEW S, NEW ss \in Seq(Seq(S)), ss # <<>>
  PROVE  \E f : /\ Joining(f, ss, Len(ss)) /\ FlattenSeq(ss) = f[Len(ss)]
                /\ \A i \in 1 .. Len(ss) : f[i] \in Seq(S)
<1> DEFINE g == CHOOSE f : Joining(f, ss, Len(ss))
           n == Len(ss)
<1>1. n \in Nat /\ n # 0 /\ \A i \in 1 .. n : ss[i] \in Seq(S)
  OBVIOUS
<1>2. Joining(g, ss, n)
  BY <1>1, JoiningExists
<1>3. FlattenSeq(ss) = g[n]
  BY <1>1, Zenon DEF FlattenSeq, Joining
<1> HIDE DEF g, n
<1> DEFINE T == {i \in 1 .. n : g[i] \notin Seq(S)}
<1>4. T = {}
  <2> SUFFICES ASSUME T # {} PROVE FALSE
    OBVIOUS
  <2>0. T \subseteq Nat
    BY <1>1
  <2>1. PICK i \in T : \A j \in T : i <= j
    <3> HIDE DEF T
    <3> QED BY <2>0, Least
  <2>2. i \in 1 .. n /\ ss[i] \in Seq(S) /\ g[i] \notin Seq(S)
    BY <1>1, <2>1
  <2>3. g[i] = IF i = 1 THEN ss[i] ELSE g[i - 1] \o ss[i]
    BY <2>2, <1>2 DEF Joining
  <2>4. i # 1
    BY <2>2, <2>3
  <2>5. i - 1 \in 1 .. n /\ ~ (i <= i - 1)
    BY <1>1, <2>2, <2>4
  <2>6. g[i - 1] \in Seq(S)
    BY <2>1, <2>5
  <2>7. g[i - 1] \o ss[i] \in Seq(S)
    BY <2>2, <2>6
  <2> QED BY <2>2, <2>3, <2>4, <2>7
<1>5. \A i \in 1 .. n : g[i] \in Seq(S)
  BY <1>4
<1> QED BY <1>2, <1>3, <1>5 DEF n

(* One more sequence is joined to the others.                              *)
LEMMA FlattenAppend ==
  ASSUME NEW S, NEW ss \in Seq(Seq(S)), NEW s \in Seq(S)
  PROVE  /\ FlattenSeq(ss) \in Seq(S)
         /\ FlattenSeq(Append(ss, s)) = FlattenSeq(ss) \o s
<1> DEFINE ss2 == Append(ss, s)
           n == Len(ss)
<1>1. ss2 \in Seq(Seq(S)) /\ Len(ss2) = n + 1 /\ ss2[n + 1] = s /\ n \in Nat /\ ss2 # <<>>
      /\ \A i \in 1 .. n : ss2[i] = ss[i]
  <2>1. PICK Q : Q = Seq(S)
    OBVIOUS
  <2>2. ss \in Seq(Q) /\ s \in Q
    BY <2>1
  <2>3. /\ ss2 \in Seq(Q) /\ Len(ss2) = n + 1 /\ ss2[n + 1] = s /\ n \in Nat
        /\ \A i \in 1 .. n : ss2[i] = ss[i]
    BY <2>2
  <2>4. ss2 # <<>>
    <3> HIDE DEF ss2, n
    <3>1. Len(ss2) # 0 /\ Len(<<>>) = 0
      BY <2>3
    <3> QED BY <3>1
  <2> QED BY <2>1, <2>3, <2>4
<1>2. PICK g : Joining(g, ss2, n + 1) /\ FlattenSeq(ss2) = g[n + 1]
  BY <1>1, FlattenJoining
<1>3. CASE ss = <<>>
  <2>1. FlattenSeq(ss) = <<>> /\ n = 0
    BY <1>3 DEF FlattenSeq
  <2>2. 1 \in 1 .. n + 1 /\ n + 1 = 1
    BY <2>1
  <2>3. g[1] = ss2[1]
    BY <1>2, <2>2 DEF Joining
  <2>4. FlattenSeq(ss2) = s
    BY <1>1, <1>2, <2>2, <2>3
  <2>5. <<>> \o s = s /\ <<>> \in Seq(S)
    OBVIOUS
  <2> QED BY <2>1, <2>4, <2>5
<1>4. CASE ss # <<>>
  <2>1. PICK f : /\ Joining(f, ss, n) /\ FlattenSeq(ss) = f[n]
                 /\ \A i \in 1 .. n : f[i] \in Seq(S)
    BY <1>4, FlattenJoining
  <2>2. n # 0
    BY <1>4
  <2> HIDE DEF ss2, n
  <2> DEFINE T == {i \in 1 .. n : f[i] # g[i]}
  <2>3. T = {}
    <3> SUFFICES ASSUME T # {} PROVE FALSE
      OBVIOUS
    <3>0. T \subseteq Nat
      BY <1>1
    <3>1. PICK i \in T : \A j \in T : i <= j
      <4> HIDE DEF T
      <4> QED BY <3>0, Least
    <3>2. i \in 1 .. n /\ i \in 1 .. n + 1 /\ f[i] # g[i]
      BY <1>1, <3>1
    <3>3. f[i] = IF i = 1 THEN ss[i] ELSE f[i - 1] \o ss[i]
      BY <3>2, <2>1 DEF Joining
    <3>4. g[i] = IF i = 1 THEN ss2[i] ELSE g[i - 1] \o ss2[i]
      BY <3>2, <1>2 DEF Joining
    <3>5. i # 1
      BY <3>2, <3>3, <3>4, <1>1
    <3>6. i - 1 \in 1 .. n /\ ~ (i <= i - 1)
      BY <1>1, <3>2, <3>5
    <3>7. f[i - 1] = g[i - 1]
      BY <3>1, <3>6
    <3> QED BY <3>2, <3>3, <3>4, <3>5, <3>7, <1>1
  <2>4. f[n] = g[n] /\ f[n] \in Seq(S)
    <3>1. n \in 1 .. n
      BY <1>1, <2>2
    <3> QED BY <2>1, <2>3, <3>1
  <2>5. PICK k : k = n + 1
    OBVIOUS
  <2>6. k \in 1 .. n + 1 /\ k # 1 /\ k - 1 = n
    BY <1>1, <2>2, <2>5
  <2>7. g[k] = g[k - 1] \o ss2[k]
    BY <2>6, <1>2 DEF Joining
  <2>8. FlattenSeq(ss2) = FlattenSeq(ss) \o s
    BY <1>1, <1>2, <2>1, <2>4, <2>5, <2>6, <2>7
  <2> QED BY <2>1, <2>4, <2>8 DEF ss2
<1> QED BY <1>3, <1>4

----------------------------------------------------------------------------
(* The same conversation, one message more.                                *)

(* What OpenAI is told of a message.                                       *)
Told(m) == Wire(m.role, FALSE, m.calls, IF m.role = "tool" THEN <<m.id>> ELSE <<>>)

(* openai() translates message by message.                                 *)
LEMMA OpenaiFacts ==
  ASSUME NEW ms \in Seq(Message)
  PROVE  /\ DOMAIN openai(ms) = 1 .. Len(ms) /\ DOMAIN ollama(ms) = 1 .. Len(ms)
         /\ \A i \in 1 .. Len(ms) : openai(ms)[i] = Told(ms[i])
         /\ \A i \in 1 .. Len(ms) : ms[i].role = "tool" => ollama(ms)[i].results = <<ms[i].name>>
<1>1. openai(ms) = [i \in 1 .. Len(ms) |-> Told(ms[i])]
  BY DEF openai, PerMessage, Told
<1>2. ollama(ms) = [i \in 1 .. Len(ms) |->
                      Wire(ms[i].role, FALSE, ms[i].calls,
                           IF ms[i].role = "tool" THEN <<ms[i].name>> ELSE <<>>)]
  BY DEF ollama, PerMessage
<1>3. \A i \in 1 .. Len(ms) : ms[i].role = "tool" => ollama(ms)[i].results = <<ms[i].name>>
  BY <1>2 DEF Wire
<1> QED BY <1>1, <1>2, <1>3

(* What OpenAI is told of the result of call x.                            *)
ToldResult(x) == Wire("tool", FALSE, <<>>, <<x>>)

(* It is a provider's message.                                             *)
LEMMA ToldResultType == ASSUME NEW x \in Nat PROVE ToldResult(x) \in Wires
<1>1. /\ <<>> \in Seq(Tools) /\ <<x>> \in Seq(Nat) /\ FALSE \in BOOLEAN
      /\ "tool" \in {"user", "assistant", "tool"}
  OBVIOUS
<1> QED BY <1>1, Zenon DEF ToldResult, Wire, Wires

(* A message with its grouping undone: one message for each result, or the *)
(* message itself.                                                         *)
LEMMA UngroupedFacts ==
  ASSUME NEW w \in Wires
  PROVE  /\ Ungrouped(w) \in Seq(Wires)
         /\ w.results = <<>> => Ungrouped(w) = <<Wire(w.role, FALSE, w.uses, <<>>)>>
         /\ w.results # <<>> =>
               Ungrouped(w) = [k \in 1 .. Len(w.results) |-> ToldResult(w.results[k])]
<1>1. /\ w.results \in Seq(Nat) /\ w.uses \in Seq(Tools) /\ w.role \in {"user", "assistant", "tool"}
      /\ w = [role |-> w.role, list |-> w.list, uses |-> w.uses, results |-> w.results]
  BY DEF Wires
<1>2. w.results # <<>> => Ungrouped(w) = [k \in 1 .. Len(w.results) |-> ToldResult(w.results[k])]
  BY DEF Ungrouped, ToldResult
<1>3. w.results = <<>> => Ungrouped(w) = <<Wire(w.role, FALSE, w.uses, <<>>)>>
  <2> SUFFICES ASSUME w.results = <<>> PROVE Ungrouped(w) = <<Wire(w.role, FALSE, w.uses, <<>>)>>
    OBVIOUS
  <2>1. ASSUME NEW x
        PROVE  [w EXCEPT !.list = x] = [role |-> w.role, list |-> x, uses |-> w.uses, results |-> <<>>]
    BY <1>1
  <2>2. [w EXCEPT !.list = FALSE] = Wire(w.role, FALSE, w.uses, <<>>)
    BY <2>1, Zenon DEF Wire
  <2> QED BY <2>2 DEF Ungrouped
<1>4. CASE w.results = <<>>
  <2>1. Wire(w.role, FALSE, w.uses, <<>>) \in Wires
    <3>1. <<>> \in Seq(Nat) /\ FALSE \in BOOLEAN
      OBVIOUS
    <3> QED BY <1>1, <3>1, Zenon DEF Wire, Wires
  <2>2. \A v \in Wires : <<v>> \in Seq(Wires)
    OBVIOUS
  <2>3. Ungrouped(w) \in Seq(Wires)
    BY <1>3, <1>4, <2>1, <2>2, Zenon
  <2> QED BY <1>2, <1>3, <2>3, Zenon
<1>5. CASE w.results # <<>>
  <2>1. \A k \in 1 .. Len(w.results) : ToldResult(w.results[k]) \in Wires
    BY <1>1, ToldResultType
  <2>2. Len(w.results) \in Nat
    BY <1>1
  <2>3. [k \in 1 .. Len(w.results) |-> ToldResult(w.results[k])] \in Seq(Wires)
    BY <2>1, <2>2
  <2> QED BY <1>2, <1>3, <1>5, <2>3
<1> QED BY <1>4, <1>5

(* A joined result is one more message.                                    *)
LEMMA UngroupedBlock ==
  ASSUME NEW w \in Wires, w.results # <<>>, NEW id \in Nat
  PROVE  /\ withBlock(w, id).results # <<>>
         /\ Ungrouped(withBlock(w, id)) = Ungrouped(w) \o <<ToldResult(id)>>
<1> DEFINE s == w.results
           t == Append(s, id)
           v == withBlock(w, id)
           n == Len(s)
<1>1. v \in Wires /\ v.results = t
  BY BlockFacts
<1>2. s \in Seq(Nat)
  BY DEF Wires
<1> HIDE DEF v, s
<1>3. /\ Len(t) = n + 1 /\ n \in Nat /\ t[n + 1] = id /\ \A k \in 1 .. n : t[k] = s[k]
  BY <1>2
<1> HIDE DEF t, n
<1>4. t # <<>>
  <2>1. Len(t) # 0 /\ Len(<<>>) = 0
    BY <1>3
  <2> QED BY <2>1
<1>5. Ungrouped(v) = [k \in 1 .. n + 1 |-> ToldResult(t[k])]
  BY <1>1, <1>3, <1>4, UngroupedFacts
<1>6. PICK u : u = Ungrouped(w)
  OBVIOUS
<1>7. u = [k \in 1 .. n |-> ToldResult(s[k])] /\ u \in Seq(Wires)
  BY <1>6, UngroupedFacts DEF s, n
<1>8. Len(u) = n
  BY <1>3, <1>7
<1>9. PICK x : x = ToldResult(id)
  OBVIOUS
<1>10. x \in Wires
  BY <1>9, ToldResultType
<1>11. u \o <<x>> = [k \in 1 .. n + 1 |-> IF k <= n THEN u[k] ELSE x]
  BY <1>3, <1>7, <1>8, <1>10
<1>12. ASSUME NEW k \in 1 .. n + 1 PROVE ToldResult(t[k]) = IF k <= n THEN u[k] ELSE x
  <2>1. CASE k <= n
    BY <2>1, <1>3, <1>7
  <2>2. CASE ~ (k <= n)
    <3>1. k = n + 1
      BY <2>2, <1>3
    <3> QED BY <2>2, <3>1, <1>3, <1>9
  <2> QED BY <2>1, <2>2
<1>13. [k \in 1 .. n + 1 |-> ToldResult(t[k])] = [k \in 1 .. n + 1 |-> IF k <= n THEN u[k] ELSE x]
  BY <1>12
<1> QED BY <1>1, <1>4, <1>5, <1>6, <1>9, <1>11, <1>13 DEF v

(* Undoing the grouping goes message by message.                           *)
LEMMA SpreadAppend ==
  ASSUME NEW a \in Seq(Wires), NEW w \in Wires
  PROVE  /\ Spread(a) \in Seq(Seq(Wires)) /\ Ungrouped(w) \in Seq(Wires)
         /\ Spread(Append(a, w)) = Append(Spread(a), Ungrouped(w))
<1>1. \A v \in Wires : Ungrouped(v) \in Seq(Wires)
  BY UngroupedFacts
<1> DEFINE n == Len(a)
           b == Append(a, w)
<1>2. /\ n \in Nat /\ DOMAIN a = 1 .. n /\ DOMAIN b = 1 .. n + 1 /\ b[n + 1] = w
      /\ \A i \in 1 .. n : b[i] = a[i] /\ a[i] \in Wires
  OBVIOUS
<1> HIDE DEF n, b
<1>3. PICK Q : Q = Seq(Wires)
  OBVIOUS
<1>4. PICK s : s = Spread(a)
  OBVIOUS
<1>5. PICK u : u = Ungrouped(w)
  OBVIOUS
<1>6. s = [i \in 1 .. n |-> Ungrouped(a[i])] /\ u \in Q
  BY <1>1, <1>2, <1>3, <1>4, <1>5 DEF Spread
<1>7. \A i \in 1 .. n : Ungrouped(a[i]) \in Q
  BY <1>1, <1>2, <1>3
<1>8. s \in Seq(Q) /\ Len(s) = n
  BY <1>2, <1>6, <1>7
<1>9. Append(s, u) = [i \in 1 .. n + 1 |-> IF i <= n THEN s[i] ELSE u]
  BY <1>2, <1>6, <1>8
<1>10. ASSUME NEW i \in 1 .. n + 1 PROVE Ungrouped(b[i]) = IF i <= n THEN s[i] ELSE u
  <2>1. CASE i <= n
    BY <2>1, <1>2, <1>6
  <2>2. CASE ~ (i <= n)
    <3>1. i = n + 1
      BY <2>2, <1>2
    <3> QED BY <2>2, <3>1, <1>2, <1>5
  <2> QED BY <2>1, <2>2
<1>11. [i \in 1 .. n + 1 |-> Ungrouped(b[i])] = [i \in 1 .. n + 1 |-> IF i <= n THEN s[i] ELSE u]
  BY <1>10
<1>12. Spread(b) = Append(s, u)
  BY <1>2, <1>9, <1>11 DEF Spread
<1> QED BY <1>1, <1>3, <1>4, <1>5, <1>8, <1>12 DEF b

(* The parts of a message.                                                 *)
LEMMA MessageParts ==
  ASSUME NEW m \in Message
  PROVE  /\ m.role \in {"user", "assistant", "tool"}
         /\ m.calls \in Seq(Tools) /\ m.id \in Nat
BY DEF Message

(* All but the last element of a sequence, and the last.                   *)
LEMMA FrontLast ==
  ASSUME NEW S, NEW s \in Seq(S), s # <<>>
  PROVE  /\ Front(s) \in Seq(S) /\ Len(Front(s)) = Len(s) - 1
         /\ \A i \in 1 .. Len(s) - 1 : Front(s)[i] = s[i]
         /\ Last(s) \in S /\ Last(s) = s[Len(s)] /\ Len(s) \in Nat /\ Len(s) >= 1
<1>1. Len(s) \in Nat /\ Len(s) >= 1 /\ Len(s) - 1 \in Nat
  OBVIOUS
<1>2. Last(s) = s[Len(s)] /\ s[Len(s)] \in S
  BY <1>1 DEF Last
<1>3. Front(s) = [i \in 1 .. Len(s) - 1 |-> s[i]]
  BY <1>1 DEF Front
<1>4. Front(s) \in Seq(S) /\ Len(Front(s)) = Len(s) - 1
  BY <1>1, <1>3
<1> QED BY <1>1, <1>2, <1>3, <1>4

(* The elements of an extended sequence.                                   *)
LEMMA AppendParts ==
  ASSUME NEW S, NEW s \in Seq(S), NEW x \in S
  PROVE  /\ Len(Append(s, x)) = Len(s) + 1 /\ Append(s, x)[Len(s) + 1] = x
         /\ \A i \in 1 .. Len(s) : Append(s, x)[i] = s[i]
OBVIOUS

(* One round of the loop tells the same as one more message of OpenAI's.   *)
LEMMA FlattenRound ==
  ASSUME NEW a \in Seq(Wires), ListsFilled(a), NEW m \in Message,
         m.role # "assistant" => m.calls = <<>>
  PROVE  /\ ListsFilled(translated(a, m))
         /\ FlattenSeq(Spread(a)) \in Seq(Wires)
         /\ FlattenSeq(Spread(translated(a, m))) = FlattenSeq(Spread(a)) \o <<Told(m)>>
<1>0. /\ m.role \in {"user", "assistant", "tool"} /\ m.calls \in Seq(Tools) /\ m.id \in Nat
      /\ Len(a) \in Nat
  <2>1. Len(a) \in Nat
    OBVIOUS
  <2> QED BY <2>1, MessageParts
<1>f. \A v \in Wires : /\ Spread(a) \in Seq(Seq(Wires))
                       /\ FlattenSeq(Spread(a)) \in Seq(Wires)
                       /\ FlattenSeq(Spread(Append(a, v))) = FlattenSeq(Spread(a)) \o Ungrouped(v)
  <2> SUFFICES ASSUME NEW v \in Wires
               PROVE  /\ Spread(a) \in Seq(Seq(Wires))
                      /\ FlattenSeq(Spread(a)) \in Seq(Wires)
                      /\ FlattenSeq(Spread(Append(a, v))) = FlattenSeq(Spread(a)) \o Ungrouped(v)
    OBVIOUS
  <2>1. /\ Spread(a) \in Seq(Seq(Wires)) /\ Ungrouped(v) \in Seq(Wires)
        /\ Spread(Append(a, v)) = Append(Spread(a), Ungrouped(v))
    BY SpreadAppend
  <2>2. /\ FlattenSeq(Spread(a)) \in Seq(Wires)
        /\ FlattenSeq(Append(Spread(a), Ungrouped(v))) = FlattenSeq(Spread(a)) \o Ungrouped(v)
    BY <2>1, FlattenAppend
  <2> QED BY <2>1, <2>2
<1>g. ASSUME NEW v \in Wires, v.role = "user" /\ v.list = TRUE => v.results # <<>>
      PROVE  ListsFilled(Append(a, v))
  <2>1. /\ Len(Append(a, v)) = Len(a) + 1 /\ Append(a, v)[Len(a) + 1] = v
        /\ \A i \in 1 .. Len(a) : Append(a, v)[i] = a[i]
    OBVIOUS
  <2>2. \A i \in 1 .. Len(a) + 1 : i \in 1 .. Len(a) \/ i = Len(a) + 1
    BY <1>0
  <2> QED BY <2>1, <2>2, <1>g DEF ListsFilled
<1>1. CASE m.role \in {"user", "assistant"}
  <2> DEFINE w == Wire(m.role, m.role = "assistant", m.calls, <<>>)
  <2>1. w \in Wires
    <3>1. <<>> \in Seq(Nat) /\ (m.role = "assistant") \in BOOLEAN
      OBVIOUS
    <3> QED BY <1>0, <3>1, Zenon DEF Wire, Wires
  <2>2. w.role = m.role /\ w.results = <<>> /\ w.uses = m.calls
    BY DEF Wire
  <2>3. w.list = (m.role = "assistant")
    BY Zenon DEF Wire
  <2>4. translated(a, m) = Append(a, w)
    <3>1. CASE m.role = "user"
      <4>1. m.calls = <<>> /\ (m.role = "assistant") = FALSE
        BY <3>1
      <4>2. w = Wire("user", FALSE, <<>>, <<>>)
        BY <3>1, <4>1, Zenon
      <4>3. translated(a, m) = Append(a, Wire("user", FALSE, <<>>, <<>>))
        BY <3>1 DEF translated
      <4> QED BY <4>2, <4>3, Zenon
    <3>2. CASE m.role = "assistant"
      <4>1. (m.role = "assistant") = TRUE
        BY <3>2
      <4>2. w = Wire("assistant", TRUE, m.calls, <<>>)
        BY <3>2, <4>1, Zenon
      <4>3. translated(a, m) = Append(a, Wire("assistant", TRUE, m.calls, <<>>))
        BY <3>2 DEF translated
      <4> QED BY <4>2, <4>3, Zenon
    <3> QED BY <1>1, <3>1, <3>2
  <2>5. ~ (w.role = "user" /\ w.list = TRUE)
    BY <2>2, <2>3
  <2>6. Told(m) = Wire(w.role, FALSE, w.uses, <<>>)
    <3>1. (IF m.role = "tool" THEN <<m.id>> ELSE <<>>) = <<>>
      BY <1>1
    <3> QED BY <2>2, <3>1, Zenon DEF Told
  <2> HIDE DEF w
  <2>7. Ungrouped(w) = <<Told(m)>>
    BY <2>1, <2>2, <2>6, UngroupedFacts, Zenon
  <2>8. FlattenSeq(Spread(Append(a, w))) = FlattenSeq(Spread(a)) \o <<Told(m)>>
        /\ FlattenSeq(Spread(a)) \in Seq(Wires)
    BY <1>f, <2>1, <2>7, Zenon
  <2>9. ListsFilled(Append(a, w))
    BY <1>g, <2>1, <2>5
  <2> QED BY <2>4, <2>8, <2>9, Zenon
<1>2. CASE m.role = "tool"
  <2>0. /\ Told(m) = ToldResult(m.id) /\ Told(m) \in Wires
    <3>1. (IF m.role = "tool" THEN <<m.id>> ELSE <<>>) = <<m.id>> /\ m.calls = <<>>
      BY <1>2
    <3>2. Told(m) = ToldResult(m.id)
      BY <1>2, <3>1, Zenon DEF Told, ToldResult
    <3> QED BY <1>0, <3>2, ToldResultType
  <2>1. CASE ~ joins(a)
    <3> DEFINE w == Wire("user", TRUE, <<>>, <<m.id>>)
    <3>1. translated(a, m) = Append(a, w)
      BY <1>2, <2>1 DEF translated
    <3>2. w \in Wires
      <4>1. /\ <<>> \in Seq(Tools) /\ <<m.id>> \in Seq(Nat) /\ TRUE \in BOOLEAN
            /\ "user" \in {"user", "assistant", "tool"}
        BY <1>0
      <4> QED BY <4>1, Zenon DEF Wire, Wires
    <3>3. w.results = <<m.id>>
      BY DEF Wire
    <3> HIDE DEF w
    <3>4. w.results # <<>> /\ Len(w.results) = 1 /\ w.results[1] = m.id
      BY <1>0, <3>3
    <3>5. Ungrouped(w) = [k \in 1 .. 1 |-> ToldResult(w.results[k])]
      BY <3>2, <3>4, UngroupedFacts
    <3>6. Ungrouped(w) = <<ToldResult(m.id)>>
      BY <3>4, <3>5
    <3>7. FlattenSeq(Spread(Append(a, w))) = FlattenSeq(Spread(a)) \o <<Told(m)>>
          /\ FlattenSeq(Spread(a)) \in Seq(Wires)
      BY <1>f, <2>0, <3>2, <3>6
    <3>8. ListsFilled(Append(a, w))
      BY <1>g, <3>2, <3>4
    <3> QED BY <3>1, <3>7, <3>8
  <2>2. CASE joins(a)
    <3> DEFINE l == Last(a)
               w == withBlock(l, m.id)
               c == Front(a)
    <3>1. translated(a, m) = Append(c, w)
      BY <1>2, <2>2 DEF translated
    <3>2. a # <<>> /\ l.role = "user" /\ l.list = TRUE
      BY <2>2 DEF joins, Wires
    <3>3. Len(a) >= 1 /\ l = a[Len(a)] /\ l \in Wires
      BY <1>0, <3>2 DEF Last
    <3>4. l.results # <<>>
      BY <1>0, <3>2, <3>3 DEF ListsFilled
    <3>5. /\ c \in Seq(Wires) /\ Len(c) = Len(a) - 1 /\ \A i \in 1 .. Len(a) - 1 : c[i] = a[i]
      BY <3>2, FrontLast
    <3>6. a = Append(c, l)
      <4> HIDE DEF c, l
      <4> QED BY <1>0, <3>3, <3>5
    <3>7. /\ w \in Wires /\ w.results # <<>>
          /\ Ungrouped(w) = Ungrouped(l) \o <<ToldResult(m.id)>>
      BY <1>0, <3>3, <3>4, BlockFacts, UngroupedBlock
    <3> HIDE DEF c, l, w
    <3>8. /\ Spread(c) \in Seq(Seq(Wires)) /\ Ungrouped(l) \in Seq(Wires) /\ Ungrouped(w) \in Seq(Wires)
          /\ Spread(a) = Append(Spread(c), Ungrouped(l))
          /\ Spread(Append(c, w)) = Append(Spread(c), Ungrouped(w))
      BY <3>3, <3>5, <3>6, <3>7, SpreadAppend
    <3>9. /\ FlattenSeq(Spread(c)) \in Seq(Wires)
          /\ FlattenSeq(Spread(a)) = FlattenSeq(Spread(c)) \o Ungrouped(l)
          /\ FlattenSeq(Spread(Append(c, w))) = FlattenSeq(Spread(c)) \o Ungrouped(w)
      BY <3>8, FlattenAppend
    <3>10. FlattenSeq(Spread(a)) \in Seq(Wires)
      BY <1>f, <3>3
    <3>11. PICK x \in Seq(Wires) : x = FlattenSeq(Spread(c))
      BY <3>9
    <3>12. PICK y \in Seq(Wires) : y = Ungrouped(l)
      BY <3>8
    <3>13. PICK z \in Wires : z = ToldResult(m.id)
      BY <2>0
    <3>14. x \o (y \o <<z>>) = (x \o y) \o <<z>>
      <4>1. <<z>> \in Seq(Wires)
        OBVIOUS
      <4> QED BY <4>1, ConcatAssociative
    <3>15. FlattenSeq(Spread(Append(c, w))) = FlattenSeq(Spread(a)) \o <<Told(m)>>
      BY <2>0, <3>7, <3>9, <3>11, <3>12, <3>13, <3>14
    <3>16. ListsFilled(Append(c, w))
      <4>1. /\ Len(Append(c, w)) = Len(a) /\ Append(c, w)[Len(a)] = w
            /\ \A i \in 1 .. Len(a) - 1 : Append(c, w)[i] = a[i]
        <5>1. Len(c) = Len(a) - 1 /\ Len(c) + 1 = Len(a)
          BY <1>0, <3>5
        <5> QED BY <3>5, <3>7, <5>1, AppendParts
      <4>2. \A i \in 1 .. Len(a) : i \in 1 .. Len(a) - 1 \/ i = Len(a)
        BY <1>0
      <4> QED BY <4>1, <4>2, <3>7 DEF ListsFilled
    <3> QED BY <3>1, <3>10, <3>15, <3>16
  <2> QED BY <2>1, <2>2
<1> QED BY <1>0, <1>1, <1>2

(* What OpenAI is told of a message is a provider's message.               *)
LEMMA ToldType == ASSUME NEW m \in Message PROVE Told(m) \in Wires
<1>1. m.role \in {"user", "assistant", "tool"} /\ m.calls \in Seq(Tools) /\ m.id \in Nat
  BY MessageParts
<1>2. (IF m.role = "tool" THEN <<m.id>> ELSE <<>>) \in Seq(Nat) /\ FALSE \in BOOLEAN
  BY <1>1
<1> QED BY <1>1, <1>2, Zenon DEF Told, Wire, Wires

(* openai() of a longer history.                                           *)
LEMMA OpenaiAppend ==
  ASSUME NEW ms \in Seq(Message), NEW m \in Message
  PROVE  openai(Append(ms, m)) = openai(ms) \o <<Told(m)>>
<1> DEFINE n == Len(ms)
           b == Append(ms, m)
<1>1. n \in Nat /\ b \in Seq(Message) /\ Len(b) = n + 1 /\ b[n + 1] = m /\ \A i \in 1 .. n : b[i] = ms[i]
  OBVIOUS
<1>2. \A i \in 1 .. n : ms[i] \in Message
  OBVIOUS
<1> HIDE DEF n, b
<1>3. PICK o : o = openai(ms)
  OBVIOUS
<1>4. PICK x : x = Told(m)
  OBVIOUS
<1>5. o = [i \in 1 .. n |-> Told(ms[i])] /\ openai(b) = [i \in 1 .. n + 1 |-> Told(b[i])]
  BY <1>1, <1>3 DEF openai, PerMessage, Told, n
<1>6. x \in Wires /\ \A i \in 1 .. n : Told(ms[i]) \in Wires
  BY <1>2, <1>4, ToldType
<1>7. o \in Seq(Wires) /\ Len(o) = n
  BY <1>1, <1>5, <1>6
<1>8. o \o <<x>> = [i \in 1 .. n + 1 |-> IF i <= n THEN o[i] ELSE x]
  BY <1>1, <1>5, <1>6, <1>7
<1>9. ASSUME NEW i \in 1 .. n + 1 PROVE Told(b[i]) = IF i <= n THEN o[i] ELSE x
  <2>1. CASE i <= n
    BY <2>1, <1>1, <1>5
  <2>2. CASE ~ (i <= n)
    <3>1. i = n + 1
      BY <2>2, <1>1
    <3> QED BY <2>2, <3>1, <1>1, <1>4
  <2> QED BY <2>1, <2>2
<1>10. [i \in 1 .. n + 1 |-> Told(b[i])] = [i \in 1 .. n + 1 |-> IF i <= n THEN o[i] ELSE x]
  BY <1>9
<1> QED BY <1>3, <1>4, <1>5, <1>8, <1>10 DEF b

(* The providers are told the same of a longer history.                    *)
LEMMA ToldAlikeAppend ==
  ASSUME NEW ms \in Seq(Message), anthropic(ms) \in Seq(Wires), ToldAlike(ms),
         NEW m \in Message, m.role # "assistant" => m.calls = <<>>
  PROVE  ToldAlike(Append(ms, m))
<1>1. PICK a : a = anthropic(ms)
  OBVIOUS
<1>2. anthropic(Append(ms, m)) = translated(a, m)
  BY <1>1, AnthropicAppend
<1>3. a \in Seq(Wires) /\ ListsFilled(a) /\ FlattenSeq(Spread(a)) = openai(ms)
  BY <1>1 DEF ToldAlike
<1>4. /\ ListsFilled(translated(a, m))
      /\ FlattenSeq(Spread(translated(a, m))) = FlattenSeq(Spread(a)) \o <<Told(m)>>
  BY <1>3, FlattenRound
<1>5. openai(Append(ms, m)) = openai(ms) \o <<Told(m)>>
  BY OpenaiAppend
<1> QED BY <1>2, <1>3, <1>4, <1>5 DEF ToldAlike

(* Of an empty history nothing is told.                                    *)
LEMMA ToldAlikeEmpty == ToldAlike(<<>>)
<1>1. anthropic(<<>>) = <<>>
  BY AnthropicEmpty
<1>2. Len(<<>>) = 0 /\ DOMAIN <<>> = {} /\ 1 .. 0 = {}
  OBVIOUS
<1>3. ListsFilled(<<>>)
  BY <1>2 DEF ListsFilled
<1>5. Spread(<<>>) = <<>>
  <2>1. Spread(<<>>) = [i \in {} |-> Ungrouped(<<>>[i])]
    BY <1>2 DEF Spread
  <2> QED BY <2>1
<1>6. openai(<<>>) = <<>>
  <2>1. openai(<<>>) = [i \in 1 .. 0 |-> Told(<<>>[i])]
    BY <1>2 DEF openai, PerMessage, Told
  <2> QED BY <2>1
<1>7. FlattenSeq(<<>>) = <<>>
  BY DEF FlattenSeq
<1> QED BY <1>1, <1>3, <1>5, <1>6, <1>7 DEF ToldAlike

(* A longer history whose last result is the one expected.                 *)
LEMMA NamesAppend ==
  ASSUME NEW ms \in Seq(Message), NamesMatch(ms), NEW m \in Message,
         m.role = "tool" => \E j \in 1 .. Len(ms) : /\ ReplyBefore(ms, j, Len(ms) + 1)
                                                    /\ ms[j].calls[m.id] = m.name
  PROVE  NamesMatch(Append(ms, m))
<1> DEFINE n == Len(ms)
           b == Append(ms, m)
<1>1. n \in Nat /\ Len(b) = n + 1 /\ b[n + 1] = m /\ \A i \in 1 .. n : b[i] = ms[i]
  OBVIOUS
<1> HIDE DEF b
<1>2. ASSUME NEW i \in 1 .. n + 1, NEW j \in 1 .. i - 1, ReplyBefore(ms, j, i)
      PROVE  ReplyBefore(b, j, i) /\ b[j] = ms[j]
  <2>1. j \in 1 .. n /\ \A k \in j + 1 .. i - 1 : k \in 1 .. n
    BY <1>1, <1>2
  <2> QED BY <1>1, <1>2, <2>1 DEF ReplyBefore
<1>3. ASSUME NEW i \in 1 .. n + 1, b[i].role = "tool"
      PROVE  \E j \in 1 .. i - 1 : ReplyBefore(b, j, i) /\ b[j].calls[b[i].id] = b[i].name
  <2>1. CASE i \in 1 .. n
    <3>1. b[i] = ms[i] /\ ms[i].role = "tool"
      BY <1>1, <1>3, <2>1
    <3>2. PICK j \in 1 .. i - 1 : ReplyBefore(ms, j, i) /\ ms[j].calls[ms[i].id] = ms[i].name
      BY <2>1, <3>1 DEF NamesMatch
    <3>3. ReplyBefore(b, j, i) /\ b[j] = ms[j]
      BY <1>2, <3>2
    <3> QED BY <3>1, <3>2, <3>3
  <2>2. CASE i \notin 1 .. n
    <3>1. i = n + 1 /\ i - 1 = n
      BY <1>1, <2>2
    <3>2. b[i] = m /\ m.role = "tool"
      BY <1>1, <1>3, <3>1
    <3>3. PICK j \in 1 .. n : ReplyBefore(ms, j, n + 1) /\ ms[j].calls[m.id] = m.name
      BY <3>2
    <3>4. ReplyBefore(ms, j, i) /\ j \in 1 .. i - 1
      BY <3>1, <3>3
    <3>5. ReplyBefore(b, j, i) /\ b[j] = ms[j]
      BY <1>2, <3>4
    <3> QED BY <3>2, <3>3, <3>4, <3>5
  <2> QED BY <2>1, <2>2
<1> QED BY <1>1, <1>3 DEF NamesMatch, b

----------------------------------------------------------------------------
(* The steps.                                                              *)

(* What a history in order is translated to.                               *)
LEMMA GroupTypes == GroupInv => messages \in Seq(Message) /\ anthropic(messages) \in Seq(Wires)
<1> SUFFICES ASSUME GroupInv PROVE messages \in Seq(Message) /\ anthropic(messages) \in Seq(Wires)
  OBVIOUS
<1>1. PICK a : a = anthropic(messages)
  OBVIOUS
<1> QED BY <1>1 DEF GroupInv, HistoryInv

(* An empty history.                                                       *)
LEMMA InitTalk == Init => TalkInv
<1> SUFFICES ASSUME Init PROVE TalkInv
  OBVIOUS
<1>1. messages = <<>> /\ ~AtWork
  BY DEF Init, AtWork
<1>2. Len(<<>>) = 0
  OBVIOUS
<1>3. NamesMatch(<<>>)
  BY <1>2 DEF NamesMatch
<1> QED BY <1>1, <1>3, ToldAlikeEmpty DEF TalkInv, NamesWillMatch

(* A line of the operator.                                                 *)
LEMMA UserTalk == ASSUME GroupInv, TalkInv, UserSays PROVE TalkInv'
<1> DEFINE m == Say("user", <<>>, 0, "")
<1>1. messages' = Append(messages, m) /\ phase' = "chat"
  BY DEF UserSays
<1>2. m \in Message /\ m.role = "user" /\ m.calls = <<>>
  <2>1. <<>> \in Seq(Tools)
    OBVIOUS
  <2> QED BY <2>1, SayType DEF Say
<1> HIDE DEF m
<1>3. messages \in Seq(Message) /\ anthropic(messages) \in Seq(Wires)
  BY GroupTypes
<1>4. PICK ms : ms = Append(messages, m)
  OBVIOUS
<1>5. ToldAlike(ms)
  BY <1>2, <1>3, <1>4, ToldAlikeAppend DEF TalkInv
<1>6. NamesMatch(ms)
  BY <1>2, <1>3, <1>4, NamesAppend DEF TalkInv
<1>7. NamesWillMatch'
  BY <1>1 DEF NamesWillMatch, AtWork
<1> QED BY <1>1, <1>4, <1>5, <1>6, <1>7 DEF TalkInv

(* A reply of the model.                                                   *)
LEMMA RepliesTalk ==
  ASSUME GroupInv, TalkInv, NEW n \in 0 .. MaxCalls, NEW wishes \in [1 .. n -> Wishes],
         Replies(wishes)
  PROVE  TalkInv'
<1> DEFINE cs == [k \in 1 .. n |-> wishes[k].cap]
           m == Say("assistant", cs, 0, "")
<1>0. n \in Nat
  BY BoundsAssumption
<1>1. wishes \in Seq(Wishes) /\ Len(wishes) = n
  BY <1>0
<1>2. /\ messages' = Append(messages, m)
      /\ pending' = [k \in 1 .. n |-> [id |-> k, wish |-> wishes[k]]]
  BY <1>1 DEF Replies
<1>3. cs \in Seq(Tools)
  <2>1. \A x \in Wishes : x.cap \in Tools
    BY CapsAssumption DEF Wishes
  <2>2. cs \in [1 .. n -> Tools]
    BY <2>1
  <2> QED BY <1>0, <2>2
<1>4. \A k \in 1 .. n : cs[k] = wishes[k].cap
  OBVIOUS
<1> HIDE DEF cs
<1>5. m \in Message /\ m.role = "assistant" /\ m.calls = cs
  BY <1>3, SayType DEF Say
<1> HIDE DEF m
<1>6. messages \in Seq(Message) /\ anthropic(messages) \in Seq(Wires)
  BY GroupTypes
<1>7. PICK ms : ms = Append(messages, m)
  OBVIOUS
<1>8. ToldAlike(ms)
  BY <1>5, <1>6, <1>7, ToldAlikeAppend DEF TalkInv
<1>9. NamesMatch(ms)
  BY <1>5, <1>6, <1>7, NamesAppend DEF TalkInv
<1>10. NamesWillMatch'
  <2>1. PICK j : j = Len(messages) + 1
    OBVIOUS
  <2>2. j \in Nat /\ Len(ms) = j /\ ms[j] = m /\ j \in 1 .. Len(ms) /\ j + 1 .. (Len(ms) + 1) - 1 = {}
    BY <1>5, <1>6, <1>7, <2>1
  <2>3. ReplyBefore(ms, j, Len(ms) + 1)
    BY <1>5, <2>2 DEF ReplyBefore
  <2>4. Len(pending') = n /\ \A q \in 1 .. n : pending'[q].id = q /\ pending'[q].wish = wishes[q]
    BY <1>0, <1>2
  <2>5. \A q \in 1 .. Len(pending') : ms[j].calls[pending'[q].id] = pending'[q].wish.cap
    BY <1>4, <1>5, <2>2, <2>4
  <2>6. messages' = ms
    BY <1>2, <1>7
  <2> QED BY <2>2, <2>3, <2>5, <2>6 DEF NamesWillMatch
<1> QED BY <1>2, <1>7, <1>8, <1>9, <1>10 DEF TalkInv

(* A result of a call.                                                     *)
LEMMA AnsweredTalk ==
  ASSUME GroupInv, TalkInv, ApprovalTypes, AtWork, pending # <<>>, Answered
  PROVE  TalkInv'
<1> DEFINE id == Head(pending).id
           m == Say("tool", <<>>, id, Current.cap)
<1>1. messages' = Append(messages, m) /\ pending' = Tail(pending)
  BY DEF Answered
<1>2. /\ id \in Nat /\ m \in Message /\ pending \in Seq(ToolCall)
      /\ m.role = "tool" /\ m.calls = <<>> /\ m.id = id /\ m.name = Head(pending).wish.cap
  <2>1. Head(pending) \in ToolCall /\ Current.cap \in ReadCaps \cup RiskyCaps \cup {"unknown"}
    BY CurrentType
  <2>2. id \in Nat
    BY <2>1, BoundsAssumption DEF ToolCall
  <2>3. Current.cap \in Tools \cup {""}
    BY <2>1, CapsAssumption, Zenon
  <2>4. <<>> \in Seq(Tools)
    OBVIOUS
  <2>5. m \in Message
    BY <2>2, <2>3, <2>4, SayType
  <2>6. m.role = "tool" /\ m.calls = <<>> /\ m.id = id /\ m.name = Head(pending).wish.cap
    BY DEF Say, Current
  <2> QED BY <2>2, <2>5, <2>6 DEF ApprovalTypes
<1>3. /\ Len(pending) \in Nat /\ 1 \in 1 .. Len(pending) /\ pending[1] = Head(pending)
      /\ Len(Tail(pending)) = Len(pending) - 1
      /\ \A q \in 1 .. Len(Tail(pending)) : /\ Tail(pending)[q] = pending[q + 1]
                                            /\ q + 1 \in 1 .. Len(pending)
  BY <1>2
<1>4. messages \in Seq(Message) /\ anthropic(messages) \in Seq(Wires)
  BY GroupTypes
<1>5. PICK j \in 1 .. Len(messages) :
        /\ ReplyBefore(messages, j, Len(messages) + 1)
        /\ \A q \in 1 .. Len(pending) : messages[j].calls[pending[q].id] = pending[q].wish.cap
  BY DEF TalkInv, NamesWillMatch
<1>6. messages[j].calls[m.id] = m.name
  BY <1>2, <1>3, <1>5
<1> HIDE DEF m, id
<1>7. PICK ms : ms = Append(messages, m)
  OBVIOUS
<1>8. ToldAlike(ms)
  BY <1>2, <1>4, <1>7, ToldAlikeAppend DEF TalkInv
<1>9. NamesMatch(ms)
  BY <1>2, <1>4, <1>5, <1>6, <1>7, NamesAppend DEF TalkInv
<1>10. NamesWillMatch'
  <2>1. /\ Len(messages) \in Nat /\ Len(ms) = Len(messages) + 1 /\ ms[Len(messages) + 1] = m
        /\ \A i \in 1 .. Len(messages) : ms[i] = messages[i]
    BY <1>2, <1>4, <1>7, AppendParts
  <2>2. j \in 1 .. Len(ms) /\ ms[j] = messages[j]
    BY <1>5, <2>1
  <2>3. ASSUME NEW k \in j + 1 .. (Len(ms) + 1) - 1 PROVE ms[k].role # "assistant"
    <3>1. CASE k \in j + 1 .. (Len(messages) + 1) - 1
      <4>1. k \in 1 .. Len(messages)
        BY <2>1, <3>1
      <4> QED BY <1>5, <2>1, <3>1, <4>1 DEF ReplyBefore
    <3>2. CASE k \notin j + 1 .. (Len(messages) + 1) - 1
      <4>1. k = Len(messages) + 1
        BY <2>1, <2>3, <3>2
      <4> QED BY <1>2, <2>1, <4>1
    <3> QED BY <3>1, <3>2
  <2>4. ReplyBefore(ms, j, Len(ms) + 1)
    BY <1>5, <2>2, <2>3 DEF ReplyBefore
  <2>5. ASSUME NEW q \in 1 .. Len(pending')
        PROVE  ms[j].calls[pending'[q].id] = pending'[q].wish.cap
    <3>1. PICK p \in 1 .. Len(pending) : p = q + 1
      BY <1>1, <1>3, <2>5
    <3>2. pending'[q] = pending[p]
      BY <1>1, <1>3, <2>5, <3>1
    <3> QED BY <1>5, <2>2, <3>1, <3>2
  <2>6. messages' = ms
    BY <1>1, <1>7
  <2> QED BY <2>2, <2>4, <2>5, <2>6 DEF NamesWillMatch
<1> QED BY <1>1, <1>7, <1>8, <1>9, <1>10 DEF TalkInv

(* Each step tells the providers the same.                                 *)
LEMMA NextTalk == ApprovalInv /\ GroupInv /\ TalkInv /\ [Next]_vars => TalkInv'
<1> SUFFICES ASSUME ApprovalInv, GroupInv, TalkInv, [Next]_vars PROVE TalkInv'
  OBVIOUS
<1>t. ApprovalTypes /\ (AtWork => pending # <<>>)
  BY DEF ApprovalInv, AtHand, AtWork
<1>1. ASSUME UNCHANGED <<messages, pending>>, AtWork' => AtWork PROVE TalkInv'
  BY <1>1 DEF TalkInv, NamesWillMatch
<1>2. ASSUME BeginCall \/ (\E ans \in {"y", "a"} : Approves(ans)) \/ Grants PROVE TalkInv'
  BY <1>1, <1>2 DEF BeginCall, Approves, Grants, AtWork
<1>3. ASSUME (\E c \in RiskyCaps : OtherCalls(c)) \/ KernelStops \/ KernelBoots \/ UNCHANGED vars
      PROVE  TalkInv'
  BY <1>1, <1>3 DEF OtherCalls, KernelStops, KernelBoots, vars, agent, AtWork
<1>4. ASSUME GrantFails \/ CallCut \/ Interrupted PROVE TalkInv'
  <2>1. messages' = messages /\ phase' = "idle"
    BY <1>4 DEF GrantFails, CallCut, Interrupted, Raises
  <2> QED BY <2>1 DEF TalkInv, NamesWillMatch, AtWork
<1>5. ASSUME UnknownTool \/ Denies \/ Calls PROVE TalkInv'
  <2>1. Answered /\ AtWork
    BY <1>5 DEF UnknownTool, Denies, Calls, AtWork
  <2> QED BY <2>1, <1>t, AnsweredTalk
<1>6. ASSUME \E n \in 0 .. MaxCalls : \E wishes \in [1 .. n -> Wishes] : Replies(wishes)
      PROVE  TalkInv'
  BY <1>6, RepliesTalk, Zenon
<1>7. ASSUME AgentStep PROVE TalkInv'
  BY <1>2, <1>4, <1>5, <1>6, <1>7, Zenon DEF AgentStep
<1> QED BY <1>3, <1>4, <1>7, UserTalk, Zenon DEF Next

(* All providers are told the same conversation: with its grouping undone  *)
(* the Anthropic translation is the OpenAI one, and the tool name Ollama   *)
(* is given for a result is that of the call the others name by id, also   *)
(* in a history with calls left unanswered.                                *)
THEOREM ConversationCorrect == Spec => []SameConversation
<1>1. GroupInv /\ TalkInv => SameConversation
  <2> SUFFICES ASSUME GroupInv, TalkInv PROVE SameConversation
    OBVIOUS
  <2>1. PICK ms : ms = messages
    OBVIOUS
  <2>2. PICK o : o = openai(ms)
    OBVIOUS
  <2>3. ms \in Seq(Message) /\ Len(ms) \in Nat
    BY <2>1, GroupTypes
  <2>4. /\ DOMAIN o = 1 .. Len(ms) /\ \A i \in 1 .. Len(ms) : o[i] = Told(ms[i])
        /\ \A i \in 1 .. Len(ms) : ms[i].role = "tool" => ollama(ms)[i].results = <<ms[i].name>>
    BY <2>2, <2>3, OpenaiFacts
  <2>5. \A i \in 1 .. Len(ms) : o[i].role = ms[i].role /\ o[i].uses = ms[i].calls
    BY <2>4 DEF Told, Wire
  <2>6. ASSUME NEW i \in DOMAIN o, o[i].role = "tool"
        PROVE  ollama(ms)[i].results = <<ToolOf(o, i)>>
    <3>1. i \in 1 .. Len(ms) /\ ms[i].role = "tool"
      BY <2>4, <2>5, <2>6
    <3>2. o[i].results[1] = ms[i].id
      BY <2>4, <3>1 DEF Told, Wire
    <3>3. PICK j \in 1 .. i - 1 : ReplyBefore(ms, j, i) /\ ms[j].calls[ms[i].id] = ms[i].name
      BY <2>1, <3>1 DEF TalkInv, NamesMatch
    <3> DEFINE R == {k \in 1 .. i - 1 : /\ o[k].role = "assistant"
                                        /\ \A l \in k + 1 .. i - 1 : o[l].role # "assistant"}
    <3>4. j \in 1 .. Len(ms) /\ \A k \in 1 .. i - 1 : k \in 1 .. Len(ms)
      BY <2>3, <3>1, <3>3
    <3>5. j \in R
      BY <2>3, <2>5, <3>1, <3>3, <3>4 DEF ReplyBefore
    <3>6. ASSUME NEW k \in R PROVE k = j
      <4>1. k \in 1 .. i - 1 /\ j \in 1 .. i - 1 /\ i \in Nat
        BY <2>3, <3>1, <3>3
      <4>2. CASE k < j
        <5>1. j \in k + 1 .. i - 1
          BY <4>1, <4>2
        <5> QED BY <3>5, <3>6, <5>1
      <4>3. CASE j < k
        <5>1. k \in j + 1 .. i - 1
          BY <4>1, <4>3
        <5> QED BY <3>5, <3>6, <5>1
      <4> QED BY <4>1, <4>2, <4>3
    <3>7. (CHOOSE k \in 1 .. i - 1 : /\ o[k].role = "assistant"
                                     /\ \A l \in k + 1 .. i - 1 : o[l].role # "assistant") = j
      BY <3>5, <3>6
    <3>8. ToolOf(o, i) = o[j].uses[o[i].results[1]]
      BY <3>7 DEF ToolOf
    <3>9. ToolOf(o, i) = ms[i].name
      BY <2>5, <3>2, <3>3, <3>4, <3>8
    <3> QED BY <2>4, <3>1, <3>9
  <2>7. FlattenSeq([i \in DOMAIN anthropic(ms) |-> Ungrouped(anthropic(ms)[i])]) = o
    BY <2>1, <2>2 DEF TalkInv, ToldAlike, Spread
  <2> QED BY <2>1, <2>2, <2>6, <2>7 DEF SameConversation
<1> QED BY <1>1, InitApproval, NextApproval, InitGroup, NextGroup, InitTalk, NextTalk, PTL DEF Spec
=============================================================================
