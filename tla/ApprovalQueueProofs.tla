----------------------- MODULE ApprovalQueueProofs -----------------------
(***************************************************************************)
(* Proofs about ApprovalQueue, for any number of requests, operators,      *)
(* agents and hosts and any number of faults.                              *)
(*                                                                         *)
(* AtMostOnce is not inductive: what keeps two actors off one item is that *)
(* an item in anybody's hands is already approved and without a result     *)
(* (Hands), that operators hold different items, none of them resolved by  *)
(* a timeout (OperatorHands), and that the items the loop has not reached  *)
(* yet are untouched (BatchInv).  EntryInv ties an entry's fields together.*)
(***************************************************************************)
EXTENDS ApprovalQueue, TLAPS

Busy(a) == run[a].pc \in {"run", "ran"}

\* An item being carried out is approved, has no result and did not run twice.
Hands ==
  \A a \in Actors : Busy(a) =>
    /\ run[a].item \in Items
    /\ status[run[a].item] = "approved"
    /\ result[run[a].item] = "none"
    /\ run[a].pc = "run" => runs[run[a].item] = 0
    /\ run[a].pc = "ran" => runs[run[a].item] <= 1 /\ run[a].res # "none"
    /\ run[a].pc = "ran" /\ run[a].res = "ok" => runs[run[a].item] = 1

\* Operators hold different items, and none that a timeout resolved.
OperatorHands ==
  \A o \in Operators :
    /\ run[o].pc # "signal"
    /\ Busy(o) => auto[run[o].item] = "none"
    /\ \A p \in Operators : Busy(o) /\ Busy(p) /\ o # p => run[o].item # run[p].item

AtHand(i) == run[Loop].pc # "idle" /\ run[Loop].item = i

\* The loop holds an item of its batch; the others are as cleanup_expired left them.
BatchInv ==
  /\ run[Loop].pc # "idle" => run[Loop].item \in batch
  /\ Busy(Loop) => auto[run[Loop].item] = "timeout_approve"
  /\ \A i \in batch :
       /\ auto[i] # "none"
       /\ auto[i] = "timeout_approve" /\ ~AtHand(i) =>
            status[i] = "approved" /\ result[i] = "none" /\ runs[i] = 0

\* The fields of one entry agree.
EntryInv ==
  \A i \in Items :
    /\ runs[i] <= 1
    /\ status[i] \in {"none", "pending"} => auto[i] = "none"
    /\ status[i] \in {"pending", "rejected"} => runs[i] = 0
    /\ result[i] # "none" => status[i] = "approved"
    /\ result[i] = "ok" => runs[i] = 1
    /\ task[i] \in {"new", "called", "exec"} => runs[i] = 0 /\ status[i] = "none"
    /\ auto[i] = "timeout_approve" => req[i].mode = "optimistic"
    /\ auto[i] = "timeout_reject" => status[i] = "rejected"

\* An answer was given by a finished task, and the entry still bears it out.
AnswerInv ==
  \A i \in Items :
    /\ answer[i] # "none" => task[i] = "done"
    /\ answer[i] = "rejected" => status[i] = "rejected"
    /\ answer[i] = "result" /\ status[i] # "none" => result[i] # "none"

IInv == TypeOK /\ Hands /\ OperatorHands /\ BatchInv /\ EntryInv /\ AnswerInv

USE NamesAssumption, BoundsAssumption

LEMMA InitIInv == Init => IInv
  BY DEF Init, IInv, TypeOK, Hands, OperatorHands, BatchInv, EntryInv, AnswerInv,
    Busy, AtHand, Idle, Items, Actors, Callers, Request, TaskStates, Answers

-----------------------------------------------------------------------------
(* Type correctness.                                                       *)

\* Every step keeps every variable in its type.
LEMMA TypeStep == TypeOK /\ [Next]_vars => TypeOK'
  <1> SUFFICES ASSUME TypeOK, [Next]_vars PROVE TypeOK'
    OBVIOUS
  <1> USE DEF TypeOK, queueVars, configVars, faultVars, TaskStates, Answers, Idle, Actors,
              LoopYields, Hold
  <1>1. ASSUME NEW i \in Items, McpCall(i) PROVE TypeOK'
    BY <1>1 DEF McpCall
  <1>2. ASSUME NEW i \in Items, Refuse(i) PROVE TypeOK'
    BY <1>2 DEF Refuse
  <1>3. ASSUME NEW i \in Items, execute_command(i) PROVE TypeOK'
    BY <1>3 DEF execute_command
  <1>4. ASSUME NEW i \in Items, RunDirect(i) PROVE TypeOK'
    BY <1>4 DEF RunDirect
  <1>5. ASSUME NEW i \in Items, Registered(i) PROVE TypeOK'
    BY <1>5 DEF Registered, ReadAnswer
  <1>6. ASSUME NEW i \in Items, WaitTimeout(i) PROVE TypeOK'
    BY <1>6 DEF WaitTimeout
  <1>7. ASSUME NEW i \in Items, WaitRead(i) PROVE TypeOK'
    BY <1>7 DEF WaitRead, ReadAnswer
  <1>8. ASSUME NEW i \in Items, ApproveInactive(i) \/ api_reject(i) PROVE TypeOK'
    BY <1>8 DEF ApproveInactive, api_reject, resolve_approval, signal_approval
  <1>9. ASSUME NEW o \in Operators, NEW i \in Items, api_approve(o, i) PROVE TypeOK'
    BY <1>9 DEF api_approve, resolve_approval
  <1>10. ASSUME NEW o \in Operators, ApproveFinish(o) PROVE TypeOK'
    BY <1>10 DEF ApproveFinish, set_queue_result, signal_approval
  <1>11. ASSUME NEW o \in Operators, ApproveAbort(o) PROVE TypeOK'
    BY <1>11 DEF ApproveAbort
  <1>12. ASSUME NEW a \in Actors, run_queued(a) PROVE TypeOK'
    <2> DEFINE i == run[a].item
    <2>1. PICK ran \in {0, 1}, res \in {"ok", "error"} :
            /\ runs' = [runs EXCEPT ![i] = @ + ran]
            /\ run' = [run EXCEPT ![a] = [pc |-> "ran", item |-> i, res |-> res]]
      BY <1>12 DEF run_queued
    <2>2. runs' \in [Items -> Nat]
      <3> HIDE DEF i
      <3>1. ran \in Nat /\ runs \in [Items -> Nat]
        OBVIOUS
      <3>2. runs' = [j \in Items |-> IF j = i THEN runs[j] + ran ELSE runs[j]]
        BY <2>1, <3>1, Zenon
      <3>3. \A j \in Items : runs[j] \in Nat /\ runs[j] + ran \in Nat
        BY <3>1
      <3>4. QED
        BY <3>2, <3>3, Zenon
    <2>3. i \in Items \cup {0}
      OBVIOUS
    <2>4. [pc |-> "ran", item |-> i, res |-> res]
            \in [pc: {"idle", "run", "ran", "signal"}, item: Items \cup {0}, res: {"none", "ok", "error"}]
      BY <2>3
    <2>5. run' \in [Actors -> [pc: {"idle", "run", "ran", "signal"},
                               item: Items \cup {0}, res: {"none", "ok", "error"}]]
      BY <2>1, <2>4
    <2>6. QED
      BY <1>12, <2>2, <2>5 DEF run_queued
  <1>13. ASSUME NEW S \in SUBSET Items, cleanup_expired(S) PROVE TypeOK'
    BY <1>13 DEF cleanup_expired, AutoDecision
  <1>14. ASSUME NEW i \in Items, LoopRun(i) PROVE TypeOK'
    BY <1>14 DEF LoopRun
  <1>15. ASSUME NEW i \in Items, LoopReject(i) PROVE TypeOK'
    BY <1>15 DEF LoopReject
  <1>16. ASSUME NEW i \in Items, LoopSkip(i) PROVE TypeOK'
    BY <1>16 DEF LoopSkip, signal_approval
  <1>17. CASE LoopStore
    BY <1>17 DEF LoopStore, set_queue_result
  <1>18. CASE LoopSignal
    BY <1>18 DEF LoopSignal, signal_approval
  <1>19. CASE LoopAbort
    BY <1>19 DEF LoopAbort
  <1>20. CASE Crash
    BY <1>20 DEF Crash
  <1>21. CASE Configure
    BY <1>21 DEF Configure, Callers
  <1>22. CASE UNCHANGED vars
    BY <1>22 DEF vars
  <1>23. QED
    BY <1>1, <1>2, <1>3, <1>4, <1>5, <1>6, <1>7, <1>8, <1>9, <1>10, <1>11, <1>12,
       <1>13, <1>14, <1>15, <1>16, <1>17, <1>18, <1>19, <1>20, <1>21, <1>22
       DEF Next, TaskStep, OperatorStep, LoopStep, LoopItem

\* Type correctness of the approval queue.
THEOREM TypeCorrect == Spec => []TypeOK
  <1>1. Init => TypeOK
    BY InitIInv DEF IInv
  <1>2. QED
    BY <1>1, TypeStep, PTL DEF Spec

-----------------------------------------------------------------------------
(* The inductive invariant.                                                *)

\* Every step preserves the inductive invariant.
LEMMA InvStep == IInv /\ [Next]_vars => IInv'
  <1> SUFFICES ASSUME IInv, [Next]_vars PROVE IInv'
    OBVIOUS
  <1>0. TypeOK'
    BY TypeStep DEF IInv
  <1> USE <1>0 DEF IInv, TypeOK, queueVars, configVars, faultVars, Idle, Actors, Busy, AtHand,
                   LoopYields, Hold
  <1>1. ASSUME NEW i \in Items, McpCall(i) PROVE IInv'
    BY <1>1 DEF McpCall, Hands, OperatorHands, BatchInv, EntryInv, AnswerInv
  <1>2. ASSUME NEW i \in Items, Refuse(i) PROVE IInv'
    BY <1>2 DEF Refuse, Arrives, Hands, OperatorHands, BatchInv, EntryInv, AnswerInv
  <1>3. ASSUME NEW i \in Items, execute_command(i) PROVE IInv'
    BY <1>3 DEF execute_command, Arrives, Hands, OperatorHands, BatchInv, EntryInv, AnswerInv
  <1>4. ASSUME NEW i \in Items, RunDirect(i) PROVE IInv'
    BY <1>4 DEF RunDirect, Hands, OperatorHands, BatchInv, EntryInv, AnswerInv
  <1>5. ASSUME NEW i \in Items, Registered(i) PROVE IInv'
    BY <1>5 DEF Registered, ReadAnswer, Hands, OperatorHands, BatchInv, EntryInv, AnswerInv
  <1>6. ASSUME NEW i \in Items, WaitTimeout(i) PROVE IInv'
    BY <1>6 DEF WaitTimeout, Hands, OperatorHands, BatchInv, EntryInv, AnswerInv
  <1>7. ASSUME NEW i \in Items, WaitRead(i) PROVE IInv'
    BY <1>7 DEF WaitRead, ReadAnswer, Hands, OperatorHands, BatchInv, EntryInv, AnswerInv
  <1>8. ASSUME NEW i \in Items, ApproveInactive(i) \/ api_reject(i) PROVE IInv'
    BY <1>8 DEF ApproveInactive, api_reject, resolve_approval, Resolvable, signal_approval, Hands, OperatorHands, BatchInv, EntryInv, AnswerInv
  <1>9. ASSUME NEW o \in Operators, NEW i \in Items, api_approve(o, i) PROVE IInv'
    <2>1. Hands'
      BY <1>9 DEF Hands, BatchInv, OperatorHands, EntryInv, api_approve, resolve_approval, Resolvable
    <2>2. OperatorHands'
      BY <1>9 DEF OperatorHands, Hands, EntryInv, api_approve, resolve_approval, Resolvable
    <2>3. BatchInv'
      BY <1>9 DEF BatchInv, Hands, OperatorHands, EntryInv, api_approve, resolve_approval, Resolvable
    <2>4. EntryInv'
      BY <1>9 DEF EntryInv, Hands, OperatorHands, BatchInv, api_approve, resolve_approval, Resolvable
    <2>5. AnswerInv'
      BY <1>9 DEF AnswerInv, EntryInv, Hands, BatchInv, api_approve, resolve_approval, Resolvable
    <2>6. QED
      BY <2>1, <2>2, <2>3, <2>4, <2>5
  <1>10. ASSUME NEW o \in Operators, ApproveFinish(o) PROVE IInv'
    <2>1. Hands'
      BY <1>10 DEF Hands, BatchInv, OperatorHands, EntryInv, ApproveFinish, set_queue_result, signal_approval
    <2>2. OperatorHands'
      BY <1>10 DEF OperatorHands, Hands, EntryInv, ApproveFinish, set_queue_result, signal_approval
    <2>3. BatchInv'
      BY <1>10 DEF BatchInv, Hands, OperatorHands, EntryInv, ApproveFinish, set_queue_result, signal_approval
    <2>4. EntryInv'
      BY <1>10 DEF EntryInv, Hands, OperatorHands, BatchInv, ApproveFinish, set_queue_result, signal_approval
    <2>5. AnswerInv'
      BY <1>10 DEF AnswerInv, EntryInv, Hands, BatchInv, ApproveFinish, set_queue_result, signal_approval
    <2>6. QED
      BY <2>1, <2>2, <2>3, <2>4, <2>5
  <1>11. ASSUME NEW o \in Operators, ApproveAbort(o) PROVE IInv'
    BY <1>11 DEF ApproveAbort, Hands, OperatorHands, BatchInv, EntryInv, AnswerInv
  <1>12. ASSUME NEW a \in Actors, run_queued(a) PROVE IInv'
    <2>1. Hands'
      BY <1>12 DEF Hands, BatchInv, OperatorHands, EntryInv, run_queued
    <2>2. OperatorHands'
      BY <1>12 DEF OperatorHands, Hands, EntryInv, run_queued
    <2>3. BatchInv'
      BY <1>12 DEF BatchInv, Hands, OperatorHands, EntryInv, run_queued
    <2>4. EntryInv'
      BY <1>12 DEF EntryInv, Hands, OperatorHands, BatchInv, run_queued
    <2>5. AnswerInv'
      BY <1>12 DEF AnswerInv, EntryInv, Hands, BatchInv, run_queued
    <2>6. QED
      BY <2>1, <2>2, <2>3, <2>4, <2>5
  <1>13. ASSUME NEW S \in SUBSET Items, cleanup_expired(S) PROVE IInv'
    <2>1. Hands'
      BY <1>13 DEF Hands, BatchInv, OperatorHands, EntryInv, cleanup_expired, Expirable, AutoDecision
    <2>2. OperatorHands'
      BY <1>13 DEF OperatorHands, Hands, EntryInv, cleanup_expired, Expirable, AutoDecision
    <2>3. BatchInv'
      BY <1>13 DEF BatchInv, Hands, OperatorHands, EntryInv, cleanup_expired, Expirable, AutoDecision
    <2>4. EntryInv'
      BY <1>13 DEF EntryInv, Hands, OperatorHands, BatchInv, cleanup_expired, Expirable, AutoDecision
    <2>5. AnswerInv'
      BY <1>13 DEF AnswerInv, EntryInv, Hands, BatchInv, cleanup_expired, Expirable, AutoDecision
    <2>6. QED
      BY <2>1, <2>2, <2>3, <2>4, <2>5
  <1>14. ASSUME NEW i \in Items, LoopRun(i) PROVE IInv'
    BY <1>14 DEF LoopRun, AtItem, Hands, OperatorHands, BatchInv, EntryInv, AnswerInv
  <1>15. ASSUME NEW i \in Items, LoopReject(i) PROVE IInv'
    <2>1. Hands'
      BY <1>15 DEF Hands, BatchInv, OperatorHands, EntryInv, LoopReject, AtItem
    <2>2. OperatorHands'
      BY <1>15 DEF OperatorHands, Hands, EntryInv, LoopReject, AtItem
    <2>3. BatchInv'
      BY <1>15 DEF BatchInv, Hands, OperatorHands, EntryInv, LoopReject, AtItem
    <2>4. EntryInv'
      BY <1>15 DEF EntryInv, Hands, OperatorHands, BatchInv, LoopReject, AtItem
    <2>5. AnswerInv'
      BY <1>15 DEF AnswerInv, EntryInv, Hands, BatchInv, LoopReject, AtItem
    <2>6. QED
      BY <2>1, <2>2, <2>3, <2>4, <2>5
  <1>16. ASSUME NEW i \in Items, LoopSkip(i) PROVE IInv'
    <2>1. Hands'
      BY <1>16 DEF Hands, BatchInv, OperatorHands, EntryInv, LoopSkip, AtItem, signal_approval
    <2>2. OperatorHands'
      BY <1>16 DEF OperatorHands, Hands, EntryInv, LoopSkip, AtItem, signal_approval
    <2>3. BatchInv'
      BY <1>16 DEF BatchInv, Hands, OperatorHands, EntryInv, LoopSkip, AtItem, signal_approval
    <2>4. EntryInv'
      BY <1>16 DEF EntryInv, Hands, OperatorHands, BatchInv, LoopSkip, AtItem, signal_approval
    <2>5. AnswerInv'
      BY <1>16 DEF AnswerInv, EntryInv, Hands, BatchInv, LoopSkip, AtItem, signal_approval
    <2>6. QED
      BY <2>1, <2>2, <2>3, <2>4, <2>5
  <1>17. CASE LoopStore
    <2>1. Hands'
      BY <1>17 DEF Hands, BatchInv, OperatorHands, EntryInv, LoopStore, set_queue_result
    <2>2. OperatorHands'
      BY <1>17 DEF OperatorHands, Hands, EntryInv, LoopStore, set_queue_result
    <2>3. BatchInv'
      BY <1>17 DEF BatchInv, Hands, OperatorHands, EntryInv, LoopStore, set_queue_result
    <2>4. EntryInv'
      BY <1>17 DEF EntryInv, Hands, OperatorHands, BatchInv, LoopStore, set_queue_result
    <2>5. AnswerInv'
      BY <1>17 DEF AnswerInv, EntryInv, Hands, BatchInv, LoopStore, set_queue_result
    <2>6. QED
      BY <2>1, <2>2, <2>3, <2>4, <2>5
  <1>18. CASE LoopSignal
    <2>1. Hands'
      BY <1>18 DEF Hands, BatchInv, OperatorHands, EntryInv, LoopSignal, signal_approval
    <2>2. OperatorHands'
      BY <1>18 DEF OperatorHands, Hands, EntryInv, LoopSignal, signal_approval
    <2>3. BatchInv'
      BY <1>18 DEF BatchInv, Hands, OperatorHands, EntryInv, LoopSignal, signal_approval
    <2>4. EntryInv'
      BY <1>18 DEF EntryInv, Hands, OperatorHands, BatchInv, LoopSignal, signal_approval
    <2>5. AnswerInv'
      BY <1>18 DEF AnswerInv, EntryInv, Hands, BatchInv, LoopSignal, signal_approval
    <2>6. QED
      BY <2>1, <2>2, <2>3, <2>4, <2>5
  <1>19. CASE LoopAbort
    BY <1>19 DEF LoopAbort, Hands, OperatorHands, BatchInv, EntryInv, AnswerInv
  <1>20. CASE Crash
    BY <1>20 DEF Crash, Hands, OperatorHands, BatchInv, EntryInv, AnswerInv
  <1>21. CASE Configure
    BY <1>21 DEF Configure, Hands, OperatorHands, BatchInv, EntryInv, AnswerInv
  <1>22. CASE UNCHANGED vars
    BY <1>22 DEF vars, Hands, OperatorHands, BatchInv, EntryInv, AnswerInv
  <1>23. QED
    BY <1>1, <1>2, <1>3, <1>4, <1>5, <1>6, <1>7, <1>8, <1>9, <1>10, <1>11, <1>12, <1>13, <1>14, <1>15, <1>16, <1>17, <1>18, <1>19, <1>20, <1>21, <1>22
       DEF Next, TaskStep, OperatorStep, LoopStep, LoopItem

\* The inductive invariant holds in every reachable state.
THEOREM InvariantHolds == Spec => []IInv
  BY InitIInv, InvStep, PTL DEF Spec

-----------------------------------------------------------------------------
(* What follows from it.                                                   *)

\* run_queued's promise: no command is sent to its host twice.
THEOREM AtMostOnceHolds == Spec => []AtMostOnce
  <1>1. IInv => AtMostOnce
    BY DEF IInv, EntryInv, AtMostOnce
  <1>2. QED
    BY <1>1, InvariantHolds, PTL

\* A rejected entry stands for a command that was not run.
THEOREM RejectedNeverRanHolds == Spec => []RejectedNeverRan
  <1>1. IInv => RejectedNeverRan
    BY DEF IInv, EntryInv, RejectedNeverRan
  <1>2. QED
    BY <1>1, InvariantHolds, PTL

\* Timeouts run optimistic items only.
THEOREM UnattendedHolds == Spec => []UnattendedRunsAreOptimistic
  <1>1. IInv => UnattendedRunsAreOptimistic
    BY DEF IInv, TypeOK, EntryInv, UnattendedRunsAreOptimistic
  <1>2. QED
    BY <1>1, InvariantHolds, PTL

\* What a waiter was told stays true.
THEOREM AnswersHoldAlways == Spec => []AnswersHold
  <1>1. IInv => AnswersHold
    BY DEF IInv, EntryInv, AnswerInv, AnswersHold
  <1>2. QED
    BY <1>1, InvariantHolds, PTL

\* A stored result belongs to an approved item and tells the truth.
THEOREM ResultIsTruthfulHolds == Spec => []ResultIsTruthful
  <1>1. IInv => ResultIsTruthful
    BY DEF IInv, EntryInv, ResultIsTruthful
  <1>2. QED
    BY <1>1, InvariantHolds, PTL

-----------------------------------------------------------------------------
(* Refinement.                                                             *)

\* Every step of the queue is a step of its lifecycle or leaves it alone.
LEMMA StepRefines == IInv /\ [Next]_vars => [Lifecycle!Next]_(Lifecycle!lifecycleVars)
  <1> SUFFICES ASSUME IInv, [Next]_vars
               PROVE  [Lifecycle!Next]_(Lifecycle!lifecycleVars)
    OBVIOUS
  <1> USE DEF IInv, TypeOK, Lifecycle!lifecycleVars, queueVars, Hold
  <1>1. ASSUME NEW i \in Items, McpCall(i) \/ Refuse(i)
       PROVE UNCHANGED Lifecycle!lifecycleVars
    BY <1>1 DEF McpCall, Refuse
  <1>2. ASSUME NEW i \in Items, Registered(i) \/ WaitTimeout(i) \/ WaitRead(i)
       PROVE UNCHANGED Lifecycle!lifecycleVars
    BY <1>2 DEF Registered, WaitTimeout, WaitRead
  <1>3. ASSUME NEW o \in Operators, ApproveAbort(o)
       PROVE UNCHANGED Lifecycle!lifecycleVars
    BY <1>3 DEF ApproveAbort
  <1>4. ASSUME NEW i \in Items, LoopRun(i) \/ LoopSkip(i)
       PROVE UNCHANGED Lifecycle!lifecycleVars
    BY <1>4 DEF LoopRun, LoopSkip
  <1>5. CASE LoopSignal \/ LoopAbort \/ Crash \/ Configure \/ UNCHANGED vars
    BY <1>5 DEF LoopSignal, LoopAbort, Crash, Configure, vars
  <1>6. ASSUME NEW i \in Items, execute_command(i)
       PROVE Lifecycle!Enqueue(i) \/ UNCHANGED Lifecycle!lifecycleVars
    BY <1>6 DEF execute_command, Arrives, EntryInv, Lifecycle!Enqueue
  <1>0. ASSUME NEW i \in Items, NEW ran \in {0, 1}, runs' = [runs EXCEPT ![i] = @ + ran],
               status[i] \in {"approved", "none"}, runs[i] = 0, result[i] = "none",
               UNCHANGED <<status, result>>
        PROVE  Lifecycle!Execute(i) \/ UNCHANGED Lifecycle!lifecycleVars
    <2>1. CASE ran = 0
      BY <1>0, <2>1
    <2>2. CASE ran = 1
      BY <1>0, <2>2 DEF Lifecycle!Execute
    <2>3. QED
      BY <2>1, <2>2
  <1>7. ASSUME NEW i \in Items, RunDirect(i)
        PROVE  Lifecycle!Execute(i) \/ UNCHANGED Lifecycle!lifecycleVars
    <2>1. PICK ran \in {0, 1} : runs' = [runs EXCEPT ![i] = @ + ran]
      BY <1>7 DEF RunDirect
    <2>2. status[i] = "none" /\ runs[i] = 0 /\ result[i] = "none" /\ UNCHANGED <<status, result>>
      BY <1>7 DEF RunDirect, EntryInv
    <2>3. QED
      BY <1>0, <2>1, <2>2
  <1>8. ASSUME NEW a \in Actors, run_queued(a)
        PROVE  \E i \in Items : Lifecycle!Execute(i) \/ UNCHANGED Lifecycle!lifecycleVars
    <2> DEFINE i == run[a].item
    <2>1. i \in Items /\ status[i] = "approved" /\ result[i] = "none" /\ runs[i] = 0
      BY <1>8 DEF run_queued, Hands, Busy
    <2>2. PICK ran \in {0, 1} : runs' = [runs EXCEPT ![i] = @ + ran]
      BY <1>8 DEF run_queued
    <2>3. UNCHANGED <<status, result>>
      BY <1>8 DEF run_queued
    <2> HIDE DEF i
    <2>4. QED
      BY <1>0, <2>1, <2>2, <2>3
  <1>9. ASSUME NEW o \in Operators, ApproveFinish(o)
       PROVE \E i \in Items : Lifecycle!Record(i)
    <2>1. run[o].item \in Items /\ run[o].res \in {"ok", "error"}
      BY <1>9 DEF ApproveFinish, Hands, Busy, Actors
    <2>2. Lifecycle!Record(run[o].item)
      BY <1>9, <2>1 DEF ApproveFinish, set_queue_result, Hands, Busy, Actors, Lifecycle!Record
    <2>3. QED
      BY <2>1, <2>2
  <1>10. ASSUME LoopStore PROVE \E i \in Items : Lifecycle!Record(i)
    <2>1. run[Loop].item \in Items /\ run[Loop].res \in {"ok", "error"}
      BY <1>10 DEF LoopStore, Hands, Busy, Actors
    <2>2. status' = status
      BY <1>10, <2>1 DEF LoopStore, Hands, Busy, Actors
    <2>3. Lifecycle!Record(run[Loop].item)
      BY <1>10, <2>1, <2>2 DEF LoopStore, set_queue_result, Hands, Busy, Actors, Lifecycle!Record
    <2>4. QED
      BY <2>1, <2>3
  <1>11. ASSUME NEW i \in Items, LoopReject(i)
       PROVE Lifecycle!Withdraw(i) \/ UNCHANGED Lifecycle!lifecycleVars
    <2>1. CASE auto[i] = "timeout_approve"
      BY <1>11, <2>1 DEF LoopReject, AtItem, BatchInv, AtHand, Idle, Lifecycle!Withdraw
    <2>2. CASE auto[i] = "timeout_reject"
      <3>1. status' = status
        BY <1>11, <2>2 DEF LoopReject, EntryInv
      <3>2. QED
        BY <1>11, <3>1 DEF LoopReject
    <2>3. QED
      BY <1>11, <2>1, <2>2 DEF LoopReject
  <1>12. ASSUME NEW S \in SUBSET Items, cleanup_expired(S) PROVE Lifecycle!Decide
    <2> DEFINE d == [i \in S |-> IF AutoDecision(i) = "timeout_approve" THEN "approved" ELSE "rejected"]
    <2>1. S \in SUBSET {i \in Items : status[i] = "pending"} /\ d \in [S -> {"approved", "rejected"}]
      BY <1>12 DEF cleanup_expired, Expirable
    <2>2. status' = [i \in Items |-> IF i \in S THEN d[i] ELSE status[i]]
      BY <1>12 DEF cleanup_expired
    <2>3. UNCHANGED <<runs, result>>
      BY <1>12 DEF cleanup_expired
    <2>4. \E T \in SUBSET {i \in Items : status[i] = "pending"} :
          \E f \in [T -> {"approved", "rejected"}] :
            status' = [i \in Items |-> IF i \in T THEN f[i] ELSE status[i]]
      <3> HIDE DEF d
      <3> USE <2>1
      <3> WITNESS S \in SUBSET {i \in Items : status[i] = "pending"}
      <3> WITNESS d \in [S -> {"approved", "rejected"}]
      <3> QED BY <2>2
    <2>5. QED
      BY <2>3, <2>4 DEF Lifecycle!Decide
  <1>13. ASSUME NEW i \in Items, NEW e \in {"approved", "rejected"}, resolve_approval(i, e), UNCHANGED runs
       PROVE Lifecycle!Decide
    <2> DEFINE d == [j \in {i} |-> e]
    <2>1. {i} \in SUBSET {j \in Items : status[j] = "pending"} /\ d \in [{i} -> {"approved", "rejected"}]
      BY <1>13 DEF resolve_approval, Resolvable
    <2>2. status' = [j \in Items |-> IF j \in {i} THEN d[j] ELSE status[j]]
      BY <1>13 DEF resolve_approval
    <2>3. UNCHANGED <<runs, result>>
      BY <1>13 DEF resolve_approval
    <2> HIDE DEF d
    <2>4. QED
      BY <2>1, <2>2, <2>3, Zenon DEF Lifecycle!Decide
  <1>14. ASSUME NEW i \in Items, ApproveInactive(i) \/ api_reject(i) PROVE Lifecycle!Decide
    BY <1>13, <1>14 DEF ApproveInactive, api_reject
  <1>15. ASSUME NEW o \in Operators, NEW i \in Items, api_approve(o, i) PROVE Lifecycle!Decide
    BY <1>13, <1>15 DEF api_approve
  <1>16. QED
    BY <1>1, <1>2, <1>3, <1>4, <1>5, <1>6, <1>7, <1>8, <1>9, <1>10, <1>11, <1>12, <1>14, <1>15
       DEF Next, TaskStep, OperatorStep, LoopStep, LoopItem, Lifecycle!Next

\* The approval queue implements its lifecycle.
THEOREM LifecycleRefined == Spec => LifecycleSpec
  <1>1. Init => Lifecycle!Init
    BY DEF Init, Lifecycle!Init
  <1>2. QED
    BY <1>1, StepRefines, InvariantHolds, PTL DEF Spec, LifecycleSpec, Lifecycle!Spec

-----------------------------------------------------------------------------
(* Waiters.                                                                *)

\* Somebody is still going to signal item i.
Awaited(i) == i \in batch \/ \E o \in Operators : run[o].pc # "idle" /\ run[o].item = i

Waits(i) == task[i] = "wait" /\ status[i] # "pending"

\* Every step that resolves an item has it in somebody's hands, and whoever lets
\* it go signals it.
LEMMA WakeStep == IInv /\ NoLostWakeup /\ [Next]_vars => NoLostWakeup'
  <1> SUFFICES ASSUME IInv, NoLostWakeup, [Next]_vars, errors' = 0, NEW i \in Items, Waits(i)'
               PROVE  Awaited(i)'
    BY DEF NoLostWakeup, Waits, Awaited
  <1>0. TypeOK /\ TypeOK'
    BY TypeStep DEF IInv
  <1>1. ASSUME errors = 0, Waits(i) PROVE Awaited(i)
    BY <1>1 DEF NoLostWakeup, Waits, Awaited
  <1> USE <1>0 DEF TypeOK, queueVars, configVars, faultVars, Waits, Awaited, Idle, Actors, Hold
  \* Nobody lets go of anything, and no waiter's item is resolved.
  <1>2. ASSUME errors' = errors, batch \subseteq batch', Waits(i),
               \A o \in Operators : run[o].pc # "idle" => run'[o].pc # "idle" /\ run'[o].item = run[o].item
        PROVE  Awaited(i)'
    BY <1>1, <1>2
  <1>3. ASSUME NEW j \in Items, McpCall(j) \/ Refuse(j) \/ execute_command(j) \/ TaskStep(j)
        PROVE  Awaited(i)'
    BY <1>2, <1>3 DEF McpCall, Refuse, execute_command, Arrives, TaskStep, RunDirect, Registered,
                      WaitTimeout, WaitRead
  <1>4. ASSUME NEW j \in Items, ApproveInactive(j) \/ api_reject(j) PROVE Awaited(i)'
    BY <1>2, <1>4 DEF ApproveInactive, api_reject, resolve_approval, signal_approval
  <1>5. ASSUME NEW o \in Operators, NEW j \in Items, api_approve(o, j) PROVE Awaited(i)'
    <2>1. /\ run' = [run EXCEPT ![o] = [pc |-> "run", item |-> j, res |-> "none"]] /\ run[o] = Idle
          /\ status' = [status EXCEPT ![j] = "approved"] /\ UNCHANGED <<task, batch, errors>>
      BY <1>5 DEF api_approve, resolve_approval
    <2>2. CASE i = j
      BY <2>1, <2>2
    <2>3. CASE i # j
      BY <1>2, <2>1, <2>3
    <2> QED
      BY <2>2, <2>3
  <1>6. ASSUME NEW o \in Operators, ApproveFinish(o) PROVE Awaited(i)'
    <2>1. /\ run' = [run EXCEPT ![o] = Idle] /\ UNCHANGED <<status, batch, errors>>
          /\ task' = [task EXCEPT ![run[o].item] = IF @ = "wait" THEN "woken" ELSE @]
      BY <1>6 DEF ApproveFinish, signal_approval
    <2>2. Waits(i) /\ i # run[o].item
      BY <2>1
    <2> QED
      BY <1>1, <2>1, <2>2
  <1>7. ASSUME NEW o \in Operators, ApproveAbort(o) PROVE FALSE
    BY <1>7 DEF ApproveAbort
  <1>8. ASSUME NEW a \in Actors, run_queued(a) PROVE Awaited(i)'
    BY <1>2, <1>8 DEF run_queued
  <1>9. ASSUME NEW S \in SUBSET Items, cleanup_expired(S) PROVE Awaited(i)'
    BY <1>2, <1>9 DEF cleanup_expired
  <1>10. ASSUME NEW j \in Items, LoopRun(j) PROVE Awaited(i)'
    BY <1>2, <1>10 DEF LoopRun
  <1>11. ASSUME NEW j \in Items, LoopReject(j) PROVE Awaited(i)'
    <2>1. /\ j \in batch /\ status' = [status EXCEPT ![j] = "rejected"]
          /\ UNCHANGED <<task, batch, errors>>
          /\ \A o \in Operators : run'[o] = run[o]
      BY <1>11 DEF LoopReject, AtItem
    <2> QED
      BY <1>2, <2>1
  <1>12. ASSUME NEW j \in Items, LoopSkip(j) PROVE Awaited(i)'
    BY <1>1, <1>12 DEF LoopSkip, signal_approval
  <1>13. CASE LoopStore
    <2>1. run[Loop].item \in batch
      BY <1>13 DEF LoopStore, IInv, BatchInv
    <2>2. /\ status' = [status EXCEPT ![run[Loop].item] = "approved"]
          /\ UNCHANGED <<task, batch, errors>>
          /\ \A o \in Operators : run'[o] = run[o]
      BY <1>13 DEF LoopStore
    <2> QED
      BY <1>2, <2>1, <2>2
  <1>14. CASE LoopSignal
    <2>1. /\ task' = [task EXCEPT ![run[Loop].item] = IF @ = "wait" THEN "woken" ELSE @]
          /\ batch' = batch \ {run[Loop].item} /\ UNCHANGED <<status, errors>>
          /\ \A o \in Operators : run'[o] = run[o]
      BY <1>14 DEF LoopSignal, signal_approval
    <2>2. Waits(i) /\ i # run[Loop].item
      BY <2>1
    <2> QED
      BY <1>1, <2>1, <2>2
  <1>15. CASE LoopAbort
    BY <1>15 DEF LoopAbort
  <1>16. CASE Crash
    BY <1>16 DEF Crash
  <1>17. CASE Configure
    BY <1>2, <1>17 DEF Configure
  <1>18. CASE UNCHANGED vars
    BY <1>2, <1>18 DEF vars
  <1> QED
    BY <1>3, <1>4, <1>5, <1>6, <1>7, <1>8, <1>9, <1>10, <1>11, <1>12, <1>13, <1>14, <1>15, <1>16,
       <1>17, <1>18 DEF Next, OperatorStep, LoopStep, LoopItem

\* While no handler failed, whoever waits for a resolved item will be signalled.
THEOREM NoLostWakeupHolds == Spec => []NoLostWakeup
  <1>1. Init => NoLostWakeup
    BY DEF Init, NoLostWakeup
  <1>2. QED
    BY <1>1, InitIInv, InvStep, WakeStep, PTL DEF Spec
=============================================================================
