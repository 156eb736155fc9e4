------------------------- MODULE ApprovalLifecycle -------------------------
(***************************************************************************)
(* What the approval queue promises, whoever resolves an item and whatever *)
(* fails: a queued command is decided once, is sent to its host at most    *)
(* once and only while its approval stands, and its outcome is recorded    *)
(* once, truthfully, and never changes.                                    *)
(***************************************************************************)
EXTENDS Naturals

CONSTANT Items

VARIABLES
  status,   \* the decision on each item
  runs,     \* how often its command was sent to the host
  result    \* the recorded outcome

lifecycleVars == <<status, runs, result>>

Init ==
  /\ status = [i \in Items |-> "none"]
  /\ runs = [i \in Items |-> 0]
  /\ result = [i \in Items |-> "none"]

\* A request joins the queue; it has not run.
Enqueue(i) ==
  /\ status[i] = "none"
  /\ runs[i] = 0
  /\ status' = [status EXCEPT ![i] = "pending"]
  /\ UNCHANGED <<runs, result>>

\* Pending items, one (an operator) or several (a timeout sweep), are decided.
Decide ==
  /\ \E S \in SUBSET {i \in Items : status[i] = "pending"} :
     \E d \in [S -> {"approved", "rejected"}] :
       status' = [i \in Items |-> IF i \in S THEN d[i] ELSE status[i]]
  /\ UNCHANGED <<runs, result>>

\* An approval may be withdrawn only while nothing has been done about it.
Withdraw(i) ==
  /\ status[i] = "approved"
  /\ runs[i] = 0
  /\ result[i] = "none"
  /\ status' = [status EXCEPT ![i] = "rejected"]
  /\ UNCHANGED <<runs, result>>

\* The command reaches its host: approved, or never subject to approval.
Execute(i) ==
  /\ status[i] \in {"approved", "none"}
  /\ runs[i] = 0
  /\ result[i] = "none"
  /\ runs' = [runs EXCEPT ![i] = 1]
  /\ UNCHANGED <<status, result>>

\* The outcome is recorded; success only for a command that ran.
Record(i) ==
  /\ status[i] = "approved"
  /\ result[i] = "none"
  /\ \E r \in {"ok", "error"} :
       /\ r = "ok" => runs[i] = 1
       /\ result' = [result EXCEPT ![i] = r]
  /\ UNCHANGED <<status, runs>>

Next ==
  \/ Decide
  \/ \E i \in Items : Enqueue(i) \/ Withdraw(i) \/ Execute(i) \/ Record(i)

Spec == Init /\ [][Next]_lifecycleVars
=============================================================================
