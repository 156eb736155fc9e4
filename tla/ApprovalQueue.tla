--------------------------- MODULE ApprovalQueue ---------------------------
(***************************************************************************)
(* The life of a request through the gate: the executor pipeline, the      *)
(* persistent approval queue, the operators who approve and reject, the    *)
(* approval_loop that resolves what expired, and the MCP handler waiting   *)
(* for the outcome.                                                        *)
(*                                                                         *)
(* The program is one asyncio event loop: an action is the code between    *)
(* two awaits, and where the approval_loop goes from item to item without  *)
(* awaiting, LoopYields keeps the other coroutines out.  Commands run in   *)
(* worker threads (asyncio.to_thread) while the event loop goes on.  The   *)
(* queue is a file and survives a crash; tasks, the loop's batch and the   *)
(* approval events do not.                                                 *)
(*                                                                         *)
(* Requests are numbered in the order they arrive, which is their order    *)
(* in the queue file.  Time is abstract: an item may expire at any moment. *)
(*                                                                         *)
(* Definitions whose name has an underscore and a capital (Expirable_All)  *)
(* are slips the properties are tried against; Next does not use them.     *)
(***************************************************************************)
EXTENDS Naturals

CONSTANTS
  MaxItems,    \* bound on the number of requests
  Agents,      \* agent identifiers
  NoAgent,     \* the caller holding the global API key (agent_id "__global__")
  Hosts,       \* host identifiers
  Operators,   \* concurrent WebUI approve calls
  Loop,        \* the approval_loop task
  Requests,    \* what callers may ask for
  Changeable,  \* what an administrator may change: of {"agents", "hosts", "policy"}
  Deletable,   \* the hosts an administrator may delete
  MaxChanges,  \* bound on configuration changes
  MaxCrashes,  \* bound on crashes of the process
  MaxErrors    \* bound on exceptions raised inside a handler

Items   == 1..MaxItems
Callers == Agents \cup {NoAgent}
Actors  == Operators \cup {Loop}
Modes   == {"auto", "pessimistic", "optimistic", "strict"}
Request == [host: Hosts, agent: Callers, mode: Modes, via: {"mcp", "api", "admin"}]

ASSUME BoundsAssumption ==
  /\ MaxItems \in Nat
  /\ MaxChanges \in Nat
  /\ MaxCrashes \in Nat
  /\ MaxErrors \in Nat

ASSUME NamesAssumption ==
  /\ Loop \notin Operators
  /\ NoAgent \notin Agents
  /\ Requests \subseteq Request
  /\ Deletable \subseteq Hosts

VARIABLES
  req,       \* req[i]: what request i asks for
  task,      \* task[i]: where the coroutine serving request i is suspended
  answer,    \* answer[i]: what that coroutine told the caller
  status,    \* status[i]: the queue entry's status ("none": not in the queue)
  auto,      \* auto[i]: its auto_resolved field
  result,    \* result[i]: its stored result
  batch,     \* expired items the approval_loop has resolved and not finished
  run,       \* run[a]: the queued command actor a is carrying out
  runs,      \* runs[i]: how often command i was sent to its host
  agents, hosts, allowed,   \* configuration: agents, hosts, command policy
  changes, crashes, errors  \* how many of each there have been

queueVars  == <<status, auto, result>>
configVars == <<agents, hosts, allowed, changes>>
faultVars  == <<crashes, errors>>
vars == <<req, task, answer, queueVars, batch, run, runs,
          configVars, faultVars>>

TaskStates == {"new", "called", "refused", "exec", "notify", "wait", "woken", "done", "lost"}
Answers    == {"none", "pending", "executing", "result", "rejected"}
Idle       == [pc |-> "idle", item |-> 0, res |-> "none"]

\* The type invariant: every field holds a value the queue file, the coroutines
\* and the configuration can hold.
TypeOK ==
  /\ req \in [Items -> Request]
  /\ task \in [Items -> TaskStates]
  /\ answer \in [Items -> Answers]
  /\ status \in [Items -> {"none", "pending", "approved", "rejected"}]
  /\ auto \in [Items -> {"none", "timeout_approve", "timeout_reject"}]
  /\ result \in [Items -> {"none", "ok", "error"}]
  /\ batch \subseteq Items
  /\ run \in [Actors -> [pc: {"idle", "run", "ran", "signal"},
                         item: Items \cup {0}, res: {"none", "ok", "error"}]]
  /\ runs \in [Items -> Nat]
  /\ agents \in [Agents -> {"active", "inactive", "deleted"}]
  /\ hosts \in [Hosts -> {"enabled", "disabled", "deleted"}]
  /\ allowed \subseteq Hosts \X Callers
  /\ changes \in 0..MaxChanges
  /\ crashes \in 0..MaxCrashes
  /\ errors \in 0..MaxErrors

Init ==
  /\ req \in [Items -> Requests]
  /\ task = [i \in Items |-> "new"]
  /\ answer = [i \in Items |-> "none"]
  /\ status = [i \in Items |-> "none"]
  /\ auto = [i \in Items |-> "none"]
  /\ result = [i \in Items |-> "none"]
  /\ batch = {}
  /\ run = [a \in Actors |-> Idle]
  /\ runs = [i \in Items |-> 0]
  /\ agents = [a \in Agents |-> "active"]
  /\ hosts = [h \in Hosts |-> "enabled"]
  /\ allowed = Hosts \X Callers
  /\ changes = 0
  /\ crashes = 0
  /\ errors = 0

-----------------------------------------------------------------------------
(* Policy questions the handlers ask.                                      *)

\* agent_active(get_agent(a)): fails closed on a deleted agent.
agent_active(a) == agents[a] = "active"

\* The check every resolver makes: requests of the global key have no agent.
CallerActive(i) == req[i].agent # NoAgent => agent_active(req[i].agent)

\* check_command_authorized for the request's host and command.  get_agent
\* returns None for a deleted agent, and then only the host's policy counts.
Authorized(i) ==
  LET a == req[i].agent
      c == IF a \in Agents /\ agents[a] = "deleted" THEN NoAgent ELSE a
  IN <<req[i].host, c>> \in allowed

\* The approval_loop does not await between cleanup_expired and its first item,
\* nor between one item's signal and the next: no other coroutine runs then.
LoopYields == batch = {} \/ run[Loop].pc # "idle"

\* The entry points: /api/exec validates the key in the same step; an MCP call
\* was authenticated earlier and _exec_tool looks at the agent it finds now; the
\* administrator's console has no agent and may use a disabled host.
Admitted(i) ==
  /\ hosts[req[i].host] \in {"enabled"} \cup IF req[i].via = "admin" THEN {"disabled"} ELSE {}
  /\ IF req[i].via = "mcp"
     THEN req[i].agent \in Agents => agents[req[i].agent] # "inactive"
     ELSE CallerActive(i)

\* No approval is asked for in auto mode and on the console (skip_approval).
Immediate(i) == req[i].mode = "auto" \/ req[i].via = "admin"

-----------------------------------------------------------------------------
(* The coroutine that serves a request.                                    *)

\* messages_endpoint: _require_mcp_auth passes; then the body is awaited and,
\* in a batch, the calls before this one are served.
McpCall(i) ==
  /\ LoopYields
  /\ task[i] = "new"
  /\ req[i].via = "mcp"
  /\ CallerActive(i)
  /\ task' = [task EXCEPT ![i] = "called"]
  /\ UNCHANGED <<req, answer, queueVars, batch, run, runs, configVars, faultVars>>

\* Request i is looked at next.
Arrives(i) ==
  /\ LoopYields
  /\ task[i] = IF req[i].via = "mcp" THEN "called" ELSE "new"
  /\ \A j \in Items : j < i => task[j] \notin {"new", "called"}

\* execute_command / write_sandbox_file turn the request away: authorization,
\* rate limit, parameters, deny rule or dry run.  Nothing but the log changes.
Refuse(i) ==
  /\ Arrives(i)
  /\ task' = [task EXCEPT ![i] = "refused"]
  /\ UNCHANGED <<req, answer, queueVars, batch, run, runs,
                 configVars, faultVars>>

\* All checks pass: run now, or add_to_queue and notify.  write_sandbox_file
\* goes the same way with a file to write as its command.
execute_command(i) ==
  /\ Arrives(i)
  /\ Admitted(i)
  /\ Authorized(i)
  /\ IF Immediate(i)
     THEN /\ task' = [task EXCEPT ![i] = "exec"]
          /\ UNCHANGED status
     ELSE /\ task' = [task EXCEPT ![i] = "notify"]
          /\ status' = [status EXCEPT ![i] = "pending"]
  /\ UNCHANGED <<req, answer, auto, result, batch, run, runs,
                 configVars, faultVars>>

\* The worker thread of the auto mode, after exec_delay.  A missing secret or
\* a failed connection ends it without running anything.
RunDirect(i) ==
  /\ LoopYields
  /\ task[i] = "exec"
  /\ \E ran \in {0, 1} : runs' = [runs EXCEPT ![i] = @ + ran]
  /\ task' = [task EXCEPT ![i] = "done"]
  /\ answer' = [answer EXCEPT ![i] = "result"]
  /\ UNCHANGED <<req, queueVars, batch, run, configVars, faultVars>>

ReadAnswer_Raw(i) == status[i]

\* What _wait_result reads from the queue entry.
ReadAnswer(i) ==
  CASE status[i] = "approved" /\ result[i] # "none" -> "result"
    [] status[i] = "approved" /\ result[i] = "none" -> "executing"
    [] status[i] = "rejected"                       -> "rejected"
    [] OTHER                                        -> "pending"

Registered_Blind(i) ==
  /\ task[i] = "notify"
  /\ LoopYields
  /\ task' = [task EXCEPT ![i] = IF req[i].via = "mcp" THEN "wait" ELSE "done"]
  /\ UNCHANGED <<req, answer, queueVars, batch, run, runs, configVars, faultVars>>

\* After the broadcast and the notification: /api/exec answers "pending"; the
\* MCP handler registers its event and waits if the item is still pending.
Registered(i) ==
  /\ LoopYields
  /\ task[i] = "notify"
  /\ IF req[i].via = "mcp" /\ status[i] = "pending"
     THEN /\ task' = [task EXCEPT ![i] = "wait"]
          /\ UNCHANGED answer
     ELSE /\ task' = [task EXCEPT ![i] = "done"]
          /\ answer' = [answer EXCEPT ![i] =
                          IF req[i].via = "mcp" THEN ReadAnswer(i) ELSE "pending"]
  /\ UNCHANGED <<req, queueVars, batch, run, runs, configVars, faultVars>>

WaitTimeout_Pending(i) ==
  /\ task[i] = "wait"
  /\ LoopYields
  /\ status[i] = "pending"
  /\ task' = [task EXCEPT ![i] = "woken"]
  /\ UNCHANGED <<req, answer, queueVars, batch, run, runs, configVars, faultVars>>

\* asyncio.wait_for gives up after min(120, time left) seconds.
WaitTimeout(i) ==
  /\ LoopYields
  /\ task[i] = "wait"
  /\ task' = [task EXCEPT ![i] = "woken"]
  /\ UNCHANGED <<req, answer, queueVars, batch, run, runs,
                 configVars, faultVars>>

WaitRead(i) ==
  /\ LoopYields
  /\ task[i] = "woken"
  /\ task' = [task EXCEPT ![i] = "done"]
  /\ answer' = [answer EXCEPT ![i] = ReadAnswer(i)]
  /\ UNCHANGED <<req, queueVars, batch, run, runs, configVars, faultVars>>

\* signal_approval pops the event, if there is one, and sets it.
signal_approval(i) ==
  task' = [task EXCEPT ![i] = IF @ = "wait" THEN "woken" ELSE @]

-----------------------------------------------------------------------------
(* Operators: main.api_approve and main.api_reject.                        *)

\* Actor a is now at pc with item i; res is what its thread returned.
Hold(a, pc, i, res) == run' = [run EXCEPT ![a] = [pc |-> pc, item |-> i, res |-> res]]

Resolvable_AnyStatus(i) == status[i] # "none"

\* The guard of resolve_approval: only a pending entry changes status.
Resolvable(i) == status[i] = "pending"

resolve_approval(i, decision) ==
  /\ LoopYields
  /\ Resolvable(i)
  /\ status' = [status EXCEPT ![i] = decision]
  /\ UNCHANGED <<auto, result>>

\* The caller was switched off since: the request is rejected instead.
ApproveInactive(i) ==
  /\ ~CallerActive(i)
  /\ resolve_approval(i, "rejected")
  /\ signal_approval(i)
  /\ UNCHANGED <<req, answer, batch, run, runs, configVars, faultVars>>

api_approve(o, i) ==
  /\ run[o] = Idle
  /\ CallerActive(i)
  /\ resolve_approval(i, "approved")
  /\ Hold(o, "run", i, "none")
  /\ UNCHANGED <<req, task, answer, batch, runs, configVars, faultVars>>

api_reject(i) ==
  /\ resolve_approval(i, "rejected")
  /\ signal_approval(i)
  /\ UNCHANGED <<req, answer, batch, run, runs, configVars, faultVars>>

\* executor.run_queued in its thread: the host is looked up again; an error
\* may be reported before or after the command reached the host.
run_queued(a) ==
  LET i == run[a].item IN
  /\ run[a].pc = "run"
  /\ \E ran \in {0, 1}, res \in {"ok", "error"} :
       /\ res = "ok" => ran = 1
       /\ hosts[req[i].host] = "deleted" => ran = 0
       /\ runs' = [runs EXCEPT ![i] = @ + ran]
       /\ Hold(a, "ran", i, res)
  /\ UNCHANGED <<req, task, answer, queueVars, batch, configVars, faultVars>>

set_queue_result_Ok(i, res) == result' = [result EXCEPT ![i] = "ok"]

set_queue_result(i, res) == result' = [result EXCEPT ![i] = res]

ApproveFinish(o) ==
  /\ LoopYields
  /\ run[o].pc = "ran"
  /\ set_queue_result(run[o].item, run[o].res)
  /\ signal_approval(run[o].item)
  /\ run' = [run EXCEPT ![o] = Idle]
  /\ UNCHANGED <<req, answer, status, auto, batch, runs,
                 configVars, faultVars>>

-----------------------------------------------------------------------------
(* tasks.approval_loop.                                                    *)

Expirable_All == {i \in Items : status[i] # "none" /\ req[i].mode # "strict"}
Expirable_Optimistic == {i \in Items : status[i] = "pending" /\ req[i].mode = "optimistic"}
AutoDecision_NotStrict(i) ==
  IF req[i].mode # "strict" THEN "timeout_approve" ELSE "timeout_reject"

\* Entries a timeout may resolve, once they are old enough, and how.
Expirable == {i \in Items : status[i] = "pending" /\ req[i].mode # "strict"}

AutoDecision(i) ==
  IF req[i].mode = "optimistic" THEN "timeout_approve" ELSE "timeout_reject"

\* S is the set of entries found to be older than their timeout.  All of them
\* are resolved in one save, before any of them is looked at.
cleanup_expired(S) ==
  /\ run[Loop] = Idle
  /\ batch = {}
  /\ S \subseteq Expirable
  /\ S # {}
  /\ auto' = [i \in Items |-> IF i \in S THEN AutoDecision(i) ELSE auto[i]]
  /\ status' = [i \in Items |->
       IF i \notin S THEN status[i]
       ELSE IF AutoDecision(i) = "timeout_approve" THEN "approved" ELSE "rejected"]
  /\ batch' = S
  /\ UNCHANGED <<req, task, answer, result, run, runs, configVars, faultVars>>

\* The next item of the batch, in queue order.
AtItem(i) ==
  /\ run[Loop] = Idle
  /\ i \in batch
  /\ \A j \in batch : i <= j

\* The authorization and the caller are checked again before running.
Recheck(i) == Authorized(i) /\ CallerActive(i)

LoopRun(i) ==
  /\ AtItem(i)
  /\ auto[i] = "timeout_approve"
  /\ hosts[req[i].host] # "deleted"
  /\ Recheck(i)
  /\ Hold(Loop, "run", i, "none")
  /\ UNCHANGED <<req, task, answer, queueVars, batch, runs,
                 configVars, faultVars>>

LoopReject_NoUpdate(i) ==
  /\ AtItem(i)
  /\ hosts[req[i].host] # "deleted"
  /\ ~Recheck(i)
  /\ Hold(Loop, "signal", i, "none")
  /\ UNCHANGED <<req, task, answer, queueVars, batch, runs, configVars, faultVars>>

\* A failed recheck, or a timeout that rejects.
LoopReject(i) ==
  /\ AtItem(i)
  /\ \/ /\ auto[i] = "timeout_approve"
        /\ hosts[req[i].host] # "deleted"
        /\ ~Recheck(i)
     \/ auto[i] = "timeout_reject"
  /\ status' = [status EXCEPT ![i] = "rejected"]
  /\ Hold(Loop, "signal", i, "none")
  /\ UNCHANGED <<req, task, answer, auto, result, batch, runs,
                 configVars, faultVars>>

\* The host is gone: the item stays approved and nothing is run or stored.
LoopSkip(i) ==
  /\ AtItem(i)
  /\ auto[i] = "timeout_approve"
  /\ hosts[req[i].host] = "deleted"
  /\ signal_approval(i)
  /\ batch' = batch \ {i}
  /\ UNCHANGED <<req, answer, queueVars, run, runs, configVars, faultVars>>

LoopStore ==
  LET i == run[Loop].item IN
  /\ run[Loop].pc = "ran"
  /\ status' = [status EXCEPT ![i] = "approved"]
  /\ set_queue_result(i, run[Loop].res)
  /\ Hold(Loop, "signal", i, "none")
  /\ UNCHANGED <<req, task, answer, auto, batch, runs,
                 configVars, faultVars>>

\* After the broadcast: wake the waiter, go on with the next item.
LoopSignal ==
  LET i == run[Loop].item IN
  /\ run[Loop].pc = "signal"
  /\ signal_approval(i)
  /\ batch' = batch \ {i}
  /\ run' = [run EXCEPT ![Loop] = Idle]
  /\ UNCHANGED <<req, answer, queueVars, runs, configVars, faultVars>>

-----------------------------------------------------------------------------
(* Failures and configuration changes.                                     *)

\* An exception (a failed write to the queue or the audit database, say) in
\* the body of the loop: it is logged and the rest of the batch is dropped.
LoopAbort ==
  /\ errors < MaxErrors
  /\ batch # {}
  /\ errors' = errors + 1
  /\ batch' = {}
  /\ run' = [run EXCEPT ![Loop] = Idle]
  /\ UNCHANGED <<req, task, answer, queueVars, runs, configVars, crashes>>

\* The same in api_approve, while storing the result.
ApproveAbort(o) ==
  /\ LoopYields
  /\ errors < MaxErrors
  /\ run[o].pc = "ran"
  /\ errors' = errors + 1
  /\ run' = [run EXCEPT ![o] = Idle]
  /\ UNCHANGED <<req, task, answer, queueVars, batch, runs,
                 configVars, crashes>>

\* The process dies and restarts: only the files remain.
Crash ==
  /\ crashes < MaxCrashes
  /\ crashes' = crashes + 1
  /\ task' = [i \in Items |-> IF task[i] \in {"called", "exec", "notify", "wait", "woken"}
                              THEN "lost" ELSE task[i]]
  /\ batch' = {}
  /\ run' = [a \in Actors |-> Idle]
  /\ UNCHANGED <<req, answer, queueVars, runs, configVars, errors>>

\* The administrator (or an expiring grant) changes an agent, a host or a
\* command set; deleted ones may be created again under the same id.
Configure ==
  /\ LoopYields
  /\ changes < MaxChanges
  /\ changes' = changes + 1
  /\ \/ /\ "agents" \in Changeable
        /\ \E a \in Agents, s \in {"active", "inactive", "deleted"} :
             agents' = [agents EXCEPT ![a] = s]
        /\ UNCHANGED <<hosts, allowed>>
     \/ /\ "hosts" \in Changeable
        /\ \E h \in Hosts, s \in {"enabled", "disabled", "deleted"} :
             /\ s = "deleted" => h \in Deletable
             /\ hosts' = [hosts EXCEPT ![h] = s]
        /\ UNCHANGED <<agents, allowed>>
     \/ /\ "policy" \in Changeable
        /\ \E h \in Hosts, c \in Callers :
             allowed' \in {allowed \cup {<<h, c>>}, allowed \ {<<h, c>>}}
        /\ UNCHANGED <<agents, hosts>>
  /\ UNCHANGED <<req, task, answer, queueVars, batch, run, runs, faultVars>>

-----------------------------------------------------------------------------
TaskStep(i) == RunDirect(i) \/ Registered(i) \/ WaitTimeout(i) \/ WaitRead(i)

OperatorStep ==
  \/ \E i \in Items : ApproveInactive(i) \/ api_reject(i)
  \/ \E o \in Operators, i \in Items : api_approve(o, i)
  \/ \E o \in Operators : ApproveFinish(o) \/ ApproveAbort(o)

LoopItem(i) == LoopRun(i) \/ LoopReject(i) \/ LoopSkip(i)
LoopStep    == (\E i \in Items : LoopItem(i)) \/ LoopStore \/ LoopSignal

Next ==
  \/ \E i \in Items : McpCall(i) \/ Refuse(i) \/ execute_command(i) \/ TaskStep(i)
  \/ OperatorStep
  \/ \E a \in Actors : run_queued(a)
  \/ \E S \in SUBSET Items : cleanup_expired(S)
  \/ LoopStep
  \/ LoopAbort
  \/ Crash
  \/ Configure

\* The event loop runs every ready task, a thread ends (SSH timeouts), time
\* passes and the loop comes back every 5 seconds.  People owe nothing.
Fairness ==
  /\ \A i \in Items : WF_vars(TaskStep(i))
  /\ \A a \in Actors : WF_vars(run_queued(a))
  /\ \A o \in Operators : WF_vars(ApproveFinish(o))
  /\ \A i \in Items : WF_vars(\E S \in SUBSET Items : i \in S /\ cleanup_expired(S))
  /\ WF_vars(LoopStep)

Spec     == Init /\ [][Next]_vars
FairSpec == Spec /\ Fairness

-----------------------------------------------------------------------------
(* Properties.                                                             *)

\* "run the item exactly once": however operators, the approval_loop, errors
\* and restarts interleave, no command is sent to its host twice.
AtMostOnce == \A i \in Items : runs[i] <= 1

\* A queue entry that says "rejected" stands for a command that was not run:
\* api_reject and the loop's recheck can never overtake an execution.
RejectedNeverRan == \A i \in Items : status[i] = "rejected" => runs[i] = 0

\* A command that runs because nobody answered was optimistic: a timeout never
\* runs a pessimistic or strict item, whose execution is an operator's.
UnattendedRunsAreOptimistic ==
  \A i \in Items :
    runs[i] > 0 /\ auto[i] # "none" => req[i].mode = "optimistic"

\* What _wait_result told the caller stays true: "rejected" is final (the
\* command never runs), and a result it delivered is the recorded one.
AnswersHold ==
  \A i \in Items :
    /\ answer[i] = "rejected" => status[i] = "rejected" /\ runs[i] = 0
    /\ answer[i] = "result" /\ status[i] # "none" =>
         status[i] = "approved" /\ result[i] # "none"

\* A stored outcome is truthful ("ok" only if the command ran) and is stored
\* for approved items only.
ResultIsTruthful ==
  \A i \in Items : result[i] # "none" =>
    /\ status[i] = "approved"
    /\ result[i] = "ok" => runs[i] = 1

\* No waiter is forgotten: while an MCP handler waits for an item that is
\* resolved, an operator call or the loop is still going to signal it (or was
\* cut short by an exception, which leaves the waiter to its timeout).
NoLostWakeup ==
  errors = 0 => \A i \in Items : task[i] = "wait" /\ status[i] # "pending" =>
    i \in batch \/ \E o \in Operators : run[o].pc # "idle" /\ run[o].item = i

Lifecycle == INSTANCE ApprovalLifecycle

\* The queue keeps the promises of ApprovalLifecycle: every step of the executor,
\* the operators, the loop or a fault is one of its steps, or changes no entry.
LifecycleSpec == Lifecycle!Spec

\* Every MCP call is answered (or lost with the process): no path through the
\* event registration, the signals and the timeout leaves it waiting.
WaiterReturns ==
  \A i \in Items : task[i] = "notify" ~> task[i] \in {"done", "lost"}

\* Only a strict item may stay pending for ever: neither a long batch nor an
\* aborted one stops the approval_loop from coming back to an expired item.
ExpiredIsResolved ==
  \A i \in Items : status[i] = "pending" /\ req[i].mode # "strict" ~> status[i] # "pending"

\* The outcome is recorded, or the approval was withdrawn, or the host is gone.
Settled(i) ==
  result[i] # "none" \/ status[i] = "rejected" \/ hosts[req[i].host] = "deleted"

\* "run the item exactly once" (mcp_transport.py), the other half: an approved item
\* gets a stored result, unless the recheck withdraws the approval or the host is
\* gone: rechecks, batches, operators and the loop never drop one by themselves.
\* After a crash, or an exception in the loop's body, items may stay approved.
SettledWithoutFaults ==
  \A i \in Items : status[i] = "approved" ~> Settled(i) \/ crashes + errors > 0
=============================================================================
