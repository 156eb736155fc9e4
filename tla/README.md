# Verification of mcp-gate

mcp-gate stands between AI agents and a set of hosts. An agent asks for a command
(over MCP or `/api/exec`); the gate checks who asks, whether the command is allowed
on the host, how often, and whether a person has to approve; then it runs the command
over SSH, logs it and tells the administrator. This directory holds TLA+ modules of
the parts where that can go wrong in ways a unit test hardly reaches, TLC runs of
them on small instances, and proofs, checked by TLAPS, of what matters most.

Paths without a prefix are under `src/app/`.

## The system

One Python process: a FastAPI application on one asyncio event loop, worker threads
for SSH (`asyncio.to_thread`), and background tasks on the same loop. State is in
YAML and JSON files, each rewritten as a whole, and two SQLite databases.
`cli.py` is a second process on the same config file.

| Component | State it keeps | Operations | What makes it correct |
|---|---|---|---|
| Approval queue and execution pipeline (`executor.py`, `main.py`, `tasks.approval_loop`, `mcp_transport._exec_tool`/`_wait_result`, `storage` queue functions, `app_state`) | the queue file; approval events; suspended handlers; the loop's batch | execute, enqueue, approve, reject, time out, recheck, run, store the result, signal | no command runs twice or after a rejection; timeouts run optimistic items only; what the caller is told stays true; every waiter is answered and every approved item settled |
| Command policy (`storage` command sets, `routes_admin`) | `command_sets.yaml`, a five-second cache, assignments | create, edit, toggle, delete, assign, restore, decide | decisions follow the guide and the files; deny wins; no dangling assignment by the gate's own doing |
| Rate limiter (`app_state.check_rate_limit`) | times of charges per host and agent | charge | no window over the limit; refused calls do not count |
| Event outbox (`events.py`) | `events.db`, flood windows | emit, flush, deliver, retry, fall back | a truthful journal, bounded posts, nothing counted twice, every row settles |
| Agent registry and OAuth (`storage`, `routes_admin`, `mcp_transport`, `tasks.ops_expiry_loop`) | `agents.yaml`; codes and tokens in memory; the token file | create, edit, rekey, toggle, copy, import, delete, restore; authorize, exchange, revoke | retired keys (unless typed again) and revoked tokens stay out; a code gives one token; timed grants end |
| Administrator sign-in (`auth.py`, `routes_auth.py`, `cli.py`) | the auth section of `config.yaml`, `_totp_last`, signed cookies | sign in, step up, enrol, revoke, change the password | revocation holds; codes are accepted once |
| SSH client (`ssh_client.py`) | connection pool, a lock per host, `known_hosts` | execute, test, write a file, deploy a key, clear a host key | no client forgotten, or closed early under its users; locks freed; pinned keys verified |
| YAML files and backups (`storage.py`, `routes_admin.py`, `cli.py`) | each file, its `.tmp`, a cache per process keyed by modification time | load, change, save, export, import | the cache is invisible; no edit is lost without an overlap |
| Audit log (`storage.py`, `cli.py`, `tasks.trim_loop`) | the table in `audit.db`, the archive file, the old `audit.jsonl` | import, append, trim, expire, clear | nothing leaves the table unarchived, or is archived twice, but for named cases |
| Command text (`params.py`, secrets in `storage.py`, `executor.py`) | the command, the vault, the values it was given | fill in parameters, substitute secrets, scrub the output | a value is one shell word; no whole secret stays in the output |
| Notifications, pages, onboarding | forms and texts | | see "Not modelled" |

How they interact: the handlers call the policy and the limiter inside one event-loop
step; approvals are handed over through the queue file (status, result) and an
`asyncio.Event` per item; commands run in threads while the loop goes on; the same
agents, hosts and sets are edited by the administration handlers at any await; events
are emitted from every component and delivered by a loop of their own.

What is hard: the order of operator calls, the `approval_loop` and the waiting
handler; state read before an await and used after it (settings pages, sessions,
agents looked up before a request body came); a crash or an exception between two
saves; caches and pools with a time limit; files rewritten by several threads.
`PROJECT.json` lists each such place with its line under `hazards`.

## Modules

| Module | Models | Composes / extended by |
|---|---|---|
| `ApprovalQueue` | a request from the call to its answer, with operators, the loop, threads and faults | refines `ApprovalLifecycle`; `MCApproval`, `ApprovalQueueProofs` |
| `ApprovalLifecycle` | the promise: an item is decided once, executed at most once and only while approved, its outcome recorded once | |
| `CommandPolicy` | sets, cache, assignments, decision | `MCPolicy`, `AdmissionProofs` |
| `RateLimit` | sliding windows and everybody who charges them | `MCRate`, `AdmissionProofs` |
| `Outbox` | flood windows, outbox table, delivery loop | `MCOutbox`, `OutboxProofs` |
| `AgentAccess` | registry, keys, grants, codes, tokens, token file | `MCAccess`, `AgentAccessProofs` |
| `AdminAuth` | sessions, second factors, epoch, whole-config writes | `MCAdmin`, `AdminAuthProofs` |
| `SshPool` | pool, locks, `known_hosts` | `MCSsh`, `SshPoolProofs` |
| `YamlStore` | a YAML file, its cache, `.tmp` and rename, with threads and a second process | refines `RegularFile`; `MCStore`, `YamlStoreProofs` |
| `RegularFile` | the promise: a read answers with what was stored, or being stored, while it ran | |
| `AuditTrail` | audit table, trim, archive, import of the old log | `MCAudit`, `AuditTrailProofs` |
| `CommandText` | a command's parameters and secrets, and its output | `MCText`, `AdmissionProofs` |

The modules meet where the code does. `ApprovalQueue` asks the policy and the limiter
one question with a free answer (`Authorized`, `Refuse`); `RateLimit` is told whether
the authorization denied. `AdminAuth` and `CommandPolicy` treat a load or a save of a
file as one step, which is what `YamlStore` shows of it in detail. `CommandText` is what
`run_queued` and `RunDirect` send; `SshPool` is how.

Conventions. An action bears the name of the function it stands for; where a
coroutine awaits, it is split there, and the parts say so in their comment. Time is
abstract (a deadline may pass at any moment) except in `RateLimit` and `AdminAuth`,
which are about clocks. Definitions such as `Resolvable_AnyStatus` are plausible slips
of the definition after them; no specification uses them. Each property was seen to
fail with one of them, so that it does say something about the code.

### ApprovalQueue

`status`, `auto` and `result` are the fields of an entry in the queue file, which
survive a crash; `task` is where the coroutine serving a request is suspended, `run`
what an operator's handler or the loop is carrying out, `batch` what the loop's local
list still holds: those do not. `runs` counts how often a command reached its host.
`McpCall`/`Arrives`/`execute_command` are the entry (authentication, then the body,
then `_exec_tool` looking the agent up again); `Registered`, `WaitTimeout`, `WaitRead`
are `_wait_result`; `api_approve` .. `ApproveFinish` and `cleanup_expired` ..
`LoopSignal` are the two ways an item is resolved. `LoopYields` expresses that the loop
does not await between the save of the batch and its first item, nor between items: it
guards the steps of every other coroutine, while threads (`run_queued`) ignore it.
Authorization, rate limits and parameters are one question with a free answer here
(`Refuse`, `Authorized`), and other modules answer it. `write_sandbox_file` goes the
same way as a command. (Neither it nor the administrator's console is rate limited;
for the queue that makes no difference.)

`ApprovalLifecycle` shares the variables `status`, `runs`, `result` and the name
`Items`, so the refinement mapping is the identity on them.

### CommandPolicy

One host and one agent. `cache[s]` is `Absent`, `NoSet` (a cached miss) or a set as it
was read; `Seen(s)` is what a reader gets. `hostSets` and `agentSets` are the
`command_sets` fields: lists of any ids, kept as how often each id occurs. Nothing checks
that an id exists (`Assign`), `del_set` takes one occurrence out of each list, and saves
the sets, the hosts and the agents one after the other, so that a crash or a failed save
may end it after any of them. (A failed save of the hosts also leaves the cached objects
changed; a restart that brings the id back is an `Assign` of it here.) `loose` remembers
the ids that were assigned without a set, or twice, or whose deletion was cut off.
`import_backup` restores one file per step and leaves the cache alone, as the code does;
that is why the safety properties stop at the first restore (`restores = 0`) and
`RestoreTakesEffect` takes over.

`DecisionFollowsFile` is the formula of `docs/guide.md:130-144`. `AllDisabled` names the one
case in which the code does otherwise: an agent all of whose assigned allow sets are
disabled is treated like one with none assigned, and inherits all the host allows.

### RateLimit

`execute_command(h, a, c)` is written on a cache value `c`, because `/api/exec` hands
over a cache it has charged already. The list of times under a key is a set of charges
`[time, nr]`: the code looks at the times and the length only, and `nr` numbers the
charges of one moment. The names of the state machine bear a prefix (`RateSpec`,
`RateNext`), as those of `CommandText` do, because `AdmissionProofs` extends both modules
and `CommandPolicy`.

### Outbox

`pass` is the set of row ids the running `_deliver` has still to handle, `Current` the
least of them (the query orders by id), and `pc` what is awaited for that row: notify-gate
(`ng`, or `received` once the message has arrived), or the legacy channels for one of
three reasons. `NgFailed` is enabled in both `ng` and `received`: an answer may be lost
after the message was taken. The channel "" of the table is written `"none"`.
`Reported(k)` is the set of the occurrences that rows report, as pairs of a row and a
number, so that an occurrence reported is one element.

### AgentAccess

Each handler is one step, since none suspends between reading and writing. Tokens bear
the number of their code. `disk` is the token file: `_save_tokens` may fail, leaving
the old file or an empty one, and a restart may come in the middle of it. A permanent
agent's entry never carries a grant unless imported. `cr_agent` and `up_agent` issue a key,
or take the one typed into the form (`set_agent_key`, `Edited`), which nothing compares with
the keys of other agents or with retired ones: `reentered` are the keys that somebody typed
after they had been used.

### AdminAuth

Cookies are told apart by kind and epoch only: that is all the server looks at apart
from time. `held` is a request that awaits its body with what it did before (checked
the session, or read the whole config), or a backup file. `overwritten` remembers that
a write of the whole config undid a change of the auth section.

### SshPool

A thread's call goes `lookup` (take the lock, look at the pool), `load` (read
`known_hosts`), `connect`, `save` and `flush` (the file is emptied when it is opened and
then written from this thread's copy), `auth`, `use`. Only pooled calls take the lock.
`raced` remembers that a thread worked from a copy of `known_hosts` that was not
current, or that a write was cut off or failed. A clear removes three names: the entry's
own, the plain hostname and `[hostname]:port`. The plain hostname is what the same machine
is called under port 22, so clearing the key of another port drops that pin too:
`AlsoCleared` says whose, and `swept` remembers it until the host is pinned again.
A host's hostname, port and user are fixed: in the code, editing them changes the host's
key in the pool, and the client under the old key stays there, since nobody looks it up
again.

### YamlStore and RegularFile

One file of `storage.py`. A content is the set of edits it carries. A process (a handler
of the server, a worker thread, or the command-line tool with a cache of its own) goes
`get` (look into the cache with the modification time it has seen), `parse`, `store` (fill
the cache), `loaded` (holding what it will change), `open` and `fill` (the `.tmp` file),
`rename`, `pop` (drop the cache entry): one system call or cache access each. `kind` says
whether the file is `config.yaml`, which is copied before it is changed and which the tool
edits too, or a registry, whose cached object is changed in place and which threads read.
The clock of modification times (`now`) is coarser than the steps, so two writes may bear
one time. Handlers share the event loop and the cache (`Server`), and run one at a time
(`Turn`). For a registry a handler loads, changes and saves in one go; the pages that
change the config (`put_nt`, `put_appear`, `put_instance`, `update_theme`, `dup_theme`)
await the body of their request after `load_config`, so another handler may come in
between (`Suspended`).

`RegularFile` is the regular register of the textbooks: a read answers with a content that
was stored at some moment of the read or was then being written. The refinement maps
`content` to the file's edits, `busy` to the writes between opening and dropping the
entry, and `broken` to `disturbed`. That variable becomes true in three named cases, after
which nothing is promised: two processes have `.tmp` open at once (`Clash`); a write fails
after the cached registry was changed in place (`Aliased`); a rename gives the file the
modification time of an older content that another process has cached, or that a thread
has parsed and has yet to cache (`SameTick`). The comment on `_yaml_cache` says it is
"correct even when two writes land within one mtime tick", which is so within one thread.
`overlapped` is the ordinary lost update: one loads, the other saves, the first saves; the
two are the tool and a handler, or two handlers of which one awaited.

### AuditTrail

Entries are numbered as they are written; `ts` is their time, which imported entries may
share. A trim is four steps (find the boundary, `select` the rows, `archive`, `delete`
by time), between which only the command-line tool can insert (`CliAppends`); a crash
or a failed write may end it after any of them. `late` are entries that the tool inserted
in that gap with a time old enough to be deleted with the rest: those do leave the table
unarchived, since the deletion goes by time and not by what was selected. Identifiers are
random and short, and a row is inserted "or replaced": `replaced` are entries whose row a
later one of the same identifier took. A fault in the append leaves some whole lines and
perhaps a piece of the next (`torn`); the next trim's first line is then written onto that
piece, and neither can be read again: `glued` are the entries of such lines. `interrupted`
remembers a trim that was cut off, whose entries are then archived again.

### CommandText

A text is a sequence of tokens: a placeholder, a secret's reference, or a character of one
kind (safe, blank, quote, shell operator, start of a protected path). `Substituted` fills
in the placeholders in the order of their names, as `validate_and_substitute` does;
`quote` is `shlex.quote`; `Read` is the reference: what words a POSIX shell makes of a
text, one token after another (`ReadToken`). A secret's value is a text of `Letters` that
nothing else has, so that a letter tells where it came from; `TextAssumption` says so, and
that names are not characters with a meaning for the shell and no secret is empty.
`OneWordEach` compares `Read(text)` with the template's own words, each value in its place.
It leaves out two cases in which the code does not deliver it: a value that spells the
placeholder of a later parameter (`Nested`), and a template with quotes of its own around
a placeholder (`TemplateQuotes`). `ChangeVault` changes secrets while the command waits or
runs. What it prints (`Runs`: stdout or stderr) is cut at a number of bytes and of lines
before it is scrubbed (`cut`), perhaps with a notice behind it. `ScrubIsComplete` is about
the values the command was given; it leaves out values that overlap, of which
`str.replace` may leave a piece, and allows the beginning of one value where the output
was cut (`CutEnds`). The `error` field of a result is the SSH library's own text, which is
never scrubbed and not modelled.

## Runs

All runs end within three minutes with two TLC workers.

| Run | Instance | Shows |
|---|---|---|
| `MCApprovalSafety` | 2 requests of five kinds (optimistic, pessimistic, strict over MCP, the global key, the console), 2 operators (symmetric), the loop; 1 crash, 1 exception, 1 configuration change, the host may be deleted | `AtMostOnce`, `RejectedNeverRan`, `UnattendedRunsAreOptimistic`, `AnswersHold`, `ResultIsTruthful`, `NoLostWakeup`, and that every step is one of `ApprovalLifecycle` |
| `MCApprovalLive` | 2 timed requests, 1 operator, 1 exception, agent changes | `WaiterReturns`, `ExpiredIsResolved`, `SettledWithoutFaults` |
| `MCPolicy` | 2 sets, 1 command, lists that name a set once, deletions cut off, 1 restore | `DecisionFollowsFile`, `AssignedSetsExist`, `DenyStands`, `RestoreTakesEffect` |
| `MCRate` | 1 host (limit 4), 2 agents (limit 2), window of 2 ticks, 5 ticks | `WindowRespected`, `AgentStoppedByItself` |
| `MCOutbox` | 1 flood key, 2 occurrences, 2 rows, 2 tries, 1 row per pass, 1 crash, 1 exception; all legacy modes, notify-gate on and off, changing between passes | `MarksAreTrue`, `PostsBounded`, `NoNeedlessDuplicate`, `NothingReportedTwice`, `EveryRowSettles` |
| `MCAccess` | 2 agents, 2 keys, issued or typed, 1 code, 3 registry changes, 1 restart, 1 failed write | `RetiredKeysStayOut`, `KeyIdentifiesAgent`, `RevokedStaysRevoked`, `OneTokenPerCode`, `GrantsEnd` |
| `MCAdmin` | 1 request or backup held at a time, 2 TOTP steps, 2 batches of one recovery code, 1 revocation, any number of restarts | `RevokedStayOutUnlessUndone`, `RecoveryOnceUnlessUndone`, `TotpOncePerRun` |
| `MCSsh` | 2 threads, 2 ports of one machine, 2 host keys, 3 calls, 1 changed key, any number of restarts | `NothingLeaks`, `PinsAreVerified`, `NotClosedInUse`, `LockIsFreed` |
| `MCStore` | 2 handlers (symmetric), 1 thread, 1 tool, either kind of file, 2 edits, 2 clock values, 1 failed write, restarts | `ReadsAreRegular` (the refinement), `EditsKept` |
| `MCAudit` | 2 old entries with the same time, 3 identifiers, at most 2 rows kept, retention of 3 ticks, 6 entries in all, 2 crashes or failed writes | `KeptOrArchived`, `ArchivedOnce`, `TrimTakesOldest` |
| `MCText` | 6 templates, 2 parameters, 9 values, patterns, defaults, lengths and shell characters allowed or not, 2 secrets of 3 values (two of which overlap), 1 change of the vault, outputs of 2 pieces, cut anywhere | `OneWordEach`, `ScrubIsComplete` |
| `MCRateApi` | both entry points, host limit 2 | violates `HostBudgetIsUsable` |

A run checks only what says something about the code; that the states are well typed is
proved for the modules with proofs (`TypeOK` is stated in each).

Why the bounds are enough. The approval races are between one item and two actors, or
between an item and the rest of its batch, so two items and three actors meet in every
order; one crash and one exception at every point reach every half-done state, and nothing
in the code counts faults. The proofs below remove these bounds. In the policy an enabled
and a disabled, an allow and a deny set on each side are the cases the procedure
distinguishes, and commands are independent of each other; that a list names a set twice
is left to the proof (`MaxNamed` is 1 in the run). A limit of 2 and 4 in a window of 2
ticks lets calls straddle window edges. One row per pass with two rows is the smallest
case in which a row could starve. Two agents are needed to copy a key or an entry;
registry changes beyond three add no new kind of entry, and a key can be set, replaced and
typed again within them. Two tokens in the epoch before and after a revocation are the
cases of `AdminAuth`. In `SshPool` three calls give two that race and one that comes
after, which is the one that would see a pin lost. In `YamlStore` a lost update takes two
edits, and a stale cache entry two writes in one tick or in two; two handlers and one
process of each other kind give every pair that may overlap. In `AuditTrail` six entries
with two kept let two trims follow each other, the second after a fault in the first.
`CommandText` needs two parameters for one value to meet another's placeholder, and two
secrets to meet in an output.

Only `MCStore` checks for deadlock (a process can always read). The other systems may
come to rest, when all requests are served or the bounds are used up.

Fairness. `ApprovalQueue`: the event loop runs every ready task; a thread ends because
connecting and running have deadlines; the loop comes back every five seconds and time
passes, so an item that stays old enough is picked up. Nothing is assumed of people
(`api_approve`, `api_reject`) nor of callers. `CommandPolicy`: five seconds pass.
`Outbox`: the loop comes back, channel calls time out, retries fall due; nobody owes an
event. `AgentAccess`: grants lapse and `ops_expiry_loop` returns every 15 seconds.
`SshPool`: a pooled call ends, since `_run_channel` and `connect` have deadlines; a
direct one is not assumed to (`deploy_key_to_host` waits for an exit status without one).
All of it is weak fairness.

## Where the code differs from what it says

One run ends in a counterexample, against a sentence quoted in `PROJECT.json`:
`/api/exec` charges a host twice per call (`MCRateApi`), so half of the configured number
of calls exhausts it.

Other differences are in the models, and a property that would fail because of one says
in its statement what it excepts:

- the rest of a batch that an exception ended is approved and never run
  (`SettledWithoutFaults`), and so is one that a crash interrupted;
- a settings page saved late, or a restored backup, undoes "End all sessions" and brings
  back used recovery codes (the two `...UnlessUndone`);
- an agent whose assigned allow sets are all disabled inherits everything the host allows,
  although `docs/guide.md:142-144` exempts only one with none assigned
  (`DecisionFollowsFile`);
- sets can be assigned that do not exist, or twice, and a deletion that is cut off between
  its three files leaves the id assigned: a set created under it later is in force at once
  (`AssignedSetsExist`);
- the forms take any key for an agent, a retired one or another agent's too
  (`RetiredKeysStayOut`, `KeyIdentifiesAgent`);
- a client in use is closed five minutes after it was connected (`NotClosedInUse`);
- threads use one client at the same time: the comment of `ssh_client.py:28` ("Per-host
  Lock serialises access") and the docstring of `_get_or_connect` (lines 536-538,
  "serialised (not concurrent) SSH channel usage") say they do not, but the lock is
  released before the client is used. `SshPool` has them share it, and no property says
  otherwise;
- a pin is lost when two threads rewrite `known_hosts`, or when the key of another port of
  the host is cleared (`PinsAreVerified`);
- a stale registry or config stays cached after two writes in one tick of the modification
  time, a change that could not be saved stays in effect until the restart, and an edit is
  lost if it is completed while a settings page awaits its body, or between a load and a
  save of the command-line tool (`ReadsAreRegular`, `EditsKept`);
- an audit entry inserted with an old time during a trim is deleted unarchived, one whose
  identifier is drawn again is replaced, and one whose line is written onto the rest of a
  torn one cannot be read in the archive (`KeptOrArchived`); and an interrupted trim
  archives twice (`ArchivedOnce`);
- a value that spells a placeholder, or a template with quotes, breaks "every value
  becomes exactly one shell word" (`OneWordEach`); overlapping secrets leave a piece of
  one in the output, and so does the limit on its length, which is applied before
  scrubbing (`ScrubIsComplete`).

The hazards list some more without a run: a caller told "still executing" whose item
the recheck then rejects; a queued command that runs for an agent switched off during
`exec_delay`; a call whose agent is deleted while its body is awaited and which then
counts as having none; a flood count lost when the next event comes before the flush; the
token file lost when the process dies while writing it; a TOTP code accepted again after
a restart; an enrolment that finishes after a revocation and opens a new session.

## Proofs

`ApprovalQueueProofs` proves, for any number of requests, operators, agents, hosts,
crashes, exceptions and configuration changes, from `BoundsAssumption` (the bounds are
natural numbers) and `NamesAssumption` (distinct names, requests well formed) alone:

- `TypeCorrect`, `AtMostOnceHolds`, `RejectedNeverRanHolds`, `UnattendedHolds`,
  `AnswersHoldAlways`, `ResultIsTruthfulHolds`, `NoLostWakeupHolds`;
- `LifecycleRefined`: `Spec => Lifecycle!Spec`.

`AtMostOnce` is not inductive. Two actors could run one item if both held it, so
`IInv` adds: an item in somebody's hands is approved, has no result, and its run count
agrees with how far the actor has come (`Hands`); operators hold different items,
none of which a timeout resolved (`OperatorHands`); every item of the batch the loop
has not reached is as `cleanup_expired` left it: approved, not run, no result
(`BatchInv`); the fields of an entry agree (`EntryInv`); an answer was given by a
finished task and is still borne out (`AnswerInv`). Each action preserves each part;
the interesting case is `run_queued`, where `Hands` says that nobody has run the item.
`StepRefines` maps each action to a step of `ApprovalLifecycle` or a stutter, under the
same invariant: `LoopReject` is `Withdraw`, which `BatchInv` shows to come before any
execution. `NoLostWakeup` is inductive relative to `IInv` (`WakeStep`): each step that
resolves an item has it in the batch or in an operator's hands, and whoever lets go of
it signals it in the same step.

`AdmissionProofs` proves, for any number of sets and commands: `PolicyTypes`,
`DecisionHolds`, `AssignmentsHold` and `DenyHolds`. The invariant is `Fresh`: until a
restore, every cache entry is dropped or equal to the stored set. `FreshDecides` turns
that into a decision by the stored sets, `FollowsFile` into the guide's formula outside
`AllDisabled`, and `DenyStands` follows from `Fresh` in the next state. For assignments,
`NamedOnce` says that an id nobody was careless with stands in a list once, so that a
complete deletion takes it out.

It also proves of the limiter, from `LimitAssumption` and `KeyAssumption` (the keys of
hosts and of agents differ, since the code prefixes them), for any limits, window, hosts,
agents and calls: `RateTypes`, `WindowRespectedHolds` and `AgentStoppedByItselfHolds`.
Neither bound is inductive, since a charge may be dropped from the list while the call it
let pass is still counted. `RateIInv` therefore compares the two from every cut `d` that
lies in the window (`CountsOK`): since `d`, no more calls to a host were granted than
charges kept for it, and exactly as many of an agent as charges kept for the agent, which
is charged last. `CacheOK` says that charges of one moment are numbered without a gap, so
that a new one is a new element, and that no key holds more than its limit. Pruning takes
only charges before every cut; a grant adds one on both sides.

`AgentAccessProofs` (from `BoundAssumption`): the registry and the OAuth tables are
changed by different handlers (`Apart`). `KeyInv`: keys are issued in order, and an
agent's key is neither retired nor another's unless it was `reentered`; `UpsertStep` shows
once, for every handler that replaces an entry, that the new entry's key may be none, the
old one or the next, and `SetKeyStep` adds the keys that somebody types. `CodeInv`: a code
that is not yet issued or not yet redeemed has no token in memory or in the file.
`RevokedInv`: what was revoked is out of the table, and out of the file as long as every
write of it succeeded.

`AdminAuthProofs`: while nothing was `overwritten`, no cookie's epoch exceeds the
current one and those of ended cookies are below it (`EpochInv`); a stored recovery code
is unused, and so is one of a batch yet to be made (`RecoveryInv`); the codes of steps
after `totp_last` are unused (`TotpInv`).

`SshPoolProofs`: the lock of a host is held by the one call that connects to it
(`LockInv`), so that a connection being set up belongs to one call (`ConnInv`), a direct
call's client to itself (`DirectInv`), and an open one can be found (`OpenInv`). While
nothing was `raced`, one thread at a time rewrites `known_hosts`, and its copy holds what
is trusted of every host that was not `swept` (`PinInv`). The action property
`NotClosedInUse` follows step by step.

`YamlStoreProofs`: `ReadsAreRegularHolds` is the refinement. One handler at a
time is between two awaits (`TurnInv`). While not `disturbed`, one process has `.tmp`
(`TmpInv`); times are from the past (`TimeInv`); a reader's window
holds all that is readable now (`WindowInv`); what it has parsed is in its window, and is
what is stored if the time it saw is still the file's (`ParsedInv`); a cache entry with
the file's time holds the file, or what the process that owns the cache is just
replacing (`CacheInv`). `EditsKeptHolds` adds that a writer that did not fall behind
carries all that is stored (`KeptInv`).

`AuditTrailProofs` (from `BoundAssumption` and `LegacyAssumption`): the rows a trim is
about to delete were selected and archived (`TrimInv`), which needs that entries bear
different numbers (`NumberInv`) and that the old log comes first (`ImportInv`);
`OnceInv` says that, without an interruption, only the trim under way has entries both in
the table and in the archive; `GluedInv` counts the torn lines against the faults.
`TrimTakesOldest` needs a count (`CountInv`), kept with the
library's facts about cardinalities.

`OutboxProofs` (from `BoundAssumption`): `OutboxTypes`, `MarksAreTrueHolds`,
`PostsBoundedHolds`, `NoNeedlessDuplicateHolds`, `NothingReportedTwiceHolds`. A pass holds
undecided rows, and one of them is in hand whenever something is awaited (`PassInv`): the
proof uses that a set of numbers has a least element (`LeastExists`, from the
well-foundedness of `<`). An undecided row has tries left and no channel (`RowInv`).
Each post is counted as a try, or ended the delivery of its row, or is under way, or was
cut off by a fault (`PostInv`), which bounds both the posts and what notify-gate received.
`Handled`, `Awaits`, `Queued` and `Rests` say once, for every action, what keeps the
invariant when a row leaves the pass, stays in hand, is queued, or the loop starts or
breaks off. For `NothingReportedTwice`, `emit` adds one pair to `Reported(k)`, and the
flush adds as many as the window counted, in one row, since `SetToSeq` lists every
window once (`Listed`).

It proves of `CommandText`, from `TextAssumption`, for any templates, parameters, values,
secrets and outputs: `TextTypes`, `OneWordEachHolds` and `ScrubIsCompleteHolds`. The
invariant `TextIInv` is short, since a command goes through few stages: its text is what
`Substituted` made of an accepted call (`CommandIsSubstituted`), and its output is made
of whole values it was given and of tokens of no secret, up to where it was cut
(`OutputIsMade`, `Ends`). The work is in what the recursive
functions of the model compute. Induction over texts is done on sets (`UpTo`,
`SeqInduction`, `LeastExists`) and recursive functions are unfolded by `Iterated`, because
the library's induction theorems cannot be instantiated.

- Scrubbing. `Made(V, T)` is the least set of texts put together from values of `V` and
  tokens that are no letters, with an end from `T`. What is cut is such a text, with the
  beginning of one value at its end (`CutMade`). `ReplacedMade`: where no two values
  overlap, the left-to-right scan for `v` meets `v` only where it was put, hence takes all
  of it and cuts no other (`NoneInside`, `Uncut`), and leaves a text made of the other
  values. After the last value nothing but other tokens is left (`MadeOfNothing`).
- Quoting. `SubstitutedAtOnce`: while no value names a parameter, one placeholder after
  another comes to the same as all at once. `QuoteReads`: a quoted value, read from
  outside quotes, adds exactly its own characters to the word under way. So the reader of
  the command and the reader of the template stay `Alike`, token by token
  (`SubstitutedReads`).

Every safety invariant and action property of the runs is now stated by a theorem. Only
model-checked: the properties with an "eventually" (`RestoreTakesEffect` and the liveness
properties), which are out of the prover's reach together with `ENABLED`, and the one run
that ends in a counterexample.

## Not modelled

- Lockout after failed logins, the initial password, proxy and no-authentication modes,
  idle timeouts and cookie signatures in `auth.py`; OAuth client registration and the
  arithmetic of PKCE.
- Encryption of the secrets vault, SSH key files, notification texts, pages, themes,
  translations, onboarding: forms and library calls without a state of their own.
- The standstill of the event loop while an administration page waits for SSH
  (`routes_admin.py:1035`): it would stop every module's actions at once.
- That a command runs, or a call is accepted, only for an agent active at that moment
  (`tasks.py:51`, `mcp_transport.py:340`): the models contain what happens instead, and no
  property states it.
- The prefix comparison of a substituted command with the deny sets (`executor.deny_hit`):
  that a command is refused for it is one of the reasons of `ApprovalQueue!Refuse`.
  `CommandPolicy` decides on whole commands, as `check_command_authorized` does.
- Hit counters and old rows of the outbox; searches in the audit log; read-only tools.

## Plan

Done: the modules, runs and proofs above. Left, most important first:

1. A composition of `AgentAccess` with `ApprovalQueue` in which the registry decides
   `CallerActive`, and of `SshPool` with the queue's worker threads.
2. Lockout and idle timeouts in `AdminAuth`.
