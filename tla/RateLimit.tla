----------------------------- MODULE RateLimit -----------------------------
(***************************************************************************)
(* The sliding-window rate limiter (app_state.check_rate_limit) and the    *)
(* places that charge it: /api/exec charges the host and then calls the    *)
(* executor, which charges the host and the agent.  Each call is one step, *)
(* since nothing is awaited between the checks that pass.                  *)
(*                                                                         *)
(* The names of the state machine bear a prefix, because AdmissionProofs   *)
(* extends this module together with CommandPolicy.                        *)
(*                                                                         *)
(* Definitions with an underscore and a capital (UnderLimit_Loose) are     *)
(* slips the properties are tried against; RateNext does not use them.     *)
(***************************************************************************)
EXTENDS Integers, Sequences, FiniteSets

CONSTANTS
  Hosts, Agents,
  HostLimit,    \* host["rate_limit"] of every host; 0 is unlimited
  AgentLimit,   \* agent["rate_limit"] of every agent; 0 is unlimited
  Window,       \* the 60 seconds of the window, in ticks
  MaxTime,      \* bound on the clock
  Entries,      \* which callers there are: subset of {"api", "mcp"}
  MayDeny       \* whether the authorization may refuse a call

ASSUME LimitAssumption ==
  /\ HostLimit \in Nat /\ AgentLimit \in Nat
  /\ Window \in Nat \ {0} /\ MaxTime \in Nat
  /\ Entries \subseteq {"api", "mcp"} /\ MayDeny \in BOOLEAN

\* The keys of the cache begin with "host:" or "agent:".
ASSUME KeyAssumption == Hosts \cap Agents = {}

VARIABLES
  now,               \* time.time()
  rate_limit_cache,  \* key -> its charges
  granted,           \* the calls that passed: records [time, host, agent]
  last               \* how the latest call ended

rateVars == <<now, rate_limit_cache, granted, last>>

Keys  == Hosts \cup Agents
Times == 0..MaxTime

\* An entry of the list under a key.  The list is a set here, since only its length
\* and its times are looked at; nr tells charges of one moment apart.
Charge == [time: Times, nr: Nat]
None  == [time |-> 0, host |-> "none", agent |-> "none", outcome |-> "none"]

\* The type invariant; no key remembers more calls than its limit, however many
\* are refused.
RateTypeOK ==
  /\ now \in Times
  /\ rate_limit_cache \in [Keys -> SUBSET Charge]
  /\ \A k \in Keys : IsFiniteSet(rate_limit_cache[k])
  /\ \A h \in Hosts : Cardinality(rate_limit_cache[h]) <= HostLimit
  /\ \A a \in Agents : Cardinality(rate_limit_cache[a]) <= AgentLimit
  /\ granted \in Seq([time: Times, host: Hosts, agent: Agents])
  /\ last \in {None} \cup [time: Times, host: Hosts, agent: Agents,
                            outcome: {"granted", "denied", "host", "agent"}]

RateInit ==
  /\ now = 0
  /\ rate_limit_cache = [k \in Keys |-> {}]
  /\ granted = <<>>
  /\ last = None

-----------------------------------------------------------------------------
(* app_state.check_rate_limit.  The operators take and return a cache, since *)
(* one call charges several keys in turn.                                    *)

Pruned(s) == {e \in s : now - e.time < Window}

Appended(s) == s \cup {[time |-> now, nr |-> Cardinality({e \in s : e.time = now}) + 1]}

UnderLimit_Loose(c, k, limit) == limit = 0 \/ Cardinality(Pruned(c[k])) <= limit

\* The answer ...
UnderLimit(c, k, limit) == limit = 0 \/ Cardinality(Pruned(c[k])) < limit

Charged_Always(c, k, limit) ==
  IF limit = 0 THEN c ELSE [c EXCEPT ![k] = Appended(Pruned(@))]

\* ... and the cache after it: a refused call prunes but is not counted.
Charged(c, k, limit) ==
  IF limit = 0 THEN c
  ELSE [c EXCEPT ![k] = IF UnderLimit(c, k, limit) THEN Appended(Pruned(@)) ELSE Pruned(@)]

-----------------------------------------------------------------------------
Ended(h, a, outcome) ==
  /\ last' = [time |-> now, host |-> h, agent |-> a, outcome |-> outcome]
  /\ granted' = IF outcome = "granted"
                THEN Append(granted, [time |-> now, host |-> h, agent |-> a])
                ELSE granted
  /\ UNCHANGED now

\* The executor on cache c: authorization, then the host, then the agent.
execute_command(h, a, c) ==
  LET c1 == Charged(c, h, HostLimit)
      c2 == Charged(c1, a, AgentLimit) IN
  \/ /\ MayDeny
     /\ rate_limit_cache' = c
     /\ Ended(h, a, "denied")
  \/ /\ ~UnderLimit(c, h, HostLimit)
     /\ rate_limit_cache' = c1
     /\ Ended(h, a, "host")
  \/ /\ UnderLimit(c, h, HostLimit)
     /\ rate_limit_cache' = c2
     /\ Ended(h, a, IF UnderLimit(c1, a, AgentLimit) THEN "granted" ELSE "agent")

\* main.api_exec: charges the host first, whatever the executor then says.
api_exec(h, a) ==
  /\ "api" \in Entries
  /\ IF UnderLimit(rate_limit_cache, h, HostLimit)
     THEN execute_command(h, a, Charged(rate_limit_cache, h, HostLimit))
     ELSE rate_limit_cache' = Charged(rate_limit_cache, h, HostLimit) /\ Ended(h, a, "host")

\* The exec_command tool of the MCP transport.
exec_tool(h, a) ==
  /\ "mcp" \in Entries
  /\ execute_command(h, a, rate_limit_cache)

Tick ==
  /\ now < MaxTime
  /\ now' = now + 1
  /\ UNCHANGED <<rate_limit_cache, granted, last>>

RateNext ==
  \/ \E h \in Hosts, a \in Agents : api_exec(h, a) \/ exec_tool(h, a)
  \/ Tick

RateSpec == RateInit /\ [][RateNext]_rateVars

-----------------------------------------------------------------------------
(* Properties.                                                             *)

\* The calls granted in the window that ends now: to a host, from an agent.
Recent == {i \in DOMAIN granted : now - granted[i].time < Window}
ToHost(h)    == {i \in Recent : granted[i].host = h}
FromAgent(a) == {i \in Recent : granted[i].agent = a}

\* "max requests per 60s window": in no window, wherever it starts, do more
\* calls than the limit reach a host or come from an agent.
WindowRespected ==
  /\ HostLimit > 0 => \A h \in Hosts : Cardinality(ToHost(h)) <= HostLimit
  /\ AgentLimit > 0 => \A a \in Agents : Cardinality(FromAgent(a)) <= AgentLimit

\* An agent is stopped only by its own calls: it is over its limit when that
\* many of them were granted in the window (refused retries do not extend it).
AgentStoppedByItself ==
  last.outcome = "agent" /\ last.time = now => Cardinality(FromAgent(last.agent)) >= AgentLimit

\* docs/examples/hosts.yaml.example: rate_limit is "max requests per minute", so
\* a host refuses a call only when that many were granted in the last minute.
HostBudgetIsUsable ==
  last.outcome = "host" /\ last.time = now => Cardinality(ToHost(last.host)) >= HostLimit
=============================================================================
