--------------------------- MODULE CommandPolicy ---------------------------
(***************************************************************************)
(* Which command an agent may run on a host: command sets in a file, read  *)
(* through a cache that keeps each set (or its absence) for five seconds,  *)
(* and the decision procedure of check_command_authorized.                 *)
(*                                                                         *)
(* One host and one agent; a command is an entry of a whitelist or a set.  *)
(* Handlers that change sets do not await, so each is one action; only the *)
(* deletion of a set saves three files and may end between two of them.    *)
(*                                                                         *)
(* Definitions with an underscore and a capital (del_set_HostsOnly) are     *)
(* slips the properties are tried against; Next does not use them.         *)
(***************************************************************************)
EXTENDS Naturals

CONSTANTS
  Sets,         \* command set identifiers
  Commands,     \* whitelisted command strings
  MaxNamed,     \* bound on how often one list names a set
  MaxRestores   \* bound on restores of a backup

ASSUME RestoreAssumption == MaxNamed \in Nat /\ MaxRestores \in Nat

VARIABLES
  file,       \* file[s]: set s in command_sets.yaml, or NoSet
  cache,      \* cache[s]: what _cs_cache holds for s, or Absent
  whitelist,  \* the host's own whitelist
  hostSets,   \* hostSets[s]: how often the host's command_sets names s
  agentSets,  \* ... the agent's
  loose,      \* ids named without a set or twice, or whose deletion was cut off,
              \* followed until the first restore
  restores

vars == <<file, cache, whitelist, hostSets, agentSets, loose, restores>>

SetValue == [type: {"allow", "deny"}, enabled: BOOLEAN, commands: SUBSET Commands]
NoSet    == [type |-> "none", enabled |-> FALSE, commands |-> {}]
Absent   == [type |-> "absent", enabled |-> FALSE, commands |-> {}]

\* A command_sets field: any list of ids, of which only the number of each matters.
IdList == [Sets -> 0..MaxNamed]

\* The type invariant: files, cache and assignments hold sets that can be stored.
TypeOK ==
  /\ file \in [Sets -> SetValue \cup {NoSet}]
  /\ cache \in [Sets -> SetValue \cup {NoSet, Absent}]
  /\ whitelist \subseteq Commands
  /\ hostSets \in IdList
  /\ agentSets \in IdList
  /\ loose \subseteq Sets
  /\ restores \in 0..MaxRestores

Init ==
  /\ file = [s \in Sets |-> NoSet]
  /\ cache = [s \in Sets |-> Absent]
  /\ whitelist = {}
  /\ hostSets = [s \in Sets |-> 0]
  /\ agentSets = [s \in Sets |-> 0]
  /\ loose = {}
  /\ restores = 0

-----------------------------------------------------------------------------
(* Reading.                                                                *)

\* What get_command_set returns now.
Seen(s) == IF cache[s] = Absent THEN file[s] ELSE cache[s]

\* ... and what it leaves in the cache; any reader may ask at any time.
get_command_set(s) ==
  /\ cache[s] = Absent
  /\ cache' = [cache EXCEPT ![s] = file[s]]
  /\ UNCHANGED <<file, whitelist, hostSets, agentSets, loose, restores>>

CacheExpires_HitsOnly(s) ==
  /\ cache[s] \notin {Absent, NoSet}
  /\ cache' = [cache EXCEPT ![s] = Absent]
  /\ UNCHANGED <<file, whitelist, hostSets, agentSets, loose, restores>>

\* Five seconds after it was read.
CacheExpires(s) ==
  /\ cache[s] # Absent
  /\ cache' = [cache EXCEPT ![s] = Absent]
  /\ UNCHANGED <<file, whitelist, hostSets, agentSets, loose, restores>>

\* The ids a list names.
Named(ids) == {s \in Sets : ids[s] > 0}

\* _collect_commands_from_sets: commands of the enabled sets of one type.
Collect(ids, type) ==
  UNION {Seen(s).commands : s \in {x \in Named(ids) : Seen(x).enabled /\ Seen(x).type = type}}

HostAllowed(c) == c \in whitelist \/ c \in Collect(hostSets, "allow")

\* The agent's allow sets narrow the host's only if one of them is enabled.
AgentRestricted == \E s \in Named(agentSets) : Seen(s).enabled /\ Seen(s).type = "allow"

check_command_authorized_AllowWins(c) ==
  /\ HostAllowed(c)
  /\ c \notin Collect(hostSets, "deny")
  /\ IF AgentRestricted THEN c \in Collect(agentSets, "allow")
                        ELSE c \notin Collect(agentSets, "deny")

check_command_authorized(c) ==
  /\ HostAllowed(c)
  /\ c \notin Collect(hostSets, "deny")
  /\ c \notin Collect(agentSets, "deny")
  /\ AgentRestricted => c \in Collect(agentSets, "allow")

-----------------------------------------------------------------------------
(* Changing.                                                               *)

upsert_NoInvalidate(s, v) ==
  /\ file' = [file EXCEPT ![s] = v]
  /\ UNCHANGED cache

\* Save the set and drop its cache entry.
upsert_command_set(s, v) ==
  /\ file' = [file EXCEPT ![s] = v]
  /\ cache' = [cache EXCEPT ![s] = Absent]

\* Create, update or import a set.
put_set(s) ==
  /\ \E v \in SetValue : upsert_command_set(s, v)
  /\ UNCHANGED <<whitelist, hostSets, agentSets, loose, restores>>

toggle_set_Unchecked(s) ==
  /\ upsert_command_set(s, [Seen(s) EXCEPT !.enabled = ~@])
  /\ UNCHANGED <<whitelist, hostSets, agentSets, loose, restores>>

\* Flips the flag of the set as cached, and saves that.
toggle_set(s) ==
  /\ Seen(s) # NoSet
  /\ upsert_command_set(s, [Seen(s) EXCEPT !.enabled = ~@])
  /\ UNCHANGED <<whitelist, hostSets, agentSets, loose, restores>>

\* The history of careless assignments (no part of the program).
Follow(ids) == loose' = IF restores = 0 THEN ids ELSE {}

\* list.remove, if the id is there: takes its first occurrence out.
Removed(ids, s) == [ids EXCEPT ![s] = IF @ > 0 THEN @ - 1 ELSE 0]

del_set_HostsOnly(s) ==
  /\ file[s] # NoSet
  /\ upsert_command_set(s, NoSet)
  /\ hostSets' = Removed(hostSets, s)
  /\ UNCHANGED <<whitelist, agentSets, loose, restores>>

\* Delete a set, then remove it from the hosts, then from the agents, each saved before
\* the next.  A crash or a failed save leaves the agents, or both, as they were.
del_set(s) ==
  /\ file[s] # NoSet
  /\ upsert_command_set(s, NoSet)
  /\ \/ /\ hostSets' = Removed(hostSets, s)
        /\ agentSets' = Removed(agentSets, s)
        /\ Follow(loose)
     \/ /\ hostSets' \in {hostSets, Removed(hostSets, s)}
        /\ UNCHANGED agentSets
        /\ Follow(loose \cup {s})
  /\ UNCHANGED <<whitelist, restores>>

\* Ids that nothing takes out again: there is no such set, or the list has them twice.
Careless(ids) == {s \in Named(ids) : file[s] = NoSet \/ ids[s] > 1}

\* Create, edit or import the host or the agent, with whatever ids the body lists.
Assign ==
  /\ \/ /\ whitelist' \in SUBSET Commands
        /\ hostSets' \in IdList
        /\ Follow(Careless(hostSets') \cup (loose \cap Named(agentSets)))
        /\ UNCHANGED agentSets
     \/ /\ agentSets' \in IdList
        /\ Follow(Careless(agentSets') \cup (loose \cap Named(hostSets)))
        /\ UNCHANGED <<whitelist, hostSets>>
  /\ UNCHANGED <<file, cache, restores>>

\* import_backup replaces the files a backup has sections for and leaves the cache
\* as it is.  A step restores one section; a backup of several is several steps.
import_backup ==
  /\ restores < MaxRestores
  /\ restores' = restores + 1
  /\ \/ /\ file' \in [Sets -> SetValue \cup {NoSet}]
        /\ UNCHANGED <<whitelist, hostSets, agentSets>>
     \/ /\ whitelist' \in SUBSET Commands
        /\ hostSets' \in IdList
        /\ UNCHANGED <<file, agentSets>>
     \/ /\ agentSets' \in IdList
        /\ UNCHANGED <<file, whitelist, hostSets>>
  /\ loose' = {}
  /\ UNCHANGED cache

Next ==
  \/ \E s \in Sets : get_command_set(s) \/ CacheExpires(s) \/ put_set(s) \/ toggle_set(s) \/ del_set(s)
  \/ Assign
  \/ import_backup

Fairness == \A s \in Sets : WF_vars(CacheExpires(s))

Spec     == Init /\ [][Next]_vars
FairSpec == Spec /\ Fairness

-----------------------------------------------------------------------------
(* Properties.                                                             *)

\* The sets of ids that are stored, enabled and of one type.
Stored(ids, type) ==
  UNION {file[s].commands : s \in {x \in Named(ids) : file[x].enabled /\ file[x].type = type}}

\* The stored sets allow c to an agent that its allow sets restrict, or not.
Allowed(c, restricted) ==
  /\ c \in whitelist \cup Stored(hostSets, "allow")
  /\ c \notin Stored(hostSets, "deny") \cup Stored(agentSets, "deny")
  /\ restricted => c \in Stored(agentSets, "allow")

\* The allow sets assigned to the agent, enabled or not.
AgentAllowSets == {s \in Named(agentSets) : file[s].type = "allow"}

\* The case in which the code does not do what docs/guide.md:142-144 says: an agent whose
\* assigned allow sets are all disabled inherits all host allows as if it had none.
AllDisabled == AgentAllowSets # {} /\ \A s \in AgentAllowSets : ~file[s].enabled

\* check_command_authorized decides as the guide says (a command must be allowed by host
\* and agent and denied by neither; only an agent with no assigned allow set inherits),
\* whatever was edited, toggled, deleted and cached, unless AllDisabled or restored.
DecisionFollowsFile ==
  restores = 0 /\ ~AllDisabled =>
    \A c \in Commands : check_command_authorized(c) <=> Allowed(c, AgentAllowSets # {})

\* A set that is created is assigned to nobody: no list names an id without a set, except
\* those that the forms' callers put there themselves, put there twice, or that a deletion
\* cut off between its three files left behind (loose); a backup may contain such ids too.
AssignedSetsExist ==
  restores = 0 =>
    \A s \in (Named(hostSets) \cup Named(agentSets)) \ loose : file[s] # NoSet

\* A denied command is not allowed by adding allow sets or whitelist entries:
\* as long as the deny set stays as it is, the decision stays negative.
DenyStands ==
  [][restores' = 0 =>
       \A s \in Sets, c \in Commands :
         /\ s \in Named(hostSets) \cup Named(agentSets)
         /\ s \in Named(hostSets') \cup Named(agentSets')
         /\ file[s] = file'[s]
         /\ file[s].type = "deny" /\ file[s].enabled /\ c \in file[s].commands
         => ~check_command_authorized(c)']_vars

\* After a restore, which does not touch the cache, the decisions catch up with
\* the files: no stale entry, not even a cached miss, survives its five seconds.
RestoreTakesEffect ==
  []<>(\A c \in Commands :
         check_command_authorized(c) <=>
           Allowed(c, \E s \in AgentAllowSets : file[s].enabled))
=============================================================================
