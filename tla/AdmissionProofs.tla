---------------------------- MODULE AdmissionProofs ---------------------------
(***************************************************************************)
(* Theorems about what the executor does with a command before it runs and *)
(* after: does the policy allow it (CommandPolicy), is its host or its     *)
(* agent over the limit (RateLimit), and what becomes of its text, from    *)
(* the template to the scrubbed output (CommandText).  The three share no  *)
(* state and are proved about one after the other.                         *)
(***************************************************************************)
EXTENDS CommandPolicy, RateLimit, CommandText, SequenceTheorems, FiniteSetTheorems, TLAPS

-----------------------------------------------------------------------------
(* The policy: the cache is fresh.                                         *)

\* Every cache entry is the stored set, or was dropped.
Fresh == restores = 0 => \A s \in Sets : cache[s] \in {Absent, file[s]}

\* An id that no careless hand assigned stands in a list once.
NamedOnce == restores = 0 => \A s \in Sets \ loose : hostSets[s] <= 1 /\ agentSets[s] <= 1

ListInv == NamedOnce /\ AssignedSetsExist

IInv == TypeOK /\ Fresh /\ ListInv

\* What is read while the cache is fresh is what is stored.
LEMMA SeenIsStored ==
  ASSUME Fresh, restores = 0, NEW s \in Sets
  PROVE  Seen(s) = file[s]
BY DEF Fresh, Seen

\* So the commands collected from assigned sets are the stored ones.
LEMMA CollectIsStored ==
  ASSUME Fresh, restores = 0, NEW ids, NEW type
  PROVE  Collect(ids, type) = Stored(ids, type)
<1>1. \A s \in Named(ids) : s \in Sets /\ Seen(s) = file[s]
  BY SeenIsStored DEF Named
<1> QED
  BY <1>1 DEF Collect, Stored

\* The decision procedure then is the guide's, except for an agent whose allow sets
\* are all disabled.
LEMMA FreshDecides ==
  ASSUME Fresh, restores = 0, NEW c
  PROVE  check_command_authorized(c) <=>
           Allowed(c, \E s \in AgentAllowSets : file[s].enabled)
<1>1. AgentRestricted <=> \E s \in AgentAllowSets : file[s].enabled
  BY SeenIsStored DEF AgentRestricted, AgentAllowSets, Named
<1> QED
  BY <1>1, CollectIsStored DEF check_command_authorized, HostAllowed, Allowed

LEMMA FollowsFile ==
  ASSUME Fresh
  PROVE  DecisionFollowsFile
<1> SUFFICES ASSUME restores = 0, ~AllDisabled, NEW c \in Commands
             PROVE  check_command_authorized(c) <=> Allowed(c, AgentAllowSets # {})
  BY DEF DecisionFollowsFile
<1>1. (\E s \in AgentAllowSets : file[s].enabled) <=> AgentAllowSets # {}
  BY DEF AllDisabled
<1> QED
  BY <1>1, FreshDecides DEF Allowed

\* Saving a set keeps the files well formed and its cache entry fresh.
LEMMA UpsertKeepsFresh ==
  ASSUME TypeOK, Fresh, UNCHANGED restores,
         NEW s \in Sets, NEW v \in SetValue \cup {NoSet}, upsert_command_set(s, v)
  PROVE  /\ file' \in [Sets -> SetValue \cup {NoSet}]
         /\ cache' \in [Sets -> SetValue \cup {NoSet, Absent}]
         /\ Fresh'
BY DEF TypeOK, Fresh, upsert_command_set

\* Saving a set that exists takes no list its sets away.
LEMMA UpsertKeepsLists ==
  ASSUME TypeOK, ListInv, UNCHANGED <<hostSets, agentSets, loose, restores>>,
         NEW s \in Sets, NEW v \in SetValue, upsert_command_set(s, v)
  PROVE  ListInv'
<1>1. v # NoSet
  BY DEF SetValue, NoSet
<1>2. NamedOnce'
  BY DEF ListInv, NamedOnce
<1>3. AssignedSetsExist'
  BY <1>1 DEF ListInv, AssignedSetsExist, Named, TypeOK, upsert_command_set
<1> QED
  BY <1>2, <1>3 DEF ListInv

\* A list is still one after an id was taken out, and names it only if it did twice.
LEMMA RemovedFacts ==
  ASSUME NEW ids \in IdList, NEW s \in Sets
  PROVE  /\ Removed(ids, s) \in IdList
         /\ \A x \in Sets \ {s} : Removed(ids, s)[x] = ids[x]
         /\ Removed(ids, s)[s] <= ids[s]
         /\ ids[s] <= 1 => Removed(ids, s)[s] = 0
BY RestoreAssumption DEF IdList, Removed

\* Flipping the flag of a set gives a set.
LEMMA ToggleIsSet ==
  ASSUME TypeOK, NEW s \in Sets, Seen(s) # NoSet
  PROVE  [Seen(s) EXCEPT !.enabled = ~@] \in SetValue
<1>1. Seen(s) \in SetValue
  BY DEF TypeOK, Seen
<1> QED
  BY <1>1 DEF SetValue

\* The invariant is inductive.
LEMMA InitIInv ==
  ASSUME Init
  PROVE  IInv
BY RestoreAssumption
   DEF Init, IInv, TypeOK, IdList, Fresh, ListInv, NamedOnce, AssignedSetsExist, Named

LEMMA StepIInv ==
  ASSUME IInv, [Next]_vars
  PROVE  IInv'
<1> USE DEF IInv
<1>1. ASSUME NEW s \in Sets, get_command_set(s) \/ CacheExpires(s)
      PROVE  IInv'
  <2>1. TypeOK' /\ Fresh'
    BY <1>1 DEF get_command_set, CacheExpires, TypeOK, Fresh
  <2>2. ListInv'
    BY <1>1 DEF get_command_set, CacheExpires, ListInv, NamedOnce, AssignedSetsExist, Named
  <2> QED
    BY <2>1, <2>2
<1>3. ASSUME NEW s \in Sets, put_set(s)
      PROVE  IInv'
  <2>1. PICK v \in SetValue : upsert_command_set(s, v)
    BY <1>3 DEF put_set
  <2>2. TypeOK' /\ Fresh'
    BY <1>3, <2>1, UpsertKeepsFresh DEF put_set, TypeOK
  <2>3. ListInv'
    BY <1>3, <2>1, UpsertKeepsLists DEF put_set
  <2> QED
    BY <2>2, <2>3
<1>4. ASSUME NEW s \in Sets, toggle_set(s)
      PROVE  IInv'
  <2> DEFINE v == [Seen(s) EXCEPT !.enabled = ~@]
  <2>1. v \in SetValue
    BY <1>4, ToggleIsSet DEF toggle_set
  <2>2. upsert_command_set(s, v)
    BY <1>4 DEF toggle_set
  <2> HIDE DEF v
  <2>3. TypeOK' /\ Fresh'
    BY <1>4, <2>1, <2>2, UpsertKeepsFresh DEF toggle_set, TypeOK
  <2>4. ListInv'
    BY <1>4, <2>1, <2>2, UpsertKeepsLists DEF toggle_set
  <2> QED
    BY <2>3, <2>4
<1>5. ASSUME NEW s \in Sets, del_set(s)
      PROVE  IInv'
  <2>1. upsert_command_set(s, NoSet) /\ UNCHANGED <<whitelist, restores>>
    BY <1>5 DEF del_set
  <2>2. /\ hostSets' \in {hostSets, Removed(hostSets, s)}
        /\ agentSets' \in {agentSets, Removed(agentSets, s)}
        /\ loose' \in {loose, loose \cup {s}, {}}
    BY <1>5 DEF del_set, Follow
  <2>3. TypeOK'
    <3>1. /\ file' \in [Sets -> SetValue \cup {NoSet}]
          /\ cache' \in [Sets -> SetValue \cup {NoSet, Absent}]
      BY <2>1, UpsertKeepsFresh
    <3> QED
      BY <2>1, <2>2, <3>1, RemovedFacts DEF TypeOK
  <2>4. Fresh'
    BY <2>1, UpsertKeepsFresh
  <2>5. ASSUME restores = 0 PROVE NamedOnce' /\ AssignedSetsExist'
    <3>1. loose \subseteq loose'
      BY <1>5, <2>5 DEF del_set, Follow
    <3>2. \A x \in Sets \ {s} : file'[x] = file[x] /\ hostSets'[x] = hostSets[x] /\ agentSets'[x] = agentSets[x]
      BY <2>1, <2>2, RemovedFacts DEF upsert_command_set, TypeOK
    <3>3. s \notin loose' => hostSets'[s] = 0 /\ agentSets'[s] = 0
      <4>1. SUFFICES ASSUME s \notin loose'
                     PROVE  hostSets'[s] = 0 /\ agentSets'[s] = 0
        OBVIOUS
      <4>2. hostSets' = Removed(hostSets, s) /\ agentSets' = Removed(agentSets, s)
        BY <1>5, <2>5, <4>1 DEF del_set, Follow
      <4>3. hostSets[s] <= 1 /\ agentSets[s] <= 1
        BY <2>5, <3>1, <4>1 DEF ListInv, NamedOnce
      <4> QED
        BY <4>2, <4>3, RemovedFacts DEF TypeOK
    <3>4. NamedOnce'
      BY <2>5, <3>1, <3>2, <3>3 DEF ListInv, NamedOnce
    <3>5. AssignedSetsExist'
      BY <2>1, <2>5, <3>1, <3>2, <3>3 DEF ListInv, AssignedSetsExist, Named
    <3> QED
      BY <3>4, <3>5
  <2>6. ListInv'
    <3>1. CASE restores = 0
      BY <2>5, <3>1 DEF ListInv
    <3>2. CASE restores # 0
      BY <2>1, <3>2 DEF ListInv, NamedOnce, AssignedSetsExist
    <3> QED
      BY <3>1, <3>2
  <2> QED
    BY <2>3, <2>4, <2>6
<1>6. ASSUME Assign
      PROVE  IInv'
  <2>1. UNCHANGED <<file, cache, restores>>
    BY <1>6 DEF Assign
  <2>2. TypeOK' /\ Fresh'
    BY <1>6 DEF Assign, Follow, Careless, Named, TypeOK, Fresh
  <2>3. CASE restores # 0
    BY <2>1, <2>2, <2>3 DEF ListInv, NamedOnce, AssignedSetsExist
  <2>4. ASSUME restores = 0, UNCHANGED agentSets, hostSets' \in IdList,
               loose' = Careless(hostSets') \cup (loose \cap Named(agentSets))
        PROVE  ListInv'
    <3>1. NamedOnce'
      BY <2>1, <2>4 DEF ListInv, NamedOnce, Careless, Named, IdList, TypeOK
    <3>2. AssignedSetsExist'
      BY <2>1, <2>4 DEF ListInv, AssignedSetsExist, Careless, Named
    <3> QED
      BY <3>1, <3>2 DEF ListInv
  <2>5. ASSUME restores = 0, UNCHANGED hostSets, agentSets' \in IdList,
               loose' = Careless(agentSets') \cup (loose \cap Named(hostSets))
        PROVE  ListInv'
    <3>1. NamedOnce'
      BY <2>1, <2>5 DEF ListInv, NamedOnce, Careless, Named, IdList, TypeOK
    <3>2. AssignedSetsExist'
      BY <2>1, <2>5 DEF ListInv, AssignedSetsExist, Careless, Named
    <3> QED
      BY <3>1, <3>2 DEF ListInv
  <2>6. CASE restores = 0
    BY <1>6, <2>2, <2>4, <2>5, <2>6 DEF Assign, Follow
  <2> QED
    BY <2>2, <2>3, <2>6
<1>7. ASSUME import_backup
      PROVE  IInv'
  <2>1. restores' # 0 /\ restores' \in 0..MaxRestores
    BY <1>7, RestoreAssumption DEF import_backup, TypeOK
  <2>2. TypeOK'
    BY <1>7, <2>1 DEF import_backup, TypeOK
  <2>3. Fresh' /\ ListInv'
    BY <2>1 DEF Fresh, ListInv, NamedOnce, AssignedSetsExist
  <2> QED
    BY <2>2, <2>3
<1>8. ASSUME UNCHANGED vars
      PROVE  IInv'
  BY <1>8 DEF vars, TypeOK, Fresh, ListInv, NamedOnce, AssignedSetsExist, Named
<1> QED
  BY <1>1, <1>3, <1>4, <1>5, <1>6, <1>7, <1>8 DEF Next

\* Types, freshness and assignments hold in every reachable state.
THEOREM PolicyInvariant == Spec => []IInv
<1>1. Init => IInv
  BY InitIInv
<1>2. IInv /\ [Next]_vars => IInv'
  BY StepIInv
<1> QED
  BY <1>1, <1>2, PTL DEF Spec

\* The variables keep their types: storage.get_command_set may cache a set or
\* its absence, and nothing else is ever saved.
THEOREM PolicyTypes == Spec => []TypeOK
<1>1. IInv => TypeOK
  BY DEF IInv
<1> QED
  BY <1>1, PolicyInvariant, PTL

\* check_command_authorized decides as docs/guide.md:142-144 says, whatever was edited,
\* toggled, deleted and cached before a first restore, unless all the allow sets
\* assigned to the agent are disabled.
THEOREM DecisionHolds == Spec => []DecisionFollowsFile
<1>1. IInv => DecisionFollowsFile
  BY FollowsFile DEF IInv
<1> QED
  BY <1>1, PolicyInvariant, PTL

\* No host or agent is left with a deleted set that was assigned once and while it
\* existed, unless its deletion was cut off (routes_admin.del_set).
THEOREM AssignmentsHold == Spec => []AssignedSetsExist
<1>1. IInv => AssignedSetsExist
  BY DEF IInv, ListInv
<1> QED
  BY <1>1, PolicyInvariant, PTL

\* A command in an enabled, assigned deny set is refused after every step that
\* leaves the set alone.
THEOREM DenyHolds == Spec => DenyStands
<1> DEFINE Stands ==
      restores' = 0 =>
        \A s \in Sets, c \in Commands :
          /\ s \in Named(hostSets) \cup Named(agentSets)
          /\ s \in Named(hostSets') \cup Named(agentSets')
          /\ file[s] = file'[s]
          /\ file[s].type = "deny" /\ file[s].enabled /\ c \in file[s].commands
          => ~check_command_authorized(c)'
<1>1. IInv => Fresh
  BY DEF IInv
<1>2. Fresh' => Stands
  <2> SUFFICES ASSUME Fresh', restores' = 0,
                      NEW s \in Sets, NEW c \in Commands,
                      s \in Named(hostSets') \cup Named(agentSets'),
                      file'[s].type = "deny", file'[s].enabled, c \in file'[s].commands
               PROVE  ~check_command_authorized(c)'
    OBVIOUS
  <2>1. Seen(s)' = file'[s]
    BY DEF Fresh, Seen
  <2>2. c \in Collect(hostSets, "deny")' \cup Collect(agentSets, "deny")'
    BY <2>1 DEF Collect, Named
  <2> QED
    BY <2>2 DEF check_command_authorized
<1>3. Spec => [][Stands]_vars
  BY <1>1, <1>2, PolicyInvariant, PTL
<1> QED
  BY <1>3 DEF DenyStands

-----------------------------------------------------------------------------
(* The limiter: calls granted and charges kept are counted against each    *)
(* other, from every cut of the window on.                                 *)

\* The charges, and the granted calls, from a moment c on.
Since(s, c)      == {e \in s : e.time >= c}
HostGrants(h, c)  == {i \in DOMAIN granted : granted[i].host = h /\ granted[i].time >= c}
AgentGrants(a, c) == {i \in DOMAIN granted : granted[i].agent = a /\ granted[i].time >= c}

LimitOf(k) == IF k \in Hosts THEN HostLimit ELSE AgentLimit

\* Charges of one moment bear the numbers from 1 on, so that a new one is new.
Numbered(s) ==
  \A e \in s : e.time <= now /\ e.nr <= Cardinality({x \in s : x.time = e.time})

CacheOK(c) ==
  /\ c \in [Keys -> SUBSET Charge]
  /\ \A k \in Keys : /\ IsFiniteSet(c[k])
                     /\ Numbered(c[k])
                     /\ Cardinality(c[k]) <= LimitOf(k)

\* Wherever a cut is made in the window: every call granted since was charged to its
\* host, and those granted to an agent are exactly what it was charged.
CountsOK(c) ==
  \A t \in Int : now - t < Window =>
    /\ HostLimit > 0 =>
         \A h \in Hosts : Cardinality(HostGrants(h, t)) <= Cardinality(Since(c[h], t))
    /\ AgentLimit > 0 =>
         \A a \in Agents : Cardinality(AgentGrants(a, t)) = Cardinality(Since(c[a], t))

\* What is past is past.
PastOK ==
  /\ last.time <= now
  /\ \A i \in DOMAIN granted : granted[i].time <= now

RateIInv ==
  /\ RateTypeOK
  /\ CacheOK(rate_limit_cache)
  /\ CountsOK(rate_limit_cache)
  /\ PastOK
  /\ AgentStoppedByItself

-----------------------------------------------------------------------------
\* Pruning keeps every charge of the window, and the numbers of those that stay.
LEMMA PrunedFacts ==
  ASSUME now \in Int, NEW s \in SUBSET Charge, IsFiniteSet(s), Numbered(s)
  PROVE  /\ Pruned(s) \in SUBSET Charge
         /\ IsFiniteSet(Pruned(s))
         /\ Cardinality(Pruned(s)) <= Cardinality(s)
         /\ Numbered(Pruned(s))
         /\ \A c \in Int : now - c < Window => Since(Pruned(s), c) = Since(s, c)
<1>1. Pruned(s) \in SUBSET s
  BY DEF Pruned
<1>2. IsFiniteSet(Pruned(s)) /\ Cardinality(Pruned(s)) <= Cardinality(s)
  BY <1>1, FS_Subset
<1>3. Numbered(Pruned(s))
  <2>1. ASSUME NEW e \in Pruned(s)
        PROVE  {x \in Pruned(s) : x.time = e.time} = {x \in s : x.time = e.time}
    BY <2>1 DEF Pruned
  <2>2. ASSUME NEW e \in Pruned(s)
        PROVE  e.time <= now /\ e.nr <= Cardinality({x \in Pruned(s) : x.time = e.time})
    BY <1>1, <2>1 DEF Numbered
  <2> QED BY <2>2 DEF Numbered
<1>4. ASSUME NEW c \in Int, now - c < Window
      PROVE  Since(Pruned(s), c) = Since(s, c)
  <2>1. ASSUME NEW e \in s, e.time >= c PROVE now - e.time < Window
    <3>1. e.time \in Int
      BY LimitAssumption DEF Charge, Times
    <3> QED BY <2>1, <3>1, <1>4, LimitAssumption
  <2> QED BY <2>1 DEF Since, Pruned
<1> QED BY <1>1, <1>2, <1>3, <1>4

\* A charge of this moment is new, and counts from any earlier cut on.
LEMMA AppendedFacts ==
  ASSUME now \in Times, NEW s \in SUBSET Charge, IsFiniteSet(s), Numbered(s)
  PROVE  /\ Appended(s) \in SUBSET Charge
         /\ IsFiniteSet(Appended(s))
         /\ Cardinality(Appended(s)) = Cardinality(s) + 1
         /\ Numbered(Appended(s))
         /\ \A c \in Int :
              Cardinality(Since(Appended(s), c)) =
                IF c <= now THEN Cardinality(Since(s, c)) + 1 ELSE Cardinality(Since(s, c))
<1> DEFINE same == {e \in s : e.time = now}
           e0   == [time |-> now, nr |-> Cardinality(same) + 1]
<1>0. now \in Int
  BY LimitAssumption DEF Times
<1>1. IsFiniteSet(same) /\ Cardinality(same) \in Nat
  <2>1. same \in SUBSET s
    OBVIOUS
  <2> QED BY <2>1, FS_Subset, FS_CardinalityType
<1>2. e0 \in Charge /\ e0.time = now /\ e0.nr = Cardinality(same) + 1
  BY <1>1 DEF Charge
<1>3. e0 \notin s
  <2>1. SUFFICES ASSUME e0 \in s PROVE FALSE
    OBVIOUS
  <2>2. e0.nr <= Cardinality({x \in s : x.time = e0.time})
    BY <2>1 DEF Numbered
  <2>3. {x \in s : x.time = e0.time} = same
    BY <1>2
  <2> QED BY <1>1, <1>2, <2>2, <2>3
<1>a. Appended(s) = s \cup {e0}
  BY DEF Appended
<1> HIDE DEF e0
<1>4. /\ IsFiniteSet(Appended(s))
      /\ Cardinality(Appended(s)) = Cardinality(s) + 1
  BY <1>3, <1>a, FS_AddElement
<1>5. Numbered(Appended(s))
  <2>1. ASSUME NEW e \in s
        PROVE  /\ e.time <= now
               /\ e.nr <= Cardinality({x \in Appended(s) : x.time = e.time})
    <3>0. e.time <= now /\ e.nr <= Cardinality({x \in s : x.time = e.time})
      BY DEF Numbered
    <3>n. e.nr \in Nat
      BY DEF Charge
    <3>1. CASE e.time = now
      <4>1. {x \in Appended(s) : x.time = e.time} = same \cup {e0}
        BY <1>2, <1>a, <3>1
      <4>2. Cardinality(same \cup {e0}) = Cardinality(same) + 1
        BY <1>1, <1>3, FS_AddElement
      <4>3. {x \in s : x.time = e.time} = same
        BY <3>1
      <4>4. Cardinality({x \in Appended(s) : x.time = e.time})
              = Cardinality({x \in s : x.time = e.time}) + 1
        BY <4>1, <4>2, <4>3
      <4>5. Cardinality({x \in s : x.time = e.time}) \in Nat
        BY <1>1, <4>3
      <4> QED BY <3>0, <3>n, <4>4, <4>5
    <3>2. CASE e.time # now
      <4>1. {x \in Appended(s) : x.time = e.time} = {x \in s : x.time = e.time}
        BY <1>2, <1>a, <3>2
      <4> QED BY <3>0, <4>1
    <3> QED BY <3>1, <3>2
  <2>2. e0.time <= now /\ e0.nr <= Cardinality({x \in Appended(s) : x.time = e0.time})
    <3>1. {x \in Appended(s) : x.time = e0.time} = same \cup {e0}
      BY <1>2, <1>a
    <3>2. Cardinality(same \cup {e0}) = Cardinality(same) + 1
      BY <1>1, <1>3, FS_AddElement
    <3> HIDE DEF same
    <3> QED BY <1>0, <1>1, <1>2, <3>1, <3>2
  <2> QED BY <1>a, <2>1, <2>2 DEF Numbered
<1>6. ASSUME NEW c \in Int
      PROVE  Cardinality(Since(Appended(s), c)) =
               IF c <= now THEN Cardinality(Since(s, c)) + 1 ELSE Cardinality(Since(s, c))
  <2>1. Since(s, c) \in SUBSET s
    BY DEF Since
  <2>2. IsFiniteSet(Since(s, c))
    BY <2>1, FS_Subset
  <2>3. CASE c <= now
    <3>1. Since(Appended(s), c) = Since(s, c) \cup {e0}
      BY <1>0, <1>2, <1>a, <2>3 DEF Since
    <3>2. e0 \notin Since(s, c)
      BY <1>3, <2>1
    <3> QED BY <2>2, <2>3, <3>1, <3>2, FS_AddElement
  <2>4. CASE ~(c <= now)
    <3>1. Since(Appended(s), c) = Since(s, c)
      BY <1>0, <1>2, <1>a, <2>4 DEF Since
    <3> QED BY <2>4, <3>1
  <2> QED BY <2>3, <2>4
<1>7. Appended(s) \in SUBSET Charge
  BY <1>2, <1>a
<1> QED BY <1>4, <1>5, <1>6, <1>7

\* check_rate_limit: one more charge in the window if the answer is yes, else none,
\* and no other key is touched.
LEMMA ChargedFacts ==
  ASSUME now \in Times, NEW c, CacheOK(c), NEW k \in Keys, NEW limit, limit = LimitOf(k)
  PROVE  /\ CacheOK(Charged(c, k, limit))
         /\ \A j \in Keys : j # k => Charged(c, k, limit)[j] = c[j]
         /\ \A t \in Int : now - t < Window /\ limit > 0 =>
              Cardinality(Since(Charged(c, k, limit)[k], t)) =
                IF UnderLimit(c, k, limit) /\ t <= now
                THEN Cardinality(Since(c[k], t)) + 1 ELSE Cardinality(Since(c[k], t))
<1>0. limit \in Nat /\ now \in Int
  BY LimitAssumption DEF LimitOf, Times
<1>1. CASE limit = 0
  BY <1>1 DEF Charged
<1>2. CASE limit # 0
  <2> DEFINE p == Pruned(c[k])
             d == Charged(c, k, limit)
  <2>1. /\ c \in [Keys -> SUBSET Charge] /\ c[k] \in SUBSET Charge /\ IsFiniteSet(c[k])
        /\ Numbered(c[k]) /\ Cardinality(c[k]) <= limit
    BY DEF CacheOK
  <2>2. /\ p \in SUBSET Charge /\ IsFiniteSet(p) /\ Cardinality(p) <= Cardinality(c[k])
        /\ Numbered(p)
        /\ \A t \in Int : now - t < Window => Since(p, t) = Since(c[k], t)
    BY <1>0, <2>1, PrunedFacts
  <2>3. /\ Appended(p) \in SUBSET Charge /\ IsFiniteSet(Appended(p))
        /\ Cardinality(Appended(p)) = Cardinality(p) + 1
        /\ Numbered(Appended(p))
        /\ \A t \in Int :
              Cardinality(Since(Appended(p), t)) =
                IF t <= now THEN Cardinality(Since(p, t)) + 1 ELSE Cardinality(Since(p, t))
    BY <2>2, AppendedFacts
  <2>4. Cardinality(p) \in Nat /\ Cardinality(c[k]) \in Nat
    BY <2>1, <2>2, FS_CardinalityType
  <2>5. UnderLimit(c, k, limit) <=> Cardinality(p) < limit
    BY <1>2 DEF UnderLimit
  <2>6. d = [c EXCEPT ![k] = IF UnderLimit(c, k, limit) THEN Appended(p) ELSE p]
    BY <1>2 DEF Charged
  <2> HIDE DEF p
  <2>7. CASE UnderLimit(c, k, limit)
    <3>1. d = [c EXCEPT ![k] = Appended(p)]
      BY <2>6, <2>7
    <3>2. d[k] = Appended(p) /\ \A j \in Keys : j # k => d[j] = c[j]
      BY <2>1, <3>1
    <3>3. d \in [Keys -> SUBSET Charge]
      BY <2>1, <2>3, <3>1
    <3> HIDE DEF d
    <3>4. Cardinality(d[k]) <= limit
      BY <1>0, <2>3, <2>4, <2>5, <2>7, <3>2
    <3>5. CacheOK(d)
      BY <2>3, <3>2, <3>3, <3>4 DEF CacheOK
    <3>6. ASSUME NEW t \in Int, now - t < Window
          PROVE  Cardinality(Since(d[k], t)) =
                   IF t <= now THEN Cardinality(Since(c[k], t)) + 1 ELSE Cardinality(Since(c[k], t))
      BY <2>2, <2>3, <3>2, <3>6
    <3> USE DEF d
    <3> QED BY <2>7, <3>2, <3>5, <3>6
  <2>8. CASE ~UnderLimit(c, k, limit)
    <3>1. d = [c EXCEPT ![k] = p]
      BY <2>6, <2>8
    <3>2. d[k] = p /\ \A j \in Keys : j # k => d[j] = c[j]
      BY <2>1, <3>1
    <3>3. d \in [Keys -> SUBSET Charge]
      BY <2>1, <2>2, <3>1
    <3> HIDE DEF d
    <3>4. Cardinality(d[k]) <= limit
      BY <1>0, <2>1, <2>2, <2>4, <3>2
    <3>5. CacheOK(d)
      BY <2>2, <3>2, <3>3, <3>4 DEF CacheOK
    <3>6. ASSUME NEW t \in Int, now - t < Window
          PROVE  Cardinality(Since(d[k], t)) = Cardinality(Since(c[k], t))
      BY <2>2, <3>2, <3>6
    <3> USE DEF d
    <3> QED BY <2>8, <3>2, <3>5, <3>6
  <2> QED BY <2>7, <2>8
<1> QED BY <1>1, <1>2

-----------------------------------------------------------------------------
Grants == [time: Times, host: Hosts, agent: Agents]

\* The first moment of the window.
Start == now - Window + 1

\* The sets the properties count are the ones the invariant counts from Start on.
LEMMA WindowIsSinceStart ==
  ASSUME now \in Times, granted \in Seq(Grants)
  PROVE  /\ Start \in Int /\ now - Start < Window
         /\ \A h : ToHost(h) = HostGrants(h, Start)
         /\ \A a : FromAgent(a) = AgentGrants(a, Start)
         /\ \A s \in SUBSET Charge : Pruned(s) = Since(s, Start)
<1>0. now \in Int /\ Window \in Int
  BY LimitAssumption DEF Times
<1>1. Start \in Int /\ now - Start < Window
  BY <1>0 DEF Start
<1>2. \A t \in Int : now - t < Window <=> t >= Start
  BY <1>0 DEF Start
<1>3. \A i \in DOMAIN granted : granted[i].time \in Int
  <2>1. \A g \in Grants : g.time \in Int
    BY LimitAssumption DEF Grants, Times
  <2>2. \A i \in DOMAIN granted : granted[i] \in Grants
    OBVIOUS
  <2> QED BY <2>1, <2>2
<1>4. \A h : ToHost(h) = HostGrants(h, Start)
  BY <1>2, <1>3 DEF ToHost, HostGrants, Recent
<1>5. \A a : FromAgent(a) = AgentGrants(a, Start)
  BY <1>2, <1>3 DEF FromAgent, AgentGrants, Recent
<1>6. ASSUME NEW s \in SUBSET Charge PROVE Pruned(s) = Since(s, Start)
  <2>1. \A e \in s : e.time \in Int
    BY LimitAssumption DEF Charge, Times
  <2> QED BY <1>2, <2>1 DEF Pruned, Since
<1> QED BY <1>1, <1>4, <1>5, <1>6

\* What is counted is finite.
LEMMA CacheCounts ==
  ASSUME NEW c, CacheOK(c), NEW j \in Keys, NEW t
  PROVE  /\ IsFiniteSet(Since(c[j], t))
         /\ Cardinality(Since(c[j], t)) \in Nat
         /\ Cardinality(Since(c[j], t)) <= LimitOf(j)
<1>1. IsFiniteSet(c[j]) /\ Since(c[j], t) \in SUBSET c[j] /\ Cardinality(c[j]) <= LimitOf(j)
  BY DEF CacheOK, Since
<1>2. /\ IsFiniteSet(Since(c[j], t))
      /\ Cardinality(Since(c[j], t)) <= Cardinality(c[j])
  BY <1>1, FS_Subset
<1>3. Cardinality(Since(c[j], t)) \in Nat /\ Cardinality(c[j]) \in Nat
  BY <1>1, <1>2, FS_CardinalityType
<1> QED BY <1>1, <1>2, <1>3, LimitAssumption DEF LimitOf

LEMMA GrantCounts ==
  ASSUME granted \in Seq(Grants), NEW k, NEW t
  PROVE  /\ IsFiniteSet(HostGrants(k, t)) /\ Cardinality(HostGrants(k, t)) \in Nat
         /\ IsFiniteSet(AgentGrants(k, t)) /\ Cardinality(AgentGrants(k, t)) \in Nat
<1>1. DOMAIN granted = 1..Len(granted) /\ Len(granted) \in Nat
  OBVIOUS
<1>2. IsFiniteSet(DOMAIN granted)
  BY <1>1, FS_Interval
<1>3. HostGrants(k, t) \in SUBSET DOMAIN granted /\ AgentGrants(k, t) \in SUBSET DOMAIN granted
  BY DEF HostGrants, AgentGrants
<1> QED BY <1>2, <1>3, FS_Subset, FS_CardinalityType

\* A cache value that accounts for everything granted still does so after its host
\* is charged.
LEMMA HostCharged ==
  ASSUME now \in Times, granted \in Seq(Grants), NEW c, CacheOK(c), CountsOK(c),
         NEW h \in Hosts
  PROVE  CacheOK(Charged(c, h, HostLimit)) /\ CountsOK(Charged(c, h, HostLimit))
<1> DEFINE d == Charged(c, h, HostLimit)
<1>0. h \in Keys /\ HostLimit = LimitOf(h) /\ HostLimit \in Nat
  BY LimitAssumption DEF Keys, LimitOf
<1>1. /\ CacheOK(d)
      /\ \A j \in Keys : j # h => d[j] = c[j]
      /\ \A t \in Int : now - t < Window /\ HostLimit > 0 =>
           Cardinality(Since(d[h], t)) =
             IF UnderLimit(c, h, HostLimit) /\ t <= now
             THEN Cardinality(Since(c[h], t)) + 1 ELSE Cardinality(Since(c[h], t))
  BY <1>0, ChargedFacts
<1> HIDE DEF d
<1>2. \A j \in Keys, t \in Int : Cardinality(Since(c[j], t)) \in Nat
  BY CacheCounts
<1>3. ASSUME NEW t \in Int, now - t < Window
      PROVE  /\ HostLimit > 0 =>
                  \A g \in Hosts : Cardinality(HostGrants(g, t)) <= Cardinality(Since(d[g], t))
             /\ AgentLimit > 0 =>
                  \A a \in Agents : Cardinality(AgentGrants(a, t)) = Cardinality(Since(d[a], t))
  <2>1. ASSUME HostLimit > 0, NEW g \in Hosts
        PROVE  Cardinality(HostGrants(g, t)) <= Cardinality(Since(d[g], t))
    <3>1. Cardinality(HostGrants(g, t)) <= Cardinality(Since(c[g], t))
      BY <1>3, <2>1 DEF CountsOK
    <3>2. CASE g = h
      <4>1. \/ Cardinality(Since(d[h], t)) = Cardinality(Since(c[h], t))
            \/ Cardinality(Since(d[h], t)) = Cardinality(Since(c[h], t)) + 1
        BY <1>1, <1>3, <2>1
      <4>2. Cardinality(Since(c[h], t)) \in Nat
        BY <1>0, <1>2
      <4>3. Cardinality(HostGrants(h, t)) \in Nat
        BY GrantCounts
      <4> QED BY <3>1, <3>2, <4>1, <4>2, <4>3
    <3>3. CASE g # h
      BY <1>1, <3>1, <3>3 DEF Keys
    <3> QED BY <3>2, <3>3
  <2>2. ASSUME AgentLimit > 0, NEW a \in Agents
        PROVE  Cardinality(AgentGrants(a, t)) = Cardinality(Since(d[a], t))
    <3>1. a # h /\ a \in Keys
      BY KeyAssumption DEF Keys
    <3> QED BY <1>1, <1>3, <2>2, <3>1 DEF CountsOK
  <2> QED BY <2>1, <2>2
<1> QED BY <1>1, <1>3 DEF CountsOK, d

\* The steps of the executor on a cache value c that accounts for all that is granted.
LEMMA ExecutorStep ==
  ASSUME RateTypeOK, PastOK, NEW c, CacheOK(c), CountsOK(c),
         NEW h \in Hosts, NEW a \in Agents, execute_command(h, a, c)
  PROVE  CacheOK(rate_limit_cache)' /\ CountsOK(rate_limit_cache)'
         /\ (granted \in Seq(Grants) /\ PastOK)' /\ AgentStoppedByItself'
<1> DEFINE c1 == Charged(c, h, HostLimit)
           c2 == Charged(c1, a, AgentLimit)
           g0 == [time |-> now, host |-> h, agent |-> a]
           n  == Len(granted) + 1
<1>0. /\ now \in Times /\ now \in Int /\ granted \in Seq(Grants)
      /\ h \in Keys /\ a \in Keys /\ h # a
      /\ AgentLimit = LimitOf(a) /\ AgentLimit \in Nat /\ HostLimit \in Nat
      /\ n \in Nat /\ DOMAIN granted = 1 .. n - 1
  BY LimitAssumption, KeyAssumption DEF RateTypeOK, Grants, Keys, LimitOf, Times
<1>1. CacheOK(c1) /\ CountsOK(c1)
  BY <1>0, HostCharged
<1>2. UNCHANGED now
  BY DEF execute_command, Ended
<1>3. /\ \A j \in Keys : j # h => c1[j] = c[j]
      /\ \A t \in Int : now - t < Window /\ HostLimit > 0 =>
           Cardinality(Since(c1[h], t)) =
             IF UnderLimit(c, h, HostLimit) /\ t <= now
             THEN Cardinality(Since(c[h], t)) + 1 ELSE Cardinality(Since(c[h], t))
  <2>1. HostLimit = LimitOf(h)
    BY DEF LimitOf
  <2> QED BY <1>0, <2>1, ChargedFacts
<1>4. ASSUME NEW d, CacheOK(d), rate_limit_cache' = d
      PROVE  CacheOK(rate_limit_cache)'
  BY <1>2, <1>4 DEF CacheOK, Numbered
<1>5. ASSUME NEW d, CountsOK(d), rate_limit_cache' = d, granted' = granted
      PROVE  CountsOK(rate_limit_cache)'
  BY <1>2, <1>5 DEF CountsOK, HostGrants, AgentGrants, Since
<1>6. CASE /\ granted' = granted
           /\ last'.outcome # "agent" /\ last'.time = now
           /\ (rate_limit_cache' = c \/ rate_limit_cache' = c1)
  <2>1. CacheOK(rate_limit_cache)' /\ CountsOK(rate_limit_cache)'
    BY <1>1, <1>4, <1>5, <1>6
  <2>2. PastOK' /\ AgentStoppedByItself'
    BY <1>0, <1>2, <1>6 DEF PastOK, AgentStoppedByItself
  <2> QED BY <1>0, <1>6, <2>1, <2>2
<1>7. CASE /\ UnderLimit(c, h, HostLimit)
           /\ rate_limit_cache' = c2
           /\ Ended(h, a, IF UnderLimit(c1, a, AgentLimit) THEN "granted" ELSE "agent")
  <2>1. /\ CacheOK(c2)
        /\ \A j \in Keys : j # a => c2[j] = c1[j]
        /\ \A t \in Int : now - t < Window /\ AgentLimit > 0 =>
             Cardinality(Since(c2[a], t)) =
               IF UnderLimit(c1, a, AgentLimit) /\ t <= now
               THEN Cardinality(Since(c1[a], t)) + 1 ELSE Cardinality(Since(c1[a], t))
    BY <1>0, <1>1, ChargedFacts
  <2> HIDE DEF c1, c2
  <2>2. CASE UnderLimit(c1, a, AgentLimit)
    <3>1. /\ granted' = Append(granted, g0)
          /\ last' = [time |-> now, host |-> h, agent |-> a, outcome |-> "granted"]
      BY <1>7, <2>2 DEF Ended
    <3>2. /\ g0 \in Grants
          /\ granted' \in Seq(Grants)
          /\ DOMAIN granted' = (DOMAIN granted) \cup {n}
          /\ n \notin DOMAIN granted
          /\ granted'[n] = g0
          /\ \A i \in DOMAIN granted : granted'[i] = granted[i]
      BY <1>0, <3>1 DEF Grants
    <3>3. ASSUME NEW k, NEW t \in Int
          PROVE  /\ HostGrants(k, t)' = IF k = h /\ t <= now THEN HostGrants(k, t) \cup {n}
                                                             ELSE HostGrants(k, t)
                 /\ n \notin HostGrants(k, t)
                 /\ AgentGrants(k, t)' = IF k = a /\ t <= now THEN AgentGrants(k, t) \cup {n}
                                                               ELSE AgentGrants(k, t)
                 /\ n \notin AgentGrants(k, t)
      <4> HIDE DEF n
      <4> QED BY <1>0, <3>2 DEF HostGrants, AgentGrants
    <3>4. ASSUME NEW k, NEW t \in Int
          PROVE  /\ Cardinality(HostGrants(k, t)') = IF k = h /\ t <= now
                                                     THEN Cardinality(HostGrants(k, t)) + 1
                                                     ELSE Cardinality(HostGrants(k, t))
                 /\ Cardinality(AgentGrants(k, t)') = IF k = a /\ t <= now
                                                      THEN Cardinality(AgentGrants(k, t)) + 1
                                                      ELSE Cardinality(AgentGrants(k, t))
      <4>1. /\ IsFiniteSet(HostGrants(k, t)) /\ IsFiniteSet(AgentGrants(k, t))
        BY <1>0, GrantCounts
      <4>2. /\ Cardinality(HostGrants(k, t) \cup {n}) = Cardinality(HostGrants(k, t)) + 1
            /\ Cardinality(AgentGrants(k, t) \cup {n}) = Cardinality(AgentGrants(k, t)) + 1
        BY <3>3, <4>1, FS_AddElement
      <4> HIDE DEF n
      <4>3. Cardinality(HostGrants(k, t)') = IF k = h /\ t <= now
                                            THEN Cardinality(HostGrants(k, t)) + 1
                                            ELSE Cardinality(HostGrants(k, t))
        BY <3>3, <4>2
      <4>4. Cardinality(AgentGrants(k, t)') = IF k = a /\ t <= now
                                             THEN Cardinality(AgentGrants(k, t)) + 1
                                             ELSE Cardinality(AgentGrants(k, t))
        BY <3>3, <4>2
      <4> QED BY <4>3, <4>4
    <3>5. ASSUME NEW t \in Int, now - t < Window, HostLimit > 0, NEW g \in Hosts
          PROVE  Cardinality(HostGrants(g, t)') <= Cardinality(Since(c2[g], t))
      <4>1. c2[g] = c1[g]
        BY <2>1, KeyAssumption DEF Keys
      <4>2. Cardinality(HostGrants(g, t)) <= Cardinality(Since(c[g], t))
        BY <3>5 DEF CountsOK
      <4>3. /\ Cardinality(HostGrants(g, t)) \in Nat
            /\ Cardinality(Since(c[g], t)) \in Nat
        BY <1>0, GrantCounts, CacheCounts DEF Keys
      <4>4. CASE g = h
        <5>1. Cardinality(Since(c1[h], t)) = IF t <= now THEN Cardinality(Since(c[h], t)) + 1
                                                         ELSE Cardinality(Since(c[h], t))
          BY <1>0, <1>7, <1>3, <3>5
        <5> QED BY <1>0, <3>4, <4>1, <4>2, <4>3, <4>4, <5>1
      <4>5. CASE g # h
        <5>1. c1[g] = c[g]
          BY <1>3, <4>5 DEF Keys
        <5> QED BY <3>4, <4>1, <4>2, <4>5, <5>1
      <4> QED BY <4>4, <4>5
    <3>6. ASSUME NEW t \in Int, now - t < Window, AgentLimit > 0, NEW b \in Agents
          PROVE  Cardinality(AgentGrants(b, t)') = Cardinality(Since(c2[b], t))
      <4>1. Cardinality(AgentGrants(b, t)) = Cardinality(Since(c1[b], t))
        BY <1>1, <3>6 DEF CountsOK
      <4>2. CASE b = a
        BY <2>1, <2>2, <3>4, <3>6, <4>1, <4>2
      <4>3. CASE b # a
        <5>1. c2[b] = c1[b]
          BY <2>1, <4>3 DEF Keys
        <5> QED BY <3>4, <4>1, <4>3, <5>1
      <4> QED BY <4>2, <4>3
    <3>7. CountsOK(rate_limit_cache)'
      BY <1>2, <1>7, <3>5, <3>6 DEF CountsOK, Since
    <3>8. PastOK'
      BY <1>0, <1>2, <3>1, <3>2 DEF PastOK
    <3>9. AgentStoppedByItself'
      BY <3>1 DEF AgentStoppedByItself
    <3> QED BY <1>4, <1>7, <2>1, <3>2, <3>7, <3>8, <3>9
  <2>3. CASE ~UnderLimit(c1, a, AgentLimit)
    <3>1. /\ granted' = granted
          /\ last' = [time |-> now, host |-> h, agent |-> a, outcome |-> "agent"]
      BY <1>7, <2>3 DEF Ended
    <3>2. ASSUME NEW t \in Int, now - t < Window, HostLimit > 0, NEW g \in Hosts
          PROVE  Cardinality(HostGrants(g, t)) <= Cardinality(Since(c2[g], t))
      <4>1. c2[g] = c1[g]
        BY <2>1, KeyAssumption DEF Keys
      <4> QED BY <1>1, <3>2, <4>1 DEF CountsOK
    <3>3. ASSUME NEW t \in Int, now - t < Window, AgentLimit > 0, NEW b \in Agents
          PROVE  Cardinality(AgentGrants(b, t)) = Cardinality(Since(c2[b], t))
      <4>1. Cardinality(AgentGrants(b, t)) = Cardinality(Since(c1[b], t))
        BY <1>1, <3>3 DEF CountsOK
      <4>2. CASE b = a
        BY <2>1, <2>3, <3>3, <4>1, <4>2
      <4>3. CASE b # a
        BY <2>1, <4>1, <4>3 DEF Keys
      <4> QED BY <4>2, <4>3
    <3>4. CountsOK(c2)
      BY <3>2, <3>3 DEF CountsOK
    <3>5. Cardinality(FromAgent(a)) >= AgentLimit
      <4>1. AgentLimit > 0 /\ ~(Cardinality(Pruned(c1[a])) < AgentLimit)
        BY <1>0, <2>3 DEF UnderLimit
      <4>2. c1[a] \in SUBSET Charge
        BY <1>0, <1>1 DEF CacheOK
      <4>3. /\ FromAgent(a) = AgentGrants(a, Start) /\ Pruned(c1[a]) = Since(c1[a], Start)
            /\ Start \in Int /\ now - Start < Window
        BY <1>0, <4>2, WindowIsSinceStart
      <4>4. Cardinality(AgentGrants(a, Start)) = Cardinality(Since(c1[a], Start))
        BY <1>1, <4>1, <4>3 DEF CountsOK
      <4>5. Cardinality(Since(c1[a], Start)) \in Nat
        BY <1>0, <1>1, CacheCounts
      <4> QED BY <1>0, <4>1, <4>3, <4>4, <4>5
    <3>6. FromAgent(last.agent)' = FromAgent(a)
      BY <1>2, <3>1 DEF FromAgent, Recent
    <3>7. AgentStoppedByItself'
      BY <3>5, <3>6 DEF AgentStoppedByItself
    <3>8. PastOK'
      BY <1>0, <1>2, <3>1 DEF PastOK
    <3> QED BY <1>0, <1>4, <1>5, <1>7, <2>1, <3>1, <3>4, <3>7, <3>8
  <2> QED BY <2>2, <2>3
<1> QED BY <1>6, <1>7 DEF execute_command, Ended

-----------------------------------------------------------------------------
LEMMA InitRateIInv == RateInit => RateIInv
<1> SUFFICES ASSUME RateInit PROVE RateIInv
  OBVIOUS
<1> USE DEF RateInit
<1>1. CacheOK(rate_limit_cache) /\ RateTypeOK
  BY FS_EmptySet, LimitAssumption DEF CacheOK, Numbered, LimitOf, RateTypeOK, Times, None, Keys
<1>2. CountsOK(rate_limit_cache)
  <2>1. \A k, t : HostGrants(k, t) = {} /\ AgentGrants(k, t) = {}
    BY DEF HostGrants, AgentGrants
  <2>2. \A k \in Keys, t \in Int : Since(rate_limit_cache[k], t) = {}
    BY DEF Since
  <2>3. ASSUME NEW t \in Int, NEW k \in Keys
        PROVE  /\ Cardinality(HostGrants(k, t)) = 0 /\ Cardinality(AgentGrants(k, t)) = 0
               /\ Cardinality(Since(rate_limit_cache[k], t)) = 0
    BY <2>1, <2>2, FS_EmptySet
  <2>4. 0 <= 0
    OBVIOUS
  <2> QED BY <2>3, <2>4 DEF CountsOK, Keys
<1>3. PastOK /\ AgentStoppedByItself
  BY DEF PastOK, AgentStoppedByItself, None
<1> QED BY <1>1, <1>2, <1>3 DEF RateIInv

\* The limits in the type invariant are those of CacheOK.
LEMMA TypedNext ==
  ASSUME CacheOK(rate_limit_cache)', now' \in Times, granted' \in Seq(Grants),
         last' \in {None} \cup [time: Times, host: Hosts, agent: Agents,
                                outcome: {"granted", "denied", "host", "agent"}]
  PROVE  RateTypeOK'
<1>1. /\ rate_limit_cache' \in [Keys -> SUBSET Charge]
      /\ \A k \in Keys : /\ IsFiniteSet(rate_limit_cache'[k])
                         /\ Cardinality(rate_limit_cache'[k]) <= LimitOf(k)
  BY DEF CacheOK
<1>2. /\ \A h \in Hosts : h \in Keys /\ LimitOf(h) = HostLimit
      /\ \A a \in Agents : a \in Keys /\ LimitOf(a) = AgentLimit
  BY KeyAssumption DEF LimitOf, Keys
<1> QED BY <1>1, <1>2 DEF RateTypeOK, Grants

LEMMA CallStep ==
  ASSUME RateIInv, NEW h \in Hosts, NEW a \in Agents, api_exec(h, a) \/ exec_tool(h, a)
  PROVE  RateIInv'
<1>1. /\ RateTypeOK /\ PastOK /\ CacheOK(rate_limit_cache) /\ CountsOK(rate_limit_cache)
      /\ now \in Times /\ now \in Int /\ granted \in Seq(Grants)
  BY LimitAssumption DEF RateIInv, RateTypeOK, Grants, Times
<1> DEFINE c1 == Charged(rate_limit_cache, h, HostLimit)
<1>2. CacheOK(c1) /\ CountsOK(c1)
  BY <1>1, HostCharged
<1>3. \E outcome \in {"granted", "denied", "host", "agent"} : Ended(h, a, outcome)
  BY DEF api_exec, exec_tool, execute_command
<1>4. /\ now' = now
      /\ last' \in [time: Times, host: Hosts, agent: Agents,
                    outcome: {"granted", "denied", "host", "agent"}]
  BY <1>1, <1>3 DEF Ended
<1>5. CASE execute_command(h, a, rate_limit_cache) \/ execute_command(h, a, c1)
  <2>1. /\ CacheOK(rate_limit_cache)' /\ CountsOK(rate_limit_cache)'
        /\ (granted \in Seq(Grants) /\ PastOK)' /\ AgentStoppedByItself'
    <3>1. CASE execute_command(h, a, rate_limit_cache)
      BY <1>1, <3>1, ExecutorStep
    <3>2. CASE execute_command(h, a, c1)
      <4> HIDE DEF c1
      <4> QED BY <1>1, <1>2, <3>2, ExecutorStep
    <3> QED BY <1>5, <3>1, <3>2
  <2>2. RateTypeOK'
    BY <1>1, <1>4, <2>1, TypedNext
  <2> QED BY <2>1, <2>2 DEF RateIInv
<1>6. CASE rate_limit_cache' = c1 /\ Ended(h, a, "host")
  <2>1. /\ granted' = granted
        /\ last' = [time |-> now, host |-> h, agent |-> a, outcome |-> "host"]
    BY <1>6 DEF Ended
  <2> HIDE DEF c1
  <2>2. CacheOK(rate_limit_cache)'
    BY <1>2, <1>4, <1>6 DEF CacheOK, Numbered
  <2>3. CountsOK(rate_limit_cache)'
    BY <1>2, <1>4, <1>6, <2>1 DEF CountsOK, HostGrants, AgentGrants, Since
  <2>4. PastOK' /\ AgentStoppedByItself'
    BY <1>1, <1>4, <2>1 DEF PastOK, AgentStoppedByItself
  <2>5. RateTypeOK'
    BY <1>1, <1>4, <2>1, <2>2, TypedNext
  <2> QED BY <2>2, <2>3, <2>4, <2>5 DEF RateIInv
<1> QED BY <1>5, <1>6 DEF api_exec, exec_tool

LEMMA TickStep ==
  ASSUME RateIInv, Tick
  PROVE  RateIInv'
<1>1. /\ RateTypeOK /\ PastOK /\ CacheOK(rate_limit_cache) /\ CountsOK(rate_limit_cache)
      /\ now \in Times /\ now \in Int /\ MaxTime \in Int /\ Window \in Int
      /\ granted \in Seq(Grants)
  BY LimitAssumption DEF RateIInv, RateTypeOK, Grants, Times
<1>2. /\ now' = now + 1 /\ now' \in Times
      /\ UNCHANGED <<rate_limit_cache, granted, last>>
  BY <1>1, LimitAssumption DEF Tick, Times
<1>3. CacheOK(rate_limit_cache)'
  <2>1. ASSUME NEW k \in Keys, NEW e \in rate_limit_cache[k]
        PROVE  e.time <= now + 1 /\ e.nr <= Cardinality({x \in rate_limit_cache[k] : x.time = e.time})
    <3>1. e.time <= now /\ e.nr <= Cardinality({x \in rate_limit_cache[k] : x.time = e.time})
      BY <1>1 DEF CacheOK, Numbered
    <3>2. e.time \in Int
      BY <1>1, LimitAssumption DEF CacheOK, Charge, Times
    <3> QED BY <1>1, <3>1, <3>2
  <2> QED BY <1>1, <1>2, <2>1 DEF CacheOK, Numbered
<1>4. CountsOK(rate_limit_cache)'
  <2>1. \A t \in Int : now' - t < Window => now - t < Window
    BY <1>1, <1>2
  <2> QED BY <1>1, <1>2, <2>1 DEF CountsOK, HostGrants, AgentGrants, Since
<1>5. PastOK' /\ AgentStoppedByItself'
  <2>1. last.time \in Int /\ \A i \in DOMAIN granted : granted[i].time \in Int
    <3>1. \A g \in Grants : g.time \in Int
      BY LimitAssumption DEF Grants, Times
    <3>2. \A i \in DOMAIN granted : granted[i] \in Grants
      BY <1>1
    <3>3. last.time \in Int
      BY <1>1, LimitAssumption DEF RateTypeOK, None, Times
    <3> QED BY <3>1, <3>2, <3>3
  <2> QED BY <1>1, <1>2, <2>1 DEF PastOK, AgentStoppedByItself
<1>6. RateTypeOK'
  BY <1>1, <1>2, <1>3, TypedNext DEF RateTypeOK
<1> QED BY <1>3, <1>4, <1>5, <1>6 DEF RateIInv

LEMMA RateIInvStep ==
  ASSUME RateIInv, [RateNext]_rateVars
  PROVE  RateIInv'
<1>1. ASSUME NEW h \in Hosts, NEW a \in Agents, api_exec(h, a) \/ exec_tool(h, a)
      PROVE  RateIInv'
  BY <1>1, CallStep
<1>2. CASE Tick
  BY <1>2, TickStep
<1>3. CASE UNCHANGED rateVars
  <2>1. /\ UNCHANGED <<now, rate_limit_cache, granted, last>>
    BY <1>3 DEF rateVars
  <2> QED BY <2>1 DEF RateIInv, RateTypeOK, CacheOK, Numbered, CountsOK, HostGrants, AgentGrants,
                      PastOK, AgentStoppedByItself, FromAgent, Recent
<1> QED BY <1>1, <1>2, <1>3 DEF RateNext

\* The windows, the cache and the history are well formed.
THEOREM RateTypes == RateSpec => []RateTypeOK
<1>1. RateIInv => RateTypeOK
  BY DEF RateIInv
<1> QED BY InitRateIInv, RateIInvStep, <1>1, PTL DEF RateSpec

\* In no window do more calls than the limit reach a host or come from an agent.
THEOREM WindowRespectedHolds == RateSpec => []WindowRespected
<1>1. RateIInv => WindowRespected
  <2> SUFFICES ASSUME RateIInv PROVE WindowRespected
    OBVIOUS
  <2>1. /\ now \in Times /\ granted \in Seq(Grants)
        /\ CacheOK(rate_limit_cache) /\ CountsOK(rate_limit_cache)
    BY DEF RateIInv, RateTypeOK, Grants
  <2>2. /\ Start \in Int /\ now - Start < Window
        /\ \A h : ToHost(h) = HostGrants(h, Start)
        /\ \A a : FromAgent(a) = AgentGrants(a, Start)
    BY <2>1, WindowIsSinceStart
  <2>3. ASSUME HostLimit > 0, NEW h \in Hosts
        PROVE  Cardinality(ToHost(h)) <= HostLimit
    <3>1. Cardinality(HostGrants(h, Start)) <= Cardinality(Since(rate_limit_cache[h], Start))
      BY <2>1, <2>2, <2>3 DEF CountsOK
    <3>2. /\ Cardinality(Since(rate_limit_cache[h], Start)) \in Nat
          /\ Cardinality(Since(rate_limit_cache[h], Start)) <= HostLimit
      BY <2>1, CacheCounts DEF Keys, LimitOf
    <3>3. Cardinality(HostGrants(h, Start)) \in Nat
      BY <2>1, GrantCounts
    <3> QED BY <2>2, <3>1, <3>2, <3>3, LimitAssumption
  <2>4. ASSUME AgentLimit > 0, NEW a \in Agents
        PROVE  Cardinality(FromAgent(a)) <= AgentLimit
    <3>1. Cardinality(AgentGrants(a, Start)) = Cardinality(Since(rate_limit_cache[a], Start))
      BY <2>1, <2>2, <2>4 DEF CountsOK
    <3>2. a \in Keys /\ LimitOf(a) = AgentLimit
      BY KeyAssumption DEF Keys, LimitOf
    <3> QED BY <2>1, <2>2, <3>1, <3>2, CacheCounts
  <2> QED BY <2>3, <2>4 DEF WindowRespected
<1> QED BY InitRateIInv, RateIInvStep, <1>1, PTL DEF RateSpec

\* An agent is stopped only by as many calls of its own as its limit allows.
THEOREM AgentStoppedByItselfHolds == RateSpec => []AgentStoppedByItself
<1>1. RateIInv => AgentStoppedByItself
  BY DEF RateIInv
<1> QED BY InitRateIInv, RateIInvStep, <1>1, PTL DEF RateSpec

-----------------------------------------------------------------------------
(* Induction and recursion on numbers, as sets and functions.              *)

\* A non-empty set of natural numbers has a least element.
LEMMA LeastExists ==
  ASSUME NEW S \in SUBSET Nat, S # {}
  PROVE  \E m \in S : \A q \in S : m <= q
<1>1. PICK m \in S : \A q \in S : ~ (<<q, m>> \in OpToRel(<, Nat))
  BY NatLessThanWellFounded, WFMin, Zenon
<1>2. ASSUME NEW q \in S PROVE m <= q
  <2>1. q \in Nat /\ m \in Nat
    OBVIOUS
  <2>2. ~ (<<q, m>> \in OpToRel(<, Nat))
    BY <1>1, Zenon
  <2>3. ~ (q < m)
    BY <2>1, <2>2, Zenon DEF OpToRel
  <2> QED BY <2>1, <2>3
<1> QED BY <1>2

\* Induction up to n, for a set instead of a predicate.
LEMMA UpTo ==
  ASSUME NEW n \in Nat, NEW P, 0 \in P, \A i \in 1..n : i - 1 \in P => i \in P
  PROVE  0..n \subseteq P
<1> DEFINE Bad == {i \in 0..n : i \notin P}
<1>1. SUFFICES ASSUME Bad # {} PROVE FALSE
  OBVIOUS
<1>2. Bad \in SUBSET Nat
  OBVIOUS
<1>3. PICK m \in Bad : \A q \in Bad : m <= q
  BY <1>1, <1>2, LeastExists
<1>4. m \in 1..n /\ m - 1 \in 0..n /\ m \notin P
  OBVIOUS
<1>5. m - 1 \notin Bad
  BY <1>3, <1>4
<1> QED BY <1>4, <1>5

\* Recursion up to n, for a function instead of an operator: F[i] makes the i-th value
\* of g from the one before.
StepsOn(n, S)        == [1..n -> [S -> S]]
Iterates(g, n, b, F) == g[0] = b /\ \A i \in 1..n : g[i] = F[i][g[i - 1]]

LEMMA Iterated ==
  ASSUME NEW n \in Nat, NEW S, NEW b \in S, NEW F \in StepsOn(n, S)
  PROVE  \E g \in [0..n -> S] : Iterates(g, n, b, F)
<1> DEFINE P == {m \in 0..n : \E g \in [0..n -> S] : Iterates(g, m, b, F)}
<1> USE DEF StepsOn
<1>1. 0 \in P
  <2>1. [i \in 0..n |-> b] \in [0..n -> S] /\ Iterates([i \in 0..n |-> b], 0, b, F)
    BY DEF Iterates
  <2>2. 0 \in 0..n
    OBVIOUS
  <2> QED BY <2>1, <2>2
<1>2. ASSUME NEW m \in 1..n, m - 1 \in P PROVE m \in P
  <2>1. PICK g \in [0..n -> S] : Iterates(g, m - 1, b, F)
    BY <1>2
  <2> DEFINE h == [g EXCEPT ![m] = F[m][g[m - 1]]]
  <2>2. m - 1 \in 0..n /\ g[m - 1] \in S /\ F[m] \in [S -> S] /\ F[m][g[m - 1]] \in S
    OBVIOUS
  <2>3. h \in [0..n -> S] /\ h[m] = F[m][g[m - 1]] /\ \A i \in 0..n : i # m => h[i] = g[i]
    BY <2>2
  <2> HIDE DEF h
  <2>4. h[0] = b
    BY <2>1, <2>3 DEF Iterates
  <2>5. ASSUME NEW i \in 1..m PROVE h[i] = F[i][h[i - 1]]
    <3>1. i - 1 \in 0..n /\ h[i - 1] = g[i - 1]
      BY <2>3
    <3>2. CASE i = m
      BY <2>3, <3>1, <3>2
    <3>3. CASE i # m
      <4>1. i \in 1..(m - 1)
        BY <3>3
      <4> QED BY <2>1, <2>3, <3>1, <3>3, <4>1 DEF Iterates
    <3> QED BY <3>2, <3>3
  <2> QED BY <2>3, <2>4, <2>5 DEF Iterates
<1> HIDE DEF P
<1>3. 0..n \subseteq P
  BY <1>1, <1>2, UpTo
<1>4. n \in P
  BY <1>3
<1> QED BY <1>4 DEF P

-----------------------------------------------------------------------------
(* Texts stay texts.                                                       *)

\* FlattenSeq puts one text behind the other.
LEMMA Flattened ==
  ASSUME NEW S, NEW ss \in Seq(Seq(S)), ss # <<>>
  PROVE  \E f \in [1..Len(ss) -> Seq(S)] :
           /\ f[1] = ss[1]
           /\ \A i \in 2..Len(ss) : f[i] = f[i - 1] \o ss[i]
           /\ FlattenSeq(ss) = f[Len(ss)]
<1> DEFINE n == Len(ss)
           T == Seq(S)
           F == [i \in 1..n |-> [t \in T |-> IF i = 1 THEN ss[1] ELSE t \o ss[i]]]
           h(g) == [i \in 1..n |-> g[i]]
           flatten[i \in 1..n] == IF i = 1 THEN ss[i] ELSE flatten[i - 1] \o ss[i]
<1>1. n \in Nat /\ 1 \in 1..n /\ n \in 1..n /\ \A i \in 1..n : ss[i] \in T
  OBVIOUS
<1>2. \A t, u \in T : t \o u \in T
  OBVIOUS
<1>3. FlattenSeq(ss) = flatten[n]
  BY <1>1 DEF FlattenSeq
<1>4. (\E f : f = [i \in 1..n |-> IF i = 1 THEN ss[i] ELSE f[i - 1] \o ss[i]])
      => flatten = [i \in 1..n |-> IF i = 1 THEN ss[i] ELSE flatten[i - 1] \o ss[i]]
  OBVIOUS
<1> HIDE DEF flatten, n, T
<1>5. F \in StepsOn(n, T)
  BY <1>1, <1>2 DEF StepsOn
<1>6. \A i \in 1..n, t \in T : F[i][t] = IF i = 1 THEN ss[1] ELSE t \o ss[i]
  OBVIOUS
<1> HIDE DEF F
<1>7. PICK g \in [0..n -> T] : g[0] = ss[1] /\ \A i \in 1..n : g[i] = F[i][g[i - 1]]
  <2>1. n \in Nat /\ ss[1] \in T
    BY <1>1
  <2>2. \E g \in [0..n -> T] : Iterates(g, n, ss[1], F)
    BY <2>1, <1>5, Iterated
  <2> QED BY <2>2 DEF Iterates
<1>8. h(g) = [i \in 1..n |-> IF i = 1 THEN ss[i] ELSE h(g)[i - 1] \o ss[i]]
  <2>1. ASSUME NEW i \in 1..n
        PROVE  g[i] = IF i = 1 THEN ss[i] ELSE [j \in 1..n |-> g[j]][i - 1] \o ss[i]
    <3>1. i - 1 \in 0..n
      BY <1>1
    <3>2. g[i - 1] \in T
      BY <1>7, <3>1
    <3>3. g[i] = IF i = 1 THEN ss[1] ELSE g[i - 1] \o ss[i]
      BY <1>6, <1>7, <3>2
    <3>4. i # 1 => i - 1 \in 1..n
      BY <1>1
    <3> QED BY <3>3, <3>4
  <2> QED BY <2>1
<1>9. flatten = [i \in 1..n |-> IF i = 1 THEN ss[i] ELSE flatten[i - 1] \o ss[i]]
  BY <1>4, <1>8
<1>10. \A i \in 1..n : flatten[i] = IF i = 1 THEN ss[i] ELSE flatten[i - 1] \o ss[i]
  BY <1>9
<1> DEFINE P == {i \in 0..n : i \in 1..n => flatten[i] \in T}
<1>11. 0 \in P
  BY <1>1
<1>12. ASSUME NEW i \in 1..n, i - 1 \in P PROVE i \in P
  <2>1. i # 1 => i - 1 \in 1..n
    BY <1>1
  <2>2. flatten[i] \in T
    BY <1>1, <1>2, <1>10, <1>12, <2>1
  <2> QED BY <1>1, <2>2
<1> HIDE DEF P
<1>13. 0..n \subseteq P
  BY <1>1, <1>11, <1>12, UpTo
<1>14. flatten \in [1..n -> T]
  <2>1. ASSUME NEW i \in 1..n PROVE flatten[i] \in T
    <3>1. i \in 0..n
      BY <1>1
    <3> QED BY <1>13, <3>1 DEF P
  <2>2. \E e : flatten = [i \in 1..n |-> e[i]]
    <3>1. flatten = [i \in 1..n |-> [j \in 1..n |-> IF j = 1 THEN ss[j] ELSE flatten[j - 1] \o ss[j]][i]]
      BY <1>9
    <3> QED BY <3>1
  <2> QED BY <2>1, <2>2
<1>15. \A i \in 2..n : i \in 1..n /\ i # 1
  BY <1>1
<1> QED BY <1>1, <1>3, <1>10, <1>14, <1>15 DEF n, T

LEMMA FlattenedText ==
  ASSUME NEW S, NEW ss \in Seq(Seq(S))
  PROVE  FlattenSeq(ss) \in Seq(S)
<1>1. CASE ss = <<>>
  BY <1>1 DEF FlattenSeq
<1>2. CASE ss # <<>>
  <2>1. PICK f \in [1..Len(ss) -> Seq(S)] : FlattenSeq(ss) = f[Len(ss)]
    BY <1>2, Flattened
  <2>2. Len(ss) \in 1..Len(ss)
    BY <1>2
  <2> QED BY <2>1, <2>2
<1> QED BY <1>1, <1>2

LEMMA FunctionText ==
  ASSUME NEW S, NEW n \in Nat, NEW ss \in [1..n -> Seq(S)]
  PROVE  ss \in Seq(Seq(S)) /\ Len(ss) = n
OBVIOUS

LEMMA FlattenedFunction ==
  ASSUME NEW S, NEW n \in Nat, NEW ss \in [1..n -> Seq(S)]
  PROVE  FlattenSeq(ss) \in Seq(S)
<1>1. ss \in Seq(Seq(S))
  BY FunctionText
<1> QED BY <1>1, FlattenedText

LEMMA Unfolds ==
  ASSUME NEW n \in Nat, NEW S, NEW b, NEW F, NEW g \in [0..n -> S], Iterates(g, n, b, F)
  PROVE  g = [i \in 0..n |-> IF i = 0 THEN b ELSE F[i][g[i - 1]]]
<1>1. ASSUME NEW i \in 0..n PROVE g[i] = IF i = 0 THEN b ELSE F[i][g[i - 1]]
  <2>1. i # 0 => i \in 1..n
    OBVIOUS
  <2> QED BY <2>1 DEF Iterates
<1> QED BY <1>1

\* The tokens of the texts.
Tokens == Plain \cup Letters

LEMMA Kinds ==
  /\ Typed \subseteq Tokens /\ Seq(Typed) \subseteq Texts
  /\ Texts = Seq(Tokens) /\ Secrets \subseteq Tokens /\ Letters \subseteq Tokens
  /\ {Quote, Escape, Marker, Other} \subseteq Tokens
  /\ SecretVals \subseteq Texts
  /\ Marker \notin Letters /\ Other \notin Letters
<1>1. {Quote, Escape, Marker, Other} \subseteq Plain /\ Secrets \subseteq Plain /\ Typed \subseteq Plain
  BY DEF Plain, Typed
<1>2. SecretVals \subseteq Seq(Letters) /\ Letters \cap Plain = {}
  BY TextAssumption
<1>3. ASSUME NEW v \in SecretVals PROVE v \in Seq(Tokens)
  BY <1>2 DEF Tokens
<1>4. ASSUME NEW v \in Seq(Typed) PROVE v \in Seq(Tokens)
  BY <1>1 DEF Tokens
<1> QED BY <1>1, <1>2, <1>3, <1>4 DEF Texts, Tokens

LEMMA QuoteText ==
  ASSUME NEW v \in Texts
  PROVE  quote(v) \in Texts
<1> DEFINE ss == [i \in DOMAIN v |-> IF v[i] = Quote THEN <<Escape>> ELSE <<v[i]>>]
<1>1. v \in Seq(Tokens) /\ Quote \in Tokens /\ Escape \in Tokens /\ Texts = Seq(Tokens)
  BY Kinds
<1>2. Len(v) \in Nat /\ DOMAIN v = 1..Len(v) /\ \A i \in 1..Len(v) : v[i] \in Tokens
  BY <1>1
<1>3. ss \in [1..Len(v) -> Seq(Tokens)]
  BY <1>1, <1>2
<1>4. FlattenSeq(ss) \in Seq(Tokens)
  BY <1>2, <1>3, FlattenedFunction
<1>5. quote(v) \in {v, <<Quote>> \o FlattenSeq(ss) \o <<Quote>>}
  BY DEF quote, Expand
<1> HIDE DEF ss
<1>6. <<Quote>> \in Seq(Tokens)
  BY <1>1
<1>7. <<Quote>> \o FlattenSeq(ss) \o <<Quote>> \in Seq(Tokens)
  BY <1>4, <1>6
<1> QED BY <1>1, <1>5, <1>7

LEMMA ValueText ==
  ASSUME TextTypeOK, NEW p \in Params, Specified(p), Value(p) # Undefined
  PROVE  Value(p) \in Seq(Typed) /\ Value(p) \in Texts
<1>1. CASE args[p] # Undefined
  BY <1>1, TextAssumption, Kinds DEF TextTypeOK, Value
<1>2. CASE args[p] = Undefined
  BY <1>2, TextAssumption, Kinds DEF TextTypeOK, Value, ParamSpec, Specified
<1> QED BY <1>1, <1>2

\* x lists the references of the text's first i tokens.
Lists(x, i) == \A j \in 1..i : text[j] \in Secrets => \E k \in DOMAIN x : x[k] = text[j]

LEMMA AppendLists ==
  ASSUME NEW x \in Seq(Secrets), NEW i \in Nat \ {0}, text[i] \in Secrets, Lists(x, i - 1)
  PROVE  Lists(Append(x, text[i]), i)
<1> DEFINE y == Append(x, text[i])
<1>1. /\ DOMAIN x = 1..Len(x) /\ DOMAIN y = 1..(Len(x) + 1) /\ Len(x) \in Nat
      /\ \A k \in 1..Len(x) : y[k] = x[k]
      /\ y[Len(x) + 1] = text[i]
  BY AppendProperties
<1> HIDE DEF y
<1>2. ASSUME NEW j \in 1..i, text[j] \in Secrets PROVE \E k \in DOMAIN y : y[k] = text[j]
  <2>1. CASE j = i
    <3>1. Len(x) + 1 \in DOMAIN y
      BY <1>1
    <3> QED BY <1>1, <2>1, <3>1
  <2>2. CASE j # i
    <3>1. j \in 1..(i - 1)
      BY <2>2
    <3>2. PICK k \in DOMAIN x : x[k] = text[j]
      BY <1>2, <3>1 DEF Lists
    <3> QED BY <1>1, <3>2
  <2> QED BY <2>1, <2>2
<1> QED BY <1>2 DEF y, Lists

LEMMA ReferencesListed ==
  ASSUME text \in Texts
  PROVE  /\ References \in Seq(Secrets)
         /\ \A j \in 1..Len(text) : text[j] \in Secrets =>
              \E k \in DOMAIN References : References[k] = text[j]
<1> DEFINE n == Len(text)
           T == Seq(Secrets)
           F == [i \in 1..n |-> [x \in T |-> IF text[i] \in Secrets THEN Append(x, text[i]) ELSE x]]
           upto[i \in 0..n] ==
             IF i = 0 THEN <<>>
             ELSE IF text[i] \in Secrets THEN Append(upto[i - 1], text[i]) ELSE upto[i - 1]
<1>1. n \in Nat /\ <<>> \in T /\ \A x \in T, s \in Secrets : Append(x, s) \in T
  BY DEF Texts
<1>2. References = upto[n]
  BY DEF References
<1>3. (\E f : f = [i \in 0..n |->
                     IF i = 0 THEN <<>>
                     ELSE IF text[i] \in Secrets THEN Append(f[i - 1], text[i]) ELSE f[i - 1]])
      => upto = [i \in 0..n |->
                   IF i = 0 THEN <<>>
                   ELSE IF text[i] \in Secrets THEN Append(upto[i - 1], text[i]) ELSE upto[i - 1]]
  OBVIOUS
<1> HIDE DEF upto, T, n
<1>5. F \in StepsOn(n, T)
  BY <1>1 DEF StepsOn
<1>6. \A i \in 1..n, x \in T : F[i][x] = IF text[i] \in Secrets THEN Append(x, text[i]) ELSE x
  OBVIOUS
<1> HIDE DEF F
<1>7. PICK g \in [0..n -> T] : Iterates(g, n, <<>>, F)
  BY <1>1, <1>5, Iterated
<1>8. g = [i \in 0..n |-> IF i = 0 THEN <<>> ELSE F[i][g[i - 1]]]
  BY <1>1, <1>7, Unfolds
<1>9. g = [i \in 0..n |->
             IF i = 0 THEN <<>>
             ELSE IF text[i] \in Secrets THEN Append(g[i - 1], text[i]) ELSE g[i - 1]]
  <2>1. ASSUME NEW i \in 0..n, i # 0
        PROVE  F[i][g[i - 1]] = IF text[i] \in Secrets THEN Append(g[i - 1], text[i]) ELSE g[i - 1]
    <3>1. i \in 1..n /\ i - 1 \in 0..n
      BY <1>1, <2>1
    <3>2. g[i - 1] \in T
      BY <3>1
    <3> QED BY <1>6, <3>1, <3>2
  <2> QED BY <1>8, <2>1
<1>11. \A i \in 0..n :
         upto[i] = IF i = 0 THEN <<>>
                   ELSE IF text[i] \in Secrets THEN Append(upto[i - 1], text[i]) ELSE upto[i - 1]
  <2>1. upto = [i \in 0..n |->
                   IF i = 0 THEN <<>>
                   ELSE IF text[i] \in Secrets THEN Append(upto[i - 1], text[i]) ELSE upto[i - 1]]
    BY <1>3, <1>9
  <2> QED BY <2>1
<1> DEFINE P == {i \in 0..n : upto[i] \in T /\ Lists(upto[i], i)}
<1>12. 0 \in P
  BY <1>1, <1>11 DEF Lists
<1>13. ASSUME NEW i \in 1..n, i - 1 \in P PROVE i \in P
  <2>1. i \in 0..n /\ i # 0 /\ upto[i - 1] \in T /\ Lists(upto[i - 1], i - 1)
    BY <1>13
  <2>2. upto[i] = IF text[i] \in Secrets THEN Append(upto[i - 1], text[i]) ELSE upto[i - 1]
    BY <1>11, <2>1
  <2>3. upto[i] \in T
    BY <1>1, <2>1, <2>2
  <2>4. CASE text[i] \notin Secrets
    <3>1. \A j \in 1..i : text[j] \in Secrets => j \in 1..(i - 1)
      BY <2>4
    <3> QED BY <2>1, <2>2, <2>3, <2>4, <3>1 DEF Lists
  <2>5. CASE text[i] \in Secrets
    <3>1. upto[i - 1] \in Seq(Secrets) /\ i \in Nat \ {0}
      BY <2>1 DEF T
    <3>4. Lists(Append(upto[i - 1], text[i]), i)
      BY <2>1, <2>5, <3>1, AppendLists
    <3> QED BY <2>1, <2>2, <2>3, <2>5, <3>4
  <2> QED BY <2>4, <2>5
<1> HIDE DEF P
<1>14. 0..n \subseteq P
  BY <1>1, <1>12, <1>13, UpTo
<1>15. n \in P
  BY <1>1, <1>14
<1> QED BY <1>2, <1>15 DEF P, T, n, Lists

-----------------------------------------------------------------------------
(* Texts made of values and other tokens, one piece before the other, up   *)
(* to an end.                                                              *)

Pieces(V)       == V \cup {<<t>> : t \in Tokens \ Letters}
Closed(M, V, T) == T \subseteq M /\ \A p \in Pieces(V), t \in M : p \o t \in M
Made(V, T)      == {s \in Texts : \A M \in SUBSET Texts : Closed(M, V, T) => s \in M}

\* The end of a text that was not cut.
NoEnd == {<<>>}

LEMMA PieceText ==
  ASSUME NEW V \in SUBSET SecretVals
  PROVE  Pieces(V) \subseteq Texts
<1>1. Texts = Seq(Tokens) /\ V \subseteq Texts
  BY Kinds
<1>2. \A t \in Tokens : <<t>> \in Seq(Tokens)
  OBVIOUS
<1> QED BY <1>1, <1>2 DEF Pieces

LEMMA Joined ==
  ASSUME NEW s \in Texts, NEW t \in Texts
  PROVE  s \o t \in Texts
BY DEF Texts

LEMMA JoinedThree ==
  ASSUME NEW s \in Texts, NEW t \in Texts, NEW u \in Texts
  PROVE  (s \o t) \o u = s \o (t \o u)
BY ConcatAssociative DEF Texts

LEMMA EmptyText ==
  /\ <<>> \in Texts
  /\ \A s \in Texts : <<>> \o s = s /\ s \o <<>> = s
BY ConcatEmptySeq DEF Texts

LEMMA MadeLeast ==
  ASSUME NEW V, NEW T, NEW M \in SUBSET Texts, Closed(M, V, T)
  PROVE  Made(V, T) \subseteq M
BY DEF Made

LEMMA MadeClosed ==
  ASSUME NEW V \in SUBSET SecretVals, NEW T \in SUBSET Texts
  PROVE  Made(V, T) \subseteq Texts /\ Closed(Made(V, T), V, T)
<1>1. T \subseteq Made(V, T)
  BY DEF Made, Closed
<1>2. ASSUME NEW p \in Pieces(V), NEW t \in Made(V, T) PROVE p \o t \in Made(V, T)
  <2>1. p \in Texts /\ t \in Texts
    BY PieceText DEF Made
  <2>2. p \o t \in Texts
    BY <2>1, Joined
  <2>3. ASSUME NEW M \in SUBSET Texts, Closed(M, V, T) PROVE p \o t \in M
    BY <2>3 DEF Made, Closed
  <2> QED BY <2>2, <2>3 DEF Made
<1> QED BY <1>1, <1>2 DEF Made, Closed

LEMMA MadeOpens ==
  ASSUME NEW V \in SUBSET SecretVals, NEW T \in SUBSET Texts, NEW s \in Made(V, T), s \notin T
  PROVE  \E p \in Pieces(V), t \in Made(V, T) : s = p \o t
<1> DEFINE M == {u \in Made(V, T) : u \notin T => \E p \in Pieces(V), t \in Made(V, T) : u = p \o t}
<1>1. M \in SUBSET Texts
  BY MadeClosed
<1>2. Closed(M, V, T)
  BY MadeClosed DEF Closed
<1>3. s \in M
  BY <1>1, <1>2, MadeLeast
<1> QED BY <1>3

LEMMA NothingMade ==
  ASSUME NEW V \in SUBSET SecretVals
  PROVE  NoEnd \in SUBSET Texts /\ <<>> \in Made(V, NoEnd)
<1>1. NoEnd \in SUBSET Texts
  BY EmptyText DEF NoEnd
<1> QED BY <1>1, MadeClosed DEF Closed, NoEnd

LEMMA MadeBehind ==
  ASSUME NEW V \in SUBSET SecretVals, NEW p \in Pieces(V), NEW s \in Made(V, NoEnd)
  PROVE  s \o p \in Made(V, NoEnd)
<1> DEFINE M == {u \in Texts : u \o p \in Made(V, NoEnd)}
<1>0. p \in Texts /\ Pieces(V) \subseteq Texts /\ NoEnd \in SUBSET Texts
  BY PieceText, NothingMade
<1>1. <<>> \in M
  <2>1. <<>> \in Made(V, NoEnd) /\ p \o <<>> \in Made(V, NoEnd)
    BY <1>0, MadeClosed, NothingMade DEF Closed
  <2> QED BY <1>0, <2>1, EmptyText
<1>2. ASSUME NEW q \in Pieces(V), NEW t \in M PROVE q \o t \in M
  <2>1. q \in Texts /\ t \in Texts /\ t \o p \in Made(V, NoEnd)
    BY <1>0
  <2>2. q \o (t \o p) \in Made(V, NoEnd)
    BY <1>0, <2>1, MadeClosed DEF Closed
  <2>3. (q \o t) \o p = q \o (t \o p)
    BY <1>0, <2>1, JoinedThree
  <2>4. q \o t \in Texts
    BY <2>1, Joined
  <2> QED BY <2>2, <2>3, <2>4
<1> HIDE DEF M
<1>3. Closed(M, V, NoEnd)
  BY <1>1, <1>2 DEF Closed, NoEnd
<1>4. s \in M
  BY <1>3, MadeLeast DEF M
<1> QED BY <1>4 DEF M

-----------------------------------------------------------------------------
(* Replacing one value.                                                    *)

Here(s, v, i)     == i + Len(v) - 1 <= Len(s) /\ SubSeq(s, i, i + Len(v) - 1) = v
Scans(s, v, f, i) == f[i] = IF i > Len(s) THEN <<>>
                            ELSE IF Here(s, v, i) THEN <<Marker>> \o f[i + Len(v)]
                            ELSE <<s[i]>> \o f[i + 1]
Tables(s)         == [1..(Len(s) + 1) -> Texts]

LEMMA TextSize ==
  ASSUME NEW s \in Texts
  PROVE  Len(s) \in Nat /\ s \in Seq(Tokens) /\ \A i \in 1..Len(s) : s[i] \in Tokens /\ <<s[i]>> \in Texts
<1>1. s \in Seq(Tokens) /\ Texts = Seq(Tokens)
  BY Kinds
<1> QED BY <1>1

LEMMA ValueSize ==
  ASSUME NEW v \in SecretVals
  PROVE  v \in Texts /\ Len(v) \in Nat \ {0} /\ \A k \in 1..Len(v) : v[k] \in Letters
<1>1. v \in Seq(Letters) /\ v # <<>>
  BY TextAssumption
<1>2. v \in Texts
  BY Kinds
<1> QED BY <1>1, <1>2

LEMMA MarkerText == <<Marker>> \in Texts
<1>1. Marker \in Tokens /\ Texts = Seq(Tokens)
  BY Kinds
<1> QED BY <1>1

\* What a scan reads at i it finds further on.
LEMMA ScanStep ==
  ASSUME NEW s \in Texts, NEW v \in SecretVals, NEW i \in 1..(Len(s) + 1), NEW f, NEW g,
         \A j \in (i + 1)..(Len(s) + 1) : f[j] \in Texts /\ g[j] = f[j],
         Scans(s, v, f, i)
  PROVE  f[i] \in Texts /\ (g[i] = f[i] => Scans(s, v, g, i))
<1>1. Len(s) \in Nat /\ Len(v) \in Nat \ {0}
  BY TextSize, ValueSize
<1>2. CASE i > Len(s)
  <2>1. f[i] = <<>>
    BY <1>2 DEF Scans
  <2>2. g[i] = f[i] => Scans(s, v, g, i)
    BY <1>2, <2>1 DEF Scans
  <2> QED BY <2>1, <2>2, EmptyText
<1>3. CASE ~ (i > Len(s)) /\ Here(s, v, i)
  <2>1. i + Len(v) \in (i + 1)..(Len(s) + 1)
    BY <1>1, <1>3 DEF Here
  <2>2. f[i] = <<Marker>> \o f[i + Len(v)]
    BY <1>3 DEF Scans
  <2>3. f[i] \in Texts
    BY <2>1, <2>2, MarkerText, Joined
  <2>4. g[i + Len(v)] = f[i + Len(v)]
    BY <2>1
  <2>5. g[i] = f[i] => Scans(s, v, g, i)
    BY <1>3, <2>2, <2>4 DEF Scans
  <2> QED BY <2>3, <2>5
<1>4. CASE ~ (i > Len(s)) /\ ~ Here(s, v, i)
  <2>1. i + 1 \in (i + 1)..(Len(s) + 1) /\ i \in 1..Len(s)
    BY <1>1, <1>4
  <2>2. f[i] = <<s[i]>> \o f[i + 1]
    BY <1>4 DEF Scans
  <2>3. f[i] \in Texts
    BY <2>1, <2>2, TextSize, Joined
  <2>4. g[i + 1] = f[i + 1]
    BY <2>1
  <2>5. g[i] = f[i] => Scans(s, v, g, i)
    BY <1>4, <2>2, <2>4 DEF Scans
  <2> QED BY <2>3, <2>5
<1> QED BY <1>2, <1>3, <1>4

LEMMA ScanExists ==
  ASSUME NEW s \in Texts, NEW v \in SecretVals
  PROVE  \E f \in Tables(s) : \A i \in 1..(Len(s) + 1) : Scans(s, v, f, i)
<1> DEFINE n == Len(s)
           Good(f, m) == \A i \in (n + 1 - m)..(n + 1) : Scans(s, v, f, i)
           P == {m \in 0..n : \E f \in Tables(s) : Good(f, m)}
<1>1. n \in Nat /\ Len(v) \in Nat \ {0}
  BY TextSize, ValueSize
<1>2. 0 \in P
  <2> DEFINE f == [i \in 1..(n + 1) |-> <<>>]
  <2>1. f \in Tables(s) /\ f[n + 1] = <<>>
    BY <1>1, EmptyText DEF Tables
  <2> HIDE DEF f
  <2>2. \A i \in (n + 1 - 0)..(n + 1) : i = n + 1 /\ i > Len(s)
    BY <1>1
  <2>3. Good(f, 0)
    BY <2>1, <2>2 DEF Scans
  <2>4. 0 \in 0..n
    BY <1>1
  <2> QED BY <2>1, <2>3, <2>4
<1>3. ASSUME NEW m \in 1..n, m - 1 \in P PROVE m \in P
  <2>1. PICK f \in Tables(s) : Good(f, m - 1)
    BY <1>3
  <2> DEFINE c == n + 1 - m
             e == IF Here(s, v, c) THEN <<Marker>> \o f[c + Len(v)] ELSE <<s[c]>> \o f[c + 1]
             h == [f EXCEPT ![c] = e]
  <2>2. c \in 1..(n + 1) /\ c \in 1..n /\ ~ (c > Len(s)) /\ \A j \in (c + 1)..(n + 1) : j \in 1..(n + 1) /\ j # c
    BY <1>1
  <2> HIDE DEF c, e
  <2>3. e \in Texts
    <3>1. CASE Here(s, v, c)
      <4>1. c + Len(v) \in 1..(n + 1)
        BY <1>1, <2>2, <3>1 DEF Here
      <4>2. f[c + Len(v)] \in Texts
        BY <4>1 DEF Tables
      <4> QED BY <3>1, <4>2, MarkerText, Joined DEF e
    <3>2. CASE ~ Here(s, v, c)
      <4>1. c + 1 \in 1..(n + 1)
        BY <1>1, <2>2
      <4>2. f[c + 1] \in Texts
        BY <4>1 DEF Tables
      <4> QED BY <2>2, <3>2, <4>2, TextSize, Joined DEF e
    <3> QED BY <3>1, <3>2
  <2>4. h \in Tables(s) /\ h[c] = e /\ \A j \in (c + 1)..(n + 1) : f[j] \in Texts /\ h[j] = f[j]
    BY <2>2, <2>3 DEF Tables
  <2> HIDE DEF h
  <2>5. ASSUME NEW i \in (n + 1 - m)..(n + 1) PROVE Scans(s, v, h, i)
    <3>1. CASE i = c
      <4>1. CASE Here(s, v, c)
        <5>1. c + Len(v) \in (c + 1)..(n + 1)
          BY <1>1, <2>2, <4>1 DEF Here
        <5> QED BY <2>2, <2>4, <3>1, <4>1, <5>1 DEF Scans, e
      <4>2. CASE ~ Here(s, v, c)
        <5>1. c + 1 \in (c + 1)..(n + 1)
          BY <1>1, <2>2
        <5> QED BY <2>2, <2>4, <3>1, <4>2, <5>1 DEF Scans, e
      <4> QED BY <4>1, <4>2
    <3>2. CASE i # c
      <4>1. i \in (c + 1)..(n + 1) /\ i \in 1..(n + 1) /\ i \in (n + 1 - (m - 1))..(n + 1)
        BY <1>1, <2>2, <3>2 DEF c
      <4>2. \A j \in (i + 1)..(n + 1) : j \in (c + 1)..(n + 1)
        BY <1>1, <2>2, <4>1
      <4>3. \A j \in (i + 1)..(n + 1) : f[j] \in Texts /\ h[j] = f[j]
        BY <2>4, <4>2
      <4>4. Scans(s, v, f, i)
        BY <2>1, <4>1
      <4>5. h[i] = f[i]
        BY <2>4, <4>1
      <4> HIDE DEF Good
      <4> QED BY <4>1, <4>3, <4>4, <4>5, ScanStep
    <3> QED BY <3>1, <3>2
  <2>6. m \in 0..n
    BY <1>1
  <2> QED BY <2>4, <2>5, <2>6
<1> HIDE DEF P
<1>4. 0..n \subseteq P
  BY <1>1, <1>2, <1>3, UpTo
<1>5. PICK f \in Tables(s) : Good(f, n)
  <2>1. n \in 0..n
    BY <1>1
  <2> QED BY <1>4, <2>1 DEF P
<1>6. \A i \in 1..(n + 1) : i \in (n + 1 - n)..(n + 1)
  BY <1>1
<1> QED BY <1>5, <1>6

\* The table of Replaced.
LEMMA ReplacedScan ==
  ASSUME NEW s \in Texts, NEW v \in SecretVals
  PROVE  \E f \in Tables(s) : f[1] = Replaced(s, v) /\ \A i \in 1..(Len(s) + 1) : Scans(s, v, f, i)
<1> DEFINE n == Len(s)
           from[i \in 1..(n + 1)] ==
             IF i > Len(s) THEN <<>>
             ELSE IF Here(s, v, i) THEN <<Marker>> \o from[i + Len(v)]
             ELSE <<s[i]>> \o from[i + 1]
<1>1. n \in Nat
  BY TextSize
<1>2. Replaced(s, v) = from[1]
  BY DEF Replaced, Here
<1>3. (\E f : f = [i \in 1..(n + 1) |->
                     IF i > Len(s) THEN <<>>
                     ELSE IF Here(s, v, i) THEN <<Marker>> \o f[i + Len(v)]
                     ELSE <<s[i]>> \o f[i + 1]])
      => from = [i \in 1..(n + 1) |->
                     IF i > Len(s) THEN <<>>
                     ELSE IF Here(s, v, i) THEN <<Marker>> \o from[i + Len(v)]
                     ELSE <<s[i]>> \o from[i + 1]]
  OBVIOUS
<1> HIDE DEF from
<1>4. PICK f \in Tables(s) : \A i \in 1..(n + 1) : Scans(s, v, f, i)
  BY ScanExists
<1>5. f = [i \in 1..(n + 1) |->
             IF i > Len(s) THEN <<>>
             ELSE IF Here(s, v, i) THEN <<Marker>> \o f[i + Len(v)]
             ELSE <<s[i]>> \o f[i + 1]]
  BY <1>4 DEF Scans, Tables
<1>6. from = [i \in 1..(n + 1) |->
                IF i > Len(s) THEN <<>>
                ELSE IF Here(s, v, i) THEN <<Marker>> \o from[i + Len(v)]
                ELSE <<s[i]>> \o from[i + 1]]
  BY <1>3, <1>5
<1>7. \A i \in 1..(n + 1) : Scans(s, v, from, i)
  BY <1>6 DEF Scans
<1>8. \E e : from = [i \in 1..(n + 1) |-> e[i]]
  <2> DEFINE e == [i \in 1..(n + 1) |->
                     IF i > Len(s) THEN <<>>
                     ELSE IF Here(s, v, i) THEN <<Marker>> \o from[i + Len(v)]
                     ELSE <<s[i]>> \o from[i + 1]]
  <2>1. e = [i \in 1..(n + 1) |-> e[i]]
    OBVIOUS
  <2>2. from = e
    BY <1>6
  <2> HIDE DEF e
  <2> QED BY <2>1, <2>2
<1> DEFINE P == {m \in 0..n : \A i \in (n + 1 - m)..(n + 1) : from[i] \in Texts}
<1>9. 0 \in P
  <2>1. n + 1 \in 1..(n + 1) /\ n + 1 > Len(s) /\ 0 \in 0..n /\ \A i \in (n + 1 - 0)..(n + 1) : i = n + 1
    BY <1>1
  <2>2. from[n + 1] = <<>>
    BY <1>7, <2>1 DEF Scans
  <2> QED BY <2>1, <2>2, EmptyText
<1>10. ASSUME NEW m \in 1..n, m - 1 \in P PROVE m \in P
  <2> DEFINE c == n + 1 - m
  <2>1. c \in 1..(n + 1) /\ m \in 0..n
    BY <1>1
  <2>2. \A j \in (c + 1)..(n + 1) : j \in (n + 1 - (m - 1))..(n + 1)
    BY <1>1
  <2>3. \A j \in (c + 1)..(n + 1) : from[j] \in Texts /\ from[j] = from[j]
    BY <1>10, <2>2
  <2>4. \A i \in (n + 1 - m)..(n + 1) : i = c \/ i \in (c + 1)..(n + 1)
    BY <1>1
  <2> HIDE DEF c, P
  <2>5. Scans(s, v, from, c)
    BY <1>7, <2>1
  <2>6. from[c] \in Texts
    BY <2>1, <2>3, <2>5, ScanStep
  <2> QED BY <2>1, <2>3, <2>4, <2>6 DEF P
<1> HIDE DEF P
<1>11. 0..n \subseteq P
  BY <1>1, <1>9, <1>10, UpTo
<1>12. ASSUME NEW i \in 1..(n + 1) PROVE from[i] \in Texts
  <2>1. n \in 0..n /\ i \in (n + 1 - n)..(n + 1)
    BY <1>1
  <2> QED BY <1>11, <2>1 DEF P
<1>13. from \in Tables(s)
  BY <1>8, <1>12 DEF Tables
<1> QED BY <1>2, <1>7, <1>13

\* s continues at i with u.
At(s, u, i) == i + Len(u) - 1 <= Len(s) /\ \A k \in 1..Len(u) : s[i + k - 1] = u[k]

LEMMA Elementwise ==
  ASSUME NEW s \in Texts, NEW i \in Nat \ {0}, NEW j \in Nat, j <= Len(s)
  PROVE  /\ SubSeq(s, i, j) \in Texts
         /\ Len(SubSeq(s, i, j)) = IF i <= j THEN j - i + 1 ELSE 0
         /\ \A k \in 1..(j - i + 1) : SubSeq(s, i, j)[k] = s[i + k - 1]
<1>1. Len(s) \in Nat /\ Texts = Seq(Tokens) /\ \A k \in 1..Len(s) : s[k] \in Tokens
  BY TextSize, Kinds
<1>2. \A k \in i..j : s[k] \in Tokens
  BY <1>1
<1>3. i \in Int /\ j \in Int
  OBVIOUS
<1> QED BY <1>1, <1>2, <1>3, SubSeqProperties

LEMMA HereMeans ==
  ASSUME NEW s \in Texts, NEW v \in SecretVals, NEW i \in Nat \ {0}
  PROVE  Here(s, v, i) <=> At(s, v, i)
<1>1. v \in Texts /\ Len(v) \in Nat \ {0} /\ Len(s) \in Nat /\ v \in Seq(Tokens) /\ Texts = Seq(Tokens)
  BY ValueSize, TextSize, Kinds
<1>2. CASE i + Len(v) - 1 <= Len(s)
  <2> DEFINE w == SubSeq(s, i, i + Len(v) - 1)
  <2>1. i + Len(v) - 1 \in Nat /\ (i + Len(v) - 1) - i + 1 = Len(v) /\ i <= i + Len(v) - 1
    BY <1>1
  <2>2. w \in Texts /\ Len(w) = Len(v) /\ \A k \in 1..Len(v) : w[k] = s[i + k - 1]
    BY <1>2, <2>1, Elementwise
  <2> HIDE DEF w
  <2>3. (\A k \in 1..Len(v) : w[k] = v[k]) => w = v
    BY <1>1, <2>2, SeqEqual
  <2> QED BY <1>2, <2>2, <2>3 DEF Here, At, w
<1>3. CASE ~ (i + Len(v) - 1 <= Len(s))
  BY <1>3 DEF Here, At
<1> QED BY <1>2, <1>3

\* Where two values do not overlap, neither begins inside the other.
LEMMA NoneInside ==
  ASSUME NEW s \in Texts, NEW u \in SecretVals, NEW v \in SecretVals, NEW i \in Nat \ {0},
         ~ Overlap(u, v), ~ Overlap(v, u), At(s, u, i),
         NEW k \in 0..(Len(u) - 1)
  PROVE  ~ Here(s, v, i + k)
<1>1. /\ u \in Texts /\ v \in Texts /\ Len(u) \in Nat \ {0} /\ Len(v) \in Nat \ {0} /\ Len(s) \in Nat
      /\ u \in Seq(Tokens) /\ v \in Seq(Tokens) /\ Texts = Seq(Tokens)
  BY ValueSize, TextSize, Kinds
<1>2. SUFFICES ASSUME At(s, v, i + k) PROVE FALSE
  <2>1. i + k \in Nat \ {0}
    BY <1>1
  <2> QED BY <1>2, <2>1, HereMeans
<1> DEFINE n == Len(u) - k
<1>3. n \in 1..Len(u) /\ k + 1 \in 1..Len(u) /\ n \in Nat
  BY <1>1
<1>4. \A j \in 1..Len(v) : j <= n => v[j] = u[k + j]
  <2>1. ASSUME NEW j \in 1..Len(v), j <= n PROVE v[j] = u[k + j]
    <3>1. k + j \in 1..Len(u) /\ i + (k + j) - 1 = (i + k) + j - 1
      BY <1>1, <2>1
    <3>2. s[i + (k + j) - 1] = u[k + j]
      BY <3>1 DEF At
    <3>3. s[(i + k) + j - 1] = v[j]
      BY <1>2 DEF At
    <3> QED BY <3>1, <3>2, <3>3
  <2> QED BY <2>1
<1>5. CASE Len(v) <= n
  <2> DEFINE w == SubSeq(u, k + 1, k + Len(v))
  <2>1. k + Len(v) \in 1..Len(u) /\ k + 1 <= k + Len(v) /\ k + 1 \in Nat \ {0} /\ k + Len(v) \in Nat /\ (k + Len(v)) - (k + 1) + 1 = Len(v)
    BY <1>1, <1>3, <1>5
  <2>2. w \in Texts /\ Len(w) = Len(v) /\ \A j \in 1..Len(v) : w[j] = u[(k + 1) + j - 1]
    BY <1>1, <2>1, Elementwise
  <2>3. \A j \in 1..Len(v) : j <= n /\ (k + 1) + j - 1 = k + j
    BY <1>1, <1>3, <1>5
  <2>4. \A j \in 1..Len(v) : w[j] = v[j]
    BY <1>4, <2>2, <2>3
  <2> HIDE DEF w
  <2>5. w = v
    BY <1>1, <2>2, <2>4, SeqEqual
  <2>6. Overlap(v, u)
    BY <1>3, <2>1, <2>5 DEF Overlap, w
  <2> QED BY <2>6
<1>6. CASE ~ (Len(v) <= n)
  <2> DEFINE w == SubSeq(v, 1, n)
  <2>1. 1 \in Nat \ {0} /\ n <= Len(v) /\ 1 <= n /\ n - 1 + 1 = n /\ n \in 1..(Len(v) - 1)
    BY <1>1, <1>3, <1>6
  <2>2. w \in Texts /\ Len(w) = n /\ \A j \in 1..n : w[j] = v[1 + j - 1]
    BY <1>1, <1>3, <2>1, Elementwise
  <2>3. \A j \in 1..n : 1 + j - 1 = j /\ j \in 1..Len(v) /\ j <= n
    BY <1>1, <1>3, <2>1
  <2>4. \A j \in 1..n : w[j] = u[k + j]
    BY <1>4, <2>2, <2>3
  <2>5. CASE k = 0
    <3>1. n = Len(u) /\ \A j \in 1..n : k + j = j
      BY <1>1, <2>5
    <3>2. \A j \in 1..n : w[j] = u[j]
      BY <2>4, <3>1
    <3> HIDE DEF w, n
    <3>3. w = u
      BY <1>1, <2>2, <3>1, <3>2, SeqEqual
    <3>4. 1 \in 1..Len(v) /\ n \in 1..Len(v) /\ 1 <= n
      BY <1>1, <2>1
    <3>5. Overlap(u, v)
      BY <3>3, <3>4 DEF Overlap, w
    <3> QED BY <3>5
  <2>6. CASE k # 0
    <3> DEFINE x == SubSeq(u, Len(u) - n + 1, Len(u))
    <3>1. Len(u) - n + 1 = k + 1 /\ k + 1 \in Nat \ {0} /\ k + 1 <= Len(u) /\ Len(u) - (k + 1) + 1 = n /\ n < Len(u)
      BY <1>1, <1>3, <2>6
    <3>2. x \in Texts /\ Len(x) = n /\ \A j \in 1..n : x[j] = u[(k + 1) + j - 1]
      BY <1>1, <1>3, <3>1, Elementwise
    <3>3. \A j \in 1..n : (k + 1) + j - 1 = k + j
      BY <1>1, <1>3
    <3>4. \A j \in 1..n : w[j] = x[j]
      BY <2>4, <3>2, <3>3
    <3> HIDE DEF w, x
    <3>5. w = x
      BY <1>1, <2>2, <3>2, <3>4, SeqEqual
    <3> HIDE DEF n
    <3>6. Overlap(v, u)
      BY <2>1, <3>1, <3>5 DEF Overlap, w, x
    <3> QED BY <3>6
  <2> QED BY <2>5, <2>6
<1> QED BY <1>5, <1>6

\* A scan keeps a piece inside which the value does not begin.
LEMMA Uncut ==
  ASSUME NEW s \in Texts, NEW v \in SecretVals, NEW f \in Tables(s),
         \A i \in 1..(Len(s) + 1) : Scans(s, v, f, i),
         NEW u \in Texts, NEW i \in 1..(Len(s) + 1), At(s, u, i),
         \A k \in 0..(Len(u) - 1) : ~ Here(s, v, i + k)
  PROVE  f[i] = u \o f[i + Len(u)]
<1> DEFINE m == Len(u)
           P == {q \in 0..m : f[i + (m - q)] = SubSeq(u, m - q + 1, m) \o f[i + m]}
<1>1. m \in Nat /\ Len(s) \in Nat /\ i + m \in 1..(Len(s) + 1) /\ u \in Seq(Tokens)
  BY TextSize DEF At
<1>2. f[i + m] \in Texts
  BY <1>1 DEF Tables
<1>3. 0 \in P
  <2>1. SubSeq(u, m - 0 + 1, m) = <<>>
    <3>1. m - 0 + 1 \in Int /\ m \in Int /\ m < m - 0 + 1
      BY <1>1
    <3> QED BY <3>1, SubSeqEmpty
  <2>2. m - 0 = m /\ 0 \in 0..m
    BY <1>1
  <2> QED BY <1>2, <2>1, <2>2, EmptyText
<1>4. ASSUME NEW q \in 1..m, q - 1 \in P PROVE q \in P
  <2> DEFINE k == m - q
  <2>1. k \in 0..(m - 1) /\ m - (q - 1) = k + 1 /\ k + 1 \in 1..m /\ q \in 0..m
    BY <1>1
  <2>2. f[i + (k + 1)] = SubSeq(u, k + 1 + 1, m) \o f[i + m]
    BY <1>4, <2>1
  <2>3. i + k \in 1..(Len(s) + 1) /\ ~ (i + k > Len(s)) /\ i + k + 1 = i + (k + 1)
    BY <1>1, <2>1
  <2>4. f[i + k] = <<s[i + k]>> \o f[i + (k + 1)]
    BY <2>1, <2>3 DEF Scans
  <2>5. s[i + k] = u[k + 1] /\ i + (k + 1) - 1 = i + k
    <3>1. i + (k + 1) - 1 = i + k
      BY <1>1, <2>1
    <3> QED BY <2>1, <3>1 DEF At
  <2> HIDE DEF k, m
  <2>6. SubSeq(u, k + 1, m) = <<u[k + 1]>> \o SubSeq(u, k + 1 + 1, m)
    <3>1. k + 1 \in 1..Len(u) /\ m \in (k + 1)..Len(u)
      BY <1>1, <2>1 DEF m
    <3> QED BY <1>1, <3>1, SubSeqRecursiveFirst
  <2>7. <<u[k + 1]>> \in Texts /\ SubSeq(u, k + 1 + 1, m) \in Texts
    <3>1. k + 1 \in 1..Len(u) /\ k + 1 + 1 \in Nat \ {0} /\ m \in Nat /\ m <= Len(u)
      BY <1>1, <2>1 DEF m
    <3> QED BY <3>1, TextSize, Elementwise
  <2>8. (<<u[k + 1]>> \o SubSeq(u, k + 1 + 1, m)) \o f[i + m]
          = <<u[k + 1]>> \o (SubSeq(u, k + 1 + 1, m) \o f[i + m])
    BY <1>2, <2>7, JoinedThree
  <2>9. f[i + k] = SubSeq(u, k + 1, m) \o f[i + m]
    BY <2>2, <2>4, <2>5, <2>6, <2>8
  <2> QED BY <2>1, <2>9 DEF k
<1> HIDE DEF P
<1>5. 0..m \subseteq P
  BY <1>1, <1>3, <1>4, UpTo
<1>6. m \in P /\ m - m = 0 /\ i + 0 = i /\ 0 + 1 = 1
  BY <1>1, <1>5
<1>7. f[i] = SubSeq(u, 1, m) \o f[i + m]
  BY <1>6 DEF P
<1>8. SubSeq(u, 1, m) = u
  BY <1>1, SubSeqFull
<1> QED BY <1>7, <1>8

\* What is left of s from i on.
Rest(s, i)         == SubSeq(s, i, Len(s))
Splits(s, i, p, t) == Rest(s, i) = p \o t

LEMMA RestSplit ==
  ASSUME NEW s \in Texts, NEW i \in 1..(Len(s) + 1), NEW p \in Texts, NEW t \in Texts,
         Splits(s, i, p, t)
  PROVE  At(s, p, i) /\ i + Len(p) \in i..(Len(s) + 1) /\ Rest(s, i + Len(p)) = t
<1>1. /\ Len(s) \in Nat /\ Len(p) \in Nat /\ Len(t) \in Nat
      /\ p \in Seq(Tokens) /\ t \in Seq(Tokens) /\ Texts = Seq(Tokens)
  BY TextSize, Kinds
<1> DEFINE r == Rest(s, i)
           j == i + Len(p)
<1>2. /\ Len(r) = Len(s) + 1 - i
      /\ \A k \in 1..(Len(s) + 1 - i) : r[k] = s[i + k - 1]
  <2>1. i \in Nat \ {0} /\ Len(s) <= Len(s)
    BY <1>1
  <2>2. /\ Len(r) = IF i <= Len(s) THEN Len(s) - i + 1 ELSE 0
        /\ \A k \in 1..(Len(s) - i + 1) : r[k] = s[i + k - 1]
    BY <1>1, <2>1, Elementwise DEF Rest
  <2>3. Len(s) - i + 1 = Len(s) + 1 - i /\ (~ (i <= Len(s)) => Len(s) + 1 - i = 0)
    BY <1>1
  <2> HIDE DEF r
  <2> QED BY <2>2, <2>3
<1>3. /\ Len(r) = Len(p) + Len(t)
      /\ \A k \in 1..(Len(p) + Len(t)) : r[k] = IF k <= Len(p) THEN p[k] ELSE t[k - Len(p)]
  BY <1>1, ConcatProperties DEF Splits
<1> HIDE DEF r
<1>4. Len(s) + 1 - i = Len(p) + Len(t) /\ j \in i..(Len(s) + 1) /\ j + Len(t) = Len(s) + 1
  <2>1. Len(s) + 1 - i = Len(p) + Len(t)
    BY <1>2, <1>3
  <2>2. \A a, b, c, e \in Nat : a + 1 - e = b + c => e + b >= e /\ e + b <= a + 1 /\ (e + b) + c = a + 1
    OBVIOUS
  <2>3. i \in Nat /\ j \in Nat
    BY <1>1
  <2>4. j >= i /\ j <= Len(s) + 1 /\ j + Len(t) = Len(s) + 1
    BY <1>1, <2>1, <2>2, <2>3
  <2> QED BY <1>1, <2>1, <2>3, <2>4
<1>5. At(s, p, i)
  <2>1. ASSUME NEW k \in 1..Len(p) PROVE s[i + k - 1] = p[k]
    <3>1. k \in 1..(Len(p) + Len(t)) /\ k <= Len(p)
      BY <1>1
    <3> QED BY <1>2, <1>3, <1>4, <3>1
  <2>2. i + Len(p) - 1 <= Len(s)
    BY <1>1, <1>4
  <2> QED BY <2>1, <2>2 DEF At
<1>6. Rest(s, j) = t
  <2>1. j \in Nat \ {0} /\ Len(s) <= Len(s) /\ Len(s) - j + 1 = Len(t) /\ (~ (j <= Len(s)) => Len(t) = 0)
    BY <1>1, <1>4
  <2> HIDE DEF j
  <2>2. /\ Rest(s, j) \in Texts
        /\ Len(Rest(s, j)) = Len(t)
        /\ \A k \in 1..Len(t) : Rest(s, j)[k] = s[j + k - 1]
    <3>1. /\ Rest(s, j) \in Texts
          /\ Len(Rest(s, j)) = IF j <= Len(s) THEN Len(s) - j + 1 ELSE 0
          /\ \A k \in 1..(Len(s) - j + 1) : Rest(s, j)[k] = s[j + k - 1]
      BY <1>1, <2>1, Elementwise DEF Rest
    <3> HIDE DEF Rest
    <3> QED BY <2>1, <3>1
  <2>3. ASSUME NEW k \in 1..Len(t) PROVE s[j + k - 1] = t[k]
    <3>1. Len(p) + k \in 1..(Len(p) + Len(t)) /\ ~ (Len(p) + k <= Len(p)) /\ (Len(p) + k) - Len(p) = k
      BY <1>1
    <3>2. i + (Len(p) + k) - 1 = j + k - 1
      BY <1>1 DEF j
    <3>3. r[Len(p) + k] = t[k]
      BY <1>3, <3>1
    <3>4. r[Len(p) + k] = s[i + (Len(p) + k) - 1]
      BY <1>2, <1>4, <3>1
    <3> QED BY <3>2, <3>3, <3>4
  <2> HIDE DEF Rest
  <2>4. \A k \in 1..Len(t) : Rest(s, j)[k] = t[k]
    BY <2>2, <2>3
  <2> QED BY <1>1, <2>2, <2>4, SeqEqual
<1> QED BY <1>4, <1>5, <1>6

\* What is left is nothing only behind the last token.
LEMMA RestEmpty ==
  ASSUME NEW s \in Texts, NEW i \in 1..(Len(s) + 1), Rest(s, i) = <<>>
  PROVE  i > Len(s)
<1>1. i \in Nat \ {0} /\ Len(s) <= Len(s) /\ Len(s) \in Nat
  BY TextSize
<1>2. Len(Rest(s, i)) = IF i <= Len(s) THEN Len(s) - i + 1 ELSE 0
  BY <1>1, Elementwise DEF Rest
<1>3. Len(Rest(s, i)) = 0
  OBVIOUS
<1> HIDE DEF Rest
<1> QED BY <1>1, <1>2, <1>3

\* An end that v does not occur in is kept by the scan.
Inert(T, v) == \A t \in T : \A k \in 1..Len(t) : ~ At(t, v, k)

LEMMA EndKept ==
  ASSUME NEW s \in Texts, NEW v \in SecretVals, NEW f \in Tables(s),
         \A i \in 1..(Len(s) + 1) : Scans(s, v, f, i),
         NEW i \in 1..(Len(s) + 1), NEW t \in Texts, Rest(s, i) = t,
         \A k \in 1..Len(t) : ~ At(t, v, k)
  PROVE  f[i] = t
<1>1. /\ <<>> \in Texts /\ t \o <<>> = t /\ Len(s) \in Nat /\ Len(t) \in Nat
      /\ Len(v) \in Nat \ {0}
  BY EmptyText, TextSize, ValueSize
<1>2. Splits(s, i, t, <<>>)
  BY <1>1 DEF Splits
<1>3. At(s, t, i) /\ i + Len(t) \in i..(Len(s) + 1) /\ Rest(s, i + Len(t)) = <<>>
  BY <1>1, <1>2, RestSplit
<1>4. i + Len(t) \in 1..(Len(s) + 1)
  BY <1>1, <1>3
<1>5. i + Len(t) > Len(s)
  BY <1>3, <1>4, RestEmpty
<1>6. f[i + Len(t)] = <<>>
  BY <1>4, <1>5 DEF Scans
<1>7. ASSUME NEW k \in 0..(Len(t) - 1), Here(s, v, i + k) PROVE FALSE
  <2>1. i + k \in Nat \ {0} /\ k + 1 \in 1..Len(t)
    BY <1>1
  <2>2. At(s, v, i + k)
    BY <1>7, <2>1, HereMeans
  <2>3. (i + k) + Len(v) - 1 <= Len(s) /\ \A j \in 1..Len(v) : s[(i + k) + j - 1] = v[j]
    BY <2>2 DEF At
  <2>4. i + Len(t) = Len(s) + 1
    BY <1>1, <1>4, <1>5
  <2>5. (k + 1) + Len(v) - 1 <= Len(t)
    BY <1>1, <2>3, <2>4
  <2>6. ASSUME NEW j \in 1..Len(v) PROVE t[(k + 1) + j - 1] = v[j]
    <3>1. (k + 1) + j - 1 \in 1..Len(t) /\ i + ((k + 1) + j - 1) - 1 = (i + k) + j - 1
      BY <1>1, <2>5
    <3>2. s[i + ((k + 1) + j - 1) - 1] = t[(k + 1) + j - 1]
      BY <1>3, <3>1 DEF At
    <3> QED BY <2>3, <3>1, <3>2
  <2>7. At(t, v, k + 1)
    BY <2>5, <2>6 DEF At
  <2> QED BY <2>1, <2>7
<1>8. f[i] = t \o f[i + Len(t)]
  BY <1>3, <1>7, Uncut
<1> QED BY <1>1, <1>6, <1>8

\* A text made of no values has none of their letters before its end.
LEMMA MadeOfNothing ==
  ASSUME NEW T \in SUBSET Texts, NEW s \in Made({}, T)
  PROVE  \E n \in 0..Len(s) : /\ ToSet(SubSeq(s, 1, n)) \cap Letters = {}
                               /\ SubSeq(s, n + 1, Len(s)) \in T
<1> DEFINE Clear(r) == \A i \in 1..Len(r) : r[i] \notin Letters
           M == {u \in Texts : \E r \in Texts, t \in T : Clear(r) /\ u = r \o t}
<1>1. T \subseteq M
  <2>1. ASSUME NEW t \in T PROVE t \in M
    <3>1. <<>> \in Texts /\ Clear(<<>>) /\ t = <<>> \o t /\ t \in Texts
      BY EmptyText
    <3> QED BY <3>1
  <2> QED BY <2>1
<1>2. ASSUME NEW p \in Pieces({}), NEW u \in M PROVE p \o u \in M
  <2>1. PICK a \in Tokens \ Letters : p = <<a>>
    BY DEF Pieces
  <2>2. PICK r \in Texts, t \in T : Clear(r) /\ u = r \o t
    OBVIOUS
  <2>3. p \in Texts /\ t \in Texts /\ u \in Texts /\ Len(p) = 1 /\ p[1] = a
    BY <2>1, PieceText
  <2>4. p \in Seq(Tokens) /\ r \in Seq(Tokens) /\ Len(r) \in Nat
    BY <2>3, Kinds
  <2>5. /\ Len(p \o r) = Len(p) + Len(r)
        /\ \A i \in 1..(Len(p) + Len(r)) : (p \o r)[i] = IF i <= Len(p) THEN p[i] ELSE r[i - Len(p)]
    BY <2>4, ConcatProperties
  <2>6. ASSUME NEW i \in 1..Len(p \o r) PROVE (p \o r)[i] \notin Letters
    <3>1. CASE i = 1
      BY <2>3, <2>4, <2>5, <3>1
    <3>2. CASE i # 1
      <4>1. i - 1 \in 1..Len(r) /\ ~ (i <= 1)
        BY <2>3, <2>4, <2>5, <3>2
      <4> QED BY <2>2, <2>3, <2>4, <2>5, <4>1
    <3> QED BY <3>1, <3>2
  <2>7. p \o r \in Texts /\ p \o u \in Texts /\ p \o u = (p \o r) \o t
    <3> HIDE DEF M, Clear
    <3>1. p \o r \in Texts /\ p \o u \in Texts
      BY <2>3, Joined
    <3>2. (p \o r) \o t = p \o (r \o t)
      BY <2>3, JoinedThree
    <3> QED BY <2>2, <3>1, <3>2
  <2>8. Clear(p \o r)
    BY <2>6
  <2> HIDE DEF Clear
  <2> QED BY <2>7, <2>8
<1> HIDE DEF M
<1>3. Closed(M, {}, T)
  BY <1>1, <1>2 DEF Closed
<1>4. M \in SUBSET Texts
  BY DEF M
<1>5. s \in M
  BY <1>3, <1>4, MadeLeast
<1>6. PICK r \in Texts, t \in T : Clear(r) /\ s = r \o t
  BY <1>5 DEF M
<1>7. s \in Texts /\ t \in Texts /\ Len(s) \in Nat /\ Len(r) \in Nat /\ s \in Seq(Tokens)
  BY <1>4, <1>5, TextSize
<1>8. Rest(s, 1) = s /\ 1 \in 1..(Len(s) + 1)
  BY <1>7, SubSeqFull DEF Rest
<1>9. At(s, r, 1) /\ 1 + Len(r) \in 1..(Len(s) + 1) /\ Rest(s, 1 + Len(r)) = t
  <2>1. Splits(s, 1, r, t)
    BY <1>6, <1>8 DEF Splits
  <2> QED BY <1>7, <1>8, <2>1, RestSplit
<1> DEFINE n == Len(r)
           w == SubSeq(s, 1, n)
<1>10. n \in 0..Len(s) /\ 1 + n = n + 1 /\ n <= Len(s)
  BY <1>7, <1>9
<1>11. /\ w \in Texts /\ Len(w) = n
       /\ \A k \in 1..n : w[k] = s[1 + k - 1]
  <2>1. 1 \in Nat \ {0} /\ n \in Nat /\ n - 1 + 1 = n /\ (~ (1 <= n) => n = 0)
    BY <1>7
  <2>2. /\ w \in Texts /\ Len(w) = IF 1 <= n THEN n - 1 + 1 ELSE 0
        /\ \A k \in 1..(n - 1 + 1) : w[k] = s[1 + k - 1]
    BY <1>7, <1>10, <2>1, Elementwise
  <2> HIDE DEF w, n
  <2> QED BY <2>1, <2>2
<1> HIDE DEF w
<1>12. \A k \in 1..n : w[k] \notin Letters
  BY <1>6, <1>9, <1>11 DEF At
<1>13. ToSet(w) \cap Letters = {}
  <2>1. w \in Seq(Tokens)
    BY <1>11, Kinds
  <2> QED BY <1>11, <1>12, <2>1 DEF ToSet
<1>14. SubSeq(s, n + 1, Len(s)) \in T
  BY <1>9, <1>10 DEF Rest
<1> QED BY <1>10, <1>13, <1>14 DEF w

\* No two of the values overlap.
Apart(V) == \A u, v \in V : u # v => ~ Overlap(u, v)

\* Replacing v takes v, and nothing else, out of what a text is made of.
LEMMA ReplacedMade ==
  ASSUME NEW V \in SUBSET SecretVals, Apart(V), NEW v \in SecretVals,
         \A u \in V : u # v => ~ Overlap(u, v) /\ ~ Overlap(v, u),
         NEW T \in SUBSET Texts, Inert(T, v), NEW s \in Made(V, T)
  PROVE  Replaced(s, v) \in Made(V \ {v}, T)
<1> DEFINE n == Len(s)
           W == V \ {v}
<1>1. /\ s \in Texts /\ n \in Nat /\ Len(v) \in Nat \ {0} /\ W \in SUBSET SecretVals
      /\ \A k \in 1..Len(v) : v[k] \in Letters
  BY MadeClosed, TextSize, ValueSize
<1>2. PICK f \in Tables(s) : f[1] = Replaced(s, v) /\ \A i \in 1..(n + 1) : Scans(s, v, f, i)
  BY <1>1, ReplacedScan
<1>3. Closed(Made(W, T), W, T) /\ Made(W, T) \subseteq Texts
  BY <1>1, MadeClosed
<1> DEFINE Good(i) == Rest(s, i) \in Made(V, T) => f[i] \in Made(W, T)
           P == {m \in 0..n : \A i \in (n + 1 - m)..(n + 1) : Good(i)}
<1> HIDE DEF n, W
<1>4. ASSUME NEW i \in 1..(n + 1), \A j \in (i + 1)..(n + 1) : Good(j), Rest(s, i) \in Made(V, T)
      PROVE  f[i] \in Made(W, T)
  <2>1. CASE Rest(s, i) \in T
    <3>1. i \in 1..(Len(s) + 1) /\ \A j \in 1..(Len(s) + 1) : Scans(s, v, f, j)
      BY <1>2 DEF n
    <3>2. f[i] = Rest(s, i)
      <4>1. \A k \in 1..Len(Rest(s, i)) : ~ At(Rest(s, i), v, k)
        BY <2>1 DEF Inert
      <4> HIDE DEF Rest
      <4> QED BY <1>1, <2>1, <3>1, <4>1, EndKept
    <3> QED BY <1>3, <2>1, <3>2 DEF Closed
  <2>2. CASE Rest(s, i) \notin T
    <3>1. PICK p \in Pieces(V), t \in Made(V, T) : Rest(s, i) = p \o t
      BY <1>4, <2>2, MadeOpens
    <3>2. p \in Texts /\ t \in Texts
      BY PieceText, MadeClosed
    <3>3. At(s, p, i) /\ i + Len(p) \in i..(n + 1) /\ Rest(s, i + Len(p)) = t
      <4>1. i \in 1..(Len(s) + 1)
        BY DEF n
      <4>2. At(s, p, i) /\ i + Len(p) \in i..(Len(s) + 1) /\ Rest(s, i + Len(p)) = t
        <5>1. s \in Texts /\ Splits(s, i, p, t)
          BY <1>1, <3>1 DEF Splits
        <5> QED BY <3>2, <4>1, <5>1, RestSplit
      <4> QED BY <4>2 DEF n
    <3> HIDE DEF Rest
    <3>4. i \in Nat \ {0} /\ n = Len(s)
      BY <1>1 DEF n
    <3>5. ASSUME Len(p) \in Nat \ {0} PROVE f[i + Len(p)] \in Made(W, T) /\ ~ (i > Len(s))
      <4>1. i + Len(p) \in (i + 1)..(n + 1)
        BY <1>1, <3>3, <3>5
      <4> QED BY <1>1, <1>4, <3>3, <3>4, <4>1
    <3>6. CASE p \in V /\ p = v
      <4>1. Here(s, v, i)
        BY <1>1, <3>3, <3>4, <3>6, HereMeans
      <4>2. f[i] = <<Marker>> \o f[i + Len(v)] /\ f[i + Len(p)] \in Made(W, T)
        BY <1>1, <1>2, <3>5, <3>6, <4>1 DEF Scans, n
      <4>3. <<Marker>> \in Pieces(W)
        BY Kinds DEF Pieces
      <4> QED BY <1>3, <3>6, <4>2, <4>3 DEF Closed
    <3>7. CASE p \in V /\ p # v
      <4>1. Len(p) \in Nat \ {0} /\ ~ Overlap(p, v) /\ ~ Overlap(v, p) /\ p \in SecretVals
        BY <3>7, ValueSize
      <4>2. \A k \in 0..(Len(p) - 1) : ~ Here(s, v, i + k)
        BY <1>1, <3>3, <3>4, <4>1, NoneInside
      <4>3. f[i] = p \o f[i + Len(p)]
        BY <1>1, <1>2, <3>2, <3>3, <3>4, <4>2, Uncut
      <4>4. p \in Pieces(W) /\ f[i + Len(p)] \in Made(W, T)
        BY <3>5, <3>7, <4>1 DEF Pieces, W
      <4> QED BY <1>3, <4>3, <4>4 DEF Closed
    <3>8. CASE p \notin V
      <4>1. PICK a \in Tokens \ Letters : p = <<a>>
        BY <3>8 DEF Pieces
      <4>2. Len(p) = 1 /\ p[1] = a
        BY <4>1
      <4>3. ~ (i > Len(s)) /\ f[i + 1] \in Made(W, T)
        BY <3>5, <4>2
      <4>4. s[i] = a
        <5>1. 1 \in 1..Len(p) /\ i + 1 - 1 = i
          BY <3>4, <4>2
        <5> QED BY <3>3, <4>2, <5>1 DEF At
      <4>5. ~ Here(s, v, i)
        <5>1. SUFFICES ASSUME At(s, v, i) PROVE FALSE
          BY <1>1, <3>4, HereMeans
        <5>2. 1 \in 1..Len(v) /\ i + 1 - 1 = i
          BY <1>1, <3>4
        <5>3. s[i] = v[1] /\ v[1] \in Letters
          BY <1>1, <5>1, <5>2 DEF At
        <5> QED BY <4>1, <4>4, <5>3
      <4>6. f[i] = <<s[i]>> \o f[i + 1]
        BY <1>2, <4>3, <4>5 DEF Scans
      <4>7. <<s[i]>> \in Pieces(W)
        BY <4>1, <4>4 DEF Pieces
      <4> QED BY <1>3, <4>3, <4>6, <4>7 DEF Closed
    <3> QED BY <3>6, <3>7, <3>8
  <2> QED BY <2>1, <2>2
<1> HIDE DEF Good
<1>5. 0 \in P
  <2>1. 0 \in 0..n /\ n + 1 \in 1..(n + 1) /\ (\A i \in (n + 1 - 0)..(n + 1) : i = n + 1)
        /\ \A j \in (n + 1 + 1)..(n + 1) : FALSE
    BY <1>1
  <2>2. Good(n + 1)
    BY <1>4, <2>1 DEF Good
  <2> QED BY <2>1, <2>2
<1>6. ASSUME NEW m \in 1..n, m - 1 \in P PROVE m \in P
  <2> DEFINE c == n + 1 - m
  <2>1. c \in 1..(n + 1) /\ m \in 0..n
    BY <1>1
  <2>2. \A j \in (c + 1)..(n + 1) : j \in (n + 1 - (m - 1))..(n + 1)
    BY <1>1
  <2>3. \A j \in (c + 1)..(n + 1) : Good(j)
    BY <1>6, <2>2
  <2>4. \A i \in (n + 1 - m)..(n + 1) : i = c \/ i \in (c + 1)..(n + 1)
    BY <1>1
  <2> HIDE DEF c, P
  <2>5. Good(c)
    BY <1>4, <2>1, <2>3 DEF Good
  <2> QED BY <2>1, <2>3, <2>4, <2>5 DEF P
<1> HIDE DEF P
<1>7. 0..n \subseteq P
  BY <1>1, <1>5, <1>6, UpTo
<1>8. Good(1)
  <2>1. n \in 0..n /\ 1 \in (n + 1 - n)..(n + 1)
    BY <1>1
  <2> QED BY <1>7, <2>1 DEF P
<1>9. Rest(s, 1) = s
  <2>1. s \in Seq(Tokens)
    BY <1>1, TextSize
  <2> QED BY <2>1, SubSeqFull DEF Rest
<1> QED BY <1>2, <1>8, <1>9 DEF Good, W

LEMMA ReplacedText ==
  ASSUME NEW s \in Texts, NEW v \in SecretVals
  PROVE  Replaced(s, v) \in Texts
<1>1. PICK f \in Tables(s) : f[1] = Replaced(s, v)
  BY ReplacedScan
<1>2. 1 \in 1..(Len(s) + 1)
  BY TextSize
<1> QED BY <1>1, <1>2 DEF Tables

\* What scrub_output does, one value after the other.
LEMMA ScrubTable ==
  ASSUME TextTypeOK, scrub_output
  PROVE  \E g \in [0..Len(used) -> Texts] :
           /\ g[0] = text /\ text' = g[Len(used)]
           /\ \A i \in 1..Len(used) : g[i] = Replaced(g[i - 1], used[i])
<1> DEFINE n == Len(used)
           F == [i \in 1..n |-> [x \in Texts |-> Replaced(x, used[i])]]
           after[i \in 0..n] == IF i = 0 THEN text ELSE Replaced(after[i - 1], used[i])
<1>1. n \in Nat /\ text \in Texts /\ \A i \in 1..n : used[i] \in SecretVals
  BY DEF TextTypeOK
<1>2. text' = after[n]
  BY DEF scrub_output
<1>3. (\E f : f = [i \in 0..n |-> IF i = 0 THEN text ELSE Replaced(f[i - 1], used[i])])
      => after = [i \in 0..n |-> IF i = 0 THEN text ELSE Replaced(after[i - 1], used[i])]
  OBVIOUS
<1> HIDE DEF after, n
<1>4. F \in StepsOn(n, Texts)
  BY <1>1, ReplacedText DEF StepsOn
<1>5. \A i \in 1..n, x \in Texts : F[i][x] = Replaced(x, used[i])
  OBVIOUS
<1> HIDE DEF F
<1>6. PICK g \in [0..n -> Texts] : Iterates(g, n, text, F)
  BY <1>1, <1>4, Iterated
<1>7. g = [i \in 0..n |-> IF i = 0 THEN text ELSE F[i][g[i - 1]]]
  BY <1>1, <1>6, Unfolds
<1>8. g = [i \in 0..n |-> IF i = 0 THEN text ELSE Replaced(g[i - 1], used[i])]
  <2>1. ASSUME NEW i \in 0..n, i # 0 PROVE F[i][g[i - 1]] = Replaced(g[i - 1], used[i])
    <3>1. i \in 1..n /\ i - 1 \in 0..n
      BY <1>1, <2>1
    <3>2. g[i - 1] \in Texts
      BY <3>1
    <3> QED BY <1>5, <3>1, <3>2
  <2> QED BY <1>7, <2>1
<1>9. after = [i \in 0..n |-> IF i = 0 THEN text ELSE Replaced(after[i - 1], used[i])]
  BY <1>3, <1>8
<1>10. after[0] = text /\ \A i \in 1..n : after[i] = Replaced(after[i - 1], used[i])
  <2>1. 0 \in 0..n /\ \A i \in 1..n : i \in 0..n /\ i # 0
    BY <1>1
  <2> QED BY <1>9, <2>1
<1> DEFINE P == {i \in 0..n : after[i] \in Texts}
<1>11. 0 \in P
  BY <1>1, <1>10
<1>12. ASSUME NEW i \in 1..n, i - 1 \in P PROVE i \in P
  <2>1. i \in 0..n /\ after[i - 1] \in Texts
    BY <1>12
  <2> QED BY <1>1, <1>10, <2>1, ReplacedText
<1> HIDE DEF P
<1>13. 0..n \subseteq P
  BY <1>1, <1>11, <1>12, UpTo
<1>14. \A i \in 0..n : after[i] \in Texts
  BY <1>13 DEF P
<1>15. \E e : after = [i \in 0..n |-> e[i]]
  <2> DEFINE e == [i \in 0..n |-> IF i = 0 THEN text ELSE Replaced(after[i - 1], used[i])]
  <2>1. e = [i \in 0..n |-> e[i]]
    OBVIOUS
  <2>2. after = e
    BY <1>9
  <2> HIDE DEF e
  <2> QED BY <2>1, <2>2
<1>16. after \in [0..n -> Texts]
  BY <1>14, <1>15
<1> QED BY <1>2, <1>10, <1>16 DEF n

LEMMA ScrubbedOfAll ==
  ASSUME TextTypeOK, given = ToSet(used), Apart(given), scrub_output,
         NEW T \in SUBSET Texts, \A v \in given : Inert(T, v), text \in Made(given, T)
  PROVE  text' \in Made({}, T)
<1> DEFINE n == Len(used)
           Left(i) == given \ {used[j] : j \in 1..i}
<1>1. n \in Nat /\ DOMAIN used = 1..n /\ given \in SUBSET SecretVals /\ \A i \in 1..n : used[i] \in SecretVals
  BY DEF TextTypeOK
<1>2. PICK g \in [0..n -> Texts] :
        /\ g[0] = text /\ text' = g[n]
        /\ \A i \in 1..n : g[i] = Replaced(g[i - 1], used[i])
  BY ScrubTable
<1> DEFINE P == {i \in 0..n : g[i] \in Made(Left(i), T)}
<1>3. 0 \in P
  <2>1. Left(0) = given /\ 0 \in 0..n
    BY <1>1
  <2> QED BY <1>2, <2>1
<1>4. ASSUME NEW i \in 1..n, i - 1 \in P PROVE i \in P
  <2>1. i - 1 \in 0..n /\ g[i - 1] \in Made(Left(i - 1), T) /\ i \in 0..n
    BY <1>1, <1>4
  <2>2. Left(i) = Left(i - 1) \ {used[i]}
    <3>1. \A j : j \in 1..i <=> j \in 1..(i - 1) \/ j = i
      BY <1>1
    <3>2. {used[j] : j \in 1..i} = {used[j] : j \in 1..(i - 1)} \cup {used[i]}
      BY <3>1
    <3> QED BY <3>2
  <2>3. Left(i - 1) \subseteq given
    OBVIOUS
  <2>4. used[i] \in given
    BY <1>1 DEF ToSet
  <2> HIDE DEF Left
  <2>5. /\ Left(i - 1) \in SUBSET SecretVals /\ Apart(Left(i - 1)) /\ used[i] \in SecretVals
        /\ \A u \in Left(i - 1) : u # used[i] => ~ Overlap(u, used[i]) /\ ~ Overlap(used[i], u)
    BY <1>1, <2>3, <2>4 DEF Apart
  <2>6a. Inert(T, used[i])
    BY <2>4
  <2>6. Replaced(g[i - 1], used[i]) \in Made(Left(i - 1) \ {used[i]}, T)
    BY <2>1, <2>5, <2>6a, ReplacedMade
  <2> QED BY <1>2, <2>1, <2>2, <2>6
<1> HIDE DEF P, Left
<1>5. 0..n \subseteq P
  BY <1>1, <1>3, <1>4, UpTo
<1>6. g[n] \in Made(Left(n), T)
  BY <1>1, <1>5 DEF P
<1>7. Left(n) = {}
  BY <1>1 DEF Left, ToSet
<1> QED BY <1>2, <1>6, <1>7

\* An output made of values the command was given and of other tokens.
LEMMA PiecesMade ==
  ASSUME NEW V \in SUBSET SecretVals, NEW n \in Nat, NEW pieces \in [1..n -> V \cup {<<Other>>}]
  PROVE  FlattenSeq(pieces) \in Made(V, NoEnd)
<1>1. V \cup {<<Other>>} \subseteq Pieces(V) /\ Pieces(V) \subseteq Texts /\ Texts = Seq(Tokens)
  BY Kinds, PieceText DEF Pieces
<1>2. pieces \in Seq(Seq(Tokens)) /\ Len(pieces) = n /\ \A i \in 1..n : pieces[i] \in Pieces(V)
  <2>1. pieces \in [1..n -> Seq(Tokens)] /\ \A i \in 1..n : pieces[i] \in Pieces(V)
    BY <1>1
  <2> QED BY <2>1
<1>3. <<>> \in Made(V, NoEnd)
  BY NothingMade
<1>4. CASE pieces = <<>>
  BY <1>3, <1>4 DEF FlattenSeq
<1>5. CASE pieces # <<>>
  <2>1. PICK f \in [1..n -> Seq(Tokens)] :
          /\ f[1] = pieces[1]
          /\ \A i \in 2..n : f[i] = f[i - 1] \o pieces[i]
          /\ FlattenSeq(pieces) = f[n]
    BY <1>2, <1>5, Flattened
  <2> DEFINE P == {i \in 0..n : i # 0 => f[i] \in Made(V, NoEnd)}
  <2>2. 0 \in P
    OBVIOUS
  <2>3. ASSUME NEW i \in 1..n, i - 1 \in P PROVE i \in P
    <3>1. CASE i = 1
      <4>1. pieces[1] \in Pieces(V) /\ pieces[1] \in Texts
        BY <1>1, <1>2, <3>1
      <4>2. <<>> \o pieces[1] \in Made(V, NoEnd)
        BY <1>3, <4>1, MadeBehind
      <4> QED BY <2>1, <3>1, <4>1, <4>2, EmptyText
    <3>2. CASE i # 1
      <4>1. i \in 2..n /\ i - 1 # 0 /\ f[i - 1] \in Made(V, NoEnd)
        BY <2>3, <3>2
      <4>2. f[i - 1] \o pieces[i] \in Made(V, NoEnd)
        BY <1>2, <4>1, MadeBehind
      <4>3. f[i] = f[i - 1] \o pieces[i]
        BY <2>1, <4>1
      <4>4. f[i] \in Made(V, NoEnd) /\ i \in 0..n
        BY <4>2, <4>3
      <4> QED BY <4>4
    <3> QED BY <3>1, <3>2
  <2> HIDE DEF P
  <2>4. 0..n \subseteq P
    BY <2>2, <2>3, UpTo
  <2>5. n \in 0..n /\ n # 0
    BY <1>2, <1>5
  <2>6. f[n] \in Made(V, NoEnd)
    BY <2>4, <2>5 DEF P
  <2> QED BY <2>1, <2>6
<1> QED BY <1>4, <1>5

\* An output that was cut, with a notice behind it, ends in a value, or in other
\* tokens, or in what a value that was cut through leaves.
LEMMA EndsText ==
  ASSUME NEW V \in SUBSET SecretVals
  PROVE  /\ CutEnds(V) \in SUBSET Texts /\ Notices \in SUBSET Texts
         /\ <<>> \in CutEnds(V)
         /\ \A v \in V : \A n \in 1..(Len(v) - 1), w \in Notices : SubSeq(v, 1, n) \o w \in CutEnds(V)
<1>1. Notices \in SUBSET Texts
  BY EmptyText, Kinds DEF Notices
<1>2. ASSUME NEW v \in V, NEW n \in 1..(Len(v) - 1), NEW w \in Notices
      PROVE  SubSeq(v, 1, n) \o w \in Texts
  <2>1. v \in Texts /\ Len(v) \in Nat
    BY ValueSize
  <2>2. 1 \in Nat \ {0} /\ n \in Nat /\ n <= Len(v)
    BY <2>1
  <2>3. SubSeq(v, 1, n) \in Texts
    BY <2>1, <2>2, Elementwise
  <2> QED BY <1>1, <2>3, Joined
<1>3. ASSUME NEW t \in CutEnds(V) PROVE t \in Texts
  <2>1. CASE t = <<>>
    BY <2>1, EmptyText
  <2>2. CASE t # <<>>
    <3>1. PICK v \in V : \E n \in 1..(Len(v) - 1), w \in Notices : t = SubSeq(v, 1, n) \o w
      BY <2>2 DEF CutEnds
    <3> QED BY <1>2, <3>1
  <2> QED BY <2>1, <2>2
<1>4. <<>> \in CutEnds(V)
  BY DEF CutEnds
<1>5. ASSUME NEW v \in V, NEW n \in 1..(Len(v) - 1), NEW w \in Notices
      PROVE  SubSeq(v, 1, n) \o w \in CutEnds(V)
  BY DEF CutEnds
<1> QED BY <1>1, <1>3, <1>4, <1>5

LEMMA CutMade ==
  ASSUME NEW V \in SUBSET SecretVals, NEW s \in Made(V, NoEnd), NEW k \in 0..Len(s), NEW w \in Notices
  PROVE  SubSeq(s, 1, k) \o w \in Made(V, CutEnds(V))
<1> DEFINE T == CutEnds(V)
           Good(u) == \A m \in 0..Len(u), x \in Notices : SubSeq(u, 1, m) \o x \in Made(V, T)
           M == {u \in Texts : Good(u)}
<1>1. /\ T \in SUBSET Texts /\ Notices \in SUBSET Texts /\ <<>> \in T
      /\ Made(V, T) \subseteq Texts /\ T \subseteq Made(V, T)
      /\ \A p \in Pieces(V), t \in Made(V, T) : p \o t \in Made(V, T)
      /\ Pieces(V) \subseteq Texts
  BY EndsText, MadeClosed, PieceText DEF Closed
<1>2. ASSUME NEW x \in Notices PROVE x \in Made(V, T)
  <2>1. <<Other>> \in Pieces(V)
    BY Kinds DEF Pieces
  <2>2. <<Other>> \o <<>> \in Made(V, T) /\ <<Other>> \o <<>> = <<Other>>
    BY <1>1, <2>1, EmptyText
  <2> QED BY <1>1, <2>2 DEF Notices
<1>3. ASSUME NEW u \in Texts, NEW x \in Notices PROVE SubSeq(u, 1, 0) \o x \in Made(V, T)
  <2>1. SubSeq(u, 1, 0) = <<>>
    BY SubSeqEmpty
  <2> QED BY <1>1, <1>2, <2>1, EmptyText
<1>4. <<>> \in M
  <2>1. <<>> \in Texts /\ \A m \in 0..Len(<<>>) : m = 0
    BY EmptyText
  <2> HIDE DEF T
  <2>2. Good(<<>>)
    BY <1>3, <2>1
  <2> QED BY <2>1, <2>2
<1>5. ASSUME NEW p \in Pieces(V), NEW t \in M PROVE p \o t \in M
  <2>1. p \in Texts /\ t \in Texts /\ Good(t) /\ p \o t \in Texts
    BY <1>1, Joined
  <2>2. /\ Len(p) \in Nat /\ Len(t) \in Nat /\ p \in Seq(Tokens) /\ t \in Seq(Tokens)
        /\ p \o t \in Seq(Tokens) /\ Texts = Seq(Tokens)
    BY <2>1, TextSize, Kinds
  <2>3. /\ Len(p \o t) = Len(p) + Len(t)
        /\ \A i \in 1..(Len(p) + Len(t)) : (p \o t)[i] = IF i <= Len(p) THEN p[i] ELSE t[i - Len(p)]
    BY <2>2, ConcatProperties
  <2>4. ASSUME NEW m \in 0..Len(p \o t), NEW x \in Notices PROVE SubSeq(p \o t, 1, m) \o x \in Made(V, T)
    <3> DEFINE c == SubSeq(p \o t, 1, m)
    <3>1. m \in Nat /\ m <= Len(p \o t) /\ 1 \in Nat \ {0} /\ m - 1 + 1 = m /\ (~ (1 <= m) => m = 0)
      BY <2>2, <2>3
    <3>2. c \in Texts /\ Len(c) = m /\ \A j \in 1..m : c[j] = (p \o t)[1 + j - 1]
      <4>1. /\ c \in Texts /\ Len(c) = IF 1 <= m THEN m - 1 + 1 ELSE 0
            /\ \A j \in 1..(m - 1 + 1) : c[j] = (p \o t)[1 + j - 1]
        BY <2>1, <3>1, Elementwise
      <4> HIDE DEF c
      <4> QED BY <3>1, <4>1
    <3>3. \A j \in 1..m : c[j] = (p \o t)[j]
      BY <3>1, <3>2
    <3> HIDE DEF c
    <3>4. CASE m = 0
      BY <1>3, <2>1, <3>4
    <3>5. CASE m # 0 /\ m < Len(p)
      <4>1. p \in V
        <5>1. p \notin V => Len(p) = 1
          BY DEF Pieces
        <5>2. Len(p) # 1
          <6>1. ASSUME Len(p) = 1 PROVE FALSE
            <7>1. m < 1 /\ m \in Nat /\ m # 0
              BY <3>1, <3>5, <6>1
            <7> QED BY <7>1
          <6> QED BY <6>1
        <5> QED BY <5>1, <5>2
      <4>2. m \in 1..(Len(p) - 1) /\ m <= Len(p)
        BY <2>2, <3>1, <3>5
      <4> DEFINE d == SubSeq(p, 1, m)
      <4>3. d \in Texts /\ Len(d) = m /\ \A j \in 1..m : d[j] = p[1 + j - 1]
        <5>1. /\ d \in Texts /\ Len(d) = IF 1 <= m THEN m - 1 + 1 ELSE 0
              /\ \A j \in 1..(m - 1 + 1) : d[j] = p[1 + j - 1]
          BY <2>1, <3>1, <4>2, Elementwise
        <5> HIDE DEF d
        <5> QED BY <3>1, <5>1
      <4>4. ASSUME NEW j \in 1..m PROVE c[j] = d[j]
        <5>1. j \in 1..(Len(p) + Len(t)) /\ j <= Len(p) /\ 1 + j - 1 = j
          BY <2>2, <3>1, <3>5
        <5> QED BY <2>3, <3>3, <4>3, <5>1
      <4> HIDE DEF d
      <4>5. c = d
        BY <2>2, <3>2, <4>3, <4>4, SeqEqual
      <4>6. d \o x \in T
        BY <4>1, <4>2, EndsText DEF d
      <4> HIDE DEF T
      <4> QED BY <1>1, <4>5, <4>6 DEF c
    <3>6. CASE m >= Len(p)
      <4> DEFINE h == m - Len(p)
                 d == SubSeq(t, 1, h)
      <4>1. h \in 0..Len(t) /\ h \in Nat /\ h <= Len(t) /\ h - 1 + 1 = h /\ (~ (1 <= h) => h = 0) /\ Len(p) + h = m
        BY <2>2, <2>3, <3>1, <3>6
      <4> HIDE DEF h
      <4>2. d \in Texts /\ Len(d) = h /\ \A j \in 1..h : d[j] = t[1 + j - 1]
        <5>1. /\ d \in Texts /\ Len(d) = IF 1 <= h THEN h - 1 + 1 ELSE 0
              /\ \A j \in 1..(h - 1 + 1) : d[j] = t[1 + j - 1]
          BY <2>1, <3>1, <4>1, Elementwise
        <5> HIDE DEF d
        <5> QED BY <4>1, <5>1
      <4>3. d \o x \in Made(V, T)
        BY <2>1, <4>1
      <4> HIDE DEF d, M, Good, T
      <4>4. d \in Seq(Tokens)
        BY <2>2, <4>2
      <4>5. /\ Len(p \o d) = Len(p) + h
            /\ \A j \in 1..(Len(p) + h) : (p \o d)[j] = IF j <= Len(p) THEN p[j] ELSE d[j - Len(p)]
        BY <2>2, <4>2, <4>4, ConcatProperties
      <4>6. ASSUME NEW j \in 1..m PROVE c[j] = (p \o d)[j]
        <5>1. j \in 1..(Len(p) + Len(t)) /\ j \in 1..(Len(p) + h)
          BY <2>2, <3>1, <4>1
        <5>2. CASE j <= Len(p)
          BY <2>3, <3>3, <4>5, <5>1, <5>2
        <5>3. CASE ~ (j <= Len(p))
          <6>1. j - Len(p) \in 1..h /\ 1 + (j - Len(p)) - 1 = j - Len(p)
            BY <2>2, <3>1, <4>1, <5>3
          <6>2. d[j - Len(p)] = t[j - Len(p)]
            BY <4>2, <6>1
          <6> QED BY <2>3, <3>3, <4>5, <5>1, <5>3, <6>2
        <5> QED BY <5>2, <5>3
      <4>7. p \o d \in Texts
        BY <2>1, <4>2, Joined
      <4>8. c = p \o d
        <5>1. Len(p \o d) = m
          BY <4>1, <4>5
        <5> QED BY <2>2, <3>2, <4>6, <4>7, <5>1, SeqEqual
      <4>9. (p \o d) \o x = p \o (d \o x)
        <5>1. p \in Texts /\ d \in Texts
          BY <2>1, <4>2
        <5>2. x \in Texts
          BY <1>1
        <5> QED BY ONLY <5>1, <5>2, JoinedThree
      <4> QED BY <1>1, <4>3, <4>8, <4>9 DEF c
    <3> QED BY <2>2, <3>1, <3>4, <3>5, <3>6
  <2> HIDE DEF T
  <2> QED BY <2>1, <2>4
<1> HIDE DEF M
<1>6. Closed(M, V, NoEnd) /\ M \in SUBSET Texts
  BY <1>4, <1>5 DEF Closed, NoEnd, M
<1>7. s \in M
  BY <1>6, MadeLeast
<1> QED BY <1>7 DEF M

\* No value occurs in what another one that was cut through leaves.
LEMMA EndsInert ==
  ASSUME NEW V \in SUBSET SecretVals, Apart(V), NEW v \in V
  PROVE  Inert(CutEnds(V), v) /\ Inert(NoEnd, v)
<1>0. v \in Texts /\ v \in SecretVals /\ Len(v) \in Nat \ {0} /\ \A j \in 1..Len(v) : v[j] \in Letters
  BY ValueSize
<1>1. Inert(NoEnd, v)
  BY DEF Inert, NoEnd
<1>2. ASSUME NEW u \in V, NEW n \in 1..(Len(u) - 1), NEW w \in Notices,
             NEW k \in 1..Len(SubSeq(u, 1, n) \o w), At(SubSeq(u, 1, n) \o w, v, k)
      PROVE  FALSE
  <2> DEFINE b == SubSeq(u, 1, n)
             t == b \o w
  <2>1. u \in Texts /\ u \in SecretVals /\ Len(u) \in Nat /\ n \in Nat /\ n <= Len(u) /\ n < Len(u) /\ 1 <= n /\ n - 1 + 1 = n
    BY ValueSize
  <2>2. b \in Texts /\ Len(b) = n /\ \A j \in 1..n : b[j] = u[1 + j - 1]
    BY <2>1, Elementwise
  <2>3. w \in Texts /\ Len(w) \in {0, 1} /\ (\A j \in 1..Len(w) : w[j] \notin Letters)
    <3>1. w \in Texts
      BY EndsText
    <3>2. w = <<>> \/ (Len(w) = 1 /\ w[1] = Other)
      BY DEF Notices
    <3>3. Other \notin Letters
      BY Kinds
    <3> QED BY <3>1, <3>2, <3>3
  <2> HIDE DEF b
  <2>4. b \in Seq(Tokens) /\ w \in Seq(Tokens)
    BY <2>2, <2>3, Kinds
  <2>5. /\ Len(t) = n + Len(w)
        /\ \A j \in 1..(n + Len(w)) : t[j] = IF j <= n THEN b[j] ELSE w[j - n]
    BY <2>2, <2>4, ConcatProperties
  <2>6. k \in 1..Len(t) /\ k + Len(v) - 1 <= Len(t) /\ \A j \in 1..Len(v) : t[k + j - 1] = v[j]
    BY <1>2 DEF At, b
  <2> HIDE DEF t
  <2>7. k + Len(v) - 1 <= n
    <3>1. SUFFICES ASSUME ~ (k + Len(v) - 1 <= n) PROVE FALSE
      OBVIOUS
    <3>2. k + Len(v) - 1 \in 1..(n + Len(w)) /\ (k + Len(v) - 1) - n \in 1..Len(w)
      BY <1>0, <2>1, <2>3, <2>5, <2>6, <3>1
    <3>3. t[k + Len(v) - 1] = w[(k + Len(v) - 1) - n]
      BY <2>5, <3>1, <3>2
    <3>4. Len(v) \in 1..Len(v)
      BY <1>0
    <3>7. t[k + Len(v) - 1] = v[Len(v)]
      BY <2>6, <3>4
    <3>5. w[(k + Len(v) - 1) - n] \notin Letters
      BY <2>3, <3>2
    <3>6. v[Len(v)] \in Letters
      BY <1>0, <3>4
    <3> QED BY <3>3, <3>5, <3>6, <3>7
  <2>8. k \in Nat \ {0} /\ k + Len(v) - 1 <= Len(u) /\ k + Len(v) - 1 < Len(u)
    BY <1>0, <2>1, <2>3, <2>5, <2>6, <2>7
  <2>9. ASSUME NEW j \in 1..Len(v) PROVE u[k + j - 1] = v[j]
    <3>1. k + j - 1 \in 1..n /\ k + j - 1 \in 1..(n + Len(w)) /\ 1 + (k + j - 1) - 1 = k + j - 1
      BY <1>0, <2>1, <2>3, <2>7, <2>8
    <3>2. t[k + j - 1] = b[k + j - 1]
      BY <2>5, <3>1
    <3>3. b[k + j - 1] = u[1 + (k + j - 1) - 1]
      BY <2>2, <3>1
    <3>4. t[k + j - 1] = v[j]
      BY <2>6
    <3> QED BY <3>1, <3>2, <3>3, <3>4
  <2>10. At(u, v, k)
    BY <2>8, <2>9 DEF At
  <2>11. SubSeq(u, k, k + Len(v) - 1) = v
    BY <1>0, <2>1, <2>8, <2>10, HereMeans DEF Here
  <2>12. v # u
    BY <1>0, <2>8
  <2>13. k \in 1..Len(u) /\ k + Len(v) - 1 \in 1..Len(u) /\ k <= k + Len(v) - 1
    BY <1>0, <2>1, <2>8
  <2>14. Overlap(v, u)
    BY <2>11, <2>13 DEF Overlap
  <2> QED BY <2>12, <2>14 DEF Apart
<1>3. ASSUME NEW t \in CutEnds(V), NEW k \in 1..Len(t), At(t, v, k) PROVE FALSE
  <2>1. CASE t = <<>>
    BY <2>1
  <2>2. CASE t # <<>>
    <3>1. PICK u \in V : \E n \in 1..(Len(u) - 1), w \in Notices : t = SubSeq(u, 1, n) \o w
      BY <2>2 DEF CutEnds
    <3> QED BY <1>2, <1>3, <3>1
  <2> QED BY <2>1, <2>2
<1> QED BY <1>1, <1>3 DEF Inert

\* What the worker thread makes of the references.
LEMMA SecretsText ==
  ASSUME TextTypeOK, \A i \in DOMAIN References : Usable(References[i])
  PROVE  /\ Expand(text, LAMBDA t : IF t \in Secrets THEN vault[t].value ELSE <<t>>) \in Texts
         /\ \A i \in DOMAIN References : vault[References[i]].value \in SecretVals
<1>1. /\ text \in Texts /\ Texts = Seq(Tokens) /\ Len(text) \in Nat /\ DOMAIN text = 1..Len(text)
      /\ \A i \in 1..Len(text) : text[i] \in Tokens /\ <<text[i]>> \in Texts
  BY Kinds, TextSize DEF TextTypeOK
<1>2. /\ References \in Seq(Secrets)
      /\ \A j \in 1..Len(text) : text[j] \in Secrets =>
           \E k \in DOMAIN References : References[k] = text[j]
  BY <1>1, ReferencesListed
<1>3. ASSUME NEW x \in Secrets, Usable(x) PROVE vault[x].value \in SecretVals
  BY <1>3 DEF Usable, TextTypeOK, Secret
<1>4. \A i \in DOMAIN References : References[i] \in Secrets
  BY <1>2
<1>5. \A j \in 1..Len(text) : text[j] \in Secrets => vault[text[j]].value \in Texts
  BY <1>2, <1>3, Kinds
<1> DEFINE ss == [i \in DOMAIN text |-> IF text[i] \in Secrets THEN vault[text[i]].value ELSE <<text[i]>>]
<1>6. ss \in [1..Len(text) -> Seq(Tokens)]
  BY <1>1, <1>5
<1>7. Expand(text, LAMBDA t : IF t \in Secrets THEN vault[t].value ELSE <<t>>) = FlattenSeq(ss)
  BY DEF Expand
<1> HIDE DEF ss
<1>8. FlattenSeq(ss) \in Texts
  BY <1>1, <1>6, FlattenedFunction
<1> QED BY <1>3, <1>4, <1>7, <1>8

-----------------------------------------------------------------------------
(* Replacing every token of a text.                                        *)

\* Induction on sequences, for a set instead of a predicate.
LEMMA SeqInduction ==
  ASSUME NEW S, NEW M, <<>> \in M, \A s \in Seq(S), t \in S : s \in M => Append(s, t) \in M
  PROVE  Seq(S) \subseteq M
<1>1. SUFFICES ASSUME NEW s \in Seq(S) PROVE s \in M
  OBVIOUS
<1> DEFINE n == Len(s)
           P == {k \in 0..n : SubSeq(s, 1, k) \in M}
<1>2. n \in Nat /\ \A k \in 1..n : s[k] \in S
  OBVIOUS
<1>3. 0 \in P
  <2>1. SubSeq(s, 1, 0) = <<>> /\ 0 \in 0..n
    BY <1>2, SubSeqEmpty
  <2> QED BY <2>1
<1>4. ASSUME NEW k \in 1..n, k - 1 \in P PROVE k \in P
  <2>1. SubSeq(s, 1, k) = SubSeq(s, 1, k - 1) \o <<s[k]>>
    <3>1. 1 \in 1..Len(s) /\ k \in 1..Len(s)
      BY <1>2
    <3> QED BY <3>1, SubSeqRecursiveSecond
  <2>2. SubSeq(s, 1, k - 1) \in Seq(S)
    <3>1. 1 \in Int /\ k - 1 \in Int /\ \A i \in 1..(k - 1) : s[i] \in S
      BY <1>2
    <3> QED BY <3>1, SubSeqProperties
  <2> DEFINE r == SubSeq(s, 1, k - 1)
  <2>3. r \in M /\ k \in 0..n
    BY <1>2, <1>4
  <2> HIDE DEF r
  <2>4. Append(r, s[k]) = r \o <<s[k]>>
    BY <1>2, <2>2, AppendIsConcat DEF r
  <2>5. Append(r, s[k]) \in M
    BY <1>2, <2>2, <2>3 DEF r
  <2> QED BY <2>1, <2>3, <2>4, <2>5 DEF r
<1> HIDE DEF P
<1>5. 0..n \subseteq P
  BY <1>2, <1>3, <1>4, UpTo
<1>6. SubSeq(s, 1, n) \in M
  BY <1>2, <1>5 DEF P
<1> QED BY <1>6, SubSeqFull

Maps      == [Tokens -> Texts]
Exp(s, F) == FlattenSeq([i \in DOMAIN s |-> F[s[i]]])

LEMMA AppendText ==
  ASSUME NEW s \in Texts, NEW t \in Tokens
  PROVE  Append(s, t) \in Texts /\ Append(s, t) = s \o <<t>> /\ <<t>> \in Texts
<1>1. s \in Seq(Tokens) /\ Texts = Seq(Tokens)
  BY Kinds
<1> QED BY <1>1, AppendIsConcat

LEMMA ExpEmpty ==
  ASSUME NEW F
  PROVE  Exp(<<>>, F) = <<>>
<1>1. [i \in DOMAIN <<>> |-> F[<<>>[i]]] = <<>>
  OBVIOUS
<1> QED BY <1>1 DEF Exp, FlattenSeq

LEMMA ExpText ==
  ASSUME NEW s \in Texts, NEW F \in Maps
  PROVE  Exp(s, F) \in Texts
<1>1. Texts = Seq(Tokens) /\ Len(s) \in Nat /\ DOMAIN s = 1..Len(s) /\ \A i \in 1..Len(s) : s[i] \in Tokens
  BY Kinds, TextSize
<1>2. [i \in DOMAIN s |-> F[s[i]]] \in [1..Len(s) -> Seq(Tokens)]
  BY <1>1 DEF Maps
<1> QED BY <1>1, <1>2, FlattenedFunction DEF Exp

LEMMA ExpAppend ==
  ASSUME NEW s \in Texts, NEW F \in Maps, NEW t \in Tokens
  PROVE  Exp(Append(s, t), F) = Exp(s, F) \o F[t]
<1> DEFINE n  == Len(s)
           u  == Append(s, t)
           ss == [i \in DOMAIN s |-> F[s[i]]]
           tt == [i \in DOMAIN u |-> F[u[i]]]
<1>1. /\ Texts = Seq(Tokens) /\ n \in Nat /\ DOMAIN s = 1..n /\ DOMAIN u = 1..(n + 1)
      /\ \A i \in 1..n : s[i] \in Tokens /\ u[i] = s[i]
      /\ u[n + 1] = t
  <2>1. s \in Seq(Tokens) /\ Texts = Seq(Tokens)
    BY Kinds
  <2>2. /\ Append(s, t) \in Seq(Tokens) /\ Len(Append(s, t)) = n + 1
        /\ \A i \in 1..n : Append(s, t)[i] = s[i]
        /\ Append(s, t)[n + 1] = t
    BY <2>1, AppendProperties
  <2> HIDE DEF u
  <2>3. u \in Seq(Tokens) /\ Len(u) = n + 1 /\ (\A i \in 1..n : u[i] = s[i]) /\ u[n + 1] = t
    BY <2>2 DEF u
  <2> QED BY <2>1, <2>3
<1>2. \A x \in Tokens : F[x] \in Texts
  BY DEF Maps
<1> HIDE DEF n, u
<1>3. /\ ss \in [1..n -> Texts] /\ tt \in [1..(n + 1) -> Texts]
      /\ (\A i \in 1..n : tt[i] = ss[i]) /\ tt[n + 1] = F[t]
  <2>1. \A i \in 1..(n + 1) : u[i] \in Tokens
    <3>1. \A i \in 1..(n + 1) : i \in 1..n \/ i = n + 1
      BY <1>1
    <3> QED BY <1>1, <3>1
  <2>2. n + 1 \in 1..(n + 1) /\ \A i \in 1..n : i \in 1..(n + 1)
    BY <1>1
  <2> QED BY <1>1, <1>2, <2>1, <2>2
<1>4. Exp(s, F) = FlattenSeq(ss) /\ Exp(u, F) = FlattenSeq(tt)
  BY DEF Exp
<1> HIDE DEF ss, tt
<1>5. /\ ss \in Seq(Seq(Tokens)) /\ Len(ss) = n /\ tt \in Seq(Seq(Tokens)) /\ Len(tt) = n + 1 /\ tt # <<>>
  <2>1. ss \in [1..n -> Seq(Tokens)] /\ tt \in [1..(n + 1) -> Seq(Tokens)] /\ n + 1 \in Nat
    BY <1>1, <1>3
  <2>2. ss \in Seq(Seq(Tokens)) /\ Len(ss) = n
    BY <1>1, <2>1, FunctionText
  <2>3. tt \in Seq(Seq(Tokens)) /\ Len(tt) = n + 1
    BY <2>1, FunctionText
  <2> QED BY <1>1, <2>2, <2>3
<1>6. PICK g \in [1..(n + 1) -> Seq(Tokens)] :
        /\ g[1] = tt[1]
        /\ \A i \in 2..(n + 1) : g[i] = g[i - 1] \o tt[i]
        /\ FlattenSeq(tt) = g[n + 1]
  <2>1. \E g \in [1..Len(tt) -> Seq(Tokens)] :
          /\ g[1] = tt[1]
          /\ \A i \in 2..Len(tt) : g[i] = g[i - 1] \o tt[i]
          /\ FlattenSeq(tt) = g[Len(tt)]
    BY <1>5, Flattened
  <2> QED BY <1>5, <2>1
<1>7. CASE n = 0
  <2>1. ss = <<>> /\ FlattenSeq(tt) = F[t]
    BY <1>3, <1>5, <1>6, <1>7
  <2>2. FlattenSeq(ss) = <<>>
    BY <2>1 DEF FlattenSeq
  <2> QED BY <1>2, <1>4, <2>1, <2>2, EmptyText DEF u
<1>8. CASE n # 0
  <2>1. ss # <<>> /\ n \in Nat \ {0}
    BY <1>1, <1>5, <1>8
  <2>2. PICK f \in [1..n -> Seq(Tokens)] :
          /\ f[1] = ss[1]
          /\ \A i \in 2..n : f[i] = f[i - 1] \o ss[i]
          /\ FlattenSeq(ss) = f[n]
    BY <1>5, <2>1, Flattened
  <2> DEFINE P == {i \in 0..n : i # 0 => f[i] = g[i]}
  <2>3. 0 \in P
    BY <1>1
  <2>4. ASSUME NEW i \in 1..n, i - 1 \in P PROVE i \in P
    <3>1. CASE i = 1
      BY <1>3, <1>6, <2>2, <3>1
    <3>2. CASE i # 1
      <4>1. i \in 2..n /\ i \in 2..(n + 1) /\ i - 1 # 0
        BY <1>1, <3>2
      <4>2. f[i - 1] = g[i - 1] /\ tt[i] = ss[i]
        BY <1>3, <2>4, <4>1
      <4>3. f[i] = f[i - 1] \o ss[i] /\ g[i] = g[i - 1] \o tt[i]
        BY <1>6, <2>2, <4>1
      <4>4. f[i] = g[i] /\ i \in 0..n
        BY <4>2, <4>3
      <4> QED BY <4>4
    <3> QED BY <3>1, <3>2
  <2> HIDE DEF P
  <2>5. 0..n \subseteq P
    BY <1>1, <2>3, <2>4, UpTo
  <2>6. n \in 0..n /\ n + 1 \in 2..(n + 1) /\ (n + 1) - 1 = n
    BY <1>1, <2>1
  <2>7. f[n] = g[n]
    BY <2>1, <2>5, <2>6 DEF P
  <2>8. g[n + 1] = g[n] \o tt[n + 1]
    BY <1>6, <2>6
  <2> QED BY <1>3, <1>4, <1>6, <2>2, <2>7, <2>8 DEF u
<1> QED BY <1>7, <1>8

LEMMA ExpOne ==
  ASSUME NEW F \in Maps, NEW t \in Tokens
  PROVE  Exp(<<t>>, F) = F[t]
<1>1. Append(<<>>, t) = <<t>> /\ <<>> \in Texts /\ F[t] \in Texts
  BY EmptyText DEF Maps
<1>2. Exp(Append(<<>>, t), F) = Exp(<<>>, F) \o F[t]
  BY <1>1, ExpAppend
<1> QED BY <1>1, <1>2, ExpEmpty, EmptyText

LEMMA ExpConcat ==
  ASSUME NEW s \in Texts, NEW u \in Texts, NEW F \in Maps
  PROVE  Exp(s \o u, F) = Exp(s, F) \o Exp(u, F)
<1> DEFINE M == {x \in Texts : Exp(s \o x, F) = Exp(s, F) \o Exp(x, F)}
<1>1. <<>> \in M
  BY EmptyText, ExpEmpty, ExpText
<1>2. ASSUME NEW x \in Seq(Tokens), NEW t \in Tokens, x \in M PROVE Append(x, t) \in M
  <2>1. x \in Texts /\ Exp(s \o x, F) = Exp(s, F) \o Exp(x, F)
    BY <1>2
  <2>2. Append(x, t) \in Texts /\ Append(x, t) = x \o <<t>> /\ <<t>> \in Texts
    BY <2>1, AppendText
  <2>3. s \o x \in Texts
    BY <2>1, Joined
  <2>4. s \o Append(x, t) = Append(s \o x, t)
    <3>1. (s \o x) \o <<t>> = s \o (x \o <<t>>)
      BY <2>1, <2>2, JoinedThree
    <3>2. Append(s \o x, t) = (s \o x) \o <<t>>
      BY <2>3, AppendText
    <3> QED BY <2>2, <3>1, <3>2
  <2>5. Exp(Append(s \o x, t), F) = Exp(s \o x, F) \o F[t] /\ Exp(Append(x, t), F) = Exp(x, F) \o F[t]
    BY <2>1, <2>3, ExpAppend
  <2>6. (Exp(s, F) \o Exp(x, F)) \o F[t] = Exp(s, F) \o (Exp(x, F) \o F[t])
    <3>1. F[t] \in Texts /\ Exp(s, F) \in Texts /\ Exp(x, F) \in Texts
      BY <2>1, ExpText DEF Maps
    <3> QED BY <3>1, JoinedThree
  <2> QED BY <2>1, <2>2, <2>4, <2>5, <2>6
<1> HIDE DEF M
<1>3. Seq(Tokens) \subseteq M
  BY <1>1, <1>2, SeqInduction
<1> QED BY <1>3, Kinds DEF M

\* Texts of some of the tokens.
LEMMA TextOf ==
  ASSUME NEW Z \in SUBSET Tokens, NEW s \in Seq(Z)
  PROVE  s \in Texts
<1>1. s \in Seq(Tokens)
  OBVIOUS
<1> QED BY <1>1, Kinds

LEMMA ExpIdentity ==
  ASSUME NEW Z \in SUBSET Tokens, NEW F \in Maps, \A t \in Z : F[t] = <<t>>, NEW s \in Seq(Z)
  PROVE  Exp(s, F) = s
<1> DEFINE M == {x \in Texts : Exp(x, F) = x}
<1>1. <<>> \in M
  BY EmptyText, ExpEmpty
<1>2. ASSUME NEW x \in Seq(Z), NEW t \in Z, x \in M PROVE Append(x, t) \in M
  <2>1. x \in Texts /\ Exp(x, F) = x /\ t \in Tokens /\ F[t] = <<t>>
    BY <1>2
  <2>2. Append(x, t) \in Texts /\ Append(x, t) = x \o <<t>>
    BY <2>1, AppendText
  <2>3. Exp(Append(x, t), F) = x \o <<t>>
    BY <2>1, ExpAppend
  <2> QED BY <2>2, <2>3
<1> HIDE DEF M
<1>3. Seq(Z) \subseteq M
  BY <1>1, <1>2, SeqInduction
<1> QED BY <1>3 DEF M

\* One replacement after another.
LEMMA ExpCompose ==
  ASSUME NEW Z \in SUBSET Tokens, NEW F \in Maps, NEW G \in Maps, NEW H \in Maps,
         \A t \in Z : Exp(F[t], G) = H[t], NEW s \in Seq(Z)
  PROVE  Exp(Exp(s, F), G) = Exp(s, H)
<1> DEFINE M == {x \in Texts : Exp(Exp(x, F), G) = Exp(x, H)}
<1>1. <<>> \in M
  BY EmptyText, ExpEmpty
<1>2. ASSUME NEW x \in Seq(Z), NEW t \in Z, x \in M PROVE Append(x, t) \in M
  <2>1. x \in Texts /\ Exp(Exp(x, F), G) = Exp(x, H) /\ t \in Tokens /\ Exp(F[t], G) = H[t]
    BY <1>2
  <2>2. Exp(Append(x, t), F) = Exp(x, F) \o F[t] /\ Exp(Append(x, t), H) = Exp(x, H) \o H[t]
    BY <2>1, ExpAppend
  <2>3. Exp(x, F) \in Texts /\ F[t] \in Texts /\ Append(x, t) \in Texts
    BY <2>1, ExpText, AppendText DEF Maps
  <2>4. Exp(Exp(x, F) \o F[t], G) = Exp(Exp(x, F), G) \o Exp(F[t], G)
    BY <2>3, ExpConcat
  <2> QED BY <2>1, <2>2, <2>3, <2>4
<1> HIDE DEF M
<1>3. Seq(Z) \subseteq M
  BY <1>1, <1>2, SeqInduction
<1> QED BY <1>3 DEF M

-----------------------------------------------------------------------------
(* The placeholders, all at once.                                          *)

LEMMA Distinct ==
  /\ Blank # Quote /\ Blank # Danger /\ Quote # Danger
  /\ Safe \notin {Blank, Quote, Escape, Danger} /\ Root \notin {Blank, Quote, Escape, Danger}
  /\ Escape \notin {Blank, Quote, Danger}
  /\ Escape \notin Typed
BY TextAssumption DEF Blank, Quote, Escape, Danger, Safe, Root, Typed

\* What quote does to a quote.
Escaping == [t \in Tokens |-> IF t = Quote THEN <<Escape>> ELSE <<t>>]

\* What the placeholders of D become.
Filled(D) == [t \in Tokens |-> IF t \in D THEN quote(Value(t)) ELSE <<t>>]

\* Tokens that are no parameter.
Settled == Tokens \ Params

LEMMA EscapingMap == Escaping \in Maps
<1>1. Escape \in Tokens /\ \A t \in Tokens : <<t>> \in Texts
  BY Kinds, AppendText, EmptyText
<1> QED BY <1>1 DEF Escaping, Maps

LEMMA QuoteForm ==
  ASSUME NEW v \in Texts
  PROVE  quote(v) = IF v # <<>> /\ ToSet(v) \subseteq {Safe, Root} THEN v
                    ELSE <<Quote>> \o Exp(v, Escaping) \o <<Quote>>
<1>1. DOMAIN v = 1..Len(v) /\ \A i \in DOMAIN v : v[i] \in Tokens
  BY TextSize
<1>2. [i \in DOMAIN v |-> IF v[i] = Quote THEN <<Escape>> ELSE <<v[i]>>]
      = [i \in DOMAIN v |-> Escaping[v[i]]]
  BY <1>1 DEF Escaping
<1> QED BY <1>2 DEF quote, Expand, Exp

LEMMA ExpWithin ==
  ASSUME NEW Z \in SUBSET Tokens, NEW F \in Maps, \A t \in Z : F[t] \in Seq(Z), NEW s \in Seq(Z)
  PROVE  Exp(s, F) \in Seq(Z)
<1> DEFINE M == {x \in Texts : Exp(x, F) \in Seq(Z)}
<1>1. <<>> \in M
  <2>1. <<>> \in Seq(Z)
    OBVIOUS
  <2>2. Exp(<<>>, F) = <<>>
    BY ExpEmpty
  <2> QED BY <2>1, <2>2, EmptyText
<1>2. ASSUME NEW x \in Seq(Z), NEW t \in Z, x \in M PROVE Append(x, t) \in M
  <2>1. x \in Texts /\ Exp(x, F) \in Seq(Z) /\ t \in Tokens /\ F[t] \in Seq(Z)
    BY <1>2
  <2>2. Append(x, t) \in Texts
    BY <2>1, AppendText
  <2>3. Exp(Append(x, t), F) = Exp(x, F) \o F[t]
    BY <2>1, ExpAppend
  <2>4. Exp(x, F) \o F[t] \in Seq(Z)
    BY <2>1
  <2> QED BY <2>2, <2>3, <2>4
<1> HIDE DEF M
<1>3. Seq(Z) \subseteq M
  BY <1>1, <1>2, SeqInduction
<1> QED BY <1>3 DEF M

LEMMA QuoteWithin ==
  ASSUME NEW Z \in SUBSET Tokens, Quote \in Z, Escape \in Z, NEW v \in Seq(Z)
  PROVE  quote(v) \in Seq(Z)
<1>1. v \in Texts
  BY TextOf
<1>2. \A t \in Z : Escaping[t] \in Seq(Z)
  BY DEF Escaping
<1>3. Exp(v, Escaping) \in Seq(Z)
  BY <1>2, EscapingMap, ExpWithin
<1>4. <<Quote>> \in Seq(Z)
  OBVIOUS
<1>5. <<Quote>> \o Exp(v, Escaping) \o <<Quote>> \in Seq(Z)
  BY <1>3, <1>4
<1> QED BY <1>1, <1>5, QuoteForm

\* Each placeholder's value is typed by a caller or an administrator.
LEMMA FilledMap ==
  ASSUME TextTypeOK, Accepted, NEW D \in SUBSET Placeholders
  PROVE  /\ Filled(D) \in Maps
         /\ \A p \in D : p \in Params /\ p \in Tokens /\ Value(p) \in Seq(Typed) /\ quote(Value(p)) \in Texts
<1>1. ASSUME NEW p \in D
      PROVE  p \in Params /\ p \in Tokens /\ Value(p) \in Seq(Typed) /\ quote(Value(p)) \in Texts
  <2>1. p \in Params /\ Specified(p) /\ Value(p) # Undefined
    BY DEF Accepted, Placeholders
  <2>2. p \in Tokens
    BY <2>1, Kinds DEF Typed
  <2> QED BY <2>1, <2>2, ValueText, QuoteText
<1>2. \A t \in Tokens : <<t>> \in Texts
  BY AppendText, EmptyText
<1> QED BY <1>1, <1>2 DEF Filled, Maps

\* What Substituted does, one parameter after the other.
LEMMA SubstitutionTable ==
  ASSUME TextTypeOK, Accepted
  PROVE  \E g \in [0..Len(Order) -> Texts] :
           /\ g[0] = entry.cmd /\ Substituted = g[Len(Order)]
           /\ \A i \in 1..Len(Order) :
                g[i] = IF Order[i] \notin Placeholders THEN g[i - 1]
                       ELSE Exp(g[i - 1], Filled({Order[i]}))
<1> DEFINE n == Len(Order)
           new(i, x) == IF Order[i] \notin Placeholders THEN x
                        ELSE FlattenSeq([j \in DOMAIN x |->
                               IF x[j] = Order[i] THEN quote(Value(x[j])) ELSE <<x[j]>>])
           F == [i \in 1..n |-> [x \in Texts |-> new(i, x)]]
           after[i \in 0..n] == IF i = 0 THEN entry.cmd ELSE new(i, after[i - 1])
           from[i \in 0..n] ==
             IF i = 0 THEN entry.cmd
             ELSE IF Order[i] \notin Placeholders THEN from[i - 1]
             ELSE FlattenSeq([j \in DOMAIN from[i - 1] |->
                    IF from[i - 1][j] = Order[i] THEN quote(Value(from[i - 1][j])) ELSE <<from[i - 1][j]>>])
<1>1. n \in Nat /\ entry.cmd \in Texts
  BY TextAssumption, Kinds DEF TextTypeOK
<1>2. Substituted = from[n]
  BY DEF Substituted, Expand
<1>3. from = after
  OBVIOUS
<1> HIDE DEF from
<1>4. (\E f : f = [i \in 0..n |-> IF i = 0 THEN entry.cmd ELSE new(i, f[i - 1])])
      => after = [i \in 0..n |-> IF i = 0 THEN entry.cmd ELSE new(i, after[i - 1])]
  OBVIOUS
<1> HIDE DEF after, n
<1>5. ASSUME NEW i \in 1..n, NEW x \in Texts
      PROVE  /\ new(i, x) = IF Order[i] \notin Placeholders THEN x ELSE Exp(x, Filled({Order[i]}))
             /\ new(i, x) \in Texts
  <2>1. CASE Order[i] \notin Placeholders
    BY <2>1
  <2>2. CASE Order[i] \in Placeholders
    <3>1. Filled({Order[i]}) \in Maps
      BY <2>2, FilledMap
    <3>2. DOMAIN x = 1..Len(x) /\ \A j \in DOMAIN x : x[j] \in Tokens
      BY TextSize
    <3>3. [j \in DOMAIN x |-> IF x[j] = Order[i] THEN quote(Value(x[j])) ELSE <<x[j]>>]
          = [j \in DOMAIN x |-> Filled({Order[i]})[x[j]]]
      BY <3>2 DEF Filled
    <3>4. new(i, x) = Exp(x, Filled({Order[i]}))
      BY <2>2, <3>3 DEF Exp
    <3> HIDE DEF new
    <3> QED BY <2>2, <3>1, <3>4, ExpText
  <2> QED BY <2>1, <2>2
<1> HIDE DEF new
<1>6. F \in StepsOn(n, Texts)
  BY <1>5 DEF StepsOn
<1>7. \A i \in 1..n, x \in Texts : F[i][x] = new(i, x)
  OBVIOUS
<1> HIDE DEF F
<1>8. PICK g \in [0..n -> Texts] : Iterates(g, n, entry.cmd, F)
  BY <1>1, <1>6, Iterated
<1>9. g = [i \in 0..n |-> IF i = 0 THEN entry.cmd ELSE F[i][g[i - 1]]]
  BY <1>1, <1>8, Unfolds
<1>10. g = [i \in 0..n |-> IF i = 0 THEN entry.cmd ELSE new(i, g[i - 1])]
  <2>1. ASSUME NEW i \in 0..n, i # 0 PROVE F[i][g[i - 1]] = new(i, g[i - 1])
    <3>1. i \in 1..n /\ i - 1 \in 0..n
      BY <1>1, <2>1
    <3>2. g[i - 1] \in Texts
      BY <3>1
    <3> QED BY <1>7, <3>1, <3>2
  <2> QED BY <1>9, <2>1
<1>11. after = [i \in 0..n |-> IF i = 0 THEN entry.cmd ELSE new(i, after[i - 1])]
  BY <1>4, <1>10
<1>12. after[0] = entry.cmd /\ \A i \in 1..n : after[i] = new(i, after[i - 1])
  <2>1. 0 \in 0..n /\ \A i \in 1..n : i \in 0..n /\ i # 0
    BY <1>1
  <2> QED BY <1>11, <2>1
<1> DEFINE P == {i \in 0..n : after[i] \in Texts}
<1>13. 0 \in P
  BY <1>1, <1>12
<1>14. ASSUME NEW i \in 1..n, i - 1 \in P PROVE i \in P
  <2>1. i \in 0..n /\ after[i - 1] \in Texts
    BY <1>14
  <2> QED BY <1>5, <1>12, <2>1
<1> HIDE DEF P
<1>15. 0..n \subseteq P
  BY <1>1, <1>13, <1>14, UpTo
<1>16. \A i \in 0..n : after[i] \in Texts
  BY <1>15 DEF P
<1>17. \E e : after = [i \in 0..n |-> e[i]]
  <2> DEFINE e == [i \in 0..n |-> IF i = 0 THEN entry.cmd ELSE new(i, after[i - 1])]
  <2>1. e = [i \in 0..n |-> e[i]]
    OBVIOUS
  <2>2. after = e
    BY <1>11
  <2> HIDE DEF e
  <2> QED BY <2>1, <2>2
<1>18. after \in [0..n -> Texts]
  BY <1>16, <1>17
<1>19. ASSUME NEW i \in 1..n
       PROVE  after[i] = IF Order[i] \notin Placeholders THEN after[i - 1]
                         ELSE Exp(after[i - 1], Filled({Order[i]}))
  <2>1. i - 1 \in 0..n
    BY <1>1
  <2>2. after[i - 1] \in Texts
    BY <1>16, <2>1
  <2> QED BY <1>5, <1>12, <2>2
<1>20. Substituted = after[n]
  BY <1>2, <1>3
<1> QED BY <1>12, <1>18, <1>19, <1>20 DEF n

\* What comes of a template is a text again.
LEMMA SubstitutedText ==
  ASSUME TextTypeOK, Accepted
  PROVE  Substituted \in Texts
<1>1. PICK g \in [0..Len(Order) -> Texts] : Substituted = g[Len(Order)]
  BY SubstitutionTable
<1>2. Len(Order) \in 0..Len(Order)
  BY TextAssumption
<1> QED BY <1>1, <1>2

\* A value that names no parameter stays as it is.
LEMMA SubstitutedAtOnce ==
  ASSUME TextTypeOK, Accepted, ~ Nested
  PROVE  Substituted = Exp(entry.cmd, Filled(Placeholders))
<1> DEFINE n == Len(Order)
           D(i) == {Order[j] : j \in 1..i} \cap Placeholders
<1>1. n \in Nat /\ entry.cmd \in Seq(Tokens) /\ Texts = Seq(Tokens)
  BY TextAssumption, Kinds DEF TextTypeOK
<1>2. PICK g \in [0..n -> Texts] :
        /\ g[0] = entry.cmd /\ Substituted = g[n]
        /\ \A i \in 1..n : g[i] = IF Order[i] \notin Placeholders THEN g[i - 1]
                                  ELSE Exp(g[i - 1], Filled({Order[i]}))
  BY SubstitutionTable
<1>3. ASSUME NEW p \in Placeholders PROVE quote(Value(p)) \in Seq(Settled)
  <2>1. Value(p) \in Seq(Typed) /\ ToSet(Value(p)) \cap Params = {}
    BY FilledMap DEF Nested
  <2>2. DOMAIN Value(p) = 1..Len(Value(p)) /\ \A i \in 1..Len(Value(p)) : Value(p)[i] \in Settled
    BY <2>1, Kinds DEF ToSet, Settled
  <2>3. Value(p) \in Seq(Settled)
    BY <2>1, <2>2
  <2>4. Quote \in Settled /\ Escape \in Settled /\ Settled \in SUBSET Tokens
    BY TextAssumption, Kinds DEF Settled
  <2> QED BY <2>3, <2>4, QuoteWithin
<1>4. ASSUME NEW E \in SUBSET Placeholders, NEW p \in Placeholders
      PROVE  Exp(Exp(entry.cmd, Filled(E)), Filled({p})) = Exp(entry.cmd, Filled(E \cup {p}))
  <2>1. Filled(E) \in Maps /\ Filled({p}) \in Maps /\ Filled(E \cup {p}) \in Maps
    BY FilledMap
  <2>2. ASSUME NEW t \in Tokens PROVE Exp(Filled(E)[t], Filled({p})) = Filled(E \cup {p})[t]
    <3>1. CASE t \in E
      <4>1. Filled(E)[t] = quote(Value(t)) /\ Filled(E \cup {p})[t] = quote(Value(t))
        BY <3>1 DEF Filled
      <4>2. \A x \in Settled : x \in Tokens /\ x # p
        BY DEF Settled, Placeholders
      <4>3. Settled \in SUBSET Tokens /\ \A x \in Settled : Filled({p})[x] = <<x>>
        BY <4>2 DEF Filled
      <4>4. quote(Value(t)) \in Seq(Settled)
        BY <1>3, <3>1
      <4> QED BY <2>1, <4>1, <4>3, <4>4, ExpIdentity
    <3>2. CASE t \notin E
      <4>1. Filled(E)[t] = <<t>> /\ Filled(E \cup {p})[t] = Filled({p})[t]
        BY <3>2 DEF Filled
      <4> QED BY <2>1, <4>1, ExpOne
    <3> QED BY <3>1, <3>2
  <2> DEFINE F == Filled(E)
             G == Filled({p})
             H == Filled(E \cup {p})
             c == entry.cmd
  <2>3. F \in Maps /\ G \in Maps /\ H \in Maps /\ (\A t \in Tokens : Exp(F[t], G) = H[t]) /\ c \in Seq(Tokens)
    BY <1>1, <2>1, <2>2
  <2>4. Tokens \in SUBSET Tokens
    OBVIOUS
  <2> HIDE DEF F, G, H, c
  <2>5. Exp(Exp(c, F), G) = Exp(c, H)
    BY <2>3, <2>4, ExpCompose
  <2> QED BY <2>5 DEF F, G, H, c
<1> DEFINE P == {i \in 0..n : g[i] = Exp(entry.cmd, Filled(D(i)))}
<1>5. 0 \in P
  <2>1. D(0) = {}
    OBVIOUS
  <2>2. Filled({}) \in Maps /\ \A t \in Tokens : Filled({})[t] = <<t>>
      <3>1. {} \in SUBSET Placeholders
      OBVIOUS
    <3>2. Filled({}) \in Maps
      BY <3>1, FilledMap
    <3> QED BY <3>2 DEF Filled
  <2>3. Exp(entry.cmd, Filled({})) = entry.cmd
    <3>1. Tokens \in SUBSET Tokens
      OBVIOUS
    <3> QED BY <1>1, <2>2, <3>1, ExpIdentity
  <2>4. 0 \in 0..n
    BY <1>1
  <2> QED BY <1>2, <2>1, <2>3, <2>4
<1>6. ASSUME NEW i \in 1..n, i - 1 \in P PROVE i \in P
  <2>1. i \in 0..n /\ g[i - 1] = Exp(entry.cmd, Filled(D(i - 1))) /\ D(i - 1) \in SUBSET Placeholders
    BY <1>6
  <2>2. {Order[j] : j \in 1..i} = {Order[j] : j \in 1..(i - 1)} \cup {Order[i]}
    <3>1. \A j : j \in 1..i <=> j \in 1..(i - 1) \/ j = i
      BY <1>1
    <3> QED BY <3>1
  <2>3. CASE Order[i] \notin Placeholders
    <3>1. D(i) = D(i - 1)
      BY <2>2, <2>3
    <3> QED BY <1>2, <2>1, <2>3, <3>1
  <2>4. CASE Order[i] \in Placeholders
    <3>1. D(i) = D(i - 1) \cup {Order[i]}
      BY <2>2, <2>4
    <3> HIDE DEF D
    <3>2. g[i] = Exp(Exp(entry.cmd, Filled(D(i - 1))), Filled({Order[i]}))
      BY <1>2, <2>1, <2>4
    <3>3. g[i] = Exp(entry.cmd, Filled(D(i)))
      BY <1>4, <2>1, <2>4, <3>1, <3>2
    <3> QED BY <2>1, <3>3
  <2> QED BY <2>3, <2>4
<1> HIDE DEF P
<1>7. 0..n \subseteq P
  BY <1>1, <1>5, <1>6, UpTo
<1>8. g[n] = Exp(entry.cmd, Filled(D(n)))
  <2>1. n \in 0..n
    BY <1>1
  <2> QED BY <1>7, <2>1 DEF P
<1>9. D(n) = Placeholders
  BY <1>1 DEF Placeholders, Params, ToSet
<1> QED BY <1>2, <1>8, <1>9

-----------------------------------------------------------------------------
(* Reading.                                                                *)

States(S) == [words: Seq(Seq(S)), word: Seq(S), open: BOOLEAN, quoted: BOOLEAN]

\* Reading s from the state r ends in q.
Reads(S, s, r, g)    == g[0] = r /\ \A i \in 1..Len(s) : g[i] = ReadToken(g[i - 1], s[i])
Leads(S, s, r, q)    == \E g \in [0..Len(s) -> States(S)] : Reads(S, s, r, g) /\ g[Len(s)] = q

LEMMA StateFields ==
  ASSUME NEW S, NEW r \in States(S)
  PROVE  /\ r.words \in Seq(Seq(S)) /\ r.word \in Seq(S) /\ r.open \in BOOLEAN /\ r.quoted \in BOOLEAN
         /\ \A a \in Seq(Seq(S)) : [r EXCEPT !.words = a] \in States(S)
         /\ \A a \in Seq(Seq(S)), b \in Seq(S) :
              [r EXCEPT !.words = a, !.word = b, !.open = FALSE] \in States(S)
         /\ \A b \in Seq(S) : [r EXCEPT !.word = b, !.open = TRUE] \in States(S)
         /\ \A c \in BOOLEAN : [r EXCEPT !.quoted = c, !.open = TRUE] \in States(S)
BY DEF States

LEMMA StateAppends ==
  ASSUME NEW S, NEW r \in States(S)
  PROVE  /\ \A a \in Seq(S) : Append(r.words, a) \in Seq(Seq(S))
         /\ \A t \in S : Append(r.word, t) \in Seq(S)
         /\ Append(r.words, r.word) \in Seq(Seq(S)) /\ <<>> \in Seq(S)
<1>1. r.words \in Seq(Seq(S)) /\ r.word \in Seq(S)
  BY StateFields
<1> QED BY <1>1, AppendProperties

LEMMA ReadTyped ==
  ASSUME NEW S, Quote \in S, Danger \in S, NEW r \in States(S)
  PROVE  EndWord(r) \in States(S) /\ \A t \in S : ReadToken(r, t) \in States(S)
<1>1. EndWord(r) \in States(S)
  <2>1. Append(r.words, r.word) \in Seq(Seq(S)) /\ <<>> \in Seq(S)
    BY StateAppends
  <2>2. [r EXCEPT !.words = Append(r.words, r.word), !.word = <<>>, !.open = FALSE] \in States(S)
    BY <2>1, StateFields
  <2> QED BY <2>2 DEF EndWord
<1>2. <<Danger>> \in Seq(S)
  OBVIOUS
<1>3. ASSUME NEW t \in S PROVE ReadToken(r, t) \in States(S)
  <2>1. [r EXCEPT !.quoted = ~r.quoted, !.open = TRUE] \in States(S)
    <3>1. (~ r.quoted) \in BOOLEAN
      OBVIOUS
    <3> QED BY <3>1, StateFields
  <2>2. [r EXCEPT !.word = Append(r.word, Quote), !.open = TRUE] \in States(S)
    <3>1. Append(r.word, Quote) \in Seq(S)
      BY StateAppends
    <3> QED BY <3>1, StateFields
  <2>3. [r EXCEPT !.word = Append(r.word, t), !.open = TRUE] \in States(S)
    <3>1. Append(r.word, t) \in Seq(S)
      BY StateAppends
    <3> QED BY <3>1, StateFields
  <2> DEFINE e == EndWord(r)
  <2>4. e \in States(S)
    BY <1>1
  <2> HIDE DEF e
  <2>5. [e EXCEPT !.words = Append(e.words, <<Danger>>)] \in States(S)
    <3>1. Append(e.words, <<Danger>>) \in Seq(Seq(S))
      BY <1>2, <2>4, StateAppends
    <3> QED BY <2>4, <3>1, StateFields
  <2> QED BY <2>1, <2>2, <2>3, <2>4, <2>5 DEF ReadToken, e
<1> QED BY <1>1, <1>3

LEMMA LeadsEmpty ==
  ASSUME NEW S, NEW r \in States(S)
  PROVE  Leads(S, <<>>, r, r)
<1> DEFINE g == [i \in 0..0 |-> r]
<1>1. g \in [0..Len(<<>>) -> States(S)] /\ g[0] = r /\ g[Len(<<>>)] = r
  OBVIOUS
<1>2. \A i \in 1..Len(<<>>) : FALSE
  OBVIOUS
<1> HIDE DEF g
<1> QED BY <1>1, <1>2 DEF Leads, Reads

LEMMA LeadsTyped ==
  ASSUME NEW S, NEW s \in Seq(S), NEW r, NEW q, Leads(S, s, r, q)
  PROVE  q \in States(S)
BY DEF Leads

LEMMA LeadsAppend ==
  ASSUME NEW S, Quote \in S, Danger \in S, NEW s \in Seq(S), NEW t \in S,
         NEW r, NEW q, Leads(S, s, r, q)
  PROVE  Leads(S, Append(s, t), r, ReadToken(q, t))
<1> DEFINE n == Len(s)
           u == Append(s, t)
           e == ReadToken(q, t)
<1>1. PICK g \in [0..n -> States(S)] : Reads(S, s, r, g) /\ g[n] = q
  BY DEF Leads
<1>2. n \in Nat /\ Len(u) = n + 1 /\ (\A i \in 1..n : u[i] = s[i]) /\ u[n + 1] = t
  BY AppendProperties
<1>3. e \in States(S)
  BY LeadsTyped, ReadTyped
<1> DEFINE h == [i \in 0..(n + 1) |-> IF i = n + 1 THEN e ELSE g[i]]
<1> HIDE DEF n, u, e
<1>4. h \in [0..(n + 1) -> States(S)] /\ h[n + 1] = e /\ \A i \in 0..n : h[i] = g[i]
  <2>1. \A i \in 0..(n + 1) : i # n + 1 => i \in 0..n
    BY <1>2
  <2>2. \A i \in 0..n : i \in 0..(n + 1) /\ i # n + 1
    BY <1>2
  <2>3. n + 1 \in 0..(n + 1)
    BY <1>2
  <2> QED BY <1>3, <2>1, <2>2, <2>3
<1> HIDE DEF h
<1>5. Reads(S, u, r, h)
  <2>1. h[0] = r
    <3>1. 0 \in 0..n
      BY <1>2
    <3> QED BY <1>1, <1>4, <3>1 DEF Reads
  <2>2. ASSUME NEW i \in 1..Len(u) PROVE h[i] = ReadToken(h[i - 1], u[i])
    <3>1. i - 1 \in 0..n
      BY <1>2
    <3>2. CASE i = n + 1
      <4>1. i - 1 = n
        BY <1>2, <3>2
      <4>2. h[i - 1] = q
        BY <1>1, <1>4, <3>1, <4>1
      <4> QED BY <1>2, <1>4, <3>2, <4>2 DEF e
    <3>3. CASE i # n + 1
      <4>1. i \in 1..n /\ i \in 0..n
        BY <1>2, <3>3
      <4>2. g[i] = ReadToken(g[i - 1], s[i])
        BY <1>1, <4>1 DEF Reads, n
      <4> QED BY <1>2, <1>4, <3>1, <4>1, <4>2
    <3> QED BY <3>2, <3>3
  <2> QED BY <2>1, <2>2 DEF Reads
<1>6. Leads(S, u, r, e)
  BY <1>2, <1>4, <1>5 DEF Leads
<1> QED BY <1>6 DEF u, e

LEMMA LeadsRead ==
  ASSUME NEW S, NEW s \in Seq(S), NEW q, Leads(S, s, NothingRead, q)
  PROVE  Read(s) = EndWord(q).words
<1> DEFINE n == Len(s)
           upto[i \in 0..n] == IF i = 0 THEN NothingRead ELSE ReadToken(upto[i - 1], s[i])
<1>1. n \in Nat
  OBVIOUS
<1>2. Read(s) = EndWord(upto[n]).words
  BY DEF Read
<1>3. (\E f : f = [i \in 0..n |-> IF i = 0 THEN NothingRead ELSE ReadToken(f[i - 1], s[i])])
      => upto = [i \in 0..n |-> IF i = 0 THEN NothingRead ELSE ReadToken(upto[i - 1], s[i])]
  OBVIOUS
<1> HIDE DEF upto
<1>4. PICK g \in [0..n -> States(S)] :
        g[0] = NothingRead /\ g[n] = q /\ \A i \in 1..n : g[i] = ReadToken(g[i - 1], s[i])
  BY DEF Leads, Reads
<1> HIDE DEF n
<1>5. g = [i \in 0..n |-> IF i = 0 THEN NothingRead ELSE ReadToken(g[i - 1], s[i])]
  <2>1. ASSUME NEW i \in 0..n
        PROVE  g[i] = IF i = 0 THEN NothingRead ELSE ReadToken(g[i - 1], s[i])
    <3>1. i # 0 => i \in 1..n
      BY <1>1
    <3> QED BY <1>4, <3>1
  <2> QED BY <2>1
<1>6. upto = [i \in 0..n |-> IF i = 0 THEN NothingRead ELSE ReadToken(upto[i - 1], s[i])]
  BY <1>3, <1>5
<1> DEFINE P == {i \in 0..n : upto[i] = g[i]}
<1>7. 0 \in P
  BY <1>1, <1>4, <1>6
<1>8. ASSUME NEW i \in 1..n, i - 1 \in P PROVE i \in P
  <2>1. i \in 0..n /\ i # 0 /\ upto[i - 1] = g[i - 1]
    BY <1>1, <1>8
  <2>2. upto[i] = ReadToken(upto[i - 1], s[i])
    BY <1>6, <2>1
  <2> QED BY <1>4, <2>1, <2>2
<1> HIDE DEF P
<1>9. 0..n \subseteq P
  BY <1>1, <1>7, <1>8, UpTo
<1>10. upto[n] = q
  BY <1>1, <1>4, <1>9 DEF P
<1> QED BY <1>2, <1>10

\* Changes of a state.
Put(r, t)    == [r EXCEPT !.word = Append(r.word, t), !.open = TRUE]
Turn(r)      == [r EXCEPT !.quoted = ~ r.quoted, !.open = TRUE]
AddWord(r, w) == [r EXCEPT !.words = Append(r.words, w)]

\* One token.
LEMMA TokenRead ==
  ASSUME NEW r, NEW t
  PROVE  /\ t = Quote => ReadToken(r, t) = Turn(r)
         /\ t = Escape => ReadToken(r, t) = Put(r, Quote)
         /\ t = Blank /\ ~ r.quoted => ReadToken(r, t) = EndWord(r)
         /\ t = Danger /\ ~ r.quoted => ReadToken(r, t) = AddWord(EndWord(r), <<Danger>>)
         /\ t \notin {Quote, Escape} /\ (r.quoted \/ t \notin {Blank, Danger}) => ReadToken(r, t) = Put(r, t)
BY Distinct DEF ReadToken, Put, Turn, AddWord

LEMMA StateForms ==
  ASSUME NEW S, NEW r \in States(S)
  PROVE  /\ \A t : Put(r, t) = [words |-> r.words, word |-> Append(r.word, t), open |-> TRUE, quoted |-> r.quoted]
         /\ Turn(r) = [words |-> r.words, word |-> r.word, open |-> TRUE, quoted |-> ~ r.quoted]
         /\ \A w : AddWord(r, w) =
              [words |-> Append(r.words, w), word |-> r.word, open |-> r.open, quoted |-> r.quoted]
         /\ EndWord(r) = IF r.open THEN [words |-> Append(r.words, r.word), word |-> <<>>, open |-> FALSE,
                                         quoted |-> r.quoted]
                         ELSE r
<1>1. ASSUME NEW a, NEW b, NEW c
      PROVE  /\ [r EXCEPT !.word = b, !.open = TRUE]
                 = [words |-> r.words, word |-> b, open |-> TRUE, quoted |-> r.quoted]
             /\ [r EXCEPT !.quoted = c, !.open = TRUE]
                 = [words |-> r.words, word |-> r.word, open |-> TRUE, quoted |-> c]
             /\ [r EXCEPT !.words = a]
                 = [words |-> a, word |-> r.word, open |-> r.open, quoted |-> r.quoted]
             /\ [r EXCEPT !.words = a, !.word = b, !.open = FALSE]
                 = [words |-> a, word |-> b, open |-> FALSE, quoted |-> r.quoted]
  <2> DEFINE Only(x1, x2, x3, x4) == [words: {x1}, word: {x2}, open: {x3}, quoted: {x4}]
  <2>1. \A x1, x2, x3, x4 : \A x \in Only(x1, x2, x3, x4) :
          x = [words |-> x1, word |-> x2, open |-> x3, quoted |-> x4]
    OBVIOUS
  <2>2. [r EXCEPT !.word = b, !.open = TRUE] \in Only(r.words, b, TRUE, r.quoted)
    BY DEF States
  <2>3. [r EXCEPT !.quoted = c, !.open = TRUE] \in Only(r.words, r.word, TRUE, c)
    BY DEF States
  <2>4. [r EXCEPT !.words = a] \in Only(a, r.word, r.open, r.quoted)
    BY DEF States
  <2>5. [r EXCEPT !.words = a, !.word = b, !.open = FALSE] \in Only(a, b, FALSE, r.quoted)
    BY DEF States
  <2> HIDE DEF Only
  <2>6. [r EXCEPT !.word = b, !.open = TRUE] = [words |-> r.words, word |-> b, open |-> TRUE, quoted |-> r.quoted]
    BY <2>1, <2>2, Zenon
  <2>7. [r EXCEPT !.quoted = c, !.open = TRUE] = [words |-> r.words, word |-> r.word, open |-> TRUE, quoted |-> c]
    BY <2>1, <2>3, Zenon
  <2>8. [r EXCEPT !.words = a] = [words |-> a, word |-> r.word, open |-> r.open, quoted |-> r.quoted]
    BY <2>1, <2>4, Zenon
  <2>9. [r EXCEPT !.words = a, !.word = b, !.open = FALSE]
        = [words |-> a, word |-> b, open |-> FALSE, quoted |-> r.quoted]
    BY <2>1, <2>5, Zenon
  <2> QED BY <2>6, <2>7, <2>8, <2>9
<1>2. \A t : Put(r, t) = [words |-> r.words, word |-> Append(r.word, t), open |-> TRUE, quoted |-> r.quoted]
  BY <1>1 DEF Put
<1>3. Turn(r) = [words |-> r.words, word |-> r.word, open |-> TRUE, quoted |-> ~ r.quoted]
  BY <1>1 DEF Turn
<1>4. \A w : AddWord(r, w) =
        [words |-> Append(r.words, w), word |-> r.word, open |-> r.open, quoted |-> r.quoted]
  BY <1>1 DEF AddWord
<1>5. EndWord(r) = IF r.open THEN [words |-> Append(r.words, r.word), word |-> <<>>, open |-> FALSE,
                                   quoted |-> r.quoted]
                   ELSE r
  BY <1>1 DEF EndWord
<1> QED BY <1>2, <1>3, <1>4, <1>5

\* x is read into the word.
Word(q, x) == [words |-> q.words, word |-> q.word \o x, open |-> TRUE, quoted |-> q.quoted]

\* r is q with x in its word, if it was only blank before.
Grown(r, q, x) == r.words = q.words /\ r.quoted = q.quoted /\ r.word = q.word \o x

LEMMA AppendBehind ==
  ASSUME NEW s \in Texts, NEW x \in Texts, NEW t \in Tokens
  PROVE  s \o Append(x, t) = Append(s \o x, t) /\ s \o (x \o <<t>>) = Append(s \o x, t)
<1>1. Append(x, t) = x \o <<t>> /\ <<t>> \in Texts /\ s \o x \in Texts
  BY AppendText, Joined
<1>2. (s \o x) \o <<t>> = s \o (x \o <<t>>)
  BY <1>1, JoinedThree
<1> QED BY <1>1, <1>2, AppendText

LEMMA WordFields ==
  ASSUME NEW q \in States(Tokens), NEW x \in Texts
  PROVE  /\ Word(q, x) \in States(Tokens) /\ Grown(Word(q, x), q, x) /\ Word(q, x).quoted = q.quoted
         /\ Grown(q, q, <<>>)
         /\ q.open => Word(q, <<>>) = q
<1>1. q.word \in Texts /\ q.words \in Seq(Seq(Tokens)) /\ q.quoted \in BOOLEAN /\ Texts = Seq(Tokens)
  BY StateFields, Kinds
<1>2. q.word \o <<>> = q.word /\ q.word \o x \in Texts
  BY <1>1, EmptyText, Joined
<1>3. Word(q, x) \in States(Tokens)
  BY <1>1, <1>2 DEF Word, States
<1>4. q.open => [words |-> q.words, word |-> q.word, open |-> TRUE, quoted |-> q.quoted] = q
  BY DEF States
<1> QED BY <1>2, <1>3, <1>4 DEF Word, Grown

\* What is read with one more token.
LEMMA WordGrows ==
  ASSUME NEW q \in States(Tokens), NEW r \in States(Tokens), NEW x \in Texts, NEW t \in Tokens,
         Grown(r, q, x)
  PROVE  Put(r, t) = Word(q, Append(x, t))
<1>1. q.word \in Texts
  BY StateFields, Kinds
<1>2. q.word \o Append(x, t) = Append(q.word \o x, t)
  BY <1>1, AppendBehind
<1>3. Append(r.word, t) = q.word \o Append(x, t)
  BY <1>2 DEF Grown
<1>4. Put(r, t) = [words |-> r.words, word |-> Append(r.word, t), open |-> TRUE, quoted |-> r.quoted]
  BY StateForms
<1> QED BY <1>3, <1>4 DEF Word, Grown

LEMMA SafeReads ==
  ASSUME NEW s \in Texts, NEW r, NEW q, Leads(Tokens, s, r, q), ~ q.quoted,
         NEW v \in Seq({Safe, Root} \cap Tokens), v # <<>>
  PROVE  Leads(Tokens, s \o v, r, Word(q, v))
<1> DEFINE After(x) == IF x = <<>> THEN q ELSE Word(q, x)
           M == {x \in Texts : Leads(Tokens, s \o x, r, After(x))}
<1>1. q \in States(Tokens) /\ s \in Seq(Tokens) /\ Texts = Seq(Tokens) /\ Quote \in Tokens /\ Danger \in Tokens
  BY LeadsTyped, Kinds DEF Typed
<1>2. <<>> \in M
  BY EmptyText
<1>3. ASSUME NEW x \in Seq({Safe, Root} \cap Tokens), NEW t \in {Safe, Root} \cap Tokens, x \in M
      PROVE  Append(x, t) \in M
  <2>1. x \in Texts /\ t \in Tokens /\ Leads(Tokens, s \o x, r, After(x)) /\ s \o x \in Seq(Tokens)
    BY <1>1, <1>3, Joined
  <2>2. Leads(Tokens, Append(s \o x, t), r, ReadToken(After(x), t))
    BY <1>1, <2>1, LeadsAppend
  <2>3. t \notin {Quote, Escape, Blank, Danger}
    BY Distinct
  <2>4. ReadToken(After(x), t) = Put(After(x), t)
    BY <2>3, TokenRead
  <2>5. Put(After(x), t) = Word(q, Append(x, t))
    <3>1. After(x) \in States(Tokens) /\ Grown(After(x), q, x)
      BY <1>1, <2>1, WordFields
    <3> HIDE DEF After
    <3> QED BY <1>1, <2>1, <3>1, WordGrows
  <2>6. Append(x, t) \in Texts /\ Append(x, t) # <<>> /\ s \o Append(x, t) = Append(s \o x, t)
    <3>1. Append(x, t) # <<>>
      BY <1>1, <2>1, AppendProperties
    <3> QED BY <2>1, <3>1, AppendText, AppendBehind
  <2> QED BY <2>2, <2>4, <2>5, <2>6
<1> HIDE DEF M
<1>4. Seq({Safe, Root} \cap Tokens) \subseteq M
  BY <1>2, <1>3, SeqInduction
<1> QED BY <1>4 DEF M

LEMMA QuotedReads ==
  ASSUME NEW s \in Texts, NEW r, NEW q, Leads(Tokens, s, r, q), q.quoted, q.open,
         NEW v \in Seq(Typed)
  PROVE  Leads(Tokens, s \o Exp(v, Escaping), r, Word(q, v))
<1> DEFINE M == {x \in Texts : Leads(Tokens, s \o Exp(x, Escaping), r, Word(q, x))}
<1>1. /\ q \in States(Tokens) /\ s \in Seq(Tokens) /\ Texts = Seq(Tokens) /\ Quote \in Tokens /\ Danger \in Tokens
      /\ Typed \subseteq Tokens /\ Escape \in Tokens
  BY LeadsTyped, Kinds DEF Typed
<1>2. <<>> \in M
  <2>1. Word(q, <<>>) = q /\ Exp(<<>>, Escaping) = <<>>
    BY <1>1, WordFields, ExpEmpty, EmptyText
  <2> QED BY <2>1, EmptyText
<1>3. ASSUME NEW x \in Seq(Typed), NEW t \in Typed, x \in M PROVE Append(x, t) \in M
  <2> DEFINE e == IF t = Quote THEN Escape ELSE t
             X == Exp(x, Escaping)
             a == Word(q, x)
  <2>1. x \in Texts /\ t \in Tokens /\ e \in Tokens /\ Leads(Tokens, s \o X, r, a) /\ X \in Texts /\ s \o X \in Seq(Tokens)
    BY <1>1, <1>3, Joined, ExpText, EscapingMap
  <2>2. a.quoted
    BY <1>1, <2>1, WordFields
  <2>3. Exp(Append(x, t), Escaping) = X \o <<e>>
    <3>1. Escaping[t] = <<e>>
      BY <2>1 DEF Escaping
    <3>2. Exp(Append(x, t), Escaping) = X \o Escaping[t]
      BY <2>1, ExpAppend, EscapingMap
    <3> HIDE DEF X, e
    <3> QED BY <3>1, <3>2
  <2>4. ReadToken(a, e) = Put(a, t)
    <3> HIDE DEF a
    <3>1. CASE t = Quote
      BY <3>1, TokenRead
    <3>2. CASE t # Quote
      <4>1. t \notin {Quote, Escape}
        BY <3>2, Distinct
      <4> QED BY <2>2, <3>2, <4>1, TokenRead
    <3> QED BY <3>1, <3>2
  <2>5. Put(a, t) = Word(q, Append(x, t))
    <3>1. a \in States(Tokens) /\ Grown(a, q, x)
      BY <1>1, <2>1, WordFields
    <3> HIDE DEF a
    <3> QED BY <1>1, <2>1, <3>1, WordGrows
  <2> HIDE DEF e, X, a
  <2>6. s \o (X \o <<e>>) = Append(s \o X, e)
    BY <2>1, AppendBehind
  <2>7. Leads(Tokens, Append(s \o X, e), r, ReadToken(a, e))
    BY <1>1, <2>1, LeadsAppend
  <2>8. Append(x, t) \in Texts
    BY <2>1, AppendText
  <2> QED BY <2>3, <2>4, <2>5, <2>6, <2>7, <2>8
<1> HIDE DEF M
<1>4. Seq(Typed) \subseteq M
  BY <1>2, <1>3, SeqInduction
<1> QED BY <1>4 DEF M

\* A quoted value is read into one word, whatever characters it has.
LEMMA QuoteReads ==
  ASSUME NEW s \in Texts, NEW r, NEW q, Leads(Tokens, s, r, q), ~ q.quoted,
         NEW v \in Seq(Typed)
  PROVE  Leads(Tokens, s \o quote(v), r, Word(q, v))
<1>1. /\ q \in States(Tokens) /\ s \in Seq(Tokens) /\ Texts = Seq(Tokens) /\ Quote \in Tokens /\ Danger \in Tokens
      /\ v \in Texts /\ Typed \subseteq Tokens
  BY LeadsTyped, Kinds DEF Typed
<1>2. CASE v # <<>> /\ ToSet(v) \subseteq {Safe, Root}
  <2>1. quote(v) = v
    BY <1>1, <1>2, QuoteForm
  <2>2. v \in Seq({Safe, Root} \cap Tokens)
    <3>1. v \in Seq(Tokens) /\ \A i \in 1..Len(v) : v[i] \in {Safe, Root} \cap Tokens
      BY <1>1, <1>2 DEF ToSet
    <3> QED BY <3>1
  <2> QED BY <1>2, <2>1, <2>2, SafeReads
<1>3. CASE ~ (v # <<>> /\ ToSet(v) \subseteq {Safe, Root})
  <2> DEFINE X  == Exp(v, Escaping)
             s1 == Append(s, Quote)
             q1 == Turn(q)
             q2 == Word(q1, v)
             q3 == Turn(q2)
  <2>1. quote(v) = <<Quote>> \o X \o <<Quote>>
    BY <1>1, <1>3, QuoteForm
  <2>2. X \in Texts /\ s1 \in Texts /\ s1 = s \o <<Quote>> /\ <<Quote>> \in Texts
    BY <1>1, ExpText, EscapingMap, AppendText
  <2>3. Leads(Tokens, s1, r, q1)
    <3>1. ReadToken(q, Quote) = q1
      BY TokenRead
    <3> QED BY <1>1, <3>1, LeadsAppend
  <2>4. q1 \in States(Tokens) /\ q1.quoted /\ q1.open
    <3>1. q1 = [words |-> q.words, word |-> q.word, open |-> TRUE, quoted |-> ~ q.quoted]
      BY <1>1, StateForms
    <3>2. q.words \in Seq(Seq(Tokens)) /\ q.word \in Seq(Tokens)
      BY <1>1, StateFields
    <3>3. (~ q.quoted) = TRUE
      OBVIOUS
    <3> HIDE DEF q1
    <3>4. q1 = [words |-> q.words, word |-> q.word, open |-> TRUE, quoted |-> TRUE]
      BY <3>1, <3>3
    <3> QED BY <3>2, <3>4 DEF States
  <2> HIDE DEF s1, X
  <2>5. q3 = Word(q, v)
    <3>1. q1 = [words |-> q.words, word |-> q.word, open |-> TRUE, quoted |-> TRUE]
      BY <1>1, StateForms
    <3>2. q2 \in States(Tokens)
      BY <1>1, <2>4, WordFields
    <3>3. q2 = [words |-> q.words, word |-> q.word \o v, open |-> TRUE, quoted |-> TRUE]
      BY <3>1 DEF Word
    <3> HIDE DEF q2
    <3>4. q3 = [words |-> q2.words, word |-> q2.word, open |-> TRUE, quoted |-> ~ q2.quoted]
      BY <3>2, StateForms
    <3>5. q.quoted = FALSE
      BY <1>1 DEF States
    <3> HIDE DEF q3
    <3>6. q3 = [words |-> q.words, word |-> q.word \o v, open |-> TRUE, quoted |-> FALSE]
      BY <3>3, <3>4
    <3> QED BY <3>5, <3>6 DEF Word
  <2> HIDE DEF q1
  <2>6. Leads(Tokens, s1 \o X, r, q2)
    BY <2>2, <2>3, <2>4, QuotedReads DEF X
  <2> HIDE DEF q2
  <2>7. ReadToken(q2, Quote) = q3
    BY TokenRead
  <2> HIDE DEF q3
  <2>8. s1 \o X \in Texts
    BY <2>2, Joined
  <2>9. Leads(Tokens, Append(s1 \o X, Quote), r, q3)
    BY <1>1, <2>6, <2>7, <2>8, LeadsAppend
  <2>10. Append(s1 \o X, Quote) = s \o quote(v)
    <3>1. <<Quote>> \o X \in Texts
      BY <2>2, Joined
    <3>2. s1 \o X = s \o (<<Quote>> \o X)
      BY <2>2, JoinedThree
    <3>3. s \o ((<<Quote>> \o X) \o <<Quote>>) = Append(s \o (<<Quote>> \o X), Quote)
      BY <1>1, <3>1, AppendBehind
    <3> QED BY <2>1, <3>2, <3>3
  <2> QED BY <2>5, <2>9, <2>10
<1> QED BY <1>2, <1>3

-----------------------------------------------------------------------------
(* The command's words are the template's.                                 *)

\* What the template's tokens stand for.
Kept == [t \in Tokens |-> IF t \in Placeholders THEN Value(t) ELSE <<t>>]

\* Tokens a reading of the template may meet.
Present == Tokens \ (Params \ Placeholders)

WordsOf(ws, F) == [i \in DOMAIN ws |-> Exp(ws[i], F)]

\* The reader of the template is in the state q, and that of the command in w.
Alike(q, w) ==
  /\ q.quoted = FALSE /\ w.quoted = FALSE /\ w.open = q.open
  /\ w.word = Exp(q.word, Kept) /\ w.words = WordsOf(q.words, Kept)

LEMMA KeptMap ==
  ASSUME TextTypeOK, Accepted
  PROVE  /\ Kept \in Maps
         /\ \A t \in Tokens \ Placeholders : Kept[t] = <<t>>
         /\ \A t \in Placeholders : t \in Tokens /\ Kept[t] = Value(t) /\ Value(t) \in Seq(Typed)
<1>1. \A p \in Placeholders : p \in Tokens /\ Value(p) \in Seq(Typed) /\ Value(p) \in Texts
  BY FilledMap, Kinds
<1>2. \A t \in Tokens : <<t>> \in Texts
  BY AppendText, EmptyText
<1> QED BY <1>1, <1>2 DEF Kept, Maps

LEMMA WordsAppend ==
  ASSUME NEW ws \in Seq(Texts), NEW x \in Texts, NEW F \in Maps
  PROVE  WordsOf(Append(ws, x), F) = Append(WordsOf(ws, F), Exp(x, F))
<1> DEFINE n == Len(ws)
           u == Append(ws, x)
           a == WordsOf(u, F)
           e == Exp(x, F)
           b == WordsOf(ws, F)
           c == Append(b, e)
<1>1. /\ n \in Nat /\ DOMAIN ws = 1..n /\ DOMAIN u = 1..(n + 1)
      /\ \A i \in 1..n : ws[i] \in Texts /\ u[i] = ws[i]
      /\ u[n + 1] = x
  <2>1. /\ Append(ws, x) \in Seq(Texts) /\ Len(Append(ws, x)) = n + 1
        /\ \A i \in 1..n : Append(ws, x)[i] = ws[i]
        /\ Append(ws, x)[n + 1] = x
    BY AppendProperties
  <2> HIDE DEF u
  <2>2. u \in Seq(Texts) /\ Len(u) = n + 1 /\ (\A i \in 1..n : u[i] = ws[i]) /\ u[n + 1] = x
    BY <2>1 DEF u
  <2> QED BY <2>2
<1> HIDE DEF n, u
<1>2. e \in Texts
  BY ExpText
<1>3. b \in [1..n -> Texts] /\ \A i \in 1..n : b[i] = Exp(ws[i], F)
  BY <1>1, ExpText DEF WordsOf
<1>4. a \in [1..(n + 1) -> Texts] /\ a[n + 1] = e /\ \A i \in 1..n : a[i] = b[i]
  <2>1. \A i \in 1..(n + 1) : i \in 1..n \/ i = n + 1
    BY <1>1
  <2>2. \A i \in 1..n : i \in 1..(n + 1)
    BY <1>1
  <2>3. \A i \in 1..(n + 1) : u[i] \in Texts
    BY <1>1, <2>1
  <2>4. a \in [1..(n + 1) -> Texts] /\ \A i \in 1..(n + 1) : a[i] = Exp(u[i], F)
    BY <1>1, <2>3, ExpText DEF WordsOf
  <2>5. n + 1 \in 1..(n + 1)
    BY <1>1
  <2> HIDE DEF a, b
  <2> QED BY <1>1, <1>3, <2>2, <2>4, <2>5
<1> HIDE DEF a, b, e
<1>5. b \in Seq(Texts) /\ Len(b) = n
  BY <1>1, <1>3
<1>6. c \in Seq(Texts) /\ Len(c) = n + 1 /\ (\A i \in 1..n : c[i] = b[i]) /\ c[n + 1] = e
  BY <1>2, <1>5, AppendProperties
<1>7. a \in Seq(Texts) /\ Len(a) = n + 1
  BY <1>1, <1>4
<1> HIDE DEF c
<1>8. \A i \in 1..(n + 1) : a[i] = c[i]
  <2>1. \A i \in 1..(n + 1) : i \in 1..n \/ i = n + 1
    BY <1>1
  <2> QED BY <1>4, <1>6, <2>1
<1>9. a = c
  BY <1>6, <1>7, <1>8, SeqEqual
<1> QED BY <1>9 DEF a, b, c, e, u

LEMMA PresentState ==
  ASSUME NEW q \in States(Present)
  PROVE  /\ q.words \in Seq(Texts) /\ q.word \in Texts /\ Present \subseteq Tokens
         /\ \A i \in DOMAIN q.words : q.words[i] \in Seq(Present)
<1>1. q.words \in Seq(Seq(Present)) /\ q.word \in Seq(Present)
  BY StateFields
<1>2. Present \in SUBSET Tokens
  BY DEF Present
<1>3. \A s \in Seq(Present) : s \in Texts
  BY <1>2, TextOf
<1> QED BY <1>1, <1>2, <1>3

LEMMA AlikeEnd ==
  ASSUME TextTypeOK, Accepted, NEW q \in States(Present), NEW w \in States(Tokens), Alike(q, w)
  PROVE  Alike(EndWord(q), EndWord(w))
<1>1. q.words \in Seq(Texts) /\ q.word \in Texts /\ Kept \in Maps
  BY PresentState, KeptMap
<1>2. CASE q.open
  <2>1. EndWord(q) = [words |-> Append(q.words, q.word), word |-> <<>>, open |-> FALSE, quoted |-> q.quoted]
    BY <1>2, StateForms
  <2>2. EndWord(w) = [words |-> Append(w.words, w.word), word |-> <<>>, open |-> FALSE, quoted |-> w.quoted]
    BY <1>2, StateForms DEF Alike
  <2>3. WordsOf(Append(q.words, q.word), Kept) = Append(w.words, w.word)
    BY <1>1, WordsAppend DEF Alike
  <2>4. Exp(<<>>, Kept) = <<>>
    BY ExpEmpty
  <2> QED BY <2>1, <2>2, <2>3, <2>4 DEF Alike
<1>3. CASE ~ q.open
  <2>1. EndWord(q) = q /\ EndWord(w) = w
    BY <1>3 DEF Alike, EndWord
  <2> QED BY <2>1
<1> QED BY <1>2, <1>3

LEMMA AlikeDanger ==
  ASSUME TextTypeOK, Accepted, NEW q \in States(Present), NEW w \in States(Tokens), Alike(q, w)
  PROVE  Alike(AddWord(q, <<Danger>>), AddWord(w, <<Danger>>))
<1>1. q.words \in Seq(Texts) /\ q.word \in Texts /\ Kept \in Maps
  BY PresentState, KeptMap
<1>2. Danger \in Tokens \ Placeholders /\ <<Danger>> \in Texts
  <2>1. Danger \in Tokens /\ Danger \notin Params
    BY TextAssumption, Kinds DEF Typed
  <2> QED BY <2>1, AppendText, EmptyText DEF Placeholders
<1>3. Exp(<<Danger>>, Kept) = <<Danger>>
  BY <1>1, <1>2, ExpOne, KeptMap
<1>4. WordsOf(Append(q.words, <<Danger>>), Kept) = Append(w.words, <<Danger>>)
  BY <1>1, <1>2, <1>3, WordsAppend DEF Alike
<1>5. AddWord(q, <<Danger>>) =
        [words |-> Append(q.words, <<Danger>>), word |-> q.word, open |-> q.open, quoted |-> q.quoted]
  BY StateForms
<1>6. AddWord(w, <<Danger>>) =
        [words |-> Append(w.words, <<Danger>>), word |-> w.word, open |-> w.open, quoted |-> w.quoted]
  BY StateForms
<1> DEFINE a == AddWord(q, <<Danger>>)
           b == AddWord(w, <<Danger>>)
<1>7. /\ a.words = Append(q.words, <<Danger>>) /\ a.word = q.word /\ a.open = q.open /\ a.quoted = q.quoted
      /\ b.words = Append(w.words, <<Danger>>) /\ b.word = w.word /\ b.open = w.open /\ b.quoted = w.quoted
  BY <1>5, <1>6
<1> HIDE DEF a, b
<1>8. Alike(a, b)
  BY <1>4, <1>7 DEF Alike
<1> QED BY <1>8 DEF a, b

LEMMA AlikePut ==
  ASSUME TextTypeOK, Accepted, NEW q \in States(Present), NEW w \in States(Tokens), Alike(q, w),
         NEW t \in Tokens \ Placeholders
  PROVE  Alike(Put(q, t), Put(w, t))
<1>1. q.word \in Texts /\ Kept \in Maps /\ Kept[t] = <<t>> /\ w.word \in Texts
  BY PresentState, KeptMap, StateFields, Kinds
<1>2. Exp(Append(q.word, t), Kept) = Append(w.word, t)
  <2>1. Exp(Append(q.word, t), Kept) = w.word \o <<t>>
    BY <1>1, ExpAppend DEF Alike
  <2> QED BY <1>1, <2>1, AppendText
<1>3. Put(q, t) = [words |-> q.words, word |-> Append(q.word, t), open |-> TRUE, quoted |-> q.quoted]
  BY StateForms
<1>4. Put(w, t) = [words |-> w.words, word |-> Append(w.word, t), open |-> TRUE, quoted |-> w.quoted]
  BY StateForms
<1> QED BY <1>2, <1>3, <1>4 DEF Alike

LEMMA AlikeWord ==
  ASSUME TextTypeOK, Accepted, NEW q \in States(Present), NEW w \in States(Tokens), Alike(q, w),
         NEW t \in Placeholders
  PROVE  Alike(Put(q, t), Word(w, Value(t)))
<1>1. q.word \in Texts /\ Kept \in Maps /\ Kept[t] = Value(t) /\ t \in Tokens
  BY PresentState, KeptMap
<1>2. Exp(Append(q.word, t), Kept) = w.word \o Value(t)
  BY <1>1, ExpAppend DEF Alike
<1>3. Put(q, t) = [words |-> q.words, word |-> Append(q.word, t), open |-> TRUE, quoted |-> q.quoted]
  BY StateForms
<1> QED BY <1>2, <1>3 DEF Alike, Word

\* The command is read as the template is, with the values in their places.
Parallel(x, q, w) ==
  /\ Leads(Present, x, NothingRead, q)
  /\ Leads(Tokens, Exp(x, Filled(Placeholders)), NothingRead, w)
  /\ Alike(q, w)

LEMMA ParallelGrows ==
  ASSUME TextTypeOK, Accepted, NEW x \in Seq(Present), NEW t \in Typed \ {Quote}, t \in Present,
         NEW q, NEW w, Parallel(x, q, w)
  PROVE  \E v : Parallel(Append(x, t), ReadToken(q, t), v)
<1> DEFINE F == Filled(Placeholders)
           X == Exp(x, F)
<1>1. /\ Present \in SUBSET Tokens /\ t \in Tokens /\ x \in Texts /\ F \in Maps /\ X \in Texts
      /\ Texts = Seq(Tokens)
      /\ Quote \in Present /\ Danger \in Present /\ Quote \in Tokens /\ Danger \in Tokens
  <2>1. Quote \in Tokens /\ Danger \in Tokens /\ Quote \notin Params /\ Danger \notin Params
    BY TextAssumption, Kinds DEF Typed
  <2>2. Present \in SUBSET Tokens
    BY DEF Present
  <2>3. x \in Texts
    BY <2>2, TextOf
  <2>4. F \in Maps
    BY FilledMap
  <2>5. Quote \in Present /\ Danger \in Present
    BY <2>1 DEF Present
  <2> QED BY <2>1, <2>2, <2>3, <2>4, <2>5, ExpText, Kinds
<1>2. q \in States(Present) /\ w \in States(Tokens) /\ ~ q.quoted /\ ~ w.quoted /\ Alike(q, w)
  <2>1. q \in States(Present) /\ w \in States(Tokens)
    BY <1>1, LeadsTyped DEF Parallel
  <2> QED BY <2>1 DEF Parallel, Alike
<1>3. Leads(Present, Append(x, t), NothingRead, ReadToken(q, t))
  BY <1>1, LeadsAppend DEF Parallel
<1>4. Leads(Tokens, X, NothingRead, w)
  BY DEF Parallel
<1>5. Exp(Append(x, t), F) = X \o F[t]
  BY <1>1, ExpAppend
<1>6. t \notin {Quote, Escape}
  BY Distinct
<1> HIDE DEF F, X
<1>7. CASE t \in Placeholders
  <2>1. t \notin {Blank, Danger} /\ F[t] = quote(Value(t)) /\ Value(t) \in Seq(Typed)
    BY <1>1, <1>7, TextAssumption, KeptMap DEF F, Filled, Placeholders
  <2>2. Leads(Tokens, X \o quote(Value(t)), NothingRead, Word(w, Value(t)))
    BY <1>1, <1>2, <1>4, <2>1, QuoteReads
  <2>3. ReadToken(q, t) = Put(q, t)
    BY <1>6, <2>1, TokenRead
  <2>4. Alike(ReadToken(q, t), Word(w, Value(t)))
    BY <1>2, <1>7, <2>3, AlikeWord
  <2> QED BY <1>3, <1>5, <2>1, <2>2, <2>4 DEF Parallel, F
<1>8. CASE t \notin Placeholders
  <2>1. Exp(Append(x, t), F) = Append(X, t)
    <3>1. F[t] = <<t>>
      BY <1>1, <1>8 DEF F, Filled
    <3> QED BY <1>1, <1>5, <3>1, AppendText
  <2>2. Leads(Tokens, Append(X, t), NothingRead, ReadToken(w, t))
    BY <1>1, <1>4, LeadsAppend
  <2>3. Alike(ReadToken(q, t), ReadToken(w, t))
    <3>1. CASE t = Blank
      <4>1. ReadToken(q, t) = EndWord(q) /\ ReadToken(w, t) = EndWord(w)
        BY <1>2, <3>1, TokenRead
      <4> QED BY <1>2, <4>1, AlikeEnd
    <3>2. CASE t = Danger
      <4>1. ReadToken(q, t) = AddWord(EndWord(q), <<Danger>>) /\ ReadToken(w, t) = AddWord(EndWord(w), <<Danger>>)
        BY <1>2, <3>2, TokenRead
      <4>2. EndWord(q) \in States(Present) /\ EndWord(w) \in States(Tokens) /\ Alike(EndWord(q), EndWord(w))
        BY <1>1, <1>2, ReadTyped, AlikeEnd
      <4> QED BY <4>1, <4>2, AlikeDanger
    <3>3. CASE t \notin {Blank, Danger}
      <4>1. ReadToken(q, t) = Put(q, t) /\ ReadToken(w, t) = Put(w, t)
        BY <1>6, <3>3, TokenRead
      <4> QED BY <1>1, <1>2, <1>8, <4>1, AlikePut
    <3> QED BY <3>1, <3>2, <3>3
  <2> QED BY <1>3, <2>1, <2>2, <2>3 DEF Parallel, F
<1> QED BY <1>7, <1>8

LEMMA SubstitutedReads ==
  ASSUME TextTypeOK, Accepted, ~ Nested, ~ TemplateQuotes
  PROVE  Read(Substituted) = Intended
<1> DEFINE F == Filled(Placeholders)
           c == entry.cmd
           Z == {t \in Typed : t # Quote /\ t \in Present}
           M == {x \in Texts : \E q, w : Parallel(x, q, w)}
<1>1. c \in Seq(Typed) /\ Present \in SUBSET Tokens /\ Z \in SUBSET Present /\ Typed \subseteq Tokens
  BY TextAssumption, Kinds DEF TextTypeOK, Present
<1>2. c \in Seq(Z)
  <2>1. Len(c) \in Nat /\ \A i \in 1..Len(c) : c[i] \in Typed
    BY <1>1
  <2>2. ASSUME NEW i \in 1..Len(c) PROVE c[i] \in Z
    <3>1. c[i] # Quote
      BY <2>2 DEF TemplateQuotes, Contains
    <3>2. c[i] \in Params => c[i] \in Placeholders
      BY <2>2 DEF Placeholders, Contains
    <3> QED BY <1>1, <2>1, <3>1, <3>2 DEF Present
  <2> HIDE DEF Z
  <2> QED BY <1>1, <2>1, <2>2
<1>3. <<>> \in M
  <2>1. NothingRead \in States(Present) /\ NothingRead \in States(Tokens)
    <3>1. \A S : <<>> \in Seq(S) /\ <<>> \in Seq(Seq(S))
      OBVIOUS
    <3> QED BY <3>1 DEF NothingRead, States
  <2>2. Exp(<<>>, F) = <<>> /\ Exp(<<>>, Kept) = <<>>
    BY ExpEmpty
  <2>3. WordsOf(<<>>, Kept) = <<>>
    BY DEF WordsOf
  <2>4. Alike(NothingRead, NothingRead)
    BY <2>2, <2>3 DEF Alike, NothingRead
  <2>5. Parallel(<<>>, NothingRead, NothingRead)
    BY <2>1, <2>2, <2>4, LeadsEmpty DEF Parallel
  <2> QED BY <2>5, EmptyText
<1>4. ASSUME NEW x \in Seq(Z), NEW t \in Z, x \in M PROVE Append(x, t) \in M
  <2>1. PICK q, w : Parallel(x, q, w)
    BY <1>4
  <2>2. x \in Seq(Present) /\ x \in Texts /\ t \in Typed \ {Quote} /\ t \in Present /\ t \in Tokens
    BY <1>1, <1>4
  <2>3. \E v : Parallel(Append(x, t), ReadToken(q, t), v)
    BY <2>1, <2>2, ParallelGrows
  <2>4. Append(x, t) \in Texts
    BY <2>2, AppendText
  <2> QED BY <2>3, <2>4
<1> HIDE DEF M, Z, F
<1>5. Seq(Z) \subseteq M
  BY <1>3, <1>4, SeqInduction
<1>6. PICK q, w : Parallel(c, q, w)
  BY <1>2, <1>5 DEF M
<1>7. Substituted = Exp(c, F)
  BY SubstitutedAtOnce DEF F
<1>8. c \in Seq(Present) /\ c \in Texts /\ Exp(c, F) \in Seq(Tokens)
  <2>1. c \in Seq(Present)
    BY <1>1, <1>2
  <2>2. c \in Texts
    BY <1>1, <2>1, TextOf
  <2>3. F \in Maps
    BY FilledMap DEF F
  <2> QED BY <2>1, <2>2, <2>3, ExpText, Kinds
<1>9. q \in States(Present) /\ w \in States(Tokens) /\ Alike(q, w)
  BY <1>6, <1>8, LeadsTyped DEF Parallel, F
<1> DEFINE a == EndWord(q)
           b == EndWord(w)
<1>10. Read(c) = a.words /\ Read(Exp(c, F)) = b.words
  BY <1>6, <1>8, LeadsRead DEF Parallel, F
<1>11. a \in States(Present) /\ Alike(a, b)
  <2>1. Quote \in Present /\ Danger \in Present
    BY TextAssumption, Kinds DEF Present, Typed
  <2> QED BY <1>9, <2>1, ReadTyped, AlikeEnd
<1> HIDE DEF a, b
<1>12. ASSUME NEW s \in Seq(Present)
       PROVE  Expand(s, LAMBDA t : IF t \in Params THEN Value(t) ELSE <<t>>) = Exp(s, Kept)
  <2>1. DOMAIN s = 1..Len(s) /\ \A i \in DOMAIN s : s[i] \in Present
    OBVIOUS
  <2>2. \A t \in Present : t \in Tokens /\ (t \in Params <=> t \in Placeholders)
    BY DEF Present, Placeholders
  <2>3. [i \in DOMAIN s |-> IF s[i] \in Params THEN Value(s[i]) ELSE <<s[i]>>] = [i \in DOMAIN s |-> Kept[s[i]]]
    BY <2>1, <2>2 DEF Kept
  <2> QED BY <2>3 DEF Expand, Exp
<1>13. \A i \in DOMAIN a.words : a.words[i] \in Seq(Present)
  BY <1>11, PresentState
<1> DEFINE Step(s) == Expand(s, LAMBDA t : IF t \in Params THEN Value(t) ELSE <<t>>)
<1>14. Intended = [i \in DOMAIN a.words |-> Step(a.words[i])]
  BY <1>10 DEF Intended
<1>15. \A i \in DOMAIN a.words : Step(a.words[i]) = Exp(a.words[i], Kept)
  BY <1>12, <1>13
<1> HIDE DEF Step
<1>16. Intended = WordsOf(a.words, Kept)
  BY <1>14, <1>15 DEF WordsOf
<1> QED BY <1>7, <1>10, <1>11, <1>16 DEF Alike

-----------------------------------------------------------------------------
(* The invariant.                                                          *)

\* The command is what came of its template.
CommandIsSubstituted ==
  stage = "resolved" /\ DOMAIN entry.params # {} => Accepted /\ text = Substituted

\* What a command was given is what will be taken out of its output, and its output is
\* made of that, up to where it was cut.
Ends == IF cut THEN CutEnds(given) ELSE NoEnd

OutputIsMade ==
  /\ given = ToSet(used)
  /\ stage = "output" => text \in Made(given, Ends)

TextIInv == TextTypeOK /\ CommandIsSubstituted /\ OutputIsMade /\ ScrubIsComplete

LEMMA TextInitial == TextInit => TextIInv
<1>1. SUFFICES ASSUME TextInit PROVE TextIInv
  OBVIOUS
<1>0. cut = FALSE /\ FALSE \in BOOLEAN
  BY <1>1 DEF TextInit
<1>2. TextTypeOK
  <2>1. cut \in BOOLEAN
    BY <1>0
  <2> QED BY <1>1, <2>1, EmptyText, TextAssumption DEF TextInit, TextTypeOK
<1>3. given = ToSet(used)
  BY <1>1 DEF TextInit, ToSet
<1> QED BY <1>1, <1>2, <1>3 DEF TextInit, TextIInv, CommandIsSubstituted, OutputIsMade, ScrubIsComplete

LEMMA SameTemplate ==
  ASSUME entry' = entry, args' = args
  PROVE  Accepted' = Accepted /\ Substituted' = Substituted
<1>1. Substituted' = Substituted
  BY DEF Substituted, Placeholders, Value, ParamSpec, Expand, quote
<1> QED BY <1>1 DEF Accepted, Placeholders, Value, ParamSpec, Specified, Valid

LEMMA TextInductive == TextIInv /\ [TextNext]_textVars => TextIInv'
<1> SUFFICES ASSUME TextIInv, [TextNext]_textVars PROVE TextIInv'
  OBVIOUS
<1>0. TextTypeOK /\ given = ToSet(used) /\ given \subseteq SecretVals
  BY DEF TextIInv, OutputIsMade, TextTypeOK
<1>1. CASE validate_and_substitute
  <2>1. text' \in Texts
    <3>1. entry.cmd \in Texts /\ text \in Texts
      BY <1>0, TextAssumption, Kinds DEF TextTypeOK
    <3>2. Accepted => Substituted \in Texts
      BY <1>0, SubstitutedText DEF Accepted
    <3> QED BY <1>1, <3>1, <3>2 DEF validate_and_substitute
  <2>2. TextTypeOK' /\ stage' \notin {"output", "done"}
    BY <1>0, <1>1, <2>1 DEF validate_and_substitute, TextTypeOK
  <2>3. CommandIsSubstituted'
    <3>1. Accepted' = Accepted /\ Substituted' = Substituted
      BY <1>1, SameTemplate DEF validate_and_substitute
    <3> QED BY <1>1, <3>1 DEF validate_and_substitute, CommandIsSubstituted
  <2> QED BY <1>0, <1>1, <2>2, <2>3 DEF validate_and_substitute, TextIInv, OutputIsMade, ScrubIsComplete
<1>2. CASE ChangeVault
  <2>1. edits' \in 0..MaxEdits
    BY <1>0, <1>2, TextAssumption DEF ChangeVault, TextTypeOK
  <2>2. vault' \in [Secrets -> Secret \cup {Undefined}]
    BY <1>0, <1>2 DEF ChangeVault, TextTypeOK
  <2>3. TextTypeOK' /\ stage' \notin {"output", "done"}
    BY <1>0, <1>2, <2>1, <2>2 DEF ChangeVault, TextTypeOK
  <2>4. CommandIsSubstituted'
    <3>1. Accepted' = Accepted /\ Substituted' = Substituted
      BY <1>2, SameTemplate DEF ChangeVault
    <3> QED BY <1>2, <3>1 DEF ChangeVault, TextIInv, CommandIsSubstituted
  <2> QED BY <1>0, <1>2, <2>3, <2>4 DEF ChangeVault, TextIInv, OutputIsMade, ScrubIsComplete
<1>3. CASE substitute_secrets
  <2>1. CASE \A i \in DOMAIN References : Usable(References[i])
    <3>1. /\ Expand(text, LAMBDA t : IF t \in Secrets THEN vault[t].value ELSE <<t>>) \in Texts
          /\ \A i \in DOMAIN References : vault[References[i]].value \in SecretVals
      BY <1>0, <2>1, SecretsText
    <3>2. /\ text' = Expand(text, LAMBDA t : IF t \in Secrets THEN vault[t].value ELSE <<t>>)
          /\ given' = {vault[References[i]].value : i \in DOMAIN References}
          /\ used' = Used /\ stage' = "sent"
      BY <1>3, <2>1 DEF substitute_secrets
    <3>3. References \in Seq(Secrets)
      BY <1>0, ReferencesListed DEF TextTypeOK
    <3> DEFINE m == Len(References)
    <3>4. m \in Nat /\ DOMAIN References = 1..m
      BY <3>3
    <3>5. used' = [i \in 1..m |-> vault[References[i]].value]
      BY <3>2, <3>4 DEF Used
    <3> HIDE DEF m
    <3>6. used' \in Seq(SecretVals) /\ ToSet(used') = given'
      <4>1. \A i \in 1..m : vault[References[i]].value \in SecretVals
        BY <3>1, <3>4
      <4>2. used' \in Seq(SecretVals) /\ DOMAIN used' = 1..m
        BY <3>4, <3>5, <4>1
      <4>3. given' = {used'[i] : i \in 1..m}
        BY <3>2, <3>4, <3>5
      <4> QED BY <4>2, <4>3 DEF ToSet
    <3>7. given' \subseteq SecretVals
      BY <3>1, <3>2
    <3>8. text' \in Texts
      BY <3>1, <3>2
    <3>9. TextTypeOK'
      BY <1>0, <1>3, <3>2, <3>6, <3>7, <3>8 DEF substitute_secrets, TextTypeOK
    <3>10. (given = ToSet(used))'
      BY <3>6
    <3> QED BY <3>2, <3>9, <3>10 DEF TextIInv, CommandIsSubstituted, OutputIsMade, ScrubIsComplete
  <2>2. CASE ~ \A i \in DOMAIN References : Usable(References[i])
    <3>1. stage' = "refused" /\ UNCHANGED <<text, given, used, cut, entry, args, vault, edits>>
      BY <1>3, <2>2 DEF substitute_secrets
    <3> QED BY <1>0, <3>1 DEF TextIInv, TextTypeOK, CommandIsSubstituted, OutputIsMade, ScrubIsComplete
  <2> QED BY <2>1, <2>2
<1>4. CASE Runs
  <2>0. PICK n \in 0..MaxPieces :
          \E pieces \in [1..n -> given \cup {<<Other>>}], w \in Notices :
            \E k \in 0..Len(FlattenSeq(pieces)) :
              /\ text' = SubSeq(FlattenSeq(pieces), 1, k) \o w
              /\ cut' = (k < Len(FlattenSeq(pieces)))
    BY <1>4 DEF Runs
  <2>a. PICK pieces \in [1..n -> given \cup {<<Other>>}], w \in Notices :
          \E k \in 0..Len(FlattenSeq(pieces)) :
            /\ text' = SubSeq(FlattenSeq(pieces), 1, k) \o w
            /\ cut' = (k < Len(FlattenSeq(pieces)))
    BY <2>0
  <2>1. PICK k \in 0..Len(FlattenSeq(pieces)) :
          /\ text' = SubSeq(FlattenSeq(pieces), 1, k) \o w
          /\ cut' = (k < Len(FlattenSeq(pieces)))
    BY <2>a
  <2> DEFINE whole == FlattenSeq(pieces)
  <2>2. n \in Nat /\ given \in SUBSET SecretVals
    BY <1>0, TextAssumption
  <2>3. whole \in Made(given, NoEnd) /\ whole \in Texts /\ NoEnd \in SUBSET Texts
    BY <2>2, PiecesMade, NothingMade, MadeClosed
  <2>4. Len(whole) \in Nat /\ whole \in Seq(Tokens)
    BY <2>3, TextSize
  <2> HIDE DEF whole
  <2>5. given' = given /\ k \in 0..Len(whole) /\ text' = SubSeq(whole, 1, k) \o w /\ cut' = (k < Len(whole))
    BY <1>4, <2>1 DEF Runs, whole
  <2>6. text' \in Made(given, Ends')
    <3>1. CASE k < Len(whole)
      <4>1. Ends' = CutEnds(given)
        BY <2>5, <3>1 DEF Ends
      <4>2. SubSeq(whole, 1, k) \o w \in Made(given, CutEnds(given))
        BY <2>2, <2>3, <2>5, CutMade
      <4> QED BY <2>5, <4>1, <4>2
    <3>2. CASE ~ (k < Len(whole))
      <4>0. ~ cut'
        BY <2>5, <3>2
      <4>1. k = Len(whole) /\ Ends' = NoEnd
        BY <2>4, <2>5, <3>2, <4>0 DEF Ends
      <4>2. SubSeq(whole, 1, k) = whole
        BY <2>4, <4>1, SubSeqFull
      <4>3. <<Other>> \in Pieces(given)
        BY Kinds DEF Pieces
      <4>4. whole \o w \in Made(given, NoEnd)
        BY <2>2, <2>3, <4>3, MadeBehind, EmptyText DEF Notices
      <4> QED BY <2>5, <4>1, <4>2, <4>4
    <3> QED BY <3>1, <3>2
  <2>7. text' \in Texts
    <3>1. Ends' \in SUBSET Texts
      BY <2>2, <2>3, <2>5, EndsText DEF Ends
    <3> QED BY <2>2, <2>6, <3>1, MadeClosed
  <2>8. cut' \in BOOLEAN
    BY <2>5
  <2>9. TextTypeOK'
    BY <1>0, <1>4, <2>7, <2>8 DEF Runs, TextTypeOK
  <2> QED BY <1>0, <1>4, <2>5, <2>6, <2>9 DEF Runs, TextIInv, CommandIsSubstituted, OutputIsMade, ScrubIsComplete
<1>5. CASE scrub_output
  <2>1. text' \in Texts
    <3>1. PICK g \in [0..Len(used) -> Texts] : text' = g[Len(used)]
      BY <1>0, <1>5, ScrubTable
    <3>2. Len(used) \in 0..Len(used)
      BY <1>0 DEF TextTypeOK
    <3> QED BY <3>1, <3>2
  <2>2. TextTypeOK' /\ stage' = "done" /\ given' = given /\ used' = used /\ cut' = cut
    BY <1>0, <1>5, <2>1 DEF scrub_output, TextTypeOK
  <2>3. (\A u, v \in given : u # v => ~ Overlap(u, v)) =>
          \E n \in 0..Len(text') : /\ ToSet(SubSeq(text', 1, n)) \cap Letters = {}
                                   /\ SubSeq(text', n + 1, Len(text')) \in Ends
    <3>1. SUFFICES ASSUME Apart(given)
                   PROVE  \E n \in 0..Len(text') : /\ ToSet(SubSeq(text', 1, n)) \cap Letters = {}
                                                    /\ SubSeq(text', n + 1, Len(text')) \in Ends
      BY DEF Apart
    <3>2. text \in Made(given, Ends)
      BY <1>5 DEF scrub_output, TextIInv, OutputIsMade
    <3>3. given \in SUBSET SecretVals
      BY <1>0
    <3>4. Ends \in SUBSET Texts
      BY <3>3, EndsText, NothingMade DEF Ends
    <3>5. \A v \in given : Inert(Ends, v)
      BY <3>1, <3>3, EndsInert DEF Ends
    <3>6. text' \in Made({}, Ends)
      BY <1>0, <1>5, <3>1, <3>2, <3>4, <3>5, ScrubbedOfAll
    <3> QED BY <3>4, <3>6, MadeOfNothing
  <2>4. ScrubIsComplete'
    BY <2>2, <2>3 DEF ScrubIsComplete, Ends, NoEnd
  <2> QED BY <1>0, <2>2, <2>4 DEF TextIInv, CommandIsSubstituted, OutputIsMade
<1>6. CASE UNCHANGED textVars
  <2>1. Accepted' = Accepted /\ Substituted' = Substituted
    BY <1>6, SameTemplate DEF textVars
  <2> QED BY <1>6, <2>1 DEF textVars, TextIInv, TextTypeOK, CommandIsSubstituted, OutputIsMade, ScrubIsComplete, Ends
<1> QED BY <1>1, <1>2, <1>3, <1>4, <1>5, <1>6 DEF TextNext

\* The variables of a command's text have their types.
THEOREM TextTypes == TextSpec => []TextTypeOK
<1>1. TextIInv => TextTypeOK
  BY DEF TextIInv
<1> QED BY <1>1, TextInitial, TextInductive, PTL DEF TextSpec

\* Whatever characters the values have: the shell reads the template's words, each with
\* its values in their places (params.py), unless a value names a parameter or the
\* template has quotes of its own.
THEOREM OneWordEachHolds == TextSpec => []OneWordEach
<1>1. TextIInv => OneWordEach
  BY SubstitutedReads DEF TextIInv, CommandIsSubstituted, OneWordEach
<1> QED BY <1>1, TextInitial, TextInductive, PTL DEF TextSpec

\* Whatever the command prints and in whatever order, and however the vault changed
\* since: where no two of the values it was given overlap, nothing of any is left in
\* the scrubbed output (storage.scrub_output), but for the beginning of one that was cut
\* through, at the end of an output that was cut (ssh_client.execute).
THEOREM ScrubIsCompleteHolds == TextSpec => []ScrubIsComplete
<1>1. TextIInv => ScrubIsComplete
  BY DEF TextIInv
<1> QED BY <1>1, TextInitial, TextInductive, PTL DEF TextSpec
===============================================================================
