-------------------------- MODULE AgentAccessProofs --------------------------
(***************************************************************************)
(* A key that was replaced stays out and identifies one agent, unless the  *)
(* administrator types it again; a code gives one token, a revoked token   *)
(* stays revoked.  For any number of agents, keys, tokens, edits, restores, *)
(* restarts and failed writes.                                             *)
(***************************************************************************)
EXTENDS AgentAccess, TLAPS

\* Keys are numbered as they first come; an agent's key is its own and was not
\* retired, if it was not typed again.
KeyInv ==
  /\ \A a \in Agents : agents[a].key \in 0..keys
  /\ retired \subseteq 1..keys /\ reentered \subseteq 1..keys
  /\ \A a \in Agents : agents[a].key \notin retired \ reentered
  /\ \A a, b \in Agents :
       a # b /\ agents[a].key \notin {0} \cup reentered => agents[a].key # agents[b].key

\* A code that is yet to be issued or to be redeemed has no token anywhere.
Unused(c) == codes[c] # NoAgent \/ c > issued
CodeInv ==
  /\ \A c \in Codes : c > issued => codes[c] = NoAgent
  /\ \A c \in Codes : Unused(c) =>
       redeemed[c] = 0 /\ tokens[c] = NoAgent /\ disk[c] = NoAgent /\ c \notin revoked
  /\ \A c \in Codes : redeemed[c] <= 1

\* What was revoked is out of memory, and out of the file if that was always written.
RevokedInv ==
  /\ errors = 0 \/ crashes = 0 => \A t \in revoked : tokens[t] = NoAgent
  /\ errors = 0 => \A t \in revoked : disk[t] = NoAgent

IInv == TypeOK /\ KeyInv /\ CodeInv /\ RevokedInv

-----------------------------------------------------------------------------
(* The registry.                                                           *)

RegistryTypes == /\ agents \in [Agents -> Entry \cup {Absent}] /\ retired \subseteq 1..MaxKeys
                 /\ reentered \subseteq 1..MaxKeys
                 /\ keys \in 0..MaxKeys /\ changes \in 0..MaxChanges
OAuthTypes == /\ codes \in [Codes -> Agents \cup {NoAgent}]
              /\ tokens \in [Codes -> Agents \cup {NoAgent}]
              /\ disk \in [Codes -> Agents \cup {NoAgent}]
              /\ over \subseteq Codes /\ revoked \subseteq Codes
              /\ issued \in 0..MaxTokens
              /\ crashes \in 0..MaxCrashes /\ errors \in 0..MaxErrors
              /\ redeemed \in [Codes -> Nat]

LEMMA TypeParts == TypeOK <=> RegistryTypes /\ OAuthTypes
BY DEF TypeOK, RegistryTypes, OAuthTypes

LEMMA NoEntry ==
  /\ Absent \notin Entry
  /\ Absent.key = 0 /\ Absent.enabled = FALSE /\ Absent.grant = "none"
BY DEF Absent, Entry

\* An entry is replaced by one with its key, a new key, none, or one typed again.
LEMMA UpsertStep ==
  ASSUME RegistryTypes, KeyInv, NEW a \in Agents, NEW e \in Entry \cup {Absent},
         e.key \in 0..keys', e.key \in {0, agents[a].key} \cup reentered' \/ e.key > keys,
         reentered \subseteq reentered', reentered' \subseteq 1..keys',
         keys' \in keys..MaxKeys, changes' \in 0..MaxChanges, upsert_agent(a, e)
  PROVE  RegistryTypes' /\ KeyInv'
<1>1. /\ agents'[a] = e /\ \A b \in Agents \ {a} : agents'[b] = agents[b]
      /\ agents' \in [Agents -> Entry \cup {Absent}]
      /\ retired' = retired \cup ({agents[a].key} \ {0, e.key})
  BY DEF upsert_agent, RegistryTypes
<1>2. keys \in Nat /\ keys' \in Nat /\ agents[a].key \in 0..keys
  BY BoundAssumption DEF RegistryTypes, KeyInv
<1>3. retired' \subseteq 1..keys'
  <2>1. retired \subseteq 1..keys' /\ agents[a].key \in 0..keys'
    BY <1>2 DEF KeyInv
  <2>2. {agents[a].key} \ {0, e.key} \subseteq 1..keys'
    BY <1>2, <2>1
  <2> QED
    BY <1>1, <2>1, <2>2
<1>4. RegistryTypes'
  <2>1. 1..keys' \subseteq 1..MaxKeys
    BY <1>2, BoundAssumption
  <2> QED
    BY <1>1, <1>2, <1>3, <2>1, BoundAssumption DEF RegistryTypes
<1>5. \A b \in Agents : agents'[b].key \in 0..keys'
  BY <1>1, <1>2 DEF KeyInv
<1>6. \A b \in Agents : agents'[b].key \notin retired' \ reentered'
  <2>1. e.key \notin retired' \ reentered'
    BY <1>1, <1>2 DEF KeyInv
  <2>2. ASSUME NEW b \in Agents \ {a} PROVE agents[b].key \notin retired' \ reentered'
    BY <1>1, <1>2 DEF KeyInv
  <2> QED
    BY <1>1, <2>1, <2>2
<1>7. ASSUME NEW b \in Agents, NEW d \in Agents, b # d, agents'[b].key \notin {0} \cup reentered'
      PROVE  agents'[b].key # agents'[d].key
  <2>1. \A x \in Agents : agents[x].key <= keys
    BY <1>2 DEF KeyInv
  <2> QED
    BY <1>1, <1>2, <1>7, <2>1 DEF KeyInv
<1> QED
  BY <1>3, <1>5, <1>4, <1>6, <1>7 DEF KeyInv

\* The key that comes with a form.
LEMMA SetKeyStep ==
  ASSUME RegistryTypes, KeyInv, NEW a \in Agents, NEW e \in Entry, e.key \in 1..MaxKeys,
         changes' \in 0..MaxChanges, set_agent_key(a, e)
  PROVE  RegistryTypes' /\ KeyInv'
<1>1. /\ keys \in Nat /\ MaxKeys \in Nat /\ keys <= MaxKeys
      /\ e.key <= keys + 1 /\ e.key \in Nat /\ upsert_agent(a, e)
      /\ keys' = IF e.key = keys + 1 THEN e.key ELSE keys
      /\ reentered' = reentered \cup ({e.key} \ {keys + 1, agents[a].key})
  BY BoundAssumption DEF set_agent_key, NextKey, RegistryTypes
<1>2. keys' \in keys..MaxKeys /\ e.key \in 0..keys'
  BY <1>1
<1>3. e.key \in {0, agents[a].key} \cup reentered' \/ e.key > keys
  <2>1. e.key \in 1..keys \/ e.key > keys
    BY <1>1
  <2> QED
    BY <1>1, <2>1
<1>4. reentered \subseteq reentered' /\ reentered' \subseteq 1..keys'
  <2>1. 1..keys \subseteq 1..keys' /\ reentered \subseteq 1..keys
    BY <1>1, <1>2 DEF KeyInv
  <2>2. e.key \in 1..keys'
    BY <1>1, <1>2
  <2> QED
    BY <1>1, <2>1, <2>2
<1> QED
  BY <1>1, <1>2, <1>3, <1>4, UpsertStep

-----------------------------------------------------------------------------
(* The registry's handlers.                                                *)

RegistryStep ==
  \/ \E a \in Agents : \/ cr_agent(a) \/ up_agent(a) \/ gen_agent_key(a) \/ del_agent(a)
                       \/ toggle_agent(a) \/ imp_agents(a)
                       \/ \E b \in Agents : dup_agent(a, b)
  \/ \E A \in SUBSET Agents : GrantLapses(A)
  \/ import_backup
  \/ ops_expiry

LEMMA StoredEntry ==
  ASSUME RegistryTypes, KeyInv, NEW a \in Agents
  PROVE  /\ agents[a] \in Entry \cup {Absent}
         /\ Exists(a) => agents[a] \in Entry
         /\ agents[a].key \in 0..keys /\ keys \in Nat /\ changes \in Nat
         /\ 0..keys \subseteq 0..MaxKeys /\ MaxKeys \in Nat
BY BoundAssumption DEF RegistryTypes, KeyInv, Exists

\* Every entry is changed in its flags alone.
LEMMA FlagsStep ==
  ASSUME RegistryTypes, KeyInv, agents' \in [Agents -> Entry \cup {Absent}],
         \A a \in Agents : agents'[a].key = agents[a].key,
         UNCHANGED <<keys, reentered, retired, changes>>
  PROVE  RegistryTypes' /\ KeyInv'
BY DEF RegistryTypes, KeyInv

LEMMA CopyKey ==
  ASSUME NEW x \in Entry
  PROVE  /\ [x EXCEPT !.enabled = FALSE, !.key = 0] \in Entry
         /\ [x EXCEPT !.enabled = FALSE, !.key = 0].key = 0
<1>1. 0 \in 0..MaxKeys
  BY BoundAssumption
<1>2. x = [enabled |-> x.enabled, timed |-> x.timed, grant |-> x.grant, key |-> x.key]
  BY DEF Entry
<1> QED
  BY <1>1, <1>2 DEF Entry

LEMMA RegistryKept ==
  ASSUME RegistryTypes, KeyInv, RegistryStep
  PROVE  RegistryTypes' /\ KeyInv'
<1>1. ASSUME Change PROVE changes' \in 0..MaxChanges
  BY <1>1, BoundAssumption DEF Change, RegistryTypes
<1>2. keys \in Nat /\ MaxKeys \in Nat /\ keys \in 0..MaxKeys
  BY BoundAssumption DEF RegistryTypes
<1>3. ASSUME NEW a \in Agents, cr_agent(a) PROVE RegistryTypes' /\ KeyInv'
  <2>1. PICK enabled \in BOOLEAN, timed \in BOOLEAN, key \in 1..MaxKeys :
          set_agent_key(a, [enabled |-> enabled, timed |-> timed, grant |-> "none", key |-> key])
    BY <1>3 DEF cr_agent
  <2> DEFINE e == [enabled |-> enabled, timed |-> timed, grant |-> "none", key |-> key]
  <2>2. changes' \in 0..MaxChanges
    BY <1>1, <1>3 DEF cr_agent
  <2>3. e \in Entry /\ e.key = key /\ set_agent_key(a, e)
    BY <1>2, <2>1 DEF Entry
  <2> HIDE DEF e
  <2> QED
    BY <2>2, <2>3, SetKeyStep
<1>4. ASSUME NEW a \in Agents, up_agent(a) PROVE RegistryTypes' /\ KeyInv'
  <2>1. PICK enabled \in BOOLEAN, timed \in BOOLEAN :
          \/ /\ upsert_agent(a, Edited(a, enabled, timed, agents[a].key))
             /\ UNCHANGED <<keys, reentered>>
          \/ \E key \in 1..MaxKeys : set_agent_key(a, Edited(a, enabled, timed, key))
    BY <1>4 DEF up_agent
  <2>2. agents[a].grant \in {"none", "live", "over"} /\ agents[a].key \in 0..keys
    BY StoredEntry, NoEntry DEF Entry
  <2>3. changes' \in 0..MaxChanges
    BY <1>1, <1>4 DEF up_agent
  <2>4. ASSUME NEW key \in 0..MaxKeys
        PROVE  Edited(a, enabled, timed, key) \in Entry /\ Edited(a, enabled, timed, key).key = key
    BY <2>2 DEF Entry, Edited
  <2>5. CASE /\ upsert_agent(a, Edited(a, enabled, timed, agents[a].key))
             /\ UNCHANGED <<keys, reentered>>
    <3> DEFINE e == Edited(a, enabled, timed, agents[a].key)
    <3>1. agents[a].key \in 0..MaxKeys
      BY StoredEntry
    <3>2. e \in Entry /\ e.key = agents[a].key /\ upsert_agent(a, e)
      BY <2>4, <2>5, <3>1
    <3> HIDE DEF e
    <3>3. reentered' \subseteq 1..keys' /\ keys' \in keys..MaxKeys /\ e.key \in 0..keys'
      BY <1>2, <2>2, <2>5, <3>2 DEF KeyInv
    <3> QED
      BY <2>3, <2>5, <3>2, <3>3, UpsertStep
  <2>6. CASE \E key \in 1..MaxKeys : set_agent_key(a, Edited(a, enabled, timed, key))
    <3>1. PICK key \in 1..MaxKeys : set_agent_key(a, Edited(a, enabled, timed, key))
      BY <2>6
    <3> DEFINE e == Edited(a, enabled, timed, key)
    <3>2. e \in Entry /\ e.key = key /\ set_agent_key(a, e)
      BY <1>2, <2>4, <3>1
    <3> HIDE DEF e
    <3> QED
      BY <2>3, <3>2, SetKeyStep
  <2> QED
    BY <2>1, <2>5, <2>6
<1>5. ASSUME NEW a \in Agents, gen_agent_key(a) PROVE RegistryTypes' /\ KeyInv'
  <2> DEFINE e == [agents[a] EXCEPT !.key = NextKey]
  <2>1. keys' = keys + 1 /\ keys' <= MaxKeys /\ changes' \in 0..MaxChanges /\ reentered' = reentered
    BY <1>1, <1>5 DEF gen_agent_key, NextKey
  <2>2. e \in Entry /\ e.key = keys' /\ upsert_agent(a, e)
    BY <1>2, <1>5, <2>1, StoredEntry DEF gen_agent_key, Entry, NextKey
  <2>3. reentered' \subseteq 1..keys' /\ keys' \in keys..MaxKeys
    BY <1>2, <2>1 DEF KeyInv
  <2> HIDE DEF e
  <2> QED
    BY <1>2, <2>1, <2>2, <2>3, UpsertStep
<1> DEFINE Same == keys' = keys /\ reentered' = reentered
<1>0. ASSUME Same PROVE /\ keys' \in keys..MaxKeys /\ 0 \in 0..keys'
                       /\ reentered \subseteq reentered' /\ reentered' \subseteq 1..keys'
  BY <1>0, <1>2 DEF KeyInv
<1>6. ASSUME NEW a \in Agents, del_agent(a) PROVE RegistryTypes' /\ KeyInv'
  <2>1. upsert_agent(a, Absent) /\ Same /\ changes' \in 0..MaxChanges
    BY <1>1, <1>6 DEF del_agent
  <2>2. Absent.key = 0 /\ agents[a].key \in 0..keys
    BY StoredEntry, NoEntry
  <2> DEFINE e == Absent
  <2>3. e \in Entry \cup {Absent} /\ e.key = 0 /\ upsert_agent(a, e)
    BY <2>1, <2>2
  <2> HIDE DEF e
  <2> QED
    BY <1>0, <2>1, <2>3, UpsertStep
<1>7. ASSUME NEW a \in Agents, toggle_agent(a) PROVE RegistryTypes' /\ KeyInv'
  <2> DEFINE on == ~agents[a].enabled
             e == [agents[a] EXCEPT !.enabled = on,
                                    !.grant = IF on /\ agents[a].timed THEN "live" ELSE "none"]
  <2>1. upsert_agent(a, e) /\ Same /\ changes' \in 0..MaxChanges
    BY <1>1, <1>7 DEF toggle_agent
  <2>2. agents[a] \in Entry /\ agents[a].key \in 0..keys
    BY <1>7, StoredEntry DEF toggle_agent
  <2>3. e \in Entry /\ e.key = agents[a].key
    BY <2>2 DEF Entry
  <2> HIDE DEF e
  <2> QED
    BY <1>0, <2>1, <2>2, <2>3, UpsertStep
<1>8. ASSUME NEW a \in Agents, imp_agents(a) PROVE RegistryTypes' /\ KeyInv'
  <2>1. PICK e \in Entry : e.key = 0 /\ upsert_agent(a, e)
    BY <1>8 DEF imp_agents
  <2>2. Same /\ changes' \in 0..MaxChanges /\ agents[a].key \in 0..keys
    BY <1>1, <1>8, StoredEntry DEF imp_agents
  <2> QED
    BY <1>0, <2>1, <2>2, UpsertStep
<1>9. ASSUME NEW a \in Agents, NEW b \in Agents, dup_agent(a, b) PROVE RegistryTypes' /\ KeyInv'
  <2> DEFINE e == [agents[a] EXCEPT !.enabled = FALSE, !.key = 0]
  <2>1. upsert_agent(b, e) /\ Same /\ changes' \in 0..MaxChanges
    BY <1>1, <1>9 DEF dup_agent
  <2>2. agents[a] \in Entry /\ agents[b].key \in 0..keys
    BY <1>9, StoredEntry DEF dup_agent
  <2>3. e \in Entry /\ e.key = 0
    BY <1>2, <2>2, CopyKey
  <2> HIDE DEF e
  <2> QED
    BY <1>0, <2>1, <2>2, <2>3, UpsertStep
<1>10. ASSUME NEW A \in SUBSET Agents, GrantLapses(A) PROVE RegistryTypes' /\ KeyInv'
  <2>1. \A a \in A : agents[a] \in Entry
    BY <1>10, NoEntry, StoredEntry DEF GrantLapses
  <2>2. \A a \in A : /\ [agents[a] EXCEPT !.grant = "over"] \in Entry
                     /\ [agents[a] EXCEPT !.grant = "over"].key = agents[a].key
    BY <2>1 DEF Entry
  <2>3. /\ agents' \in [Agents -> Entry \cup {Absent}]
        /\ \A a \in Agents : agents'[a].key = agents[a].key
    BY <1>10, <2>2 DEF GrantLapses, RegistryTypes
  <2> QED
    BY <1>10, <2>3, FlagsStep DEF GrantLapses
<1>11. ASSUME ops_expiry PROVE RegistryTypes' /\ KeyInv'
  <2>1. \A a \in Lapsed : agents[a] \in Entry
    BY NoEntry, StoredEntry DEF Lapsed
  <2>2. \A a \in Lapsed :
          /\ [agents[a] EXCEPT !.enabled = FALSE, !.grant = "none"] \in Entry
          /\ [agents[a] EXCEPT !.enabled = FALSE, !.grant = "none"].key = agents[a].key
    BY <2>1 DEF Entry
  <2>3. /\ agents' \in [Agents -> Entry \cup {Absent}]
        /\ \A a \in Agents : agents'[a].key = agents[a].key
    BY <1>11, <2>2 DEF ops_expiry, RegistryTypes
  <2> QED
    BY <1>11, <2>3, FlagsStep DEF ops_expiry
<1>12. ASSUME import_backup PROVE RegistryTypes' /\ KeyInv'
  <2>1. /\ agents' \in [Agents -> Entry \cup {Absent}]
        /\ \A a \in Agents : agents'[a].key = 0
    BY <1>12, NoEntry DEF import_backup
  <2>2. retired' \subseteq 1..keys /\ keys' = keys /\ reentered' = reentered
    <3>1. {agents[a].key : a \in Agents} \ {0} \subseteq 1..keys
      BY <1>2 DEF KeyInv
    <3>2. retired \subseteq 1..keys
      BY DEF KeyInv
    <3> QED
      BY <1>12, <3>1, <3>2 DEF import_backup
  <2>3. retired' \subseteq 1..MaxKeys /\ changes' \in 0..MaxChanges
    BY <1>1, <1>2, <1>12, <2>2 DEF import_backup
  <2>4. RegistryTypes'
    BY <1>2, <2>1, <2>2, <2>3 DEF RegistryTypes
  <2> QED
    BY <1>2, <2>1, <2>2, <2>4 DEF KeyInv
<1> QED
  BY <1>3, <1>4, <1>5, <1>6, <1>7, <1>8, <1>9, <1>10, <1>11, <1>12 DEF RegistryStep

-----------------------------------------------------------------------------
(* Codes and tokens.                                                       *)

OAuthStep ==
  \/ \E a \in Agents : oauth_approve(a)
  \/ \E t \in Codes : oauth_token(t) \/ TokenExpires(t) \/ DropExpired(t) \/ revoke_token(t)
  \/ revoke_mcp_sessions
  \/ Restart

OAuthInv == OAuthTypes /\ CodeInv /\ RevokedInv

LEMMA CodeNumbers == MaxTokens \in Nat /\ Codes \subseteq Nat /\ NoTokens \in [Codes -> Agents \cup {NoAgent}]
BY BoundAssumption DEF Codes, NoTokens

\* What _save_tokens leaves in the file was in it, or is in the table it was given.
LEMMA SaveStep ==
  ASSUME OAuthTypes, NEW T \in [Codes -> Agents \cup {NoAgent}], _save_tokens(T)
  PROVE  /\ disk' \in [Codes -> Agents \cup {NoAgent}]
         /\ errors' \in 0..MaxErrors
         /\ \A c \in Codes : disk'[c] \in {T[c], disk[c], NoAgent}
         /\ errors' = 0 => errors = 0 /\ disk' = T
<1>1. errors \in Nat /\ MaxErrors \in Nat
  BY BoundAssumption DEF OAuthTypes
<1>2. CASE disk' = T /\ UNCHANGED errors
  BY <1>2 DEF OAuthTypes
<1>3. CASE errors < MaxErrors /\ errors' = errors + 1 /\ disk' \in {disk, NoTokens}
  BY <1>1, <1>3, CodeNumbers DEF OAuthTypes, NoTokens
<1> QED
  BY <1>2, <1>3 DEF _save_tokens

\* Tokens are taken out of the table, and the file is written or not.
LEMMA TakenOut ==
  ASSUME OAuthInv, NEW R \in SUBSET Codes,
         tokens' \in [Codes -> Agents \cup {NoAgent}],
         \A c \in Codes : tokens'[c] = IF c \in R THEN NoAgent ELSE tokens[c],
         \A c \in R : tokens[c] # NoAgent,
         _save_tokens(tokens'), revoked' = revoked \cup R,
         UNCHANGED <<codes, over, issued, redeemed, crashes>>
  PROVE  OAuthInv'
<1>1. /\ disk' \in [Codes -> Agents \cup {NoAgent}]
      /\ errors' \in 0..MaxErrors
      /\ \A c \in Codes : disk'[c] \in {tokens'[c], disk[c], NoAgent}
      /\ errors' = 0 => errors = 0 /\ disk' = tokens'
  BY SaveStep DEF OAuthInv
<1>2. OAuthTypes'
  BY <1>1 DEF OAuthInv, OAuthTypes
<1>3. \A c \in R : ~Unused(c)
  BY DEF OAuthInv, CodeInv
<1>4. CodeInv'
  BY <1>1, <1>3 DEF OAuthInv, CodeInv, Unused
<1>5. errors' = 0 \/ crashes' = 0 => \A t \in revoked' : tokens'[t] = NoAgent
  BY <1>1 DEF OAuthInv, RevokedInv, OAuthTypes
<1>6. errors' = 0 => \A t \in revoked' : disk'[t] = NoAgent
  BY <1>1, <1>5 DEF OAuthInv, OAuthTypes
<1> QED
  BY <1>2, <1>4, <1>5, <1>6 DEF OAuthInv, RevokedInv

LEMMA OAuthKept ==
  ASSUME OAuthInv, OAuthStep
  PROVE  OAuthInv'
<1>1. ASSUME NEW a \in Agents, oauth_approve(a) PROVE OAuthInv'
  <2>1. issued \in Nat /\ issued' = issued + 1 /\ issued' \in 0..MaxTokens /\ issued + 1 \in Codes
    BY <1>1, CodeNumbers DEF oauth_approve, OAuthInv, OAuthTypes, Codes
  <2>2. codes' = [codes EXCEPT ![issued + 1] = a] /\ codes' \in [Codes -> Agents \cup {NoAgent}]
    BY <1>1, <2>1 DEF oauth_approve, OAuthInv, OAuthTypes
  <2>3. UNCHANGED <<tokens, disk, over, revoked, redeemed, crashes, errors>>
    BY <1>1 DEF oauth_approve
  <2>4. OAuthTypes' /\ RevokedInv'
    BY <2>1, <2>2, <2>3 DEF OAuthInv, OAuthTypes, RevokedInv
  <2>5. \A c \in Codes : Unused(c)' => Unused(c)
    BY <2>1, <2>2, CodeNumbers DEF OAuthInv, OAuthTypes, Unused
  <2>6. \A c \in Codes : c > issued' => codes'[c] = NoAgent
    BY <2>1, <2>2, CodeNumbers DEF OAuthInv, OAuthTypes, CodeInv
  <2>7. CodeInv'
    BY <2>3, <2>5, <2>6 DEF OAuthInv, CodeInv
  <2> QED
    BY <2>4, <2>7 DEF OAuthInv
<1>2. ASSUME NEW c \in Codes, oauth_token(c) PROVE OAuthInv'
  <2>1. /\ codes[c] \in Agents /\ codes' = [codes EXCEPT ![c] = NoAgent]
        /\ codes' \in [Codes -> Agents \cup {NoAgent}]
        /\ UNCHANGED <<over, revoked, issued, crashes>>
    BY <1>2 DEF oauth_token, OAuthInv, OAuthTypes
  <2>2. c \notin revoked /\ redeemed[c] = 0 /\ tokens[c] = NoAgent /\ disk[c] = NoAgent /\ Unused(c)
    BY <2>1, BoundAssumption DEF OAuthInv, CodeInv, Unused
  <2>3. ~(c > issued)
    BY <2>1, BoundAssumption DEF OAuthInv, CodeInv
  <2>4. /\ \A d \in Codes : d > issued' => codes'[d] = NoAgent
        /\ \A d \in Codes : Unused(d)' => Unused(d) /\ d # c
    BY <2>1, <2>3 DEF OAuthInv, OAuthTypes, CodeInv, Unused
  <2>5. CASE UNCHANGED <<tokens, disk, redeemed, errors>>
    <3>1. OAuthTypes' /\ RevokedInv'
      BY <2>1, <2>5 DEF OAuthInv, OAuthTypes, RevokedInv
    <3>2. CodeInv'
      BY <2>1, <2>4, <2>5 DEF OAuthInv, CodeInv
    <3> QED
      BY <3>1, <3>2 DEF OAuthInv
  <2>6. CASE /\ tokens' = [tokens EXCEPT ![c] = codes[c]]
             /\ _save_tokens(tokens')
             /\ redeemed' = [redeemed EXCEPT ![c] = @ + 1]
    <3>1. /\ tokens' \in [Codes -> Agents \cup {NoAgent}]
          /\ redeemed' \in [Codes -> Nat] /\ redeemed'[c] = 1
          /\ \A d \in Codes \ {c} : tokens'[d] = tokens[d] /\ redeemed'[d] = redeemed[d]
      BY <2>1, <2>2, <2>6 DEF OAuthInv, OAuthTypes
    <3>2. /\ disk' \in [Codes -> Agents \cup {NoAgent}]
          /\ errors' \in 0..MaxErrors
          /\ \A d \in Codes : disk'[d] \in {tokens'[d], disk[d], NoAgent}
          /\ errors' = 0 => errors = 0 /\ disk' = tokens'
      BY <2>6, <3>1, SaveStep DEF OAuthInv
    <3>3. OAuthTypes'
      BY <2>1, <3>1, <3>2 DEF OAuthInv, OAuthTypes
    <3>4. \A d \in Codes : Unused(d)' =>
            redeemed'[d] = 0 /\ tokens'[d] = NoAgent /\ disk'[d] = NoAgent /\ d \notin revoked'
      BY <2>1, <2>4, <3>1, <3>2 DEF OAuthInv, CodeInv
    <3>5. \A d \in Codes : redeemed'[d] <= 1
      BY <3>1 DEF OAuthInv, CodeInv
    <3>6. \A t \in revoked' : t \in Codes \ {c}
      BY <2>1, <2>2 DEF OAuthInv, OAuthTypes
    <3>7. errors' = 0 \/ crashes' = 0 => \A t \in revoked' : tokens'[t] = NoAgent
      BY <2>1, <3>1, <3>2, <3>6 DEF OAuthInv, RevokedInv
    <3>8. errors' = 0 => \A t \in revoked' : disk'[t] = NoAgent
      BY <3>2, <3>7
    <3> QED
      BY <2>4, <3>3, <3>4, <3>5, <3>7, <3>8 DEF OAuthInv, CodeInv, RevokedInv
  <2> QED
    BY <1>2, <2>5, <2>6 DEF oauth_token
<1>3. ASSUME NEW t \in Codes, TokenExpires(t) PROVE OAuthInv'
  <2>1. over' \subseteq Codes
    BY <1>3 DEF TokenExpires, OAuthInv, OAuthTypes
  <2>2. UNCHANGED <<codes, tokens, disk, revoked, issued, redeemed, crashes, errors>>
    BY <1>3 DEF TokenExpires
  <2> QED
    BY <2>1, <2>2 DEF OAuthInv, OAuthTypes, CodeInv, Unused, RevokedInv
<1>4. ASSUME NEW t \in Codes, DropExpired(t) PROVE OAuthInv'
  <2>1. /\ tokens' \in [Codes -> Agents \cup {NoAgent}]
        /\ \A c \in Codes : tokens'[c] \in {tokens[c], NoAgent}
    BY <1>4 DEF DropExpired, OAuthInv, OAuthTypes
  <2>2. UNCHANGED <<codes, disk, over, revoked, issued, redeemed, crashes, errors>>
    BY <1>4 DEF DropExpired
  <2>3. OAuthTypes'
    BY <2>1, <2>2 DEF OAuthInv, OAuthTypes
  <2>4. CodeInv'
    BY <2>1, <2>2 DEF OAuthInv, CodeInv, Unused
  <2>5. RevokedInv'
    BY <2>1, <2>2 DEF OAuthInv, OAuthTypes, RevokedInv
  <2> QED
    BY <2>3, <2>4, <2>5 DEF OAuthInv
<1>5. ASSUME NEW t \in Codes, revoke_token(t) PROVE OAuthInv'
  <2>1. /\ tokens' \in [Codes -> Agents \cup {NoAgent}]
        /\ \A c \in Codes : tokens'[c] = IF c \in {t} THEN NoAgent ELSE tokens[c]
        /\ \A c \in {t} : tokens[c] # NoAgent
    BY <1>5 DEF revoke_token, OAuthInv, OAuthTypes
  <2>2. _save_tokens(tokens') /\ revoked' = revoked \cup {t}
        /\ UNCHANGED <<codes, over, issued, redeemed, crashes>>
    BY <1>5 DEF revoke_token
  <2> QED
    BY <2>1, <2>2, TakenOut
<1>6. ASSUME revoke_mcp_sessions PROVE OAuthInv'
  <2> DEFINE R == {t \in Codes : tokens[t] # NoAgent}
  <2>1. tokens' = NoTokens /\ _save_tokens(tokens') /\ revoked' = revoked \cup R
        /\ UNCHANGED <<codes, over, issued, redeemed, crashes>>
    BY <1>6 DEF revoke_mcp_sessions
  <2>2. /\ tokens' \in [Codes -> Agents \cup {NoAgent}] /\ R \in SUBSET Codes
        /\ \A c \in Codes : tokens'[c] = IF c \in R THEN NoAgent ELSE tokens[c]
        /\ \A c \in R : tokens[c] # NoAgent
    BY <2>1, CodeNumbers DEF NoTokens
  <2> HIDE DEF R
  <2> QED
    BY <2>1, <2>2, TakenOut
<1>7. ASSUME Restart PROVE OAuthInv'
  <2>1. /\ disk' = disk \/ disk' = NoTokens
        /\ codes' = NoTokens /\ tokens' = disk' /\ crashes' = crashes + 1 /\ crashes < MaxCrashes
        /\ UNCHANGED <<over, revoked, issued, redeemed, errors>>
    BY <1>7 DEF Restart
  <2>2. /\ \A c \in Codes : disk'[c] \in {disk[c], NoAgent} /\ codes'[c] = NoAgent
        /\ disk' \in [Codes -> Agents \cup {NoAgent}]
    BY <2>1, CodeNumbers DEF NoTokens, OAuthInv, OAuthTypes
  <2>3. crashes' \in 0..MaxCrashes /\ crashes' # 0
    BY <2>1, BoundAssumption DEF OAuthInv, OAuthTypes
  <2>4. OAuthTypes'
    BY <2>1, <2>2, <2>3, CodeNumbers DEF OAuthInv, OAuthTypes
  <2>5. \A c \in Codes : Unused(c)' => Unused(c)
    BY <2>1, <2>2 DEF Unused
  <2>6. CodeInv'
    BY <2>1, <2>2, <2>5 DEF OAuthInv, CodeInv
  <2>7. RevokedInv'
    BY <2>1, <2>2, <2>3 DEF OAuthInv, OAuthTypes, RevokedInv
  <2> QED
    BY <2>4, <2>6, <2>7 DEF OAuthInv
<1> QED
  BY <1>1, <1>2, <1>3, <1>4, <1>5, <1>6, <1>7 DEF OAuthStep

-----------------------------------------------------------------------------
(* The theorems.                                                           *)

\* The registry and the OAuth tables are changed by different handlers.
LEMMA Apart ==
  ASSUME Next
  PROVE  \/ RegistryStep /\ UNCHANGED <<codes, tokens, disk, over, issued, revoked, redeemed, crashes, errors>>
         \/ OAuthStep /\ UNCHANGED <<agents, keys, reentered, retired, changes>>
<1>1. RegistryStep \/ OAuthStep
  BY DEF Next, RegistryStep, OAuthStep
<1>2. ASSUME RegistryStep PROVE UNCHANGED <<oauthVars, crashes, errors>>
  <2>1. ASSUME NEW a \in Agents, cr_agent(a) \/ up_agent(a) PROVE UNCHANGED <<oauthVars, crashes, errors>>
    BY <2>1, Zenon DEF cr_agent, up_agent
  <2>2. ASSUME NEW a \in Agents, \/ gen_agent_key(a) \/ del_agent(a) \/ toggle_agent(a) \/ imp_agents(a)
                                 \/ \E b \in Agents : dup_agent(a, b)
        PROVE  UNCHANGED <<oauthVars, crashes, errors>>
    BY <2>2 DEF gen_agent_key, del_agent, toggle_agent, imp_agents, dup_agent
  <2>3. ASSUME import_backup \/ ops_expiry \/ \E A \in SUBSET Agents : GrantLapses(A)
        PROVE  UNCHANGED <<oauthVars, crashes, errors>>
    BY <2>3 DEF GrantLapses, import_backup, ops_expiry
  <2> QED
    BY <1>2, <2>1, <2>2, <2>3 DEF RegistryStep
<1>3. ASSUME OAuthStep PROVE UNCHANGED <<agents, keys, reentered, retired, changes>>
  BY <1>3 DEF OAuthStep, registryVars, oauth_approve, oauth_token, TokenExpires, DropExpired,
              revoke_token, revoke_mcp_sessions, Restart
<1> QED
  BY <1>1, <1>2, <1>3 DEF oauthVars

LEMMA InvInit == Init => IInv
<1> SUFFICES ASSUME Init PROVE IInv
  OBVIOUS
<1>1. RegistryTypes
  BY BoundAssumption DEF Init, RegistryTypes
<1>2. KeyInv
  BY NoEntry DEF Init, KeyInv
<1>3. OAuthTypes
  BY BoundAssumption, CodeNumbers DEF Init, OAuthTypes
<1>4. CodeInv /\ RevokedInv
  BY DEF Init, CodeInv, RevokedInv, NoTokens
<1> QED
  BY <1>1, <1>2, <1>3, <1>4, TypeParts DEF IInv

LEMMA InvStep == IInv /\ [Next]_vars => IInv'
<1> SUFFICES ASSUME IInv, [Next]_vars PROVE RegistryTypes' /\ KeyInv' /\ OAuthInv'
  BY TypeParts DEF IInv, OAuthInv, TypeOK, RegistryTypes, OAuthTypes
<1>1. RegistryTypes /\ KeyInv /\ OAuthInv
  BY TypeParts DEF IInv, OAuthInv
<1>2. ASSUME UNCHANGED <<agents, keys, reentered, retired, changes>> PROVE RegistryTypes' /\ KeyInv'
  BY <1>1, <1>2 DEF RegistryTypes, KeyInv
<1>3. ASSUME UNCHANGED <<codes, tokens, disk, over, issued, revoked, redeemed, crashes, errors>>
      PROVE  OAuthInv'
  BY <1>1, <1>3 DEF OAuthInv, OAuthTypes, CodeInv, Unused, RevokedInv
<1>4. CASE Next
  BY <1>1, <1>2, <1>3, <1>4, Apart, RegistryKept, OAuthKept
<1>5. CASE UNCHANGED vars
  BY <1>2, <1>3, <1>5 DEF vars, oauthVars
<1> QED
  BY <1>4, <1>5

\* Registry entries, codes and tokens are well formed.
THEOREM AccessTypes == Spec => []TypeOK
<1>1. IInv => TypeOK
  BY DEF IInv
<1> QED
  BY <1>1, InvInit, InvStep, PTL DEF Spec

\* A key that was replaced or deleted opens the gate to nobody, whatever copies,
\* imports, restores and re-creations follow, unless the administrator types it again.
THEOREM RetiredKeysStayOutHolds == Spec => []RetiredKeysStayOut
<1>1. IInv => RetiredKeysStayOut
  BY DEF IInv, KeyInv, RetiredKeysStayOut, KeyAccepted
<1> QED
  BY <1>1, InvInit, InvStep, PTL DEF Spec

\* No two agents hold one key, unless the administrator typed it for both.
THEOREM KeyIdentifiesAgentHolds == Spec => []KeyIdentifiesAgent
<1>1. IInv => KeyIdentifiesAgent
  BY DEF IInv, KeyInv, KeyIdentifiesAgent
<1> QED
  BY <1>1, InvInit, InvStep, PTL DEF Spec

\* A revoked token is not accepted, after a restart neither, as long as no write
\* of the token file failed before it.
THEOREM RevokedStaysRevokedHolds == Spec => []RevokedStaysRevoked
<1>1. IInv => RevokedStaysRevoked
  BY DEF IInv, RevokedInv, RevokedStaysRevoked, TokenAccepted
<1> QED
  BY <1>1, InvInit, InvStep, PTL DEF Spec

\* An authorization code is exchanged for one token at most, across restarts.
THEOREM OneTokenPerCodeHolds == Spec => []OneTokenPerCode
<1>1. IInv => OneTokenPerCode
  BY DEF IInv, CodeInv, OneTokenPerCode
<1> QED
  BY <1>1, InvInit, InvStep, PTL DEF Spec
=============================================================================
