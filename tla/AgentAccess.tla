---------------------------- MODULE AgentAccess ----------------------------
(***************************************************************************)
(* What lets an agent in: its registry entry (enabled, timed grant, static *)
(* key) and the OAuth codes and tokens bound to it.                        *)
(*                                                                         *)
(* Every handler here runs without suspending, so each is one action.      *)
(* agents.yaml is written atomically; the token file is not, and a failed  *)
(* write of it is only logged.  Time is abstract: a grant may lapse and a  *)
(* token expire at any moment.                                             *)
(*                                                                         *)
(* Definitions with an underscore and a capital (dup_agent_WithKey) are    *)
(* slips the properties are tried against; Next does not use them.         *)
(***************************************************************************)
EXTENDS Naturals

CONSTANTS
  Agents,      \* agent identifiers
  NoAgent,
  MaxKeys,     \* bound on static keys, generated or typed
  MaxTokens,   \* bound on authorization codes (and so on tokens) issued
  MaxChanges,  \* bound on edits, imports, restores and toggles
  MaxCrashes,  \* bound on restarts
  MaxErrors    \* bound on failed writes of the token file

Codes == 1..MaxTokens     \* a token has the number of the code it was given for

ASSUME BoundAssumption ==
  /\ NoAgent \notin Agents
  /\ MaxKeys \in Nat /\ MaxTokens \in Nat /\ MaxChanges \in Nat
  /\ MaxCrashes \in Nat /\ MaxErrors \in Nat

VARIABLES
  agents,   \* agents.yaml
  codes,    \* auth_codes: code -> agent, or NoAgent
  tokens,   \* access_tokens in memory: token -> agent, or NoAgent
  disk,     \* the token file
  over,     \* tokens past their 90 days
  keys, issued, changes, crashes, errors,   \* how many of each there have been
  retired,  \* keys replaced or deleted so far
  reentered, \* keys the administrator typed though they were, or had been, in use
  revoked,  \* tokens the administrator has revoked
  redeemed  \* redeemed[c]: how many tokens code c was exchanged for

oauthVars  == <<codes, tokens, disk, over, issued, revoked, redeemed>>
vars == <<agents, keys, reentered, retired, changes, crashes, errors, oauthVars>>

\* grant: enabled_until is 0, in the future or in the past; key 0 is no key.
Entry  == [enabled: BOOLEAN, timed: BOOLEAN, grant: {"none", "live", "over"}, key: 0..MaxKeys]
Absent == [enabled |-> FALSE, timed |-> FALSE, grant |-> "none", key |-> 0, gone |-> TRUE]

\* The type invariant: registry entries, codes and tokens are well formed.
TypeOK ==
  /\ agents \in [Agents -> Entry \cup {Absent}]
  /\ \A f \in {codes, tokens, disk} : f \in [Codes -> Agents \cup {NoAgent}]
  /\ over \subseteq Codes /\ revoked \subseteq Codes
  /\ retired \subseteq 1..MaxKeys /\ reentered \subseteq 1..MaxKeys
  /\ keys \in 0..MaxKeys /\ issued \in 0..MaxTokens /\ changes \in 0..MaxChanges
  /\ crashes \in 0..MaxCrashes /\ errors \in 0..MaxErrors
  /\ redeemed \in [Codes -> Nat]

NoTokens == [c \in Codes |-> NoAgent]

Init ==
  /\ agents = [a \in Agents |-> Absent]
  /\ codes = NoTokens
  /\ tokens = NoTokens
  /\ disk = NoTokens
  /\ over = {}
  /\ keys = 0 /\ issued = 0 /\ changes = 0 /\ crashes = 0 /\ errors = 0
  /\ retired = {} /\ reentered = {}
  /\ revoked = {}
  /\ redeemed = [c \in Codes |-> 0]

-----------------------------------------------------------------------------
(* Who is let in.                                                          *)

Exists(a) == agents[a] # Absent

\* Enabled and, for a timed agent, inside a live grant.
agent_active(a) == agents[a].enabled /\ (agents[a].timed => agents[a].grant = "live")

\* verify_agent_key: the key belongs to an active agent.  (Of several agents with one
\* key _key_owner takes the last in the file; here it may be any.)
KeyAccepted(k) == \E a \in Agents : agents[a].key = k /\ agent_active(a)

\* _require_mcp_auth with an OAuth token.
TokenAccepted(t) ==
  /\ tokens[t] # NoAgent
  /\ t \notin over
  /\ agent_active(tokens[t])

-----------------------------------------------------------------------------
(* The registry: routes_admin and the expiry task.                         *)

\* Replace an entry; a key that is no longer in it is retired.
upsert_agent(a, e) ==
  /\ agents' = [agents EXCEPT ![a] = e]
  /\ retired' = retired \cup ({agents[a].key} \ {0, e.key})

Change == changes < MaxChanges /\ changes' = changes + 1

NextKey == keys + 1

\* The form sends a key: one nobody had, or one typed again.  It is not compared
\* with the keys that are or were in use.
set_agent_key(a, e) ==
  /\ e.key <= NextKey
  /\ upsert_agent(a, e)
  /\ keys' = IF e.key = NextKey THEN e.key ELSE keys
  /\ reentered' = reentered \cup ({e.key} \ {NextKey, agents[a].key})

\* A new agent always gets a key, from the form or generated; a timed one starts
\* without a grant.
cr_agent(a) ==
  /\ Change
  /\ ~Exists(a)
  /\ \E enabled, timed \in BOOLEAN, key \in 1..MaxKeys :
       set_agent_key(a, [enabled |-> enabled, timed |-> timed, grant |-> "none", key |-> key])
  /\ UNCHANGED <<crashes, errors, oauthVars>>

Edited(a, enabled, timed, key) ==
  [enabled |-> enabled, timed |-> timed, grant |-> IF timed THEN agents[a].grant ELSE "none", key |-> key]

\* Edit: a permanent agent loses a stale grant; the key is kept, or replaced by the
\* one in the form.  Editing an unknown id creates it.
up_agent(a) ==
  /\ Change
  /\ \E enabled, timed \in BOOLEAN :
       \/ /\ upsert_agent(a, Edited(a, enabled, timed, agents[a].key))
          /\ UNCHANGED <<keys, reentered>>
       \/ \E key \in 1..MaxKeys : set_agent_key(a, Edited(a, enabled, timed, key))
  /\ UNCHANGED <<crashes, errors, oauthVars>>

gen_agent_key(a) ==
  /\ Change
  /\ Exists(a)
  /\ NextKey <= MaxKeys
  /\ keys' = NextKey
  /\ upsert_agent(a, [agents[a] EXCEPT !.key = NextKey])
  /\ UNCHANGED <<reentered, crashes, errors, oauthVars>>

del_agent(a) ==
  /\ Change
  /\ Exists(a)
  /\ upsert_agent(a, Absent)
  /\ UNCHANGED <<keys, reentered, crashes, errors, oauthVars>>

toggle_agent_Unchecked(a) ==
  /\ Change
  /\ LET on == ~agents[a].enabled IN
     upsert_agent(a, [agents[a] EXCEPT !.enabled = on,
                                       !.grant = IF on /\ agents[a].timed THEN "live" ELSE "none"])
  /\ UNCHANGED <<keys, reentered, crashes, errors, oauthVars>>

\* Switching a timed agent on opens a grant; switching off ends it.
toggle_agent(a) ==
  /\ Change
  /\ Exists(a)
  /\ LET on == ~agents[a].enabled IN
     upsert_agent(a, [agents[a] EXCEPT !.enabled = on,
                                       !.grant = IF on /\ agents[a].timed THEN "live" ELSE "none"])
  /\ UNCHANGED <<keys, reentered, crashes, errors, oauthVars>>

dup_agent_WithKey(a, b) ==
  /\ Change
  /\ Exists(a) /\ ~Exists(b)
  /\ upsert_agent(b, [agents[a] EXCEPT !.enabled = FALSE])
  /\ UNCHANGED <<keys, reentered, crashes, errors, oauthVars>>

\* The copy is disabled and has no key.
dup_agent(a, b) ==
  /\ Change
  /\ Exists(a) /\ ~Exists(b)
  /\ upsert_agent(b, [agents[a] EXCEPT !.enabled = FALSE, !.key = 0])
  /\ UNCHANGED <<keys, reentered, crashes, errors, oauthVars>>

imp_agents_WithKey(a) ==
  /\ Change
  /\ \E e \in Entry : e.key <= keys /\ upsert_agent(a, e)
  /\ UNCHANGED <<keys, reentered, crashes, errors, oauthVars>>

\* An imported entry replaces the stored one; its key fields are dropped.
imp_agents(a) ==
  /\ Change
  /\ \E e \in Entry : e.key = 0 /\ upsert_agent(a, e)
  /\ UNCHANGED <<keys, reentered, crashes, errors, oauthVars>>

\* A restored backup replaces the registry; its entries have no key fields (and,
\* as the forms see to it, no grant for a permanent agent).
import_backup ==
  /\ Change
  /\ agents' \in [Agents -> {e \in Entry : e.key = 0 /\ (e.timed \/ e.grant = "none")} \cup {Absent}]
  /\ retired' = retired \cup ({agents[a].key : a \in Agents} \ {0})
  /\ UNCHANGED <<keys, reentered, crashes, errors, oauthVars>>

\* Copies of one entry share their enabled_until.
GrantLapses(A) ==
  /\ A # {} /\ \A a \in A : agents[a].grant = "live"
  /\ agents' = [a \in Agents |-> IF a \in A THEN [agents[a] EXCEPT !.grant = "over"] ELSE agents[a]]
  /\ UNCHANGED <<keys, reentered, retired, changes, crashes, errors, oauthVars>>

Lapsed_NotMissing == {a \in Agents : agents[a].enabled /\ agents[a].timed /\ agents[a].grant = "over"}

\* The enabled timed agents whose grant expired or is missing.
Lapsed == {a \in Agents : agents[a].enabled /\ agents[a].timed /\ agents[a].grant # "live"}

\* One pass of ops_expiry_loop (its notifications do not suspend it).
ops_expiry ==
  /\ Lapsed # {}
  /\ agents' = [a \in Agents |->
       IF a \in Lapsed THEN [agents[a] EXCEPT !.enabled = FALSE, !.grant = "none"] ELSE agents[a]]
  /\ UNCHANGED <<keys, reentered, retired, changes, crashes, errors, oauthVars>>

-----------------------------------------------------------------------------
(* OAuth: mcp_transport.                                                   *)

registryVars == <<agents, keys, reentered, retired, changes>>

\* _save_tokens: writes t, or fails; then the file is as it was, or truncated.
_save_tokens(t) ==
  \/ /\ disk' = t
     /\ UNCHANGED errors
  \/ /\ errors < MaxErrors
     /\ errors' = errors + 1
     /\ disk' \in {disk, NoTokens}

\* The operator approves a client for an existing agent: a code is handed out.
oauth_approve(a) ==
  /\ issued < MaxTokens
  /\ Exists(a)
  /\ issued' = issued + 1
  /\ codes' = [codes EXCEPT ![issued + 1] = a]
  /\ UNCHANGED <<registryVars, tokens, disk, over, revoked, redeemed, crashes, errors>>

oauth_token_NoPop(c) ==
  /\ codes[c] # NoAgent
  /\ tokens' = [tokens EXCEPT ![c] = codes[c]]
  /\ _save_tokens(tokens')
  /\ redeemed' = [redeemed EXCEPT ![c] = @ + 1]
  /\ UNCHANGED <<registryVars, codes, over, revoked, issued, crashes>>

\* A code is taken out whatever comes of it: it expired, another client sent
\* it, PKCE fails, or a token is issued and saved.
oauth_token(c) ==
  /\ codes[c] # NoAgent
  /\ codes' = [codes EXCEPT ![c] = NoAgent]
  /\ \/ UNCHANGED <<tokens, disk, redeemed, errors>>
     \/ /\ tokens' = [tokens EXCEPT ![c] = codes[c]]
        /\ _save_tokens(tokens')
        /\ redeemed' = [redeemed EXCEPT ![c] = @ + 1]
  /\ UNCHANGED <<registryVars, over, revoked, issued, crashes>>

TokenExpires(t) ==
  /\ tokens[t] # NoAgent \/ disk[t] # NoAgent
  /\ t \notin over
  /\ over' = over \cup {t}
  /\ UNCHANGED <<registryVars, codes, tokens, disk, revoked, issued, redeemed, crashes, errors>>

\* _require_mcp_auth drops an expired token from memory, not from the file.
DropExpired(t) ==
  /\ tokens[t] # NoAgent
  /\ t \in over
  /\ tokens' = [tokens EXCEPT ![t] = NoAgent]
  /\ UNCHANGED <<registryVars, codes, disk, over, revoked, issued, redeemed, crashes, errors>>

revoke_NoSave(t) ==
  /\ tokens[t] # NoAgent
  /\ tokens' = [tokens EXCEPT ![t] = NoAgent]
  /\ revoked' = revoked \cup {t}
  /\ UNCHANGED <<registryVars, codes, disk, over, issued, redeemed, crashes, errors>>

\* revoke_token_by_hash
revoke_token(t) ==
  /\ tokens[t] # NoAgent
  /\ tokens' = [tokens EXCEPT ![t] = NoAgent]
  /\ _save_tokens(tokens')
  /\ revoked' = revoked \cup {t}
  /\ UNCHANGED <<registryVars, codes, over, issued, redeemed, crashes>>

\* "Revoke all" on the MCP connection page.
revoke_mcp_sessions ==
  /\ tokens # NoTokens
  /\ tokens' = NoTokens
  /\ _save_tokens(tokens')
  /\ revoked' = revoked \cup {t \in Codes : tokens[t] # NoAgent}
  /\ UNCHANGED <<registryVars, codes, over, issued, redeemed, crashes>>

\* The process dies and restarts, possibly in the middle of writing the token
\* file for a redeemed code or a revocation.
Restart ==
  /\ crashes < MaxCrashes
  /\ crashes' = crashes + 1
  /\ \/ UNCHANGED disk
     \/ /\ codes # NoTokens \/ tokens # NoTokens
        /\ disk' = NoTokens
  /\ codes' = NoTokens
  /\ tokens' = disk'
  /\ UNCHANGED <<registryVars, over, revoked, issued, redeemed, errors>>

-----------------------------------------------------------------------------
Next ==
  \/ \E a \in Agents : \/ cr_agent(a) \/ up_agent(a) \/ gen_agent_key(a) \/ del_agent(a)
                       \/ toggle_agent(a) \/ imp_agents(a) \/ oauth_approve(a)
                       \/ \E b \in Agents : dup_agent(a, b)
  \/ \E A \in SUBSET Agents : GrantLapses(A)
  \/ import_backup
  \/ ops_expiry
  \/ \E t \in Codes : oauth_token(t) \/ TokenExpires(t) \/ DropExpired(t) \/ revoke_token(t)
  \/ revoke_mcp_sessions
  \/ Restart

\* Minutes pass and ops_expiry_loop comes back every 15 seconds.
Fairness ==
  /\ \A a \in Agents : WF_vars(\E A \in SUBSET Agents : a \in A /\ GrantLapses(A))
  /\ WF_vars(ops_expiry)

Spec     == Init /\ [][Next]_vars
FairSpec == Spec /\ Fairness

-----------------------------------------------------------------------------
(* Properties.                                                             *)

\* "Rotated agent keys stayed valid" (CHANGELOG 0.1.6) does not come back: no
\* copy, import, restore, edit or re-creation brings a replaced or deleted key to
\* life, unless the administrator typed it again.
RetiredKeysStayOut == \A k \in retired \ reentered : ~KeyAccepted(k)

\* A key identifies one agent: the allow_ip, grants and command sets applied to a
\* call are those of the agent the key was set for, unless the administrator typed
\* for one agent the key of another.
KeyIdentifiesAgent ==
  \A a, b \in Agents :
    a # b /\ agents[a].key \notin {0} \cup reentered => agents[a].key # agents[b].key

\* A revoked token is never accepted again, not after a restart either, unless
\* the token file could not be written before the restart.
RevokedStaysRevoked ==
  errors = 0 \/ crashes = 0 => \A t \in revoked : ~TokenAccepted(t)

\* An authorization code yields at most one token.
OneTokenPerCode == \A c \in Codes : redeemed[c] <= 1

\* "switching the agent on opens it for N minutes, then it switches itself off":
\* whatever edits, copies and imports happen meanwhile.
GrantsEnd ==
  \A a \in Agents : agents[a].enabled /\ agents[a].timed ~> ~(agents[a].enabled /\ agents[a].timed)
=============================================================================
