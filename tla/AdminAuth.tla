----------------------------- MODULE AdminAuth -----------------------------
(***************************************************************************)
(* Administrator sign-in (auth.py, routes_auth.py): sessions and           *)
(* remembered devices that an epoch number revokes, TOTP codes, one-time   *)
(* recovery codes, and the config file they are kept in.                   *)
(*                                                                         *)
(* Sessions are signed cookies: nothing is stored of them but the epoch    *)
(* they must match, and cookies of one kind and epoch are not told apart.  *)
(* The password has been set, and who signs in knows it.                   *)
(*                                                                         *)
(* A handler runs without suspending once it has the request body; what it *)
(* did before it awaited the body may be out of date by then.  Three       *)
(* handlers have checked the session, and the settings pages have read the *)
(* whole config, which they write back.  Time is a number of 30-second     *)
(* TOTP steps.                                                             *)
(*                                                                         *)
(* Definitions with an underscore and a capital (Bumped_Kept) are       *)
(* slips the properties are tried against; Next does not use them.         *)
(***************************************************************************)
EXTENDS Integers, FiniteSets

CONSTANTS
  Slots,        \* requests awaiting their body, and backups, at a time
  MaxStep,      \* bound on the clock
  MaxBatches,   \* bound on batches of recovery codes
  BatchSize,    \* recovery codes per batch (10 in the code)
  MaxEpoch      \* bound on revocations

ASSUME BoundAssumption ==
  /\ MaxStep \in Nat \ {0} /\ MaxBatches \in Nat /\ BatchSize \in Nat
  /\ MaxEpoch \in Nat

Steps  == 1..MaxStep
Codes  == (1..MaxBatches) \X (1..BatchSize)
Batch(b) == {b} \X (1..BatchSize)

VARIABLES
  config,      \* config.yaml: the auth section
  held,        \* held[c]: a request awaiting its body, or a backup
  tokens,      \* the session and device cookies that have been given out
  ended,       \* those that had been when everything was last revoked
  now,         \* the current TOTP step
  totp_last,   \* _totp_last: the last step whose code was accepted
  batches,     \* batches of recovery codes made so far
  stepUses,    \* how often the code of each TOTP step was accepted since the last start
  codeUses,    \* how often each recovery code was accepted
  overwritten  \* a write of the whole config has undone a change of the auth section

authVars == <<config, batches>>
useVars  == <<totp_last, stepUses, codeUses>>
vars == <<authVars, held, tokens, now, useVars, ended, overwritten>>

\* enrolled: a TOTP secret is confirmed; required: the setting totp_required.
Auth   == [epoch: 0..MaxEpoch, enrolled: BOOLEAN, required: BOOLEAN, recovery: SUBSET Codes]
Fresh  == [epoch |-> 0, enrolled |-> FALSE, required |-> TRUE, recovery |-> {}]

\* stepped: a full session whose step-up has not run out.
Tokens == [kind: {"full", "stepped", "enroll", "device"}, epoch: 0..MaxEpoch]

\* config: as the settings page read it, or as it was backed up.
Nothing == [by |-> "nobody", config |-> Fresh]
Holding ==
  [by: {"page", "backup"}, config: Auth]
    \cup [by: {"change_password", "security_put", "totp_confirm"}, config: {Fresh}]

\* The type invariant: the auth section and every copy of it are well formed.
TypeOK ==
  /\ config \in Auth
  /\ held \in [Slots -> Holding \cup {Nothing}]
  /\ tokens \subseteq Tokens /\ ended \subseteq tokens
  /\ now \in Steps /\ totp_last \in 0..MaxStep
  /\ batches \in 0..MaxBatches
  /\ stepUses \in [Steps -> Nat] /\ codeUses \in [Codes -> 0..2]
  /\ overwritten \in BOOLEAN

Init ==
  /\ config = Fresh /\ batches = 0
  /\ held = [c \in Slots |-> Nothing]
  /\ tokens = {}
  /\ now = 1 /\ totp_last = 0
  /\ ended = {}
  /\ stepUses = [s \in Steps |-> 0]
  /\ codeUses = [c \in Codes |-> 0]
  /\ overwritten = FALSE

-----------------------------------------------------------------------------
(* Tokens and second factors.                                              *)

\* session and device_ok: the epoch must be the current one.
Accepted(t) == t \in tokens /\ t.epoch = config.epoch

SignedIn == \E t \in tokens : Accepted(t) /\ t.kind \in {"full", "stepped"}

\* stepup_needed: what is sensitive takes a session with a step-up.
SteppedUp == \E t \in tokens : Accepted(t) /\ t.kind = "stepped"

\* Cookies given out under epoch ep.
Mint(kinds, ep) == tokens' = tokens \cup {[kind |-> k, epoch |-> ep] : k \in kinds}

totp_active == config.required /\ config.enrolled

Acceptable_Window(s) == s \in {now - 1, now, now + 1} \cap Steps

\* _check_code: the code of the last, the current or the next step, once.
Acceptable(s) == s \in {now - 1, now, now + 1} \cap Steps /\ s > totp_last

_check_code(s) ==
  /\ Acceptable(s)
  /\ totp_last' = s
  /\ stepUses' = [stepUses EXCEPT ![s] = @ + 1]
  /\ UNCHANGED codeUses

\* Uses are counted up to two: an overwritten config may bring a code back for ever.
Counted(n) == IF n < 2 THEN n + 1 ELSE n

recovery_Kept(c) ==
  /\ c \in config.recovery
  /\ UNCHANGED config
  /\ codeUses' = [codeUses EXCEPT ![c] = Counted(@)]
  /\ UNCHANGED <<totp_last, stepUses>>

\* A recovery code is removed when it is used.
recovery(c) ==
  /\ c \in config.recovery
  /\ config' = [config EXCEPT !.recovery = @ \ {c}]
  /\ codeUses' = [codeUses EXCEPT ![c] = Counted(@)]
  /\ UNCHANGED <<totp_last, stepUses>>

check_second_factor ==
  \/ config.enrolled /\ (\E s \in Steps : _check_code(s)) /\ UNCHANGED config
  \/ \E c \in Codes : recovery(c)

rest == <<held, now, ended, overwritten>>

\* A second factor, and the device is remembered if one likes; or a remembered
\* device; or neither if 2FA is off, and then perhaps only to enrol.
login ==
  /\ \/ /\ totp_active
        /\ check_second_factor
        /\ Mint({"full"}, config.epoch) \/ Mint({"full", "device"}, config.epoch)
     \/ /\ totp_active
        /\ \E t \in tokens : Accepted(t) /\ t.kind = "device"
        /\ Mint({"full"}, config.epoch)
        /\ UNCHANGED <<config, useVars>>
     \/ /\ ~totp_active
        /\ Mint({IF config.required THEN "enroll" ELSE "full"}, config.epoch)
        /\ UNCHANGED <<config, useVars>>
  /\ UNCHANGED <<batches, rest>>

\* Confirming one's identity takes the password and, with 2FA, a second factor.
stepup ==
  /\ SignedIn
  /\ IF totp_active THEN check_second_factor ELSE UNCHANGED <<config, useVars>>
  /\ Mint({"stepped"}, config.epoch)
  /\ UNCHANGED <<batches, rest>>

-----------------------------------------------------------------------------
(* Requests that check the session and then await their body.              *)

Await(c, by, conf) ==
  /\ held[c] = Nothing
  /\ held' = [held EXCEPT ![c] = [by |-> by, config |-> conf]]
  /\ UNCHANGED <<authVars, tokens, now, useVars, ended, overwritten>>

CheckedSession(c) ==
  \/ SteppedUp /\ (Await(c, "change_password", Fresh) \/ Await(c, "security_put", Fresh))
  \/ /\ \E t \in tokens : Accepted(t) /\ t.kind # "device"
     /\ Await(c, "totp_confirm", Fresh)

HasBody(c, by) ==
  /\ held[c].by = by
  /\ held' = [held EXCEPT ![c] = Nothing]

\* The settings page switches the requirement on or off.
security_put(c) ==
  /\ HasBody(c, "security_put")
  /\ config' = [config EXCEPT !.required = ~@]
  /\ UNCHANGED <<batches, tokens, now, useVars, ended, overwritten>>

\* The code of the secret that was shown is right: enrolled, new recovery codes, a
\* full session; else nothing.  (That a secret was shown in the last 15 minutes,
\* to an enrolling or a stepped-up session, is left open.)
totp_confirm(c) ==
  /\ HasBody(c, "totp_confirm")
  /\ \/ UNCHANGED <<authVars, tokens, useVars>>
     \/ /\ batches < MaxBatches
        /\ \E s \in Steps : _check_code(s)
        /\ batches' = batches + 1
        /\ config' = [config EXCEPT !.enrolled = TRUE, !.required = TRUE,
                                     !.recovery = Batch(batches + 1)]
        /\ Mint({"full"}, config.epoch)
  /\ UNCHANGED <<now, ended, overwritten>>

recovery_regenerate ==
  /\ SteppedUp /\ config.enrolled
  /\ batches < MaxBatches
  /\ batches' = batches + 1
  /\ config' = [config EXCEPT !.recovery = Batch(batches + 1)]
  /\ UNCHANGED <<tokens, useVars, rest>>

Disabled(c) == [c EXCEPT !.enrolled = FALSE, !.required = FALSE, !.recovery = {}]

totp_disable ==
  /\ SteppedUp
  /\ config' = Disabled(config)
  /\ UNCHANGED <<batches, tokens, useVars, rest>>

Bumped_Kept(c) == c
Bumped(c) == [c EXCEPT !.epoch = @ + 1]

\* Whoever had a cookie is to be signed out.
EndAll ==
  /\ config.epoch < MaxEpoch
  /\ ended' = tokens
  /\ UNCHANGED <<batches, now, useVars, overwritten>>

\* "End all sessions", in the UI or with cli.py, which needs no session.
sessions_revoke ==
  /\ EndAll
  /\ config' = Bumped(config)
  /\ UNCHANGED <<held, tokens>>

\* cli.py totp-reset: anybody who knows the password may enrol again.
totp_reset ==
  /\ EndAll
  /\ config' = Bumped(Disabled(config))
  /\ UNCHANGED <<held, tokens>>

\* A new password ends every session but the one that set it.
change_password(c) ==
  /\ HasBody(c, "change_password")
  /\ EndAll
  /\ config' = Bumped(config)
  /\ Mint({"full"}, config'.epoch)

-----------------------------------------------------------------------------
(* Whole-file writes.                                                      *)

WriteBack(c) ==
  /\ config' = held[c].config
  /\ overwritten' = (overwritten \/ config' # config)
  /\ UNCHANGED <<batches, tokens, now, useVars, ended>>

\* put_appear, put_nt, put_instance: load_config, then await the body ...
EditBegin(c) == SignedIn /\ Await(c, "page", config)

EditSave_Unread(c) ==
  /\ WriteBack(c)
  /\ held' = [held EXCEPT ![c] = [by |-> "nobody", config |-> config]]

\* ... change a section that is not auth, and save_config.
EditSave(c) ==
  /\ HasBody(c, "page")
  /\ WriteBack(c)

\* export_backup keeps the auth section, import_backup brings it back.
export_backup(c) == SteppedUp /\ Await(c, "backup", config)

\* The session was checked before the body (the backup) was awaited.
import_backup(c) ==
  /\ held[c].by = "backup"
  /\ \E t \in tokens : t.kind = "stepped"
  /\ WriteBack(c)
  /\ UNCHANGED held

Tick ==
  /\ now < MaxStep
  /\ now' = now + 1
  /\ UNCHANGED <<authVars, held, tokens, useVars, ended, overwritten>>

\* The process restarts: requests and _totp_last are gone.
Restart ==
  /\ totp_last' = 0
  /\ stepUses' = [s \in Steps |-> 0]
  /\ held' = [c \in Slots |-> IF held[c].by = "backup" THEN held[c] ELSE Nothing]
  /\ UNCHANGED <<authVars, tokens, now, codeUses, ended, overwritten>>

-----------------------------------------------------------------------------
Next ==
  \/ login \/ stepup \/ recovery_regenerate \/ totp_disable \/ sessions_revoke \/ totp_reset
  \/ \E c \in Slots : \/ CheckedSession(c)
                      \/ security_put(c) \/ totp_confirm(c) \/ change_password(c)
                      \/ EditBegin(c) \/ EditSave(c) \/ export_backup(c) \/ import_backup(c)
  \/ Tick
  \/ Restart

Spec == Init /\ [][Next]_vars

-----------------------------------------------------------------------------
(* Properties.                                                             *)

\* "End all sessions revokes every session and remembered device at once"
\* (docs/guide.md): none is accepted again, unless a write of the whole config undid
\* the new epoch.
RevokedStayOutUnlessUndone == ~overwritten => \A t \in ended : ~Accepted(t)

\* "one-time recovery codes": no code lets anybody in twice, unless an older copy of
\* the config brought it back.
RecoveryOnceUnlessUndone == ~overwritten => \A c \in Codes : codeUses[c] <= 1

\* "replay-protected": between two starts the code of a step is accepted once, by
\* whichever of login, step-up and enrolment sees it first.
TotpOncePerRun == \A s \in Steps : stepUses[s] <= 1
=============================================================================
