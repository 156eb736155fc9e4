--------------------------- MODULE AdminAuthProofs ---------------------------
(***************************************************************************)
(* Revoked sessions stay out and recovery codes serve once, while no write *)
(* of the whole config undid a change of the auth section; the TOTP code   *)
(* of a step serves once between two starts.  For any number of requests,  *)
(* backups, batches and revocations.                                       *)
(***************************************************************************)
EXTENDS AdminAuth, TLAPS

\* A cookie carries the epoch of the day, and those that were ended an older one.
EpochInv ==
  ~overwritten =>
    /\ \A t \in tokens : t.epoch <= config.epoch
    /\ \A t \in ended : t.epoch < config.epoch

\* A recovery code that is stored was not used, nor was one yet to be made.
RecoveryInv ==
  ~overwritten =>
    /\ \A c \in config.recovery : c[1] <= batches /\ codeUses[c] = 0
    /\ \A c \in Codes : c[1] > batches => codeUses[c] = 0
    /\ \A c \in Codes : codeUses[c] <= 1

\* The codes of the steps after the last accepted one are unused.
TotpInv == \A s \in Steps : stepUses[s] <= 1 /\ (s > totp_last => stepUses[s] = 0)

IInv == TypeOK /\ EpochInv /\ RecoveryInv /\ TotpInv

-----------------------------------------------------------------------------
LEMMA Numbers ==
  /\ MaxStep \in Nat /\ MaxBatches \in Nat /\ MaxEpoch \in Nat
  /\ Steps \subseteq Nat
  /\ \A c \in Codes : c[1] \in 1..MaxBatches
  /\ \A b \in 1..MaxBatches : Batch(b) \subseteq Codes /\ \A c \in Batch(b) : c[1] = b
  /\ Fresh \in Auth
BY BoundAssumption DEF Steps, Codes, Batch, Fresh, Auth

\* What a step may do to the config and the cookies, epochs aside.
Sections == config \in Auth /\ batches \in 0..MaxBatches
Cookies  == tokens \subseteq Tokens /\ ended \subseteq tokens
Uses     == /\ totp_last \in 0..MaxStep
            /\ stepUses \in [Steps -> Nat] /\ codeUses \in [Codes -> 0..2]
Places   == /\ held \in [Slots -> Holding \cup {Nothing}]
            /\ now \in Steps /\ overwritten \in BOOLEAN

LEMMA TypeParts == TypeOK <=> Sections /\ Cookies /\ Uses /\ Places
BY DEF TypeOK, Sections, Cookies, Uses, Places

FactorInv == Sections /\ Uses /\ RecoveryInv /\ TotpInv
CookieInv == config \in Auth /\ Cookies /\ EpochInv

LEMMA Parts == IInv <=> FactorInv /\ CookieInv /\ Places
BY TypeParts DEF IInv, FactorInv, CookieInv, Sections

LEMMA NewCookies ==
  ASSUME NEW K \in SUBSET {"full", "stepped", "enroll", "device"}, NEW ep \in 0..MaxEpoch, Mint(K, ep)
  PROVE  tokens \subseteq tokens' /\ \A t \in tokens' : t \in tokens \/ (t \in Tokens /\ t.epoch = ep)
<1>1. \A k \in K : [kind |-> k, epoch |-> ep] \in Tokens /\ [kind |-> k, epoch |-> ep].epoch = ep
  BY DEF Tokens
<1>2. tokens' = tokens \cup {[kind |-> k, epoch |-> ep] : k \in K}
  BY DEF Mint
<1>3. ASSUME NEW t \in tokens', t \notin tokens PROVE t \in Tokens /\ t.epoch = ep
  <2>1. PICK k \in K : t = [kind |-> k, epoch |-> ep]
    BY <1>2, <1>3
  <2> QED
    BY <1>1, <2>1
<1>4. tokens \subseteq tokens'
  BY <1>2
<1> QED
  BY <1>3, <1>4

\* A cookie of the current epoch is given out.
LEMMA Minted ==
  ASSUME CookieInv, NEW K \in SUBSET {"full", "stepped", "enroll", "device"},
         Mint(K, config.epoch), config' \in Auth, config'.epoch = config.epoch,
         ended' = ended, overwritten' = overwritten
  PROVE  CookieInv'
<1>1. tokens \subseteq tokens' /\ \A t \in tokens' : t \in tokens \/ (t \in Tokens /\ t.epoch = config.epoch)
  BY NewCookies DEF CookieInv, Auth
<1>2. config.epoch \in Nat
  BY Numbers DEF CookieInv, Auth
<1> QED
  BY <1>1, <1>2 DEF CookieInv, Cookies, EpochInv, Mint

\* Everything is ended and the epoch goes up; the config is D but for that.
LEMMA Ended ==
  ASSUME CookieInv, NEW D \in Auth, EndAll, config' = Bumped(D), D.epoch = config.epoch,
         \/ tokens' = tokens
         \/ Mint({"full"}, config'.epoch)
  PROVE  CookieInv' /\ config'.recovery = D.recovery
<1>1. config.epoch \in Nat /\ config.epoch + 1 \in 0..MaxEpoch
  BY Numbers DEF EndAll, Auth, CookieInv
<1>2. D = [epoch |-> D.epoch, enrolled |-> D.enrolled, required |-> D.required, recovery |-> D.recovery]
  BY DEF Auth
<1>4. config' = [epoch |-> config.epoch + 1, enrolled |-> D.enrolled, required |-> D.required,
                 recovery |-> D.recovery]
  BY <1>2 DEF Bumped
<1>5. config'.epoch = config.epoch + 1 /\ config' \in Auth /\ config'.recovery = D.recovery
  BY <1>1, <1>4 DEF Auth
<1>6. /\ tokens \subseteq tokens'
      /\ \A t \in tokens' : t \in tokens \/ (t \in Tokens /\ t.epoch = config'.epoch)
  <2>1. CASE Mint({"full"}, config'.epoch)
    <3> DEFINE K == {"full"}
               ep == config'.epoch
    <3>1. K \in SUBSET {"full", "stepped", "enroll", "device"} /\ ep \in 0..MaxEpoch /\ Mint(K, ep)
      BY <1>1, <1>5, <2>1
    <3> HIDE DEF K, ep
    <3>2. tokens \subseteq tokens' /\ \A t \in tokens' : t \in tokens \/ (t \in Tokens /\ t.epoch = ep)
      BY <3>1, NewCookies
    <3> QED
      BY <3>2 DEF ep
  <2>2. CASE tokens' = tokens
    BY <2>2
  <2> QED
    BY <2>1, <2>2
<1>7. ended' = tokens /\ overwritten' = overwritten
  BY DEF EndAll
<1>3. \A t \in tokens : t.epoch \in Nat
  BY Numbers DEF CookieInv, Cookies, Tokens
<1> QED
  BY <1>1, <1>3, <1>5, <1>6, <1>7 DEF CookieInv, Cookies, EpochInv

\* The config is written back: unless it is as it was, the past is undone.
LEMMA WrittenBack ==
  ASSUME IInv, NEW c \in Slots, held[c] # Nothing, WriteBack(c), useVars' = useVars
  PROVE  FactorInv' /\ CookieInv' /\ overwritten' \in BOOLEAN
<1>1. config' \in Auth
  BY Numbers DEF IInv, TypeOK, Holding, Nothing, WriteBack
<1>2. /\ overwritten' \in BOOLEAN
      /\ ~overwritten' => ~overwritten /\ config' = config
  BY DEF WriteBack
<1>3. UNCHANGED <<batches, tokens, ended, totp_last, stepUses, codeUses>>
  BY DEF WriteBack, useVars
<1>4. FactorInv'
  BY <1>1, <1>2, <1>3 DEF IInv, TypeOK, FactorInv, Sections, Uses, RecoveryInv, TotpInv
<1>5. CookieInv'
  BY <1>1, <1>2, <1>3 DEF IInv, TypeOK, CookieInv, Cookies, EpochInv
<1> QED
  BY <1>2, <1>4, <1>5

-----------------------------------------------------------------------------
(* Second factors.                                                         *)

LEMMA CodeChecked ==
  ASSUME IInv, NEW s \in Steps, _check_code(s)
  PROVE  /\ totp_last' \in 0..MaxStep /\ stepUses' \in [Steps -> Nat] /\ codeUses' = codeUses
         /\ TotpInv'
<1>1. totp_last' = s /\ s > totp_last /\ codeUses' = codeUses
      /\ stepUses' = [stepUses EXCEPT ![s] = @ + 1]
  BY DEF _check_code, Acceptable
<1>2. stepUses[s] = 0 /\ s \in Nat /\ totp_last \in Nat /\ s \in 0..MaxStep
  BY <1>1, Numbers DEF IInv, TypeOK, TotpInv, Steps
<1>3. \A r \in Steps : stepUses'[r] = IF r = s THEN 1 ELSE stepUses[r]
  BY <1>1, <1>2 DEF IInv, TypeOK
<1>4. TotpInv'
  BY <1>1, <1>2, <1>3, Numbers DEF IInv, TotpInv
<1> QED
  BY <1>1, <1>2, <1>4 DEF IInv, TypeOK

LEMMA FactorChecked ==
  ASSUME IInv, check_second_factor, UNCHANGED <<batches, overwritten>>
  PROVE  FactorInv' /\ config'.epoch = config.epoch
<1>1. CASE config.enrolled /\ (\E s \in Steps : _check_code(s)) /\ UNCHANGED config
  <2>1. PICK s \in Steps : _check_code(s)
    BY <1>1
  <2> QED
    BY <1>1, <2>1, CodeChecked DEF IInv, TypeOK, FactorInv, Sections, Uses, RecoveryInv
<1>2. ASSUME NEW c \in Codes, recovery(c) PROVE FactorInv' /\ config'.epoch = config.epoch
  <2>1. /\ c \in config.recovery /\ config' = [config EXCEPT !.recovery = @ \ {c}]
        /\ codeUses' = [codeUses EXCEPT ![c] = Counted(@)]
        /\ UNCHANGED <<totp_last, stepUses>>
    BY <1>2 DEF recovery
  <2>2. /\ config' \in Auth /\ config'.epoch = config.epoch
        /\ config'.recovery = config.recovery \ {c}
    BY <2>1 DEF IInv, TypeOK, Auth
  <2>3. codeUses[c] \in 0..2 /\ Counted(codeUses[c]) \in 0..2
        /\ (codeUses[c] = 0 => Counted(codeUses[c]) = 1)
    BY DEF IInv, TypeOK, Counted
  <2>4. /\ codeUses' \in [Codes -> 0..2]
        /\ \A d \in Codes : codeUses'[d] = IF d = c THEN Counted(codeUses[c]) ELSE codeUses[d]
    BY <2>1, <2>3 DEF IInv, TypeOK
  <2>5. config.recovery \subseteq Codes
    BY DEF IInv, TypeOK, Auth
  <2>6. RecoveryInv'
    <3> SUFFICES ASSUME ~overwritten' PROVE
            /\ \A d \in config'.recovery : d[1] <= batches' /\ codeUses'[d] = 0
            /\ \A d \in Codes : d[1] > batches' => codeUses'[d] = 0
            /\ \A d \in Codes : codeUses'[d] <= 1
      BY DEF RecoveryInv
    <3>1. c[1] <= batches /\ codeUses[c] = 0
      BY <2>1 DEF IInv, RecoveryInv
    <3>2. c[1] \in Nat /\ batches \in Nat
      BY Numbers DEF IInv, TypeOK
    <3> QED
      BY <2>2, <2>3, <2>4, <2>5, <3>1, <3>2 DEF IInv, RecoveryInv
  <2> QED
    BY <2>1, <2>2, <2>4, <2>6 DEF IInv, TypeOK, FactorInv, Sections, Uses, TotpInv
<1> QED
  BY <1>1, <1>2 DEF check_second_factor

\* A new batch of recovery codes replaces the stored ones.
LEMMA NewBatch ==
  ASSUME IInv, batches < MaxBatches, batches' = batches + 1, config' \in Auth,
         config'.recovery = Batch(batches + 1), codeUses' = codeUses, overwritten' = overwritten
  PROVE  Sections' /\ RecoveryInv'
<1>1. batches \in Nat /\ batches + 1 \in 1..MaxBatches
  BY Numbers DEF IInv, TypeOK
<1>2. Batch(batches + 1) \subseteq Codes /\ \A c \in Batch(batches + 1) : c[1] = batches + 1
  BY <1>1, Numbers
<1>3. \A c \in Codes : c[1] \in Nat
  BY Numbers
<1> QED
  BY <1>1, <1>2, <1>3 DEF IInv, TypeOK, Sections, RecoveryInv

-----------------------------------------------------------------------------
(* The handlers.                                                           *)

\* The config is changed apart from its epoch and its recovery codes.
LEMMA SameCodes ==
  ASSUME IInv, config' \in Auth, config'.recovery \subseteq config.recovery, UNCHANGED <<batches, overwritten>>
  PROVE  /\ codeUses' = codeUses => RecoveryInv'
         /\ Sections'
         /\ UNCHANGED useVars => FactorInv'
<1>1. codeUses' = codeUses => RecoveryInv'
  BY DEF IInv, RecoveryInv
<1>2. Sections'
  BY DEF IInv, TypeOK, Sections
<1>3. UNCHANGED useVars => FactorInv'
  BY <1>1, <1>2 DEF IInv, TypeOK, FactorInv, Uses, TotpInv, useVars
<1> QED
  BY <1>1, <1>2, <1>3

LEMMA SameCookies ==
  ASSUME IInv, config' \in Auth, config'.epoch = config.epoch, UNCHANGED <<tokens, ended, overwritten>>
  PROVE  CookieInv'
BY DEF IInv, TypeOK, CookieInv, Cookies, EpochInv

LEMMA Changed ==
  ASSUME NEW c \in Auth
  PROVE  /\ Disabled(c) \in Auth /\ Disabled(c).epoch = c.epoch /\ Disabled(c).recovery = {}
         /\ [c EXCEPT !.required = ~@] \in Auth /\ [c EXCEPT !.required = ~@].epoch = c.epoch
         /\ [c EXCEPT !.required = ~@].recovery = c.recovery
         /\ \A R \in SUBSET Codes :
              /\ [c EXCEPT !.recovery = R] \in Auth /\ [c EXCEPT !.recovery = R].epoch = c.epoch
              /\ [c EXCEPT !.recovery = R].recovery = R
              /\ [c EXCEPT !.enrolled = TRUE, !.required = TRUE, !.recovery = R] \in Auth
              /\ [c EXCEPT !.enrolled = TRUE, !.required = TRUE, !.recovery = R].epoch = c.epoch
              /\ [c EXCEPT !.enrolled = TRUE, !.required = TRUE, !.recovery = R].recovery = R
<1>1. c = [epoch |-> c.epoch, enrolled |-> c.enrolled, required |-> c.required, recovery |-> c.recovery]
  BY DEF Auth
<1>2. /\ c.epoch \in 0..MaxEpoch /\ c.enrolled \in BOOLEAN /\ c.required \in BOOLEAN
      /\ c.recovery \in SUBSET Codes
  BY DEF Auth
<1>3. Disabled(c) \in Auth /\ Disabled(c).epoch = c.epoch /\ Disabled(c).recovery = {}
  BY <1>1, <1>2 DEF Disabled, Auth
<1>4. /\ [c EXCEPT !.required = ~@] \in Auth /\ [c EXCEPT !.required = ~@].epoch = c.epoch
      /\ [c EXCEPT !.required = ~@].recovery = c.recovery
  BY <1>1, <1>2 DEF Auth
<1>5. ASSUME NEW R \in SUBSET Codes
      PROVE  /\ [c EXCEPT !.recovery = R] \in Auth /\ [c EXCEPT !.recovery = R].epoch = c.epoch
             /\ [c EXCEPT !.recovery = R].recovery = R
  BY <1>1, <1>2 DEF Auth
<1>6. ASSUME NEW R \in SUBSET Codes
      PROVE  /\ [c EXCEPT !.enrolled = TRUE, !.required = TRUE, !.recovery = R] \in Auth
             /\ [c EXCEPT !.enrolled = TRUE, !.required = TRUE, !.recovery = R].epoch = c.epoch
             /\ [c EXCEPT !.enrolled = TRUE, !.required = TRUE, !.recovery = R].recovery = R
  BY <1>1, <1>2 DEF Auth
<1> QED
  BY <1>3, <1>4, <1>5, <1>6

LEMMA LoginStep ==
  ASSUME IInv, login
  PROVE  FactorInv' /\ CookieInv' /\ Places'
<1>1. FactorInv' /\ config' \in Auth /\ config'.epoch = config.epoch
  <2>1. ASSUME check_second_factor PROVE FactorInv' /\ config'.epoch = config.epoch
    BY <2>1, FactorChecked DEF login, rest
  <2>2. ASSUME UNCHANGED <<config, useVars>> PROVE FactorInv' /\ config'.epoch = config.epoch
    BY <2>2, SameCodes DEF login, rest, IInv, TypeOK
  <2>3. FactorInv' => config' \in Auth
    BY DEF FactorInv, Sections
  <2> QED
    BY <2>1, <2>2, <2>3 DEF login
<1>2. PICK K \in SUBSET {"full", "stepped", "enroll", "device"} : Mint(K, config.epoch)
  BY DEF login
<1>3. CookieInv'
  BY <1>1, <1>2, Minted, Parts DEF login, rest
<1>4. Places'
  BY DEF login, rest, IInv, TypeOK, Places
<1> QED
  BY <1>1, <1>3, <1>4

LEMMA StepupStep ==
  ASSUME IInv, stepup
  PROVE  FactorInv' /\ CookieInv' /\ Places'
<1>1. FactorInv' /\ config' \in Auth /\ config'.epoch = config.epoch
  <2>1. ASSUME check_second_factor PROVE FactorInv' /\ config'.epoch = config.epoch
    BY <2>1, FactorChecked DEF stepup, rest
  <2>2. ASSUME UNCHANGED <<config, useVars>> PROVE FactorInv' /\ config'.epoch = config.epoch
    BY <2>2, SameCodes DEF stepup, rest, IInv, TypeOK
  <2>3. FactorInv' => config' \in Auth
    BY DEF FactorInv, Sections
  <2> QED
    BY <2>1, <2>2, <2>3 DEF stepup
<1>2. CookieInv'
  BY <1>1, Minted, Parts DEF stepup, rest
<1>3. Places'
  BY DEF stepup, rest, IInv, TypeOK, Places
<1> QED
  BY <1>1, <1>2, <1>3

LEMMA AwaitStep ==
  ASSUME IInv, NEW c \in Slots,
         NEW by \in {"page", "backup", "change_password", "security_put", "totp_confirm"},
         NEW conf \in Auth, by \in {"page", "backup"} \/ conf = Fresh, Await(c, by, conf)
  PROVE  FactorInv' /\ CookieInv' /\ Places'
<1>1. UNCHANGED <<config, batches, tokens, now, totp_last, stepUses, codeUses, ended, overwritten>>
  BY DEF Await, authVars, useVars
<1>2. FactorInv'
  BY <1>1 DEF IInv, TypeOK, FactorInv, Sections, Uses, RecoveryInv, TotpInv
<1>3. CookieInv'
  BY <1>1, SameCookies DEF IInv, TypeOK
<1>4. held' \in [Slots -> Holding \cup {Nothing}]
  BY DEF Await, IInv, TypeOK, Holding
<1>5. Places'
  BY <1>1, <1>4 DEF IInv, TypeOK, Places
<1> QED
  BY <1>2, <1>3, <1>5

LEMMA Released ==
  ASSUME IInv, NEW c \in Slots, NEW by, HasBody(c, by)
  PROVE  held' \in [Slots -> Holding \cup {Nothing}]
BY DEF HasBody, IInv, TypeOK

LEMMA ConfirmStep ==
  ASSUME IInv, NEW c \in Slots, totp_confirm(c)
  PROVE  FactorInv' /\ CookieInv' /\ Places'
<1>1. Places'
  BY Released DEF totp_confirm, IInv, TypeOK, Places
<1>2. CASE UNCHANGED <<authVars, tokens, useVars>>
  BY <1>1, <1>2, SameCodes, SameCookies DEF totp_confirm, authVars, IInv, TypeOK
<1>3. CASE /\ batches < MaxBatches
           /\ \E s \in Steps : _check_code(s)
           /\ batches' = batches + 1
           /\ config' = [config EXCEPT !.enrolled = TRUE, !.required = TRUE,
                                       !.recovery = Batch(batches + 1)]
           /\ Mint({"full"}, config.epoch)
  <2>1. PICK s \in Steps : _check_code(s)
    BY <1>3
  <2>2. Batch(batches + 1) \in SUBSET Codes
    BY <1>3, Numbers DEF IInv, TypeOK
  <2>3. config' \in Auth /\ config'.epoch = config.epoch /\ config'.recovery = Batch(batches + 1)
    BY <1>3, <2>2, Changed DEF IInv, TypeOK
  <2>4. UNCHANGED <<ended, overwritten>>
    BY DEF totp_confirm
  <2>5. CookieInv'
    BY <1>3, <2>3, <2>4, Minted, Parts
  <2>6. /\ totp_last' \in 0..MaxStep /\ stepUses' \in [Steps -> Nat] /\ codeUses' = codeUses
        /\ TotpInv'
    BY <2>1, CodeChecked
  <2>7. Sections' /\ RecoveryInv'
    BY <1>3, <2>3, <2>4, <2>6, NewBatch
  <2>8. FactorInv'
    BY <2>6, <2>7 DEF FactorInv, Uses, IInv, TypeOK
  <2> QED
    BY <1>1, <2>5, <2>8
<1> QED
  BY <1>2, <1>3 DEF totp_confirm

LEMMA EndStep ==
  ASSUME IInv, NEW D \in Auth, EndAll, config' = Bumped(D), D.epoch = config.epoch,
         D.recovery \subseteq config.recovery,
         held' \in [Slots -> Holding \cup {Nothing}],
         \/ tokens' = tokens
         \/ Mint({"full"}, config'.epoch)
  PROVE  FactorInv' /\ CookieInv' /\ Places'
<1>1. CookieInv' /\ config'.recovery = D.recovery
  BY Ended, Parts
<1>2. UNCHANGED <<batches, now, useVars, overwritten>>
  BY DEF EndAll
<1>3. FactorInv'
  BY <1>1, <1>2, SameCodes DEF CookieInv
<1>4. Places'
  BY <1>2 DEF IInv, TypeOK, Places
<1> QED
  BY <1>1, <1>3, <1>4

-----------------------------------------------------------------------------
(* The theorems.                                                           *)

LEMMA InvInit == Init => IInv
<1> SUFFICES ASSUME Init PROVE IInv
  OBVIOUS
<1>1. 1 \in Steps => TypeOK
  <2>1. config \in Auth /\ batches \in 0..MaxBatches /\ totp_last \in 0..MaxStep
    BY Numbers DEF Init
  <2>2. /\ held \in [Slots -> Holding \cup {Nothing}]
        /\ stepUses \in [Steps -> Nat] /\ codeUses \in [Codes -> 0..2]
    BY DEF Init
  <2> QED
    BY <2>1, <2>2 DEF Init, TypeOK
<1>2. EpochInv /\ TotpInv
  BY DEF Init, EpochInv, TotpInv
<1>3. RecoveryInv
  BY DEF Init, RecoveryInv, Fresh
<1> QED
  BY <1>1, <1>2, <1>3, BoundAssumption DEF IInv, Steps

LEMMA InvStep == IInv /\ [Next]_vars => IInv'
<1> SUFFICES ASSUME IInv, [Next]_vars PROVE FactorInv' /\ CookieInv' /\ Places'
  BY DEF IInv, TypeOK, FactorInv, CookieInv, Sections, Cookies, Uses, Places
<1>0. config \in Auth /\ FactorInv /\ CookieInv /\ Places
  BY Parts DEF IInv, TypeOK
<1>1. CASE login
  BY <1>1, LoginStep
<1>2. CASE stepup
  BY <1>2, StepupStep
<1>3. CASE recovery_regenerate
  <2>1. /\ config' = [config EXCEPT !.recovery = Batch(batches + 1)] /\ batches < MaxBatches
        /\ batches' = batches + 1
        /\ UNCHANGED <<tokens, totp_last, stepUses, codeUses, held, now, ended, overwritten>>
    BY <1>3 DEF recovery_regenerate, rest, useVars
  <2>2. Batch(batches + 1) \in SUBSET Codes
    BY <2>1, Numbers DEF IInv, TypeOK
  <2>3. config' \in Auth /\ config'.epoch = config.epoch /\ config'.recovery = Batch(batches + 1)
    BY <1>0, <2>1, <2>2, Changed
  <2>4. Sections' /\ RecoveryInv'
    BY <2>1, <2>3, NewBatch
  <2>5. FactorInv'
    BY <1>0, <2>1, <2>4 DEF FactorInv, Uses, TotpInv
  <2>6. CookieInv'
    BY <2>1, <2>3, SameCookies
  <2> QED
    BY <1>0, <2>1, <2>5, <2>6 DEF Places
<1>4. CASE totp_disable
  <2>1. /\ config' = Disabled(config)
        /\ UNCHANGED <<batches, useVars, tokens, held, now, ended, overwritten>>
    BY <1>4 DEF totp_disable, rest
  <2>2. config' \in Auth /\ config'.epoch = config.epoch /\ config'.recovery = {}
    BY <1>0, <2>1, Changed
  <2> QED
    BY <1>0, <2>1, <2>2, SameCodes, SameCookies DEF Places
<1>5. CASE sessions_revoke
  BY <1>0, <1>5, EndStep DEF sessions_revoke, Places
<1>6. CASE totp_reset
  <2>1. Disabled(config) \in Auth /\ Disabled(config).epoch = config.epoch
        /\ Disabled(config).recovery = {}
    BY <1>0, Changed
  <2> QED
    BY <1>0, <1>6, <2>1, EndStep DEF totp_reset, Places
<1>7. ASSUME NEW c \in Slots, CheckedSession(c) PROVE FactorInv' /\ CookieInv' /\ Places'
  BY <1>7, AwaitStep, Numbers DEF CheckedSession
<1>8. ASSUME NEW c \in Slots, security_put(c) PROVE FactorInv' /\ CookieInv' /\ Places'
  <2>1. /\ config' = [config EXCEPT !.required = ~@]
        /\ UNCHANGED <<batches, tokens, now, useVars, ended, overwritten>>
    BY <1>8 DEF security_put
  <2>2. config' \in Auth /\ config'.epoch = config.epoch /\ config'.recovery = config.recovery
    BY <1>0, <2>1, Changed
  <2>3. held' \in [Slots -> Holding \cup {Nothing}]
    BY <1>8, Released DEF security_put
  <2> QED
    BY <1>0, <2>1, <2>2, <2>3, SameCodes, SameCookies DEF Places
<1>9. ASSUME NEW c \in Slots, totp_confirm(c) PROVE FactorInv' /\ CookieInv' /\ Places'
  BY <1>9, ConfirmStep
<1>10. ASSUME NEW c \in Slots, change_password(c) PROVE FactorInv' /\ CookieInv' /\ Places'
  <2>1. held' \in [Slots -> Holding \cup {Nothing}]
    BY <1>10, Released DEF change_password
  <2> QED
    BY <1>0, <1>10, <2>1, EndStep DEF change_password
<1>11. ASSUME NEW c \in Slots, EditBegin(c) PROVE FactorInv' /\ CookieInv' /\ Places'
  BY <1>0, <1>11, AwaitStep DEF EditBegin
<1>12. ASSUME NEW c \in Slots, EditSave(c) PROVE FactorInv' /\ CookieInv' /\ Places'
  <2>1. held[c] # Nothing /\ WriteBack(c) /\ useVars' = useVars /\ now' = now
    BY <1>12 DEF EditSave, HasBody, Nothing, WriteBack
  <2>2. held' \in [Slots -> Holding \cup {Nothing}]
    BY <1>12, Released DEF EditSave
  <2> QED
    BY <1>0, <2>1, <2>2, WrittenBack DEF Places
<1>13. ASSUME NEW c \in Slots, export_backup(c) PROVE FactorInv' /\ CookieInv' /\ Places'
  BY <1>0, <1>13, AwaitStep DEF export_backup
<1>14. ASSUME NEW c \in Slots, import_backup(c) PROVE FactorInv' /\ CookieInv' /\ Places'
  <2>1. held[c] # Nothing /\ WriteBack(c) /\ useVars' = useVars /\ UNCHANGED <<now, held>>
    BY <1>14 DEF import_backup, Nothing, WriteBack
  <2> QED
    BY <1>0, <2>1, WrittenBack DEF Places
<1>15. CASE Tick
  <2>1. now' \in Steps /\ UNCHANGED <<config, batches, held, tokens, useVars, ended, overwritten>>
    BY <1>0, <1>15, Numbers DEF Tick, Places, Steps, authVars
  <2> QED
    BY <1>0, <2>1, SameCodes, SameCookies DEF Places
<1>16. CASE Restart
  <2>1. /\ totp_last' = 0 /\ stepUses' = [s \in Steps |-> 0]
        /\ held' = [c \in Slots |-> IF held[c].by = "backup" THEN held[c] ELSE Nothing]
        /\ UNCHANGED <<config, batches, tokens, now, codeUses, ended, overwritten>>
    BY <1>16 DEF Restart, authVars
  <2>2. FactorInv'
    BY <1>0, <2>1, Numbers DEF FactorInv, Sections, Uses, RecoveryInv, TotpInv
  <2>3. Places'
    BY <1>0, <2>1 DEF Places
  <2> QED
    BY <1>0, <2>1, <2>2, <2>3, SameCookies
<1>17. CASE UNCHANGED vars
  BY <1>0, <1>17, SameCodes, SameCookies DEF Places, vars, authVars, useVars
<1> QED
  BY <1>1, <1>2, <1>3, <1>4, <1>5, <1>6, <1>7, <1>8, <1>9, <1>10, <1>11, <1>12, <1>13, <1>14,
     <1>15, <1>16, <1>17 DEF Next

\* The auth section, its copies and the cookies are well formed.
THEOREM AdminTypes == Spec => []TypeOK
<1>1. IInv => TypeOK
  BY DEF IInv
<1> QED
  BY <1>1, InvInit, InvStep, PTL DEF Spec

\* Cookies that "End all sessions", a new password or a TOTP reset ended are not
\* accepted again, while no write of the whole config undid a change.
THEOREM RevokedStayOutHolds == Spec => []RevokedStayOutUnlessUndone
<1>1. IInv => RevokedStayOutUnlessUndone
  <2> SUFFICES ASSUME IInv, ~overwritten, NEW t \in ended PROVE ~Accepted(t)
    BY DEF RevokedStayOutUnlessUndone
  <2>1. t.epoch < config.epoch
    BY DEF IInv, EpochInv
  <2>2. t.epoch \in Nat /\ config.epoch \in Nat
    BY Numbers DEF IInv, TypeOK, Tokens, Auth
  <2> QED
    BY <2>1, <2>2 DEF Accepted
<1> QED
  BY <1>1, InvInit, InvStep, PTL DEF Spec

\* A recovery code lets one sign-in pass, while no write of the whole config
\* brought it back.
THEOREM RecoveryOnceHolds == Spec => []RecoveryOnceUnlessUndone
<1>1. IInv => RecoveryOnceUnlessUndone
  BY DEF IInv, RecoveryInv, RecoveryOnceUnlessUndone
<1> QED
  BY <1>1, InvInit, InvStep, PTL DEF Spec

\* Between two starts the TOTP code of a step is accepted once.
THEOREM TotpOncePerRunHolds == Spec => []TotpOncePerRun
<1>1. IInv => TotpOncePerRun
  BY DEF IInv, TotpInv, TotpOncePerRun
<1> QED
  BY <1>1, InvInit, InvStep, PTL DEF Spec
=============================================================================
