-------------------------- MODULE AuditTrailProofs --------------------------
(***************************************************************************)
(* Trimming the audit log loses no entry and, without a fault, archives    *)
(* none twice: for any number of entries, any limit, any old log, and any  *)
(* number of crashes and failed writes.                                    *)
(***************************************************************************)
EXTENDS AuditTrail, FiniteSetTheorems, TLAPS

\* What a trim is about to delete has been selected, and then archived, as a line of
\* its own or behind the piece that the archive ended in.
TrimInv ==
  /\ pc = "archive" => \A r \in rows : r.ts <= cutoff => r \in trimmed \/ r.n \in late
  /\ pc = "delete"  => \A r \in rows : r.ts <= cutoff => r.n \in Archived \cup late \cup glued

\* Each append that was cut off glues one line at most, now or later.
GluedInv ==
  /\ IsFiniteSet(glued)
  /\ Cardinality(glued) + (IF torn THEN 1 ELSE 0) <= faults

\* Every entry has a number of its own; those of the old log are the lowest.
NumberInv ==
  /\ LegacyTime <= now
  /\ \A r \in rows \cup trimmed : r.n <= now /\ (r \in Legacy \/ r.n > LegacyTime)
  /\ \A r, s \in rows \cup trimmed : r.n = s.n => r = s
  /\ \A n \in Entries : archive[n] > 0 => n <= now

\* The old log is imported before anything is archived, if at all.
ImportInv ==
  /\ jsonl => \A n \in Entries : archive[n] = 0
  /\ pc \in {"import", "rename"} => jsonl
  /\ pc \in {"run", "select", "archive", "delete"} => ~jsonl

\* As long as no trim was cut off, what is archived has left the table, except for
\* what the trim under way is about to delete.
OnceInv ==
  ~interrupted =>
    /\ \A n \in Entries : archive[n] <= 1
    /\ \A r \in rows : archive[r.n] > 0 => pc = "delete" /\ r.ts <= cutoff
    /\ pc = "archive" => \A r \in trimmed : r.ts <= cutoff /\ archive[r.n] = 0

\* What the arithmetic of the proofs needs to know of the sets.
LEMMA Sorts ==
  ASSUME TypeOK
  PROVE  /\ now \in Nat /\ now <= MaxEntries /\ cutoff \in Nat
         /\ MaxEntries \in Nat /\ LegacyTime \in Nat
         /\ \A r \in rows \cup trimmed \cup Legacy :
              r.n \in Entries /\ r.n \in Nat /\ r.ts \in Nat /\ r \in Row
         /\ \A n \in Entries : archive[n] \in Nat
BY LegacyAssumption, BoundAssumption DEF TypeOK, Row, Entries, Times

\* Writing to the archive adds to it: the lines of S once each, but for one of them
\* where the file ended in a piece of a line.
LEMMA ArchiveGrows ==
  ASSUME TypeOK, NEW S \in SUBSET Row, AppendLines(S)
  PROVE  /\ archive' \in [Entries -> 0..2] /\ glued' \subseteq Entries
         /\ glued \subseteq glued'
         /\ Archived \cup Numbers(S) \subseteq Archived' \cup glued' /\ Archived \subseteq Archived'
         /\ \A n \in Entries : archive'[n] > 0 => archive[n] > 0 \/ n \in Numbers(S)
         /\ \A n \in Entries : archive'[n] <= archive[n] + 1
         /\ \A n \in Entries \ Numbers(S) : archive'[n] = archive[n]
<1>0. \A n \in Entries : archive[n] \in 0..2
  BY DEF TypeOK
<1>1. CASE S = {} /\ UNCHANGED <<archive, glued>>
  BY <1>0, <1>1 DEF Archived, Numbers, TypeOK
<1>2. ASSUME NEW W \in SUBSET S, archive' = ArchivedToo(W),
             glued \subseteq glued', glued' \subseteq Entries, Numbers(S) \subseteq Numbers(W) \cup glued'
      PROVE  /\ archive' \in [Entries -> 0..2]
             /\ Archived \cup Numbers(S) \subseteq Archived' \cup glued' /\ Archived \subseteq Archived'
             /\ \A n \in Entries : archive'[n] > 0 => archive[n] > 0 \/ n \in Numbers(S)
             /\ \A n \in Entries : archive'[n] <= archive[n] + 1
             /\ \A n \in Entries \ Numbers(S) : archive'[n] = archive[n]
  <2>1. Numbers(W) \subseteq Entries /\ Numbers(W) \subseteq Numbers(S)
    BY <1>2 DEF Numbers, Row
  <2>2. \A n \in Entries :
          archive'[n] = IF n \in Numbers(W) /\ archive[n] < 2 THEN archive[n] + 1 ELSE archive[n]
    BY <1>2 DEF ArchivedToo
  <2>3. archive' \in [Entries -> 0..2]
    BY <1>0, <1>2 DEF ArchivedToo
  <2>4. Archived \cup Numbers(W) \subseteq Archived'
    BY <1>0, <2>1, <2>2 DEF Archived
  <2> QED
    BY <1>0, <1>2, <2>1, <2>2, <2>3, <2>4
<1>3. CASE ~torn /\ archive' = ArchivedToo(S) /\ UNCHANGED glued
  BY <1>2, <1>3 DEF TypeOK
<1>4. ASSUME NEW first \in S, archive' = ArchivedToo(S \ {first}), glued' = glued \cup {first.n}
      PROVE  /\ glued' \subseteq Entries
             /\ Numbers(S) \subseteq Numbers(S \ {first}) \cup glued'
  BY <1>4 DEF TypeOK, Numbers, Row
<1> QED
  BY <1>1, <1>2, <1>3, <1>4 DEF AppendLines

\* What a cut-off append does is what a part of it does.
LEMMA CutOffGrows ==
  ASSUME TypeOK, CutOff
  PROVE  /\ archive' \in [Entries -> 0..2] /\ glued' \subseteq Entries /\ torn' \in BOOLEAN
         /\ glued \subseteq glued' /\ Archived \subseteq Archived'
         /\ \A n \in Entries : archive'[n] > 0 => archive[n] > 0 \/ n \in Numbers(trimmed)
<1>1. CASE UNCHANGED file
  <2>1. torn' \in BOOLEAN
    BY <1>1, Zenon DEF file, TypeOK
  <2> QED
    BY <1>1, <2>1 DEF file, TypeOK, Archived
<1>2. ASSUME NEW S \in SUBSET trimmed, AppendLines(S),
             torn' = (torn /\ S = {}) \/ (S # trimmed /\ torn' = TRUE)
      PROVE  /\ archive' \in [Entries -> 0..2] /\ glued' \subseteq Entries /\ torn' \in BOOLEAN
             /\ glued \subseteq glued' /\ Archived \subseteq Archived'
             /\ \A n \in Entries : archive'[n] > 0 => archive[n] > 0 \/ n \in Numbers(trimmed)
  <2>1. S \in SUBSET Row /\ Numbers(S) \subseteq Numbers(trimmed)
    BY DEF TypeOK, Numbers
  <2>2. torn' \in BOOLEAN
    BY <1>2, Zenon
  <2> QED
    BY <1>2, <2>1, <2>2, ArchiveGrows
<1> QED
  BY <1>1, <1>2 DEF CutOff

-----------------------------------------------------------------------------
(* Types.                                                                  *)

LEMMA TypeInit == Init => TypeOK
<1> SUFFICES ASSUME Init PROVE TypeOK
  OBVIOUS
<1>1. jsonl \in BOOLEAN
  BY Zenon DEF Init
<1>2. now \in Times /\ cutoff \in Times /\ faults \in 0..MaxFaults
  BY LegacyAssumption, BoundAssumption DEF Init, Times
<1>3. archive \in [Entries -> 0..2]
  BY DEF Init
<1> QED
  BY <1>1, <1>2, <1>3 DEF Init, TypeOK

\* Appending, by whichever process, uses a time that has come.
LEMMA Appends ==
  ASSUME TypeOK, ServerAppends \/ CliAppends
  PROVE  \E t \in Times : append_audit(t)
<1>1. CASE ServerAppends
  BY <1>1, Sorts DEF ServerAppends, append_audit, Times
<1>2. CASE CliAppends
  BY <1>2, Sorts DEF CliAppends, append_audit, Times
<1> QED
  BY <1>1, <1>2

LEMMA TypeStep == TypeOK /\ [Next]_vars => TypeOK'
<1> SUFFICES ASSUME TypeOK, [Next]_vars PROVE TypeOK'
  OBVIOUS
<1>1. CASE Start \/ Migrate \/ RenameLegacy \/ UNCHANGED vars
  BY <1>1 DEF Start, Migrate, RenameLegacy, vars, file, TypeOK
<1>2. CASE Import
  BY <1>2, LegacyAssumption DEF Import, file, Numbers, TypeOK, Row
<1>3. CASE ServerAppends \/ CliAppends
  <2>1. PICK t \in Times : append_audit(t)
    BY <1>3, Appends
  <2>2. PICK id \in Ids :
          rows' = {r \in rows : r.id # id} \cup {[n |-> now + 1, ts |-> t, id |-> id]}
    BY <2>1 DEF append_audit
  <2>3. now' \in Times /\ now + 1 \in Entries
    BY <2>1, Sorts DEF append_audit, Times, Entries
  <2>4. rows' \subseteq Row
    BY <2>2, <2>3 DEF TypeOK, Row
  <2>5. replaced' \subseteq Entries
    BY <2>1 DEF append_audit, Numbers, TypeOK, Row
  <2> QED
    BY <2>1, <2>3, <2>4, <2>5 DEF append_audit, file, TypeOK
<1>4. CASE TrimBegins
  BY <1>4 DEF TrimBegins, file, TypeOK, Row
<1>5. CASE TrimSelects
  BY <1>5, BoundAssumption DEF TrimSelects, Trimmed, Forget, file, TypeOK, Times
<1>6. CASE TrimArchives
  BY <1>6, ArchiveGrows DEF TrimArchives, TypeOK
<1>7. CASE TrimDeletes
  BY <1>7, Sorts DEF TrimDeletes, Forget, file, TypeOK, Times
<1>8. CASE TrimFails \/ Crash
  <2>1. archive' \in [Entries -> 0..2] /\ glued' \subseteq Entries /\ torn' \in BOOLEAN
    BY <1>8, CutOffGrows DEF TrimFails, Crash
  <2>2. faults' \in 0..MaxFaults
    BY <1>8, BoundAssumption DEF TrimFails, Crash, TypeOK
  <2>3. cutoff' \in Times
    BY <1>8, BoundAssumption DEF TrimFails, Crash, Forget, Times
  <2> QED
    BY <1>8, <2>1, <2>2, <2>3 DEF TrimFails, Crash, Forget, TypeOK
<1>9. CASE apply_retention
  BY <1>9 DEF apply_retention, file, Numbers, TypeOK, Row
<1>10. CASE clear_audit
  BY <1>10 DEF clear_audit, file, Numbers, TypeOK, Row
<1> QED
  BY <1>1, <1>2, <1>3, <1>4, <1>5, <1>6, <1>7, <1>8, <1>9, <1>10 DEF Next

\* Type correctness of the audit log.
THEOREM AuditTypes == Spec => []TypeOK
BY TypeInit, TypeStep, PTL DEF Spec

-----------------------------------------------------------------------------
(* Nothing is lost.                                                        *)

\* The first part of KeptOrArchived.
Kept == written \subseteq Numbers(rows) \cup Archived \cup gone \cup replaced \cup late \cup glued

\* An entry stays in the table, or what happens to it is recorded.
LEMMA KeptStep ==
  ASSUME TypeOK, Kept, TrimInv, Next
  PROVE  Kept' /\ TrimInv'
<1>1. CASE Start \/ Migrate \/ RenameLegacy
  BY <1>1 DEF file, Start, Migrate, RenameLegacy, Kept, TrimInv, Archived
<1>2. CASE Import
  BY <1>2 DEF file, Import, Numbers, Kept, TrimInv, Archived
<1>3. CASE ServerAppends \/ CliAppends
  <2>1. PICK t \in Times : append_audit(t)
    BY <1>3, Appends
  <2>2. PICK id \in Ids :
          /\ rows' = {r \in rows : r.id # id} \cup {[n |-> now + 1, ts |-> t, id |-> id]}
          /\ replaced' = replaced \cup Numbers({r \in rows : r.id = id})
    BY <2>1 DEF append_audit
  <2>3. late \subseteq late' /\ Archived' = Archived /\ glued' = glued
    BY <2>1 DEF append_audit, file, Archived
  <2>4. Kept'
    <3> DEFINE new == [n |-> now + 1, ts |-> t, id |-> id]
    <3>0. new \in rows' /\ new.n = now + 1
      BY <2>2
    <3> HIDE DEF new
    <3>1. Numbers(rows) \subseteq Numbers(rows') \cup replaced' /\ now + 1 \in Numbers(rows')
      BY <2>2, <3>0 DEF Numbers
    <3> QED
      BY <2>1, <2>2, <2>3, <3>1 DEF append_audit, file, Kept
  <2>5. TrimInv'
    <3> DEFINE new == [n |-> now + 1, ts |-> t, id |-> id]
    <3>1. pc \in {"select", "archive", "delete"} /\ new.ts <= cutoff => new.n \in late'
      BY <2>1 DEF append_audit
    <3>2. rows' \subseteq rows \cup {new} /\ pc' = pc /\ cutoff' = cutoff /\ trimmed' = trimmed
      BY <2>1, <2>2 DEF append_audit
    <3> HIDE DEF new
    <3> QED
      BY <2>3, <3>1, <3>2 DEF TrimInv
  <2> QED
    BY <2>4, <2>5
<1>4. CASE TrimBegins
  BY <1>4 DEF file, TrimBegins, Kept, TrimInv, Archived
<1>5. CASE TrimSelects
  BY <1>5 DEF file, TrimSelects, Trimmed, Forget, Kept, TrimInv, Archived
<1>6. CASE TrimArchives
  <2>1. Archived \cup Numbers(trimmed) \subseteq Archived' \cup glued' /\ glued \subseteq glued'
    BY <1>6, ArchiveGrows DEF TrimArchives, TypeOK
  <2> QED
    BY <1>6, <2>1 DEF TrimArchives, Kept, TrimInv, Numbers
<1>7. CASE TrimDeletes
  <2>1. \A r \in rows : r \in rows' \/ r.ts <= cutoff
    BY <1>7, Sorts DEF file, TrimDeletes
  <2>2. Numbers(rows) \subseteq Numbers(rows') \cup Archived \cup late \cup glued
    BY <1>7, <2>1 DEF file, TrimDeletes, TrimInv, Numbers
  <2> QED
    BY <1>7, <2>2 DEF file, TrimDeletes, Kept, TrimInv, Archived
<1>8. CASE TrimFails \/ Crash
  <2>1. Archived \subseteq Archived' /\ glued \subseteq glued'
    BY <1>8, CutOffGrows DEF TrimFails, Crash
  <2> QED
    BY <1>8, <2>1 DEF TrimFails, Crash, Kept, TrimInv
<1>9. CASE apply_retention
  BY <1>9 DEF file, apply_retention, Kept, TrimInv, Archived, Numbers
<1>10. CASE clear_audit
  BY <1>10 DEF file, clear_audit, Kept, TrimInv, Archived, Numbers
<1> QED
  BY <1>1, <1>2, <1>3, <1>4, <1>5, <1>6, <1>7, <1>8, <1>9, <1>10 DEF Next

\* Appending the lines of S glues one at most, and only onto a piece that was there.
LEMMA GluesOne ==
  ASSUME TypeOK, IsFiniteSet(glued), NEW S, AppendLines(S)
  PROVE  /\ IsFiniteSet(glued')
         /\ Cardinality(glued') \in Nat
         /\ Cardinality(glued') <= Cardinality(glued) + (IF torn /\ S # {} THEN 1 ELSE 0)
<1>1. Cardinality(glued) \in Nat
  BY FS_CardinalityType
<1>2. CASE UNCHANGED glued
  BY <1>1, <1>2
<1>3. ASSUME NEW first \in S, torn, glued' = glued \cup {first.n}
      PROVE  /\ IsFiniteSet(glued')
             /\ Cardinality(glued') \in Nat
             /\ Cardinality(glued') <= Cardinality(glued) + 1
  <2>1. IsFiniteSet(glued')
    BY <1>3, FS_AddElement
  <2>2. Cardinality(glued') = IF first.n \in glued THEN Cardinality(glued) ELSE Cardinality(glued) + 1
    BY <1>3, FS_AddElement
  <2> QED
    BY <1>1, <2>1, <2>2
<1>4. UNCHANGED glued \/ \E first \in S : torn /\ glued' = glued \cup {first.n}
  BY DEF AppendLines
<1> QED
  BY <1>2, <1>3, <1>4

LEMMA GluedStep ==
  ASSUME TypeOK, GluedInv, Next
  PROVE  GluedInv'
<1>0. faults \in Nat /\ torn \in BOOLEAN /\ Cardinality(glued) \in Nat
  BY FS_CardinalityType, BoundAssumption DEF TypeOK, GluedInv
<1>1. CASE TrimArchives
  BY <1>0, <1>1, GluesOne DEF TrimArchives, GluedInv
<1>2. CASE TrimFails \/ Crash
  <2>1. faults' = faults + 1 /\ CutOff
    BY <1>2 DEF TrimFails, Crash
  <2>2. CASE UNCHANGED file
    BY <1>0, <2>1, <2>2 DEF file, GluedInv
  <2>3. ASSUME NEW S \in SUBSET trimmed, AppendLines(S),
               torn' = (torn /\ S = {}) \/ (S # trimmed /\ torn' = TRUE)
        PROVE  GluedInv'
    <3>1. Cardinality(glued') \in Nat /\ IsFiniteSet(glued')
      BY <2>3, GluesOne DEF GluedInv
    <3>2. Cardinality(glued') <= Cardinality(glued) + (IF torn /\ S # {} THEN 1 ELSE 0)
      BY <2>3, GluesOne DEF GluedInv
    <3>3. Cardinality(glued') <= faults
      BY <1>0, <3>1, <3>2 DEF GluedInv
    <3> QED
      BY <1>0, <2>1, <3>1, <3>3 DEF GluedInv
  <2> QED
    BY <2>1, <2>2, <2>3 DEF CutOff
<1>3. CASE ~(TrimArchives \/ TrimFails \/ Crash)
  <2>1. UNCHANGED <<torn, glued, faults>>
    BY <1>3, Appends DEF Next, Start, Migrate, Import, RenameLegacy, append_audit, TrimBegins,
       TrimSelects, TrimDeletes, apply_retention, clear_audit, file
  <2> QED
    BY <2>1 DEF GluedInv
<1> QED
  BY <1>1, <1>2, <1>3

\* Every entry is in the table or the archive, deleted on purpose, or in one of the
\* three exceptions, whatever fails and whoever writes meanwhile.
THEOREM KeptOrArchivedHolds == Spec => []KeptOrArchived
<1> DEFINE I == TypeOK /\ Kept /\ TrimInv /\ GluedInv
<1>1. Init => I
  BY TypeInit, FS_EmptySet DEF Init, Kept, TrimInv, GluedInv
<1>2. I /\ [Next]_vars => I'
  <2>1. I /\ UNCHANGED vars => I'
    BY DEF vars, file, TypeOK, Kept, TrimInv, GluedInv, Archived
  <2> QED
    BY <2>1, TypeStep, KeptStep, GluedStep
<1>3. I => KeptOrArchived
  <2> SUFFICES ASSUME I PROVE KeptOrArchived
    OBVIOUS
  <2>1. Cardinality(glued) \in Nat /\ faults \in Nat
    BY FS_CardinalityType, BoundAssumption DEF TypeOK, GluedInv
  <2> QED
    BY <2>1 DEF KeptOrArchived, Kept, GluedInv
<1> QED
  BY <1>1, <1>2, <1>3, PTL DEF Spec

-----------------------------------------------------------------------------
(* Nothing is archived twice.                                              *)

LEMMA NumberStep ==
  ASSUME TypeOK, NumberInv, Next
  PROVE  NumberInv'
<1> USE Sorts
<1>1. CASE Start \/ Migrate \/ RenameLegacy \/ TrimBegins
  BY <1>1 DEF file, Start, Migrate, RenameLegacy, TrimBegins, NumberInv
<1>2. CASE Import
  <2>1. rows' \cup trimmed' \subseteq rows \cup trimmed \cup Legacy
    BY <1>2 DEF file, Import
  <2>2. \A r, s \in rows \cup trimmed \cup Legacy : r.n = s.n => r = s
    BY LegacyAssumption DEF NumberInv
  <2>3. \A r \in Legacy : r.n <= now
    BY LegacyAssumption DEF NumberInv
  <2> QED
    BY <1>2, <2>1, <2>2, <2>3 DEF file, Import, NumberInv
<1>3. CASE ServerAppends \/ CliAppends
  <2>1. PICK t \in Times, id \in Ids :
          /\ append_audit(t)
          /\ rows' = {r \in rows : r.id # id} \cup {[n |-> now + 1, ts |-> t, id |-> id]}
    BY <1>3, Appends DEF file, append_audit
  <2> DEFINE new == [n |-> now + 1, ts |-> t, id |-> id]
  <2>2. rows' \cup trimmed' \subseteq rows \cup trimmed \cup {new}
    BY <2>1 DEF file, append_audit
  <2>3. new.n = now + 1 /\ now' = now + 1 /\ archive' = archive
    BY <2>1 DEF file, append_audit
  <2> HIDE DEF new
  <2>4. \A r \in rows \cup trimmed : r.n <= now /\ r.n # new.n
    BY <2>3 DEF NumberInv
  <2>5. \A r \in rows' \cup trimmed' : r.n <= now' /\ (r \in Legacy \/ r.n > LegacyTime)
    BY <2>2, <2>3 DEF NumberInv
  <2>6. \A r, s \in rows' \cup trimmed' : r.n = s.n => r = s
    BY <2>2, <2>4 DEF NumberInv
  <2> QED
    BY <2>3, <2>5, <2>6 DEF NumberInv, Entries
<1>5. CASE TrimSelects
  BY <1>5 DEF file, TrimSelects, Trimmed, Forget, NumberInv
<1>6. CASE TrimArchives
  <2>1. \A n \in Entries : archive'[n] > 0 => archive[n] > 0 \/ n \in Numbers(trimmed)
    BY <1>6, ArchiveGrows DEF TrimArchives, TypeOK
  <2> QED
    BY <1>6, <2>1 DEF TrimArchives, NumberInv, Numbers
<1>7. CASE TrimDeletes
  BY <1>7 DEF file, TrimDeletes, Forget, NumberInv
<1>8. CASE TrimFails \/ Crash
  <2>1. \A n \in Entries : archive'[n] > 0 => archive[n] > 0 \/ n \in Numbers(trimmed)
    BY <1>8, CutOffGrows DEF TrimFails, Crash
  <2> QED
    BY <1>8, <2>1 DEF TrimFails, Crash, Forget, NumberInv, Numbers
<1>9. CASE apply_retention \/ clear_audit
  BY <1>9 DEF file, apply_retention, clear_audit, NumberInv
<1> QED
  BY <1>1, <1>2, <1>3, <1>5, <1>6, <1>7, <1>8, <1>9 DEF Next

LEMMA OnceStep ==
  ASSUME TypeOK, NumberInv, ImportInv, OnceInv, Next
  PROVE  ImportInv' /\ OnceInv'
<1> USE Sorts
<1>1. CASE Start \/ Migrate \/ RenameLegacy \/ TrimBegins
  BY <1>1 DEF file, Start, Migrate, RenameLegacy, TrimBegins, ImportInv, OnceInv
<1>2. CASE Import
  BY <1>2 DEF file, Import, ImportInv, OnceInv
<1>3. CASE ServerAppends \/ CliAppends
  <2>1. PICK t \in Times, id \in Ids :
          /\ append_audit(t)
          /\ rows' = {r \in rows : r.id # id} \cup {[n |-> now + 1, ts |-> t, id |-> id]}
    BY <1>3, Appends DEF file, append_audit
  <2> DEFINE new == [n |-> now + 1, ts |-> t, id |-> id]
  <2>2. rows' \subseteq rows \cup {new}
    BY <2>1
  <2>3. new.n \in Entries /\ archive[new.n] = 0
    BY <2>1 DEF file, append_audit, NumberInv, Entries
  <2> HIDE DEF new
  <2> QED
    BY <2>1, <2>2, <2>3 DEF file, append_audit, ImportInv, OnceInv
<1>5. CASE TrimSelects
  BY <1>5 DEF file, TrimSelects, Trimmed, Forget, ImportInv, OnceInv
<1>6. CASE TrimArchives
  <2>1. /\ \A n \in Entries : archive'[n] > 0 => archive[n] > 0 \/ n \in Numbers(trimmed)
        /\ \A n \in Entries : archive'[n] <= archive[n] + 1
        /\ \A n \in Entries \ Numbers(trimmed) : archive'[n] = archive[n]
    BY <1>6, ArchiveGrows DEF TrimArchives, TypeOK
  <2> QED
    BY <1>6, <2>1 DEF TrimArchives, ImportInv, OnceInv, NumberInv, Numbers
<1>7. CASE TrimDeletes
  BY <1>7 DEF file, TrimDeletes, Forget, ImportInv, OnceInv
<1>8. CASE TrimFails \/ Crash
  <2>1. ~interrupted' => archive' = archive /\ ~interrupted /\ pc # "delete"
    BY <1>8 DEF TrimFails, Crash
  <2>2. pc \in {"run", "select", "archive", "delete"} \/ archive' = archive
    BY <1>8 DEF file, TrimFails, Crash, CutOff
  <2> QED
    BY <1>8, <2>1, <2>2 DEF TrimFails, Crash, Forget, ImportInv, OnceInv
<1>9. CASE apply_retention \/ clear_audit
  BY <1>9 DEF file, apply_retention, clear_audit, ImportInv, OnceInv
<1> QED
  BY <1>1, <1>2, <1>3, <1>5, <1>6, <1>7, <1>8, <1>9 DEF Next

\* Only a trim that was cut off puts an entry into the archive a second time.
THEOREM ArchivedOnceHolds == Spec => []ArchivedOnce
<1> DEFINE I == TypeOK /\ NumberInv /\ ImportInv /\ OnceInv
<1>1. Init => I
  <2> SUFFICES ASSUME Init PROVE I
    OBVIOUS
  <2>1. NumberInv
    BY LegacyAssumption DEF Init, NumberInv, Times
  <2>2. ImportInv /\ OnceInv
    BY DEF Init, ImportInv, OnceInv
  <2> QED
    BY <2>1, <2>2, TypeInit
<1>2. I /\ [Next]_vars => I'
  <2>1. I /\ UNCHANGED vars => I'
    BY DEF vars, file, TypeOK, NumberInv, ImportInv, OnceInv
  <2> QED
    BY <2>1, TypeStep, NumberStep, OnceStep
<1>3. I => ArchivedOnce
  BY DEF OnceInv, ArchivedOnce
<1> QED
  BY <1>1, <1>2, <1>3, PTL DEF Spec

-----------------------------------------------------------------------------
(* The oldest are taken.                                                   *)

\* What counts against the limit of the trim under way: entries as new as its
\* cutoff, and those that came late.
Counted == {r \in rows : r.ts >= cutoff \/ r.n \in late}

CountInv ==
  /\ IsFiniteSet(rows)
  /\ \A r, s \in rows : r.id = s.id => r = s
  /\ pc \in {"select", "archive", "delete"} => Cardinality(Counted) > MaxRows

\* An entry that takes the place of another counts if that one did.
LEMMA ReplacedStillCounted ==
  ASSUME NEW S, IsFiniteSet(S), \A r, s \in S : r.id = s.id => r = s,
         NEW C \in SUBSET S, NEW new
  PROVE  Cardinality({r \in C : r.id # new.id} \cup {new}) >= Cardinality(C)
<1> DEFINE D == {r \in C : r.id # new.id}
<1>1. IsFiniteSet(C) /\ IsFiniteSet(D)
  BY FS_Subset
<1>2. Cardinality(D) + 1 = Cardinality(D \cup {new})
  BY <1>1, FS_AddElement
<1>3. Cardinality(C) \in Nat /\ Cardinality(D) \in Nat
  BY <1>1, FS_CardinalityType
<1>4. CASE \E r \in C : r.id = new.id
  <2>1. PICK r \in C : r.id = new.id
    BY <1>4
  <2>2. D = C \ {r}
    BY <2>1
  <2>3. Cardinality(D) = Cardinality(C) - 1
    BY <1>1, <2>1, <2>2, FS_RemoveElement
  <2> QED
    BY <1>2, <1>3, <2>3
<1>5. CASE ~\E r \in C : r.id = new.id
  <2>1. D = C
    BY <1>5
  <2>2. Cardinality(D) = Cardinality(C)
    BY <2>1
  <2> HIDE DEF D
  <2>3. Cardinality(D \cup {new}) >= Cardinality(C)
    BY <1>2, <1>3, <2>2
  <2> QED
    BY <2>3 DEF D
<1> QED
  BY <1>4, <1>5

LEMMA CountStep ==
  ASSUME TypeOK, CountInv, Next
  PROVE  CountInv'
<1> USE Sorts
<1>1. CASE Start \/ Migrate \/ RenameLegacy \/ TrimSelects \/ TrimArchives \/ TrimFails \/ Crash
  BY <1>1 DEF file, Start, Migrate, RenameLegacy, TrimSelects, TrimArchives, TrimFails, Crash,
              CountInv, Counted
<1>2. CASE Import
  <2> DEFINE new == {r \in Legacy : \A s \in rows : s.id # r.id}
  <2>1. IsFiniteSet(new)
    BY LegacyAssumption, FS_Subset
  <2>2. rows' = rows \cup new /\ pc' = "rename"
    BY <1>2 DEF file, Import
  <2>3. IsFiniteSet(rows')
    BY <2>1, <2>2, FS_Union DEF CountInv
  <2>4. \A r, s \in rows' : r.id = s.id => r = s
    BY <2>2, LegacyAssumption DEF CountInv
  <2> QED
    BY <2>2, <2>3, <2>4 DEF CountInv
<1>3. CASE ServerAppends \/ CliAppends
  <2>1. PICK t \in Times, id \in Ids :
          /\ append_audit(t)
          /\ rows' = {r \in rows : r.id # id} \cup {[n |-> now + 1, ts |-> t, id |-> id]}
    BY <1>3, Appends DEF file, append_audit
  <2> DEFINE new  == [n |-> now + 1, ts |-> t, id |-> id]
             kept == {r \in rows : r.id # new.id}
             C    == {r \in Counted : r.id # new.id} \cup {new}
  <2>2. /\ new.id = id /\ new.ts = t /\ new.n = now + 1
        /\ new.ts \in Nat
    BY <2>1 DEF Times
  <2>3. rows' = kept \cup {new}
    BY <2>1, <2>2
  <2>4. /\ pc' = pc /\ cutoff' = cutoff /\ late \subseteq late'
        /\ pc \in {"select", "archive", "delete"} /\ new.ts <= cutoff => new.n \in late'
    BY <2>1, <2>2 DEF file, append_audit
  <2> HIDE DEF new
  <2>5. IsFiniteSet(rows')
    BY <2>3, FS_Subset, FS_AddElement DEF CountInv
  <2>6. \A r, s \in rows' : r.id = s.id => r = s
    BY <2>3 DEF CountInv
  <2>7. ASSUME pc \in {"select", "archive", "delete"} PROVE Cardinality(Counted') > MaxRows
    <3>1. C \subseteq Counted'
      BY <2>2, <2>3, <2>4, <2>7 DEF Counted
    <3>2. IsFiniteSet(Counted') /\ IsFiniteSet(Counted)
      BY <2>5, FS_Subset DEF Counted, CountInv
    <3>3. Cardinality(C) >= Cardinality(Counted)
      BY ReplacedStillCounted DEF CountInv, Counted
    <3>4. IsFiniteSet(C) /\ Cardinality(C) <= Cardinality(Counted')
      BY <3>1, <3>2, FS_Subset
    <3>5. Cardinality(C) \in Nat /\ Cardinality(Counted) \in Nat /\ Cardinality(Counted') \in Nat
      BY <3>2, <3>4, FS_CardinalityType
    <3> QED
      BY <2>7, <3>3, <3>4, <3>5, BoundAssumption DEF CountInv
  <2> QED
    BY <2>4, <2>5, <2>6, <2>7 DEF CountInv
<1>4. CASE TrimBegins
  <2>1. rows' = rows /\ Cardinality(NotOlder(cutoff')) > MaxRows /\ cutoff' \in Nat
    BY <1>4 DEF file, TrimBegins, Boundary, AtOffset
  <2>2. NotOlder(cutoff') \subseteq Counted' /\ IsFiniteSet(Counted')
    BY <2>1, FS_Subset DEF NotOlder, Counted, CountInv
  <2>3. /\ IsFiniteSet(NotOlder(cutoff'))
        /\ Cardinality(NotOlder(cutoff')) <= Cardinality(Counted')
    BY <2>2, FS_Subset
  <2>4. Cardinality(Counted') \in Nat /\ Cardinality(NotOlder(cutoff')) \in Nat
    BY <2>2, <2>3, FS_CardinalityType
  <2>5. Cardinality(Counted') > MaxRows
    BY <2>1, <2>3, <2>4, BoundAssumption
  <2> QED
    BY <2>1, <2>5 DEF CountInv
<1>5. CASE TrimDeletes \/ apply_retention \/ clear_audit
  <2>1. rows' \subseteq rows /\ pc' = "run"
    BY <1>5 DEF file, TrimDeletes, apply_retention, clear_audit
  <2>2. IsFiniteSet(rows')
    BY <2>1, FS_Subset DEF CountInv
  <2> QED
    BY <2>1, <2>2 DEF CountInv
<1> QED
  BY <1>1, <1>2, <1>3, <1>4, <1>5 DEF Next

\* Each entry that is deleted is older than all that stay, and has the limit of
\* entries at least as new above it.
LEMMA OldestStep ==
  ASSUME TypeOK, CountInv, Next,
         pc = "delete", pc' = "run", rows' # rows, late \cap Numbers(rows) = {},
         NEW r \in rows \ rows'
  PROVE  /\ \A s \in rows' : r.ts < s.ts
         /\ Cardinality(NotOlder(r.ts) \ {r}) >= MaxRows
<1> USE Sorts
<1>1. TrimDeletes
  <2>1. ~(Start \/ Migrate \/ Import \/ RenameLegacy \/ TrimBegins \/ TrimSelects \/ TrimArchives)
    BY DEF file, Start, Migrate, Import, RenameLegacy, TrimBegins, TrimSelects, TrimArchives
  <2>2. ~(TrimFails \/ Crash \/ apply_retention \/ clear_audit)
    BY DEF TrimFails, Crash, apply_retention, clear_audit
  <2>3. ~(ServerAppends \/ CliAppends)
    BY Appends DEF file, append_audit
  <2> QED
    BY <2>1, <2>2, <2>3 DEF Next
<1>2. r.ts <= cutoff /\ \A s \in rows' : s.ts > cutoff /\ s \in rows
  BY <1>1 DEF file, TrimDeletes
<1>3. Counted \subseteq NotOlder(r.ts)
  BY <1>2 DEF Counted, NotOlder, Numbers
<1>4. IsFiniteSet(NotOlder(r.ts)) /\ IsFiniteSet(Counted)
  BY FS_Subset DEF NotOlder, Counted, CountInv
<1>5. Cardinality(Counted) <= Cardinality(NotOlder(r.ts))
  BY <1>3, <1>4, FS_Subset
<1>6. r \in NotOlder(r.ts)
  BY DEF NotOlder
<1>7. Cardinality(NotOlder(r.ts) \ {r}) = Cardinality(NotOlder(r.ts)) - 1
  BY <1>4, <1>6, FS_RemoveElement
<1>8. Cardinality(Counted) \in Nat /\ Cardinality(NotOlder(r.ts)) \in Nat
  BY <1>4, FS_CardinalityType
<1>9. Cardinality(Counted) > MaxRows
  BY DEF CountInv
<1> QED
  BY <1>2, <1>5, <1>7, <1>8, <1>9, BoundAssumption

\* A trim takes the oldest, and only what is over the limit or as old as that.
THEOREM TrimTakesOldestHolds == Spec => TrimTakesOldest
<1> DEFINE I == TypeOK /\ CountInv
           Oldest == pc = "delete" /\ pc' = "run" /\ rows' # rows /\ late \cap Numbers(rows) = {} =>
                       \A r \in rows \ rows' :
                         /\ \A s \in rows' : r.ts < s.ts
                         /\ Cardinality(NotOlder(r.ts) \ {r}) >= MaxRows
<1>1. Init => I
  BY TypeInit, FS_EmptySet DEF Init, CountInv
<1>2. I /\ [Next]_vars => I'
  <2>1. I /\ UNCHANGED vars => I'
    BY DEF vars, file, TypeOK, CountInv, Counted
  <2> QED
    BY <2>1, TypeStep, CountStep
<1>3. I /\ [Next]_vars => [Oldest]_vars
  BY OldestStep
<1> QED
  BY <1>1, <1>2, <1>3, PTL DEF Spec, TrimTakesOldest
=============================================================================
