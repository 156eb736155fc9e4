----------------------------- MODULE AuditTrail -----------------------------
(***************************************************************************)
(* The audit log (storage.py): a table in audit.db that the server appends *)
(* to, and so does the command-line tool, another process; the hourly trim *)
(* that moves the oldest entries to an archive file; retention and         *)
(* clearing, which delete; and the import of the older audit.jsonl when    *)
(* the server starts.                                                      *)
(*                                                                         *)
(* The server does all of this on its event loop, so its own appends never *)
(* fall into a trim; the tool's may, and a trim is several statements and  *)
(* a file write.  Entries are numbered as they are written; imported ones  *)
(* may have the same time, the server's own never do.                      *)
(*                                                                         *)
(* Definitions with an underscore and a capital (Boundary_LastKept) are     *)
(* slips the properties are tried against; Next does not use them.         *)
(***************************************************************************)
EXTENDS Naturals, FiniteSets

CONSTANTS
  Ids,         \* identifiers an entry may draw (eight hex digits)
  Legacy,      \* the entries of audit.jsonl ...
  LegacyTime,  \* ... none of which is later than this
  MaxRows,     \* MAX_AUDIT_ENTRIES
  Retention,   \* audit_retention_days, in ticks
  MaxEntries,  \* bound on entries
  MaxFaults    \* bound on crashes and failed writes

Entries == 1..MaxEntries
Times   == 0..MaxEntries
Row     == [n: Entries, ts: Times, id: Ids]

ASSUME LegacyAssumption ==
  /\ Legacy \subseteq Row
  /\ IsFiniteSet(Legacy)
  /\ LegacyTime \in Times
  /\ \A r \in Legacy : r.n <= LegacyTime /\ r.ts <= LegacyTime
  /\ \A r, s \in Legacy : r # s => r.n # s.n /\ r.id # s.id
ASSUME BoundAssumption ==
  /\ MaxRows \in Nat \ {0} /\ Retention \in Nat
  /\ MaxEntries \in Nat /\ MaxFaults \in Nat

VARIABLES
  now,         \* number and time of the latest entry
  rows,        \* the table
  jsonl,       \* audit.jsonl is there (not yet renamed to .bak)
  archive,     \* how often each entry has a line of the archive file: 0, 1 or more
  torn,        \* the archive ends in a piece of a line, without a line feed
  glued,       \* entries whose line was written onto such a piece
  pc,          \* what the server does next
  cutoff,      \* trim_audit: cutoff_ts ...
  trimmed,     \* ... and trimmed, the rows it selected
  written,     \* entries that have been in the table
  gone,        \* entries removed by retention or clearing
  replaced,    \* entries whose row a later one of the same id took
  late,        \* entries inserted during a trim, with a time it takes
  interrupted, \* a trim was cut off by a crash or a failed write
  faults

file == <<archive, torn, glued>>
vars == <<now, rows, jsonl, file, pc, cutoff, trimmed, written, gone, replaced, late, interrupted, faults>>

Numbers(S) == {r.n : r \in S}
Archived   == {n \in Entries : archive[n] > 0}

\* The type invariant.
TypeOK ==
  /\ now \in Times
  /\ rows \subseteq Row
  /\ jsonl \in BOOLEAN
  /\ archive \in [Entries -> 0..2]
  /\ pc \in {"down", "migrate", "import", "rename", "run", "select", "archive", "delete"}
  /\ cutoff \in Times
  /\ trimmed \subseteq Row
  /\ torn \in BOOLEAN
  /\ written \subseteq Entries /\ gone \subseteq Entries /\ late \subseteq Entries
  /\ replaced \subseteq Entries /\ glued \subseteq Entries
  /\ interrupted \in BOOLEAN
  /\ faults \in 0..MaxFaults

Init ==
  /\ now = LegacyTime
  /\ rows = {}
  /\ jsonl = (Legacy # {})
  /\ archive = [n \in Entries |-> 0]
  /\ pc = "down"
  /\ cutoff = 0 /\ trimmed = {}
  /\ torn = FALSE /\ glued = {}
  /\ written = {} /\ gone = {} /\ replaced = {} /\ late = {}
  /\ interrupted = FALSE
  /\ faults = 0

-----------------------------------------------------------------------------
(* Starting.                                                               *)

Start ==
  /\ pc = "down"
  /\ pc' = "migrate"
  /\ UNCHANGED <<now, rows, jsonl, file, cutoff, trimmed, written, gone, replaced, late, interrupted, faults>>

\* _migrate_jsonl_to_sqlite: nothing to do, a table that has rows (the file is
\* only renamed), or an import.
Migrate ==
  /\ pc = "migrate"
  /\ pc' = IF ~jsonl THEN "run" ELSE IF rows # {} THEN "rename" ELSE "import"
  /\ UNCHANGED <<now, rows, jsonl, file, cutoff, trimmed, written, gone, replaced, late, interrupted, faults>>

\* INSERT OR IGNORE every entry of the file, and commit.
Import ==
  LET new == {r \in Legacy : \A s \in rows : s.id # r.id} IN
  /\ pc = "import"
  /\ rows' = rows \cup new
  /\ written' = written \cup Numbers(new)
  /\ pc' = "rename"
  /\ UNCHANGED <<now, jsonl, file, cutoff, trimmed, gone, replaced, late, interrupted, faults>>

RenameLegacy ==
  /\ pc = "rename"
  /\ jsonl' = FALSE
  /\ pc' = "run"
  /\ UNCHANGED <<now, rows, file, cutoff, trimmed, written, gone, replaced, late, interrupted, faults>>

-----------------------------------------------------------------------------
(* Appending.                                                              *)

\* INSERT OR REPLACE, with the time t: an entry with the id of another takes its
\* place.
append_audit(t) ==
  /\ now < MaxEntries
  /\ now' = now + 1
  /\ \E id \in Ids :
       /\ rows' = {r \in rows : r.id # id} \cup {[n |-> now + 1, ts |-> t, id |-> id]}
       /\ replaced' = replaced \cup Numbers({r \in rows : r.id = id})
  /\ written' = written \cup {now + 1}
  /\ late' = IF pc \in {"select", "archive", "delete"} /\ t <= cutoff THEN late \cup {now + 1} ELSE late
  /\ UNCHANGED <<jsonl, file, pc, cutoff, trimmed, gone, interrupted, faults>>

\* A handler or a task of the server.
ServerAppends == pc = "run" /\ append_audit(now + 1)

\* The command-line tool, while the container runs: the entry has its time before
\* the database lets it in, and by then there may be newer ones.
CliAppends ==
  /\ pc # "down"
  /\ \E t \in (LegacyTime + 1)..(now + 1) : append_audit(t)

-----------------------------------------------------------------------------
(* Trimming.                                                               *)

Newer(t)   == {r \in rows : r.ts > t}
NotOlder(t) == {r \in rows : r.ts >= t}

\* t is the time at offset n, newest first; ties are all alike.
AtOffset(t, n) ==
  /\ Cardinality(Newer(t)) <= n
  /\ Cardinality(NotOlder(t)) > n

Boundary_LastKept(t) == AtOffset(t, MaxRows - 1)
Boundary(t)          == AtOffset(t, MaxRows)

TrimBegins ==
  /\ pc = "run"
  /\ Cardinality(rows) > MaxRows
  /\ \E t \in {r.ts : r \in rows} : Boundary(t) /\ cutoff' = t
  /\ pc' = "select"
  /\ UNCHANGED <<now, rows, jsonl, file, trimmed, written, gone, replaced, late, interrupted, faults>>

Trimmed == {r \in rows : r.ts <= cutoff}

\* The locals of trim_audit are gone.
Forget == cutoff' = 0 /\ trimmed' = {}

TrimSelects_DeletesFirst ==
  /\ pc = "select"
  /\ trimmed' = Trimmed /\ rows' = rows \ Trimmed
  /\ pc' = "archive"
  /\ UNCHANGED <<now, jsonl, file, cutoff, written, gone, replaced, late, interrupted, faults>>

\* The rows may have been replaced since: then there is nothing to do.
TrimSelects ==
  /\ pc = "select"
  /\ \/ Trimmed # {} /\ trimmed' = Trimmed /\ pc' = "archive" /\ UNCHANGED cutoff
     \/ Trimmed = {} /\ pc' = "run" /\ Forget
  /\ UNCHANGED <<now, rows, jsonl, file, written, gone, replaced, late, interrupted, faults>>

\* The archive with a line for each of S.
ArchivedToo(S) ==
  [n \in Entries |-> IF n \in Numbers(S) /\ archive[n] < 2 THEN archive[n] + 1 ELSE archive[n]]

\* The lines of S are appended.  The first of them continues the piece the file may
\* end in, and neither can be read.
AppendLines(S) ==
  \/ S = {} /\ UNCHANGED <<archive, glued>>
  \/ S # {} /\ ~torn /\ archive' = ArchivedToo(S) /\ UNCHANGED glued
  \/ \E first \in S :
       /\ torn
       /\ archive' = ArchivedToo(S \ {first})
       /\ glued' = glued \cup {first.n}

TrimArchives ==
  /\ pc = "archive"
  /\ AppendLines(trimmed)
  /\ torn' = FALSE
  /\ pc' = "delete"
  /\ UNCHANGED <<now, rows, jsonl, cutoff, trimmed, written, gone, replaced, late, interrupted, faults>>

\* Only a part of it reaches the file, cut anywhere: after a line or within one.
CutOff ==
  \/ UNCHANGED file
  \/ /\ pc = "archive"
     /\ \E S \in SUBSET trimmed :
          /\ AppendLines(S)
          /\ \/ torn' = (torn /\ S = {})
             \/ S # trimmed /\ torn' = TRUE

TrimDeletes_Nothing ==
  /\ pc = "delete"
  /\ pc' = "run"
  /\ UNCHANGED <<now, rows, jsonl, file, cutoff, trimmed, written, gone, replaced, late, interrupted, faults>>

\* DELETE by the same time, and commit.
TrimDeletes ==
  /\ pc = "delete"
  /\ rows' = {r \in rows : r.ts > cutoff}
  /\ pc' = "run"
  /\ Forget
  /\ UNCHANGED <<now, jsonl, file, written, gone, replaced, late, interrupted, faults>>

\* The archive cannot be written, or only in part; the table is locked.  The
\* exception is logged by trim_loop.
TrimFails ==
  /\ pc \in {"select", "archive", "delete"}
  /\ faults < MaxFaults
  /\ faults' = faults + 1
  /\ CutOff
  /\ interrupted' = (interrupted \/ pc = "delete" \/ archive' # archive)
  /\ pc' = "run"
  /\ Forget
  /\ UNCHANGED <<now, rows, jsonl, written, gone, replaced, late>>

-----------------------------------------------------------------------------
(* Deleting, and crashes.                                                  *)

apply_retention ==
  LET old == {r \in rows : r.ts + Retention < now} IN
  /\ pc = "run"
  /\ Retention > 0
  /\ old # {}
  /\ rows' = rows \ old
  /\ gone' = gone \cup Numbers(old)
  /\ UNCHANGED <<now, jsonl, file, pc, cutoff, trimmed, written, replaced, late, interrupted, faults>>

clear_audit ==
  /\ pc = "run"
  /\ rows # {}
  /\ rows' = {}
  /\ gone' = gone \cup Numbers(rows)
  /\ UNCHANGED <<now, jsonl, file, pc, cutoff, trimmed, written, replaced, late, interrupted, faults>>

\* The process dies: what is committed stays, the archive has a part of its lines.
Crash ==
  /\ pc # "down"
  /\ faults < MaxFaults
  /\ faults' = faults + 1
  /\ CutOff
  /\ interrupted' = (interrupted \/ pc = "delete" \/ archive' # archive)
  /\ pc' = "down"
  /\ Forget
  /\ UNCHANGED <<now, rows, jsonl, written, gone, replaced, late>>

Next ==
  \/ Start \/ Migrate \/ Import \/ RenameLegacy
  \/ ServerAppends \/ CliAppends
  \/ TrimBegins \/ TrimSelects \/ TrimArchives \/ TrimDeletes \/ TrimFails
  \/ apply_retention \/ clear_audit
  \/ Crash

Spec == Init /\ [][Next]_vars

-----------------------------------------------------------------------------
(* Properties.                                                             *)

\* An entry that was written is in the table or can be read in the archive, unless
\* it was deleted on purpose (gone), whatever fails and whoever writes meanwhile.
\* The code has three exceptions: a row whose id a later entry draws is replaced; the
\* tool's entry may come in during a trim, with a time it takes; and after an append
\* that was cut off, the next trim glues its first line onto the piece left behind,
\* one entry at most for each time that happens.
KeptOrArchived ==
  /\ written \subseteq Numbers(rows) \cup Archived \cup gone \cup replaced \cup late \cup glued
  /\ Cardinality(glued) <= faults

\* The archive has an entry in two lines only if a trim was cut off in between.
ArchivedOnce == ~interrupted => \A n \in Entries : archive[n] <= 1

\* What a trim takes out is older than all that stays, and for each entry it takes
\* out there were as many others as the limit that are not older (where times are
\* equal at the boundary, all of them go, and fewer than the limit stay).
TrimTakesOldest ==
  [][pc = "delete" /\ pc' = "run" /\ rows' # rows /\ late \cap Numbers(rows) = {} =>
       \A r \in rows \ rows' :
         /\ \A s \in rows' : r.ts < s.ts
         /\ Cardinality(NotOlder(r.ts) \ {r}) >= MaxRows]_vars
=============================================================================
