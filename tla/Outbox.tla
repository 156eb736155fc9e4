------------------------------- MODULE Outbox -------------------------------
(***************************************************************************)
(* Events and their delivery (events.py): emit aggregates a flood of       *)
(* similar events and queues messages in a durable outbox; the events loop *)
(* posts them to notify-gate, retries, and falls back to the legacy        *)
(* channels (Telegram, SMTP).                                              *)
(*                                                                         *)
(* One asyncio event loop: _deliver is suspended while it waits for a      *)
(* channel and events keep being emitted meanwhile.  events.db survives a  *)
(* crash, the flood windows (_agg) and the loop's place do not.  Time is   *)
(* abstract: a window may end, and a retry fall due, at any moment.        *)
(*                                                                         *)
(* Definitions with an underscore and a capital (NgFailed_NoCount) are     *)
(* slips the properties are tried against; Next does not use them.         *)
(***************************************************************************)
EXTENDS Naturals, FiniteSets, FiniteSetsExt, Sequences, SequencesExt

CONSTANTS
  Keys,        \* flood keys (event, agg) in use
  MaxRows,     \* bound on the rows ever queued
  MaxSeen,     \* bound on how often one flood key occurs
  MaxTries,    \* events.max_tries
  Limit,       \* rows one pass takes (20 in the code)
  Legacy,      \* values of events.legacy in use: "fallback", "parallel", "off"
  Ng,          \* values of "notify-gate is enabled and configured" in use
  MaxCrashes,  \* bound on restarts
  MaxErrors    \* bound on exceptions raised in the loop's body

ASSUME BoundAssumption ==
  /\ IsFiniteSet(Keys)
  /\ MaxRows \in Nat /\ MaxSeen \in Nat /\ MaxTries \in Nat \ {0} /\ Limit \in Nat \ {0}
  /\ Legacy \subseteq {"fallback", "parallel", "off"} /\ Ng \subseteq BOOLEAN
  /\ MaxCrashes \in Nat /\ MaxErrors \in Nat

VARIABLES
  agg,       \* _agg: key -> the window's further occurrences, or NoWindow
  rows,      \* the outbox table, in id order
  pass,      \* rows the running _deliver has still to handle
  pc,        \* what the loop awaits for the one in hand
  settings,  \* the pass's copy of the settings
  seen,      \* occurrences of each key so far
  posts, got, alerts,   \* per row: posts begun, received by notify-gate, legacy alerts
  crashes, errors

vars == <<agg, rows, pass, pc, settings, seen, posts, got, alerts, crashes, errors>>

Ids        == 1..Len(rows)
NoSettings == [ng |-> FALSE, legacy |-> "unread"]
NoWindow   == [n |-> 0, over |-> FALSE, open |-> FALSE]
States     == {"pending", "sent", "fallback", "failed", "skipped"}
Row      == [key: Keys, counts: 0..MaxSeen, state: States, tries: Nat, due: BOOLEAN,
             channel: {"none", "notify-gate", "legacy"}]   \* "none" is '' in the code

\* The type invariant: windows, outbox rows and the delivery pass are well formed.
TypeOK ==
  /\ agg \in [Keys -> [n: 0..MaxSeen, over: BOOLEAN, open: BOOLEAN]]
  /\ rows \in Seq(Row)
  /\ pass \in SUBSET (1..MaxRows)
  /\ pc \in {"idle", "next", "ng", "received", "parallel", "fallback", "only"}
  /\ settings \in [ng: Ng, legacy: Legacy] \cup {NoSettings}
  /\ seen \in [Keys -> 0..MaxSeen]
  /\ \A f \in {posts, got, alerts} : f \in [1..MaxRows -> Nat]
  /\ crashes \in 0..MaxCrashes
  /\ errors \in 0..MaxErrors

Init ==
  /\ agg = [k \in Keys |-> NoWindow]
  /\ rows = <<>>
  /\ pass = {}
  /\ pc = "idle"
  /\ settings = NoSettings
  /\ seen = [k \in Keys |-> 0]
  /\ posts = [r \in 1..MaxRows |-> 0]
  /\ got = [r \in 1..MaxRows |-> 0]
  /\ alerts = [r \in 1..MaxRows |-> 0]
  /\ crashes = 0
  /\ errors = 0

history == <<seen, posts, got, alerts>>
faults  == <<crashes, errors>>

-----------------------------------------------------------------------------
(* Emitting.                                                               *)

\* A row as _enqueue inserts it; counts is how many occurrences it reports.
NewRow(k, n) ==
  [key |-> k, counts |-> n, state |-> "pending", tries |-> 0, due |-> TRUE, channel |-> "none"]

Open(k) == agg[k].open /\ ~agg[k].over

\* emit with a flood key: inside the window it is only counted; else it opens a
\* window, in place of one that is over and not yet flushed, and is queued.
emit(k) ==
  /\ seen[k] < MaxSeen
  /\ seen' = [seen EXCEPT ![k] = @ + 1]
  /\ IF Open(k)
     THEN /\ agg' = [agg EXCEPT ![k].n = @ + 1]
          /\ UNCHANGED rows
     ELSE /\ Len(rows) < MaxRows
          /\ agg' = [agg EXCEPT ![k] = [n |-> 0, over |-> FALSE, open |-> TRUE]]
          /\ rows' = Append(rows, NewRow(k, 1))
  /\ UNCHANGED <<pass, pc, settings, posts, got, alerts, faults>>

\* window_min minutes after it was opened.
WindowEnds(k) ==
  /\ Open(k)
  /\ agg' = [agg EXCEPT ![k].over = TRUE]
  /\ UNCHANGED <<rows, pass, pc, settings, history, faults>>

Over == {k \in Keys : agg[k].over}

\* The summaries of the windows that are over, and the windows that remain.
Flushed_Kept(a) == a
Flushed(a) == [k \in Keys |-> IF a[k].over THEN NoWindow ELSE a[k]]

_flush_agg ==
  LET more == SetToSeq({k \in Over : agg[k].n > 0}) IN
  /\ Len(rows) + Len(more) <= MaxRows
  /\ rows' = rows \o [i \in DOMAIN more |-> NewRow(more[i], agg[more[i]].n)]
  /\ agg' = Flushed(agg)

-----------------------------------------------------------------------------
(* Delivering.                                                             *)

Pending_TriesLeft ==
  {r \in Ids : rows[r].state = "pending" /\ rows[r].due /\ rows[r].tries < MaxTries - 1}

\* WHERE state='pending' AND next_at<=now ...
Pending == {r \in Ids : rows[r].state = "pending" /\ rows[r].due}

\* ... ORDER BY id LIMIT 20.
First(S) == {r \in S : Cardinality({q \in S : q < r}) < Limit}

\* The row of the pass in hand: they are handled in the order of their ids.
Current == Min(pass)

\* _deliver reads the settings and the first rows that are due.
DeliverStart ==
  /\ pc = "idle"
  /\ pass' = First(Pending)
  /\ settings' \in [ng: Ng, legacy: Legacy]
  /\ pc' = "next"
  /\ UNCHANGED <<agg, rows, history, faults>>

Mark(r, state, channel) ==
  rows' = [rows EXCEPT ![r].state = state, ![r].channel = channel]

Advance == pass' = pass \ {Current} /\ pc' = "next"

\* The next row: post it, or use the legacy channels only, or skip it.
NextRow ==
  /\ pc = "next"
  /\ pass # {}
  /\ \/ /\ settings.ng
        /\ pc' = "ng"
        /\ posts' = [posts EXCEPT ![Current] = @ + 1]
        /\ UNCHANGED <<rows, pass>>
     \/ /\ ~settings.ng /\ settings.legacy # "off"
        /\ pc' = "only"
        /\ UNCHANGED <<rows, pass, posts>>
     \/ /\ ~settings.ng /\ settings.legacy = "off"
        /\ Mark(Current, "skipped", "none")
        /\ Advance
        /\ UNCHANGED posts
  /\ UNCHANGED <<agg, settings, seen, got, alerts, faults>>

\* notify-gate takes the message.
NgReceives ==
  /\ pc = "ng"
  /\ pc' = "received"
  /\ got' = [got EXCEPT ![Current] = @ + 1]
  /\ UNCHANGED <<agg, rows, pass, settings, seen, posts, alerts, faults>>

\* A 2xx answer; in parallel mode the legacy channels follow before the mark.
NgOk ==
  /\ pc = "received"
  /\ IF settings.legacy = "parallel"
     THEN pc' = "parallel" /\ UNCHANGED <<rows, pass>>
     ELSE Mark(Current, "sent", "notify-gate") /\ Advance
  /\ UNCHANGED <<agg, settings, history, faults>>

NgFailed_NoCount(retry) ==
  /\ pc \in {"ng", "received"}
  /\ IF retry
     THEN /\ rows' = [rows EXCEPT ![Current].due = FALSE]
          /\ Advance
     ELSE /\ pc' = "fallback"
          /\ UNCHANGED <<rows, pass>>
  /\ UNCHANGED <<agg, settings, history, faults>>

\* Any other answer, or none (the message may have arrived all the same): retry
\* later, or give up and fall back.
NgFailed(retry) ==
  LET r == Current IN
  /\ pc \in {"ng", "received"}
  /\ IF retry /\ rows[r].tries + 1 < MaxTries
     THEN /\ rows' = [rows EXCEPT ![r].tries = @ + 1, ![r].due = FALSE]
          /\ Advance
     ELSE IF settings.legacy # "off"
          THEN pc' = "fallback" /\ UNCHANGED <<rows, pass>>
          ELSE /\ rows' = [rows EXCEPT ![r].state = "failed", ![r].tries = @ + 1]
               /\ Advance
  /\ UNCHANGED <<agg, settings, history, faults>>

LegacyMark_Blind(r, ok) ==
  CASE pc = "parallel" -> Mark(r, "sent", "notify-gate")
    [] pc = "only"     -> Mark(r, "sent", "legacy")
    [] pc = "fallback" -> Mark(r, "fallback", "legacy")

LegacyMark_Parallel(r, ok) ==
  CASE pc = "parallel" /\ ok  -> Mark(r, "sent", "notify-gate")
    [] pc = "parallel" /\ ~ok -> rows' = [rows EXCEPT ![r].due = FALSE]
    [] pc = "only"            -> Mark(r, IF ok THEN "sent" ELSE "skipped", IF ok THEN "legacy" ELSE "none")
    [] pc = "fallback"        -> Mark(r, IF ok THEN "fallback" ELSE "failed", IF ok THEN "legacy" ELSE "none")

\* How a row is marked after _to_legacy, by why it was called.
LegacyMark(r, ok) ==
  CASE pc = "parallel" -> Mark(r, "sent", "notify-gate")
    [] pc = "only"     -> Mark(r, IF ok THEN "sent" ELSE "skipped", IF ok THEN "legacy" ELSE "none")
    [] pc = "fallback" -> rows' = [rows EXCEPT ![r].state = IF ok THEN "fallback" ELSE "failed",
                                               ![r].channel = IF ok THEN "legacy" ELSE "none",
                                               ![r].tries = @ + 1]

\* _to_legacy: Telegram and SMTP; ok if one of them took the alert.
LegacyAnswer(ok) ==
  /\ pc \in {"parallel", "fallback", "only"}
  /\ LegacyMark(Current, ok)
  /\ alerts' = [alerts EXCEPT ![Current] = @ + IF ok THEN 1 ELSE 0]
  /\ Advance
  /\ UNCHANGED <<agg, settings, seen, posts, got, faults>>

\* After the last row: flush the windows and sleep.
DeliverEnd ==
  /\ pc = "next"
  /\ pass = {}
  /\ _flush_agg
  /\ pc' = "idle"
  /\ settings' = NoSettings
  /\ UNCHANGED <<pass, history, faults>>

RetryDue(r) ==
  /\ r \in Ids
  /\ rows[r].state = "pending" /\ ~rows[r].due
  /\ rows' = [rows EXCEPT ![r].due = TRUE]
  /\ UNCHANGED <<agg, pass, pc, settings, history, faults>>

\* An exception in the loop's body (events.db locked, say): logged, next pass.
LoopError ==
  /\ errors < MaxErrors
  /\ pc # "idle"
  /\ errors' = errors + 1
  /\ pass' = {}
  /\ pc' = "idle"
  /\ settings' = NoSettings
  /\ UNCHANGED <<agg, rows, history, crashes>>

Crash ==
  /\ crashes < MaxCrashes
  /\ crashes' = crashes + 1
  /\ agg' = [k \in Keys |-> NoWindow]
  /\ pass' = {}
  /\ pc' = "idle"
  /\ settings' = NoSettings
  /\ UNCHANGED <<rows, history, errors>>

-----------------------------------------------------------------------------
LoopStep ==
  \/ DeliverStart \/ NextRow \/ NgReceives \/ NgOk \/ DeliverEnd
  \/ \E b \in BOOLEAN : NgFailed(b) \/ LegacyAnswer(b)

Next ==
  \/ \E k \in Keys : emit(k) \/ WindowEnds(k)
  \/ LoopStep
  \/ \E r \in 1..MaxRows : RetryDue(r)
  \/ LoopError
  \/ Crash

\* The loop comes back every two seconds, every channel call has a timeout, and
\* time passes.  Nobody owes an event.
Fairness ==
  /\ WF_vars(LoopStep)
  /\ \A r \in 1..MaxRows : WF_vars(RetryDue(r))

Spec     == Init /\ [][Next]_vars
FairSpec == Spec /\ Fairness

-----------------------------------------------------------------------------
(* Properties.                                                             *)

\* The journal tells the truth: a row marked as delivered by a channel was taken
\* by that channel, and a row marked as given up was not alerted by legacy.
MarksAreTrue ==
  \A r \in Ids :
    /\ rows[r].channel = "notify-gate" => got[r] > 0
    /\ rows[r].channel = "legacy" => alerts[r] > 0
    /\ rows[r].state \in {"sent", "fallback"} <=> rows[r].channel # "none"

\* A message is posted at most max_tries times, apart from one repetition for
\* every restart or exception that came between a post and its mark.
PostsBounded ==
  \A r \in Ids : posts[r] <= MaxTries + crashes + errors

\* A message that notify-gate took and acknowledged without a fault in between is
\* not posted again: duplicates come only from lost answers and faults.
NoNeedlessDuplicate ==
  \A r \in Ids : got[r] <= rows[r].tries + 1 + crashes + errors

\* Every message ends up delivered or given up: neither retries, nor a pass's
\* limit with older rows falling due again, starve a row.
EveryRowSettles ==
  \A r \in 1..MaxRows : (r \in Ids /\ rows[r].state = "pending")
                          ~> (r \in Ids /\ rows[r].state # "pending")

\* The occurrences of k that rows report, one by one.
Reported(k) ==
  {x \in Ids \X (1..MaxSeen) : rows[x[1]].key = k /\ x[2] <= rows[x[1]].counts}

\* No occurrence is reported twice: first messages, summaries and what the open
\* window counts never add up to more than what happened.
NothingReportedTwice ==
  \A k \in Keys : Cardinality(Reported(k)) + agg[k].n <= seen[k]
=============================================================================
