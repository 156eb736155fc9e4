---------------------------- MODULE OutboxProofs ----------------------------
(***************************************************************************)
(* The journal tells the truth about a message's delivery, no message is   *)
(* posted or received more often than its tries and the faults account     *)
(* for, and flood control reports no occurrence twice.  For any number of  *)
(* messages, occurrences, tries, restarts and exceptions.                  *)
(***************************************************************************)
EXTENDS Outbox, FiniteSetTheorems, TLAPS

Faults == crashes + errors

\* The row in hand, and whether a post of it is under way or waits for its mark.
Busy       == pc \notin {"idle", "next"}
Posting(r) == pc \in {"ng", "received", "parallel", "fallback"} /\ r = Current

\* A pass holds rows that are queued and undecided, and one of them is in hand.
PassInv ==
  /\ Len(rows) <= MaxRows
  /\ pass \subseteq Ids
  /\ \A r \in pass : rows[r].state = "pending"
  /\ pc = "idle" => pass = {}
  /\ Busy => pass # {}

\* Rows: an undecided one has tries left and no channel; one that notify-gate took
\* was marked at once, so its last try is not counted.
RowInv ==
  \A r \in Ids :
    /\ rows[r].tries <= MaxTries
    /\ rows[r].state = "pending" => rows[r].tries < MaxTries /\ rows[r].channel = "none"
    /\ rows[r].channel = "notify-gate" => rows[r].tries < MaxTries

\* Posts: each is counted as a try, or ended the row's delivery, or is under way, or
\* was cut off by a fault.  What arrived was posted, and no row is posted before it
\* is queued.
PostInv ==
  /\ \A r \in Ids :
       /\ posts[r] <= rows[r].tries + Faults
                       + (IF Posting(r) \/ rows[r].channel = "notify-gate" THEN 1 ELSE 0)
       /\ got[r] <= posts[r]
       /\ pc = "ng" /\ r = Current => got[r] < posts[r]
       /\ pc \in {"received", "parallel"} /\ r = Current => got[r] > 0
  /\ \A r \in 1..MaxRows : r \notin Ids => posts[r] = 0 /\ got[r] = 0

IInv == TypeOK /\ PassInv /\ RowInv /\ PostInv /\ MarksAreTrue /\ NothingReportedTwice

-----------------------------------------------------------------------------
\* A non-empty set of natural numbers has a least element.
LEMMA LeastExists ==
  ASSUME NEW S \in SUBSET Nat, S # {}
  PROVE  Min(S) \in S /\ \A q \in S : Min(S) <= q
<1>1. PICK m \in S : \A q \in S : ~ (<<q, m>> \in OpToRel(<, Nat))
  BY NatLessThanWellFounded, WFMin, Zenon
<1>2. ASSUME NEW q \in S PROVE m <= q
  <2>1. q \in Nat /\ m \in Nat
    OBVIOUS
  <2>2. ~ (<<q, m>> \in OpToRel(<, Nat))
    BY <1>1, Zenon
  <2>3. ~ (q < m)
    BY <2>1, <2>2, Zenon DEF OpToRel
  <2> QED BY <2>1, <2>3
<1> QED BY <1>2 DEF Min

\* SetToSeq lists every element once.
LEMMA Listed ==
  ASSUME NEW S, IsFiniteSet(S)
  PROVE  /\ SetToSeq(S) \in [1..Cardinality(S) -> S]
         /\ \A i, j \in 1..Cardinality(S) : SetToSeq(S)[i] = SetToSeq(S)[j] => i = j
         /\ \A x \in S : \E i \in 1..Cardinality(S) : SetToSeq(S)[i] = x
<1>1. Cardinality(S) \in Nat /\ ExistsBijection(1..Cardinality(S), S)
  BY FS_CardinalityType
<1>2. PICK f \in Bijection(1..Cardinality(S), S) : TRUE
  BY <1>1 DEF ExistsBijection
<1>3. f \in [1..Cardinality(S) -> S] /\ IsInjective(f)
  BY <1>2 DEF Bijection, Injection, IsInjective
<1>4. SetToSeq(S) \in [1..Cardinality(S) -> S] /\ IsInjective(SetToSeq(S))
  BY <1>3 DEF SetToSeq
<1>5. \A i, j \in 1..Cardinality(S) : SetToSeq(S)[i] = SetToSeq(S)[j] => i = j
  BY <1>4 DEF IsInjective
<1>6. IsFiniteSet(1..Cardinality(S)) /\ Cardinality(1..Cardinality(S)) = Cardinality(S)
  BY <1>1, FS_Interval
<1>7. SetToSeq(S) \in Injection(1..Cardinality(S), S)
  BY <1>4, <1>5 DEF Injection, IsInjective
<1>8. SetToSeq(S) \in Surjection(1..Cardinality(S), S)
  BY <1>6, <1>7, FS_Injection
<1> QED BY <1>4, <1>5, <1>8 DEF Surjection

-----------------------------------------------------------------------------
LEMMA IdsBounded ==
  ASSUME TypeOK, PassInv
  PROVE  Ids \subseteq 1..MaxRows /\ Len(rows) \in Nat
<1>1. rows \in Seq(Row) /\ Len(rows) <= MaxRows /\ MaxRows \in Nat
  BY BoundAssumption DEF TypeOK, PassInv
<1>2. Len(rows) \in Nat
  BY <1>1
<1> QED BY <1>1, <1>2 DEF Ids

\* The row in hand is queued, undecided and marked by nobody.
LEMMA InHand ==
  ASSUME TypeOK, PassInv, RowInv, pass # {}
  PROVE  /\ Current \in pass /\ Current \in Ids /\ Current \in 1..MaxRows
         /\ rows[Current] \in Row
         /\ rows[Current].state = "pending" /\ rows[Current].channel = "none"
         /\ rows[Current].tries < MaxTries
<1>1. pass \in SUBSET Nat
  BY BoundAssumption DEF TypeOK
<1>2. Current \in pass
  BY <1>1, LeastExists DEF Current
<1> HIDE DEF Current
<1>3. Current \in Ids /\ Current \in 1..MaxRows
  BY <1>2 DEF PassInv, TypeOK
<1>4. rows[Current] \in Row
  BY <1>3 DEF TypeOK, Ids
<1> QED BY <1>2, <1>3, <1>4 DEF PassInv, RowInv

\* A step that leaves the rows' keys and counts, the windows and the occurrences as
\* they are reports what was reported.
LEMMA SameReports ==
  ASSUME NothingReportedTwice, Ids' = Ids,
         \A r \in Ids : rows'[r].key = rows[r].key /\ rows'[r].counts = rows[r].counts,
         agg' = agg, seen' = seen
  PROVE  NothingReportedTwice'
<1>1. ASSUME NEW k \in Keys PROVE Reported(k)' = Reported(k)
  BY DEF Reported
<1> QED BY <1>1 DEF NothingReportedTwice

RowChanged(r) ==
  /\ rows' \in Seq(Row) /\ Len(rows') = Len(rows)
  /\ \A q \in Ids : q # r => rows'[q] = rows[q]
  /\ rows'[r].key = rows[r].key /\ rows'[r].counts = rows[r].counts

LEMMA MarkFacts ==
  ASSUME rows \in Seq(Row), NEW r \in Ids, NEW s \in States,
         NEW ch \in {"none", "notify-gate", "legacy"}, Mark(r, s, ch)
  PROVE  /\ RowChanged(r)
         /\ rows'[r].state = s /\ rows'[r].channel = ch /\ rows'[r].tries = rows[r].tries
<1> DEFINE x == [rows[r] EXCEPT !.state = s, !.channel = ch]
<1>0. r \in 1..Len(rows)
  BY DEF Ids
<1>1. rows[r] \in Row
  BY <1>0
<1>2. /\ x \in Row /\ x.state = s /\ x.channel = ch /\ x.tries = rows[r].tries
      /\ x.key = rows[r].key /\ x.counts = rows[r].counts
  BY <1>1 DEF Row
<1>3. rows' = [rows EXCEPT ![r] = x]
  BY <1>0, <1>1 DEF Mark
<1> HIDE DEF x
<1>4. rows' \in Seq(Row) /\ Len(rows') = Len(rows) /\ rows'[r] = x
  BY <1>0, <1>2, <1>3
<1>5. \A q \in Ids : q # r => rows'[q] = rows[q]
  BY <1>3 DEF Ids
<1> QED BY <1>2, <1>4, <1>5 DEF RowChanged

\* The row in hand was handled, and the pass goes on to the next one: what has to be
\* known of the row's new entry for the invariant to hold again.
LEMMA Handled ==
  ASSUME IInv, pass # {}, RowChanged(Current), Advance,
         UNCHANGED <<agg, settings, seen, posts, got, crashes, errors>>,
         alerts' \in [1..MaxRows -> Nat], \A r \in 1..MaxRows : alerts[r] <= alerts'[r],
         NEW new, new = rows'[Current],
         new.tries <= MaxTries,
         (new.state = "pending" \/ new.channel = "notify-gate") => new.tries < MaxTries,
         new.state = "pending" => new.channel = "none",
         new.state \in {"sent", "fallback"} <=> new.channel # "none",
         new.channel = "notify-gate" => got[Current] > 0,
         new.channel = "legacy" => alerts'[Current] > 0,
         posts[Current] <= new.tries + Faults + (IF new.channel = "notify-gate" THEN 1 ELSE 0)
  PROVE  IInv'
<1> DEFINE c == Current
<1>1. /\ TypeOK /\ PassInv /\ RowInv /\ PostInv /\ MarksAreTrue /\ NothingReportedTwice
  BY DEF IInv
<1>2. c \in pass /\ c \in Ids
  BY <1>1, InHand
<1>3. /\ rows' \in Seq(Row) /\ Len(rows') = Len(rows) /\ Ids' = Ids
      /\ \A q \in Ids : q # c => rows'[q] = rows[q]
      /\ pass' = pass \ {c} /\ pc' = "next"
  BY DEF RowChanged, Advance, Ids
<1>4. rows'[c] = new
  OBVIOUS
<1> HIDE DEF c
<1>5. TypeOK'
  BY <1>1, <1>3 DEF TypeOK
<1>6. PassInv'
  BY <1>1, <1>3 DEF PassInv, Busy
<1>7. RowInv'
  <2>1. ASSUME NEW r \in Ids
        PROVE  /\ rows'[r].tries <= MaxTries
               /\ rows'[r].state = "pending" => rows'[r].tries < MaxTries /\ rows'[r].channel = "none"
               /\ rows'[r].channel = "notify-gate" => rows'[r].tries < MaxTries
    <3>1. CASE r = c
      BY <1>4, <3>1
    <3>2. CASE r # c
      BY <1>1, <1>3, <3>2 DEF RowInv
    <3> QED BY <3>1, <3>2
  <2> QED BY <1>3, <2>1 DEF RowInv
<1>8. PostInv'
  <2>1. ASSUME NEW r \in Ids
        PROVE  /\ posts[r] <= rows'[r].tries + Faults
                               + (IF rows'[r].channel = "notify-gate" THEN 1 ELSE 0)
               /\ got[r] <= posts[r]
    <3>1. CASE r = c
      BY <1>1, <1>4, <3>1 DEF PostInv, c
    <3>2. CASE r # c
      <4>1. ~ Posting(r)
        BY <3>2 DEF Posting, c
      <4> QED BY <1>1, <1>3, <3>2, <4>1 DEF PostInv
    <3> QED BY <3>1, <3>2
  <2>2. Faults' = Faults /\ \A r : ~ Posting(r)'
    BY <1>3 DEF Faults, Posting
  <2>3. \A r \in 1..MaxRows : r \notin Ids => posts[r] = 0 /\ got[r] = 0
    BY <1>1 DEF PostInv
  <2> QED BY <1>3, <2>1, <2>2, <2>3 DEF PostInv
<1>9. MarksAreTrue'
  <2>1. ASSUME NEW r \in Ids
        PROVE  /\ rows'[r].channel = "notify-gate" => got[r] > 0
               /\ rows'[r].channel = "legacy" => alerts'[r] > 0
               /\ rows'[r].state \in {"sent", "fallback"} <=> rows'[r].channel # "none"
    <3>1. CASE r = c
      BY <1>4, <3>1 DEF c
    <3>2. CASE r # c
      <4>1. rows'[r] = rows[r] /\ r \in 1..MaxRows
        BY <1>1, <1>3, <3>2, IdsBounded
      <4>2. alerts[r] <= alerts'[r] /\ alerts[r] \in Nat /\ alerts'[r] \in Nat
        BY <1>1, <4>1 DEF TypeOK
      <4> QED BY <1>1, <4>1, <4>2 DEF MarksAreTrue
    <3> QED BY <3>1, <3>2
  <2> QED BY <1>3, <2>1 DEF MarksAreTrue
<1>10. NothingReportedTwice'
  <2>1. ASSUME NEW r \in Ids
        PROVE  rows'[r].key = rows[r].key /\ rows'[r].counts = rows[r].counts
    BY <1>3 DEF RowChanged, c
  <2> QED BY <1>1, <1>3, <2>1, SameReports
<1> QED BY <1>5, <1>6, <1>7, <1>8, <1>9, <1>10 DEF IInv

\* The row in hand stays in hand, and the loop awaits something else for it.
LEMMA Awaits ==
  ASSUME IInv, pass # {},
         UNCHANGED <<agg, rows, pass, settings, seen, alerts, crashes, errors>>,
         pc' \in {"ng", "received", "parallel", "fallback", "only"},
         posts' \in [1..MaxRows -> Nat], got' \in [1..MaxRows -> Nat],
         \A r \in 1..MaxRows : r # Current => posts'[r] = posts[r] /\ got'[r] = got[r],
         posts'[Current] <= rows[Current].tries + Faults + (IF pc' = "only" THEN 0 ELSE 1),
         got'[Current] <= posts'[Current], got[Current] <= got'[Current],
         pc' = "ng" => got'[Current] < posts'[Current],
         pc' \in {"received", "parallel"} => got'[Current] > 0
  PROVE  IInv'
<1> DEFINE c == Current
<1>1. /\ TypeOK /\ PassInv /\ RowInv /\ PostInv /\ MarksAreTrue /\ NothingReportedTwice
  BY DEF IInv
<1>2. c \in pass /\ c \in Ids /\ rows[c].channel = "none"
  BY <1>1, InHand
<1>3. Ids' = Ids /\ Ids \subseteq 1..MaxRows /\ Current' = c /\ Faults' = Faults
  BY <1>1, IdsBounded DEF Ids, Current, Faults
<1>4. c \in 1..MaxRows /\ rows[c].tries \in Nat /\ Faults \in Nat
  <2>1. rows[c] \in Row
    BY <1>1, <1>2, InHand
  <2>2. crashes \in Nat /\ errors \in Nat
    BY <1>1, BoundAssumption DEF TypeOK
  <2> QED BY <1>2, <1>3, <2>1, <2>2 DEF Row, Faults
<1>c. c = Current
  OBVIOUS
<1> HIDE DEF c
<1>5. TypeOK'
  BY <1>1 DEF TypeOK
<1>6. PassInv' /\ RowInv'
  BY <1>1, <1>3 DEF PassInv, RowInv, Busy
<1>7. PostInv'
  <2>1. ASSUME NEW r \in Ids, r # c
        PROVE  /\ posts'[r] <= rows[r].tries + Faults + (IF rows[r].channel = "notify-gate" THEN 1 ELSE 0)
               /\ got'[r] <= posts'[r]
    <3>1. posts'[r] = posts[r] /\ got'[r] = got[r] /\ ~Posting(r)
      BY <1>3, <1>c, <2>1 DEF Posting
    <3> QED BY <1>1, <2>1, <3>1 DEF PostInv
  <2>2. \A r : Posting(r)' <=> pc' # "only" /\ r = c
    BY <1>3 DEF Posting
  <2>3. ASSUME NEW r \in 1..MaxRows, r \notin Ids PROVE posts'[r] = 0 /\ got'[r] = 0
    BY <1>1, <1>2, <1>c, <2>3 DEF PostInv
  <2>4. ASSUME NEW r \in Ids
        PROVE  /\ posts'[r] <= rows'[r].tries + Faults'
                       + (IF Posting(r)' \/ rows'[r].channel = "notify-gate" THEN 1 ELSE 0)
               /\ got'[r] <= posts'[r]
               /\ pc' = "ng" /\ r = Current' => got'[r] < posts'[r]
               /\ pc' \in {"received", "parallel"} /\ r = Current' => got'[r] > 0
    <3>1. CASE r = c
      BY <1>2, <1>3, <1>c, <2>2, <3>1
    <3>2. CASE r # c
      BY <1>3, <2>1, <2>2, <3>2
    <3> QED BY <3>1, <3>2
  <2> QED BY <1>3, <2>3, <2>4 DEF PostInv
<1>8. MarksAreTrue'
  <2>1. ASSUME NEW r \in Ids PROVE got[r] > 0 => got'[r] > 0
    <3>1. CASE r = c
      <4>1. got[c] \in Nat /\ got'[c] \in Nat /\ got[c] <= got'[c]
        BY <1>1, <1>4, <1>c DEF TypeOK
      <4> QED BY <3>1, <4>1
    <3>2. CASE r # c
      BY <1>3, <1>c, <2>1, <3>2
    <3> QED BY <3>1, <3>2
  <2> QED BY <1>1, <1>3, <2>1 DEF MarksAreTrue
<1>9. NothingReportedTwice'
  BY <1>1, <1>3, SameReports
<1> QED BY <1>5, <1>6, <1>7, <1>8, <1>9 DEF IInv

\* Nothing is posted any more: the loop was elsewhere, or a fault cut the post off.
LEMMA Rests ==
  ASSUME IInv, TypeOK', PassInv', NothingReportedTwice',
         UNCHANGED <<rows, posts, got, alerts>>,
         pc' \in {"idle", "next"},
         \/ pc \in {"idle", "next"} /\ Faults' = Faults
         \/ Faults' = Faults + 1
  PROVE  IInv'
<1>1. /\ TypeOK /\ PassInv /\ RowInv /\ PostInv /\ MarksAreTrue
  BY DEF IInv
<1>2. Ids' = Ids /\ Ids \subseteq 1..MaxRows
  BY <1>1, IdsBounded DEF Ids
<1>3. Faults \in Nat
  BY <1>1, BoundAssumption DEF TypeOK, Faults
<1>4. RowInv' /\ MarksAreTrue'
  BY <1>1, <1>2 DEF RowInv, MarksAreTrue
<1>5. PostInv'
  <2>1. \A r : ~ Posting(r)'
    BY DEF Posting
  <2>2. ASSUME NEW r \in Ids
        PROVE  posts[r] <= rows[r].tries + Faults' + (IF rows[r].channel = "notify-gate" THEN 1 ELSE 0)
    <3>1. posts[r] \in Nat /\ rows[r].tries \in Nat
      <4>1. rows[r] \in Row
        BY <1>1 DEF TypeOK, Ids
      <4> QED BY <1>1, <1>2, <4>1 DEF TypeOK, Row
    <3>2. CASE pc \in {"idle", "next"} /\ Faults' = Faults
      <4>1. ~ Posting(r)
        BY <3>2 DEF Posting
      <4> QED BY <1>1, <3>2, <4>1 DEF PostInv
    <3>3. CASE Faults' = Faults + 1
      <4>1. posts[r] <= rows[r].tries + Faults + 1
        BY <1>1, <1>3, <3>1 DEF PostInv
      <4> QED BY <1>3, <3>1, <3>3, <4>1
    <3> QED BY <3>2, <3>3
  <2> QED BY <1>1, <1>2, <2>1, <2>2 DEF PostInv
<1> QED BY <1>4, <1>5 DEF IInv

\* Rows are queued, or a row falls due: nothing is delivered.
LEMMA Queued ==
  ASSUME IInv, TypeOK', NothingReportedTwice',
         Ids \subseteq Ids', Len(rows') <= MaxRows,
         \A r \in Ids : /\ rows'[r].state = rows[r].state /\ rows'[r].tries = rows[r].tries
                        /\ rows'[r].channel = rows[r].channel,
         \A r \in Ids' : r \notin Ids =>
           rows'[r].state = "pending" /\ rows'[r].tries = 0 /\ rows'[r].channel = "none",
         UNCHANGED <<pass, posts, got, alerts, crashes, errors>>,
         \/ pc' = pc
         \/ pc = "next" /\ pass = {} /\ pc' = "idle"
  PROVE  IInv'
<1>1. /\ TypeOK /\ PassInv /\ RowInv /\ PostInv /\ MarksAreTrue
  BY DEF IInv
<1>2. PassInv'
  BY <1>1 DEF PassInv, Busy
<1>3. Ids' \subseteq 1..MaxRows /\ Current' = Current /\ Faults' = Faults /\ Faults \in Nat
  <2>1. Ids' \subseteq 1..MaxRows
    BY <1>2, BoundAssumption DEF TypeOK, PassInv, Ids
  <2> QED BY <1>1, <2>1, BoundAssumption DEF TypeOK, Current, Faults
<1>4. RowInv'
  BY <1>1, BoundAssumption DEF RowInv
<1>5. MarksAreTrue'
  BY <1>1 DEF MarksAreTrue
<1>6. PostInv'
  <2>1. \A r : Posting(r)' <=> Posting(r)
    BY <1>3 DEF Posting
  <2>2. pc' = "ng" => pc = "ng"
    OBVIOUS
  <2>3. pc' \in {"received", "parallel"} => pc \in {"received", "parallel"}
    OBVIOUS
  <2>4. ASSUME NEW r \in Ids', r \notin Ids
        PROVE  posts[r] = 0 /\ got[r] = 0 /\ (pc' \in {"ng", "received", "parallel"} => r # Current)
    <3>1. posts[r] = 0 /\ got[r] = 0
      BY <1>1, <1>3, <2>4 DEF PostInv
    <3>2. pass # {} => Current \in Ids
      BY <1>1, InHand
    <3>3. pc' \in {"ng", "received", "parallel"} => pass # {}
      BY <1>1, <2>2, <2>3 DEF PassInv, Busy
    <3> QED BY <2>4, <3>1, <3>2, <3>3
  <2> HIDE DEF Current, Posting
  <2>5. ASSUME NEW r \in Ids'
        PROVE  /\ posts'[r] <= rows'[r].tries + Faults'
                       + (IF Posting(r)' \/ rows'[r].channel = "notify-gate" THEN 1 ELSE 0)
               /\ got'[r] <= posts'[r]
               /\ pc' = "ng" /\ r = Current' => got'[r] < posts'[r]
               /\ pc' \in {"received", "parallel"} /\ r = Current' => got'[r] > 0
    <3>1. CASE r \in Ids
      BY <1>1, <1>3, <2>1, <2>2, <2>3, <3>1 DEF PostInv
    <3>2. CASE r \notin Ids
      BY <1>3, <2>4, <3>2
    <3> QED BY <3>1, <3>2
  <2>6. \A r \in 1..MaxRows : r \notin Ids' => posts'[r] = 0 /\ got'[r] = 0
    BY <1>1 DEF PostInv
  <2> QED BY <2>5, <2>6 DEF PostInv
<1> QED BY <1>2, <1>4, <1>5, <1>6 DEF IInv

\* What the rows report is finite, and a window never counts beyond what happened.
LEMMA ReportedFacts ==
  ASSUME TypeOK, PassInv, NothingReportedTwice, NEW k \in Keys
  PROVE  /\ IsFiniteSet(Reported(k)) /\ Cardinality(Reported(k)) \in Nat
         /\ Cardinality(Reported(k)) + agg[k].n <= seen[k]
         /\ agg[k].n \in 0..MaxSeen /\ seen[k] \in 0..MaxSeen
<1>1. Len(rows) \in Nat /\ MaxSeen \in Nat
  BY IdsBounded, BoundAssumption
<1>2. IsFiniteSet(Ids) /\ IsFiniteSet(1..MaxSeen)
  BY <1>1, FS_Interval DEF Ids
<1>3. IsFiniteSet(Ids \X (1..MaxSeen))
  BY <1>2, FS_Product
<1>4. IsFiniteSet(Reported(k))
  BY <1>3, FS_Subset DEF Reported
<1> QED BY <1>4, FS_CardinalityType DEF NothingReportedTwice, TypeOK

-----------------------------------------------------------------------------
LEMMA InitIInv == Init => IInv
<1> SUFFICES ASSUME Init PROVE IInv
  OBVIOUS
<1>1. Ids = {} /\ Len(rows) = 0 /\ Faults = 0
  BY DEF Init, Ids, Faults
<1>2. TypeOK
  BY BoundAssumption DEF Init, TypeOK, NoWindow
<1>3. PassInv /\ RowInv /\ MarksAreTrue
  BY <1>1, BoundAssumption DEF Init, PassInv, RowInv, MarksAreTrue, Busy
<1>4. PostInv
  BY <1>1 DEF Init, PostInv
<1>5. NothingReportedTwice
  <2>1. ASSUME NEW k \in Keys PROVE Reported(k) = {}
    BY <1>1 DEF Reported
  <2>2. Cardinality({}) = 0
    BY FS_EmptySet
  <2>3. ASSUME NEW k \in Keys PROVE Cardinality(Reported(k)) + agg[k].n <= seen[k]
    <3>1. agg[k].n = 0 /\ seen[k] = 0 /\ Cardinality(Reported(k)) = 0
      BY <2>1, <2>2 DEF Init, NoWindow
    <3> QED BY <3>1
  <2> QED BY <2>3 DEF NothingReportedTwice
<1> QED BY <1>2, <1>3, <1>4, <1>5 DEF IInv

LEMMA NewRowType ==
  ASSUME NEW k \in Keys, NEW n \in 0..MaxSeen
  PROVE  /\ NewRow(k, n) \in Row
         /\ NewRow(k, n).key = k /\ NewRow(k, n).counts = n
         /\ NewRow(k, n).state = "pending" /\ NewRow(k, n).tries = 0
         /\ NewRow(k, n).channel = "none"
BY DEF NewRow, Row, States

LEMMA EmitStep ==
  ASSUME IInv, NEW k \in Keys, emit(k)
  PROVE  IInv'
<1>1. /\ TypeOK /\ PassInv /\ RowInv /\ PostInv /\ MarksAreTrue /\ NothingReportedTwice
  BY DEF IInv
<1>2. Len(rows) \in Nat /\ MaxSeen \in Nat /\ MaxRows \in Nat /\ rows \in Seq(Row)
  BY <1>1, IdsBounded, BoundAssumption DEF TypeOK
<1>3. seen[k] < MaxSeen /\ seen' = [seen EXCEPT ![k] = @ + 1]
  BY DEF emit
<1>4. /\ Cardinality(Reported(k)) \in Nat /\ IsFiniteSet(Reported(k))
      /\ Cardinality(Reported(k)) + agg[k].n <= seen[k]
      /\ agg[k].n \in 0..MaxSeen /\ seen[k] \in 0..MaxSeen
  BY <1>1, ReportedFacts
<1>5. seen' \in [Keys -> 0..MaxSeen] /\ seen'[k] = seen[k] + 1
      /\ \A j \in Keys : j # k => seen'[j] = seen[j]
  BY <1>1, <1>2, <1>3, <1>4 DEF TypeOK
<1>6. UNCHANGED <<pass, pc, settings, posts, got, alerts, crashes, errors>>
  BY DEF emit, faults
<1>7. CASE Open(k)
  <2>1. agg' = [agg EXCEPT ![k].n = @ + 1] /\ rows' = rows
    BY <1>7 DEF emit
  <2>2. agg[k] \in [n: 0..MaxSeen, over: BOOLEAN, open: BOOLEAN] /\ agg[k].n + 1 \in 0..MaxSeen
    BY <1>1, <1>2, <1>3, <1>4 DEF TypeOK
  <2>3. [agg[k] EXCEPT !.n = @ + 1] \in [n: 0..MaxSeen, over: BOOLEAN, open: BOOLEAN]
        /\ [agg[k] EXCEPT !.n = @ + 1].n = agg[k].n + 1
    BY <2>2
  <2>4. agg' = [agg EXCEPT ![k] = [agg[k] EXCEPT !.n = @ + 1]]
    BY <2>1, <1>1 DEF TypeOK
  <2>5. agg' \in [Keys -> [n: 0..MaxSeen, over: BOOLEAN, open: BOOLEAN]]
        /\ agg'[k].n = agg[k].n + 1 /\ \A j \in Keys : j # k => agg'[j] = agg[j]
    BY <1>1, <2>3, <2>4 DEF TypeOK
  <2>6. TypeOK'
    BY <1>1, <1>5, <1>6, <2>1, <2>5 DEF TypeOK
  <2>7. NothingReportedTwice'
    <3>1. ASSUME NEW j \in Keys PROVE Cardinality(Reported(j))' + agg'[j].n <= seen'[j]
      <4>1. Reported(j)' = Reported(j)
        BY <2>1 DEF Reported, Ids
      <4>2. CASE j = k
        BY <1>2, <1>4, <1>5, <2>5, <4>1, <4>2
      <4>3. CASE j # k
        BY <1>1, <1>5, <2>5, <4>1, <4>3 DEF NothingReportedTwice
      <4> QED BY <4>2, <4>3
    <3> QED BY <3>1 DEF NothingReportedTwice
  <2>8. Ids' = Ids /\ Len(rows') <= MaxRows
    BY <1>1, <2>1 DEF Ids, PassInv
  <2> QED BY <1>6, <2>1, <2>6, <2>7, <2>8, Queued
<1>8. CASE ~ Open(k)
  <2> DEFINE w == [n |-> 0, over |-> FALSE, open |-> TRUE]
             new == NewRow(k, 1)
             l == Len(rows) + 1
  <2>1. /\ Len(rows) < MaxRows /\ agg' = [agg EXCEPT ![k] = w] /\ rows' = Append(rows, new)
    BY <1>8 DEF emit
  <2>2. 1 \in 0..MaxSeen /\ 1 \in 1..MaxSeen
    BY <1>2, <1>3, <1>4
  <2>3. /\ new \in Row /\ new.key = k /\ new.counts = 1
        /\ new.state = "pending" /\ new.tries = 0 /\ new.channel = "none"
    BY <2>2, NewRowType
  <2>4. /\ agg' \in [Keys -> [n: 0..MaxSeen, over: BOOLEAN, open: BOOLEAN]]
        /\ agg'[k].n = 0 /\ \A j \in Keys : j # k => agg'[j] = agg[j]
    BY <1>1, <1>2, <2>1 DEF TypeOK
  <2> HIDE DEF new, w
  <2>5. /\ rows' \in Seq(Row) /\ Len(rows') = l /\ rows'[l] = new
        /\ \A r \in 1..Len(rows) : rows'[r] = rows[r]
    BY <1>2, <2>1, <2>3
  <2>6. Ids' = Ids \cup {l} /\ l \notin Ids /\ \A r \in Ids : rows'[r] = rows[r]
    BY <1>2, <2>5 DEF Ids
  <2> HIDE DEF l
  <2>7. TypeOK'
    BY <1>1, <1>5, <1>6, <2>4, <2>5 DEF TypeOK
  <2>8. NothingReportedTwice'
    <3>1. ASSUME NEW j \in Keys PROVE Cardinality(Reported(j))' + agg'[j].n <= seen'[j]
      <4>1. CASE j = k
        <5>1. Reported(k)' = Reported(k) \cup {<<l, 1>>}
          <6>1. ASSUME NEW x \in Reported(k)' PROVE x \in Reported(k) \cup {<<l, 1>>}
            <7>1. /\ x \in Ids' \X (1..MaxSeen) /\ rows'[x[1]].key = k /\ x[2] <= rows'[x[1]].counts
              BY DEF Reported
            <7>2. CASE x[1] \in Ids
              BY <2>6, <7>1, <7>2 DEF Reported
            <7>3. CASE x[1] = l
              BY <2>3, <2>5, <7>1, <7>3
            <7> QED BY <2>6, <7>1, <7>2, <7>3
          <6>2. Reported(k) \subseteq Reported(k)'
            BY <2>6 DEF Reported
          <6>3. <<l, 1>> \in Reported(k)'
            BY <2>2, <2>3, <2>5, <2>6 DEF Reported
          <6> QED BY <6>1, <6>2, <6>3
        <5>2. <<l, 1>> \notin Reported(k)
          BY <2>6 DEF Reported
        <5>3. Cardinality(Reported(k) \cup {<<l, 1>>}) = Cardinality(Reported(k)) + 1
          BY <1>4, <5>2, FS_AddElement
        <5> QED BY <1>2, <1>4, <1>5, <2>4, <4>1, <5>1, <5>3
      <4>2. CASE j # k
        <5>1. Reported(j)' = Reported(j)
          BY <2>3, <2>5, <2>6, <4>2 DEF Reported
        <5> QED BY <1>1, <1>5, <2>4, <4>2, <5>1 DEF NothingReportedTwice
      <4> QED BY <4>1, <4>2
    <3> QED BY <3>1 DEF NothingReportedTwice
  <2>9. Len(rows') <= MaxRows
    BY <1>2, <2>1, <2>5 DEF l
  <2>10. \A r \in Ids' : r \notin Ids => r = l
    BY <2>6
  <2> QED BY <1>6, <2>3, <2>5, <2>6, <2>7, <2>8, <2>9, <2>10, Queued
<1> QED BY <1>7, <1>8

LEMMA WindowEndsStep ==
  ASSUME IInv, NEW k \in Keys, WindowEnds(k)
  PROVE  IInv'
<1>1. TypeOK /\ PassInv /\ NothingReportedTwice
  BY DEF IInv
<1>2. /\ agg' = [agg EXCEPT ![k].over = TRUE]
      /\ UNCHANGED <<rows, pass, pc, settings, seen, posts, got, alerts, crashes, errors>>
  BY DEF WindowEnds, history, faults
<1>3. /\ agg' \in [Keys -> [n: 0..MaxSeen, over: BOOLEAN, open: BOOLEAN]]
      /\ \A j \in Keys : agg'[j].n = agg[j].n
  BY <1>1, <1>2 DEF TypeOK
<1>4. TypeOK'
  BY <1>1, <1>2, <1>3 DEF TypeOK
<1>5. NothingReportedTwice'
  <2>1. ASSUME NEW j \in Keys PROVE Reported(j)' = Reported(j)
    BY <1>2 DEF Reported, Ids
  <2> QED BY <1>1, <1>2, <1>3, <2>1 DEF NothingReportedTwice
<1>6. Ids' = Ids /\ Len(rows') <= MaxRows
  BY <1>1, <1>2 DEF Ids, PassInv
<1> QED BY <1>2, <1>4, <1>5, <1>6, Queued

LEMMA UpdateFacts ==
  ASSUME rows \in Seq(Row), NEW r \in Ids, NEW x \in Row,
         x.key = rows[r].key, x.counts = rows[r].counts, rows' = [rows EXCEPT ![r] = x]
  PROVE  RowChanged(r) /\ rows'[r] = x
<1>1. r \in 1..Len(rows)
  BY DEF Ids
<1>2. rows' \in Seq(Row) /\ Len(rows') = Len(rows) /\ rows'[r] = x
  BY <1>1
<1>3. \A q \in Ids : q # r => rows'[q] = rows[q]
  BY DEF Ids
<1> QED BY <1>2, <1>3 DEF RowChanged

\* What is known of the row in hand while the loop awaits something for it.
LEMMA InHandPosts ==
  ASSUME IInv, pass # {}
  PROVE  /\ posts[Current] \in Nat /\ got[Current] \in Nat /\ rows[Current].tries \in Nat
         /\ Faults \in Nat /\ MaxTries \in Nat
         /\ got[Current] <= posts[Current]
         /\ posts[Current] <= rows[Current].tries + Faults + 1
         /\ pc \in {"next", "only"} => posts[Current] <= rows[Current].tries + Faults
         /\ pc = "ng" => got[Current] < posts[Current]
         /\ pc \in {"received", "parallel"} => got[Current] > 0
<1> DEFINE c == Current
<1>1. TypeOK /\ PassInv /\ RowInv /\ PostInv
  BY DEF IInv
<1>2. c \in Ids /\ c \in 1..MaxRows /\ rows[c] \in Row /\ rows[c].channel = "none"
  BY <1>1, InHand
<1> HIDE DEF c
<1>3. posts[c] \in Nat /\ got[c] \in Nat /\ rows[c].tries \in Nat /\ Faults \in Nat
  BY <1>1, <1>2, BoundAssumption DEF TypeOK, Row, Faults
<1>4. c = Current
  BY DEF c
<1>5. /\ posts[c] <= rows[c].tries + Faults + (IF Posting(c) THEN 1 ELSE 0)
      /\ got[c] <= posts[c]
      /\ pc = "ng" => got[c] < posts[c]
      /\ pc \in {"received", "parallel"} => got[c] > 0
  BY <1>1, <1>2, <1>4 DEF PostInv
<1>6. posts[c] <= rows[c].tries + Faults + 1
  BY <1>3, <1>5
<1>7. pc \in {"next", "only"} => posts[c] <= rows[c].tries + Faults
  BY <1>3, <1>5 DEF Posting
<1> QED BY <1>3, <1>4, <1>5, <1>6, <1>7, BoundAssumption

LEMMA AlertsKept ==
  ASSUME TypeOK, UNCHANGED alerts
  PROVE  alerts' \in [1..MaxRows -> Nat] /\ \A r \in 1..MaxRows : alerts[r] <= alerts'[r]
<1>1. alerts \in [1..MaxRows -> Nat] /\ alerts' = alerts
  BY DEF TypeOK
<1>2. ASSUME NEW r \in 1..MaxRows PROVE alerts[r] <= alerts'[r]
  <2>1. alerts[r] \in Nat
    BY <1>1
  <2> QED BY <1>1, <2>1
<1> QED BY <1>1, <1>2

LEMMA NextRowStep ==
  ASSUME IInv, NextRow
  PROVE  IInv'
<1> USE DEF NextRow
<1>0. pass # {} /\ TypeOK /\ PassInv /\ RowInv /\ UNCHANGED <<agg, settings, seen, got, alerts, crashes, errors>>
  BY DEF IInv, faults
<1>1. Current \in Ids /\ Current \in 1..MaxRows /\ rows[Current].tries < MaxTries
  BY <1>0, InHand
<1>2. /\ posts[Current] \in Nat /\ got[Current] \in Nat /\ rows[Current].tries \in Nat
      /\ Faults \in Nat /\ MaxTries \in Nat /\ got[Current] <= posts[Current]
      /\ posts[Current] <= rows[Current].tries + Faults
  BY <1>0, InHandPosts
<1> HIDE DEF Current
<1>3. CASE pc' = "ng" /\ posts' = [posts EXCEPT ![Current] = @ + 1] /\ UNCHANGED <<rows, pass>>
  <2>1. /\ posts' \in [1..MaxRows -> Nat] /\ posts'[Current] = posts[Current] + 1
        /\ \A r \in 1..MaxRows : r # Current => posts'[r] = posts[r]
    BY <1>0, <1>1, <1>2, <1>3 DEF TypeOK
  <2>2. got' \in [1..MaxRows -> Nat] /\ got' = got
    BY <1>0 DEF TypeOK
  <2> QED BY <1>0, <1>2, <1>3, <2>1, <2>2, Awaits
<1>4. CASE pc' = "only" /\ UNCHANGED <<rows, pass, posts>>
  <2>1. posts' \in [1..MaxRows -> Nat] /\ got' \in [1..MaxRows -> Nat] /\ posts' = posts /\ got' = got
    BY <1>0, <1>4 DEF TypeOK
  <2> QED BY <1>0, <1>2, <1>4, <2>1, Awaits
<1>5. CASE Mark(Current, "skipped", "none") /\ Advance /\ UNCHANGED posts
  <2> DEFINE new == rows'[Current]
  <2>1. /\ RowChanged(Current) /\ new.state = "skipped" /\ new.channel = "none"
        /\ new.tries = rows[Current].tries
    BY <1>0, <1>1, <1>5, MarkFacts DEF TypeOK, States
  <2>2. alerts' \in [1..MaxRows -> Nat] /\ \A r \in 1..MaxRows : alerts[r] <= alerts'[r]
    BY <1>0, AlertsKept
  <2> HIDE DEF new, NextRow
  <2>3. new = rows'[Current]
    BY DEF new
  <2> QED BY <1>0, <1>1, <1>2, <1>5, <2>1, <2>2, <2>3, Handled
<1> QED BY <1>3, <1>4, <1>5

LEMMA NgReceivesStep ==
  ASSUME IInv, NgReceives
  PROVE  IInv'
<1>0. /\ TypeOK /\ PassInv /\ RowInv
      /\ pc = "ng" /\ pc' = "received" /\ got' = [got EXCEPT ![Current] = @ + 1]
      /\ UNCHANGED <<agg, rows, pass, settings, seen, posts, alerts, crashes, errors>>
  BY DEF IInv, NgReceives, faults
<1>1. pass # {}
  BY <1>0 DEF PassInv, Busy
<1>2. Current \in 1..MaxRows
  BY <1>0, <1>1, InHand
<1>3. /\ posts[Current] \in Nat /\ got[Current] \in Nat /\ got[Current] < posts[Current]
      /\ posts[Current] <= rows[Current].tries + Faults + 1
  BY <1>0, <1>1, InHandPosts
<1> HIDE DEF Current
<1>4. /\ got' \in [1..MaxRows -> Nat] /\ got'[Current] = got[Current] + 1
      /\ \A r \in 1..MaxRows : r # Current => got'[r] = got[r]
  BY <1>0, <1>2, <1>3 DEF TypeOK
<1>5. posts' \in [1..MaxRows -> Nat] /\ posts' = posts
  BY <1>0 DEF TypeOK
<1> QED BY <1>0, <1>1, <1>3, <1>4, <1>5, Awaits

LEMMA NgOkStep ==
  ASSUME IInv, NgOk
  PROVE  IInv'
<1>0. /\ TypeOK /\ PassInv /\ RowInv /\ pc = "received"
      /\ UNCHANGED <<agg, settings, seen, posts, got, alerts, crashes, errors>>
  BY DEF IInv, NgOk, faults, history
<1>1. pass # {}
  BY <1>0 DEF PassInv, Busy
<1>2. Current \in Ids /\ Current \in 1..MaxRows /\ rows[Current].tries < MaxTries
  BY <1>0, <1>1, InHand
<1>3. /\ posts[Current] \in Nat /\ got[Current] \in Nat /\ got[Current] > 0
      /\ rows[Current].tries \in Nat /\ Faults \in Nat /\ MaxTries \in Nat
      /\ got[Current] <= posts[Current]
      /\ posts[Current] <= rows[Current].tries + Faults + 1
  BY <1>0, <1>1, InHandPosts
<1> HIDE DEF Current
<1>4. CASE pc' = "parallel" /\ UNCHANGED <<rows, pass>>
  <2>1. posts' \in [1..MaxRows -> Nat] /\ got' \in [1..MaxRows -> Nat] /\ posts' = posts /\ got' = got
    BY <1>0 DEF TypeOK
  <2> QED BY <1>0, <1>1, <1>3, <1>4, <2>1, Awaits
<1>5. CASE Mark(Current, "sent", "notify-gate") /\ Advance
  <2> DEFINE new == rows'[Current]
  <2>1. /\ RowChanged(Current) /\ new.state = "sent" /\ new.channel = "notify-gate"
        /\ new.tries = rows[Current].tries
    BY <1>0, <1>2, <1>5, MarkFacts DEF TypeOK, States
  <2>2. alerts' \in [1..MaxRows -> Nat] /\ \A r \in 1..MaxRows : alerts[r] <= alerts'[r]
    BY <1>0, AlertsKept
  <2> HIDE DEF new
  <2>3. new = rows'[Current]
    BY DEF new
  <2> QED BY <1>0, <1>1, <1>2, <1>3, <1>5, <2>1, <2>2, <2>3, Handled
<1> QED BY <1>4, <1>5 DEF NgOk

LEMMA NgFailedStep ==
  ASSUME IInv, NEW retry \in BOOLEAN, NgFailed(retry)
  PROVE  IInv'
<1> DEFINE c == Current
<1>0. /\ TypeOK /\ PassInv /\ RowInv /\ pc \in {"ng", "received"}
      /\ UNCHANGED <<agg, settings, seen, posts, got, alerts, crashes, errors>>
  BY DEF IInv, NgFailed, faults, history
<1>1. pass # {}
  BY <1>0 DEF PassInv, Busy
<1>2. /\ c \in Ids /\ c \in 1..MaxRows /\ rows[c] \in Row /\ rows[c].tries < MaxTries
      /\ rows[c].state = "pending" /\ rows[c].channel = "none"
  BY <1>0, <1>1, InHand
<1>3. /\ posts[c] \in Nat /\ got[c] \in Nat
      /\ rows[c].tries \in Nat /\ Faults \in Nat /\ MaxTries \in Nat
      /\ got[c] <= posts[c] /\ posts[c] <= rows[c].tries + Faults + 1
  BY <1>0, <1>1, InHandPosts
<1>4. alerts' \in [1..MaxRows -> Nat] /\ \A r \in 1..MaxRows : alerts[r] <= alerts'[r]
  BY <1>0, AlertsKept
<1>5. \/ /\ retry /\ rows[c].tries + 1 < MaxTries
         /\ rows' = [rows EXCEPT ![c].tries = @ + 1, ![c].due = FALSE] /\ Advance
      \/ pc' = "fallback" /\ UNCHANGED <<rows, pass>>
      \/ rows' = [rows EXCEPT ![c].state = "failed", ![c].tries = @ + 1] /\ Advance
  BY DEF NgFailed
<1>c. c = Current
  OBVIOUS
<1>r. rows \in Seq(Row) /\ c \in 1..Len(rows)
  BY <1>0, <1>2 DEF TypeOK, Ids
<1> HIDE DEF c
<1>6. CASE /\ rows[c].tries + 1 < MaxTries
           /\ rows' = [rows EXCEPT ![c].tries = @ + 1, ![c].due = FALSE] /\ Advance
  <2> DEFINE t == rows[c].tries + 1
             x == [rows[c] EXCEPT !.tries = t, !.due = FALSE]
             new == rows'[Current]
  <2>t. t \in Nat /\ t <= MaxTries /\ posts[c] <= t + Faults
    BY <1>2, <1>3
  <2>u. rows' = [rows EXCEPT ![c] = x]
    BY <1>2, <1>6, <1>r
  <2> HIDE DEF t
  <2>1. /\ x \in Row /\ x.key = rows[c].key /\ x.counts = rows[c].counts
        /\ x.state = "pending" /\ x.channel = "none" /\ x.tries = t
    BY <1>2, <2>t DEF Row
  <2> HIDE DEF x
  <2>3. RowChanged(Current) /\ new = x
    BY <1>2, <1>c, <1>r, <2>1, <2>u, UpdateFacts
  <2>4. new = rows'[Current]
    OBVIOUS
  <2> HIDE DEF new
  <2>5. /\ new.tries \in Nat /\ new.tries < MaxTries /\ new.tries <= MaxTries
        /\ posts[c] <= new.tries + Faults
        /\ new.state = "pending" /\ new.channel = "none"
    BY <1>6, <2>1, <2>3, <2>t DEF t
  <2>6. /\ new.channel # "legacy" /\ new.channel # "notify-gate"
        /\ (new.state \in {"sent", "fallback"} <=> new.channel # "none")
    BY <2>5
  <2>7. posts[Current] <= new.tries + Faults + (IF new.channel = "notify-gate" THEN 1 ELSE 0)
    BY <1>3, <1>c, <2>5
  <2> QED BY <1>0, <1>1, <1>3, <1>4, <1>6, <1>c, <2>3, <2>4, <2>5, <2>6, <2>7, Handled
<1>7. CASE pc' = "fallback" /\ UNCHANGED <<rows, pass>>
  <2>1. posts' \in [1..MaxRows -> Nat] /\ got' \in [1..MaxRows -> Nat] /\ posts' = posts /\ got' = got
    BY <1>0 DEF TypeOK
  <2> QED BY <1>0, <1>1, <1>3, <1>7, <1>c, <2>1, Awaits
<1>8. CASE rows' = [rows EXCEPT ![c].state = "failed", ![c].tries = @ + 1] /\ Advance
  <2> DEFINE t == rows[c].tries + 1
             x == [rows[c] EXCEPT !.state = "failed", !.tries = t]
             new == rows'[Current]
  <2>t. t \in Nat /\ t <= MaxTries /\ posts[c] <= t + Faults
    BY <1>2, <1>3
  <2>u. rows' = [rows EXCEPT ![c] = x]
    BY <1>2, <1>8, <1>r
  <2> HIDE DEF t
  <2>1. /\ x \in Row /\ x.key = rows[c].key /\ x.counts = rows[c].counts
        /\ x.state = "failed" /\ x.channel = "none" /\ x.tries = t
    BY <1>2, <2>t DEF Row, States
  <2> HIDE DEF x
  <2>3. RowChanged(Current) /\ new = x
    BY <1>2, <1>c, <1>r, <2>1, <2>u, UpdateFacts
  <2>4. new = rows'[Current]
    OBVIOUS
  <2> HIDE DEF new
  <2>5. /\ new.tries \in Nat /\ new.tries <= MaxTries /\ posts[c] <= new.tries + Faults
        /\ new.state = "failed" /\ new.channel = "none"
    BY <2>1, <2>3, <2>t
  <2>6. /\ new.channel # "legacy" /\ new.channel # "notify-gate"
        /\ (new.state \in {"sent", "fallback"} <=> new.channel # "none")
    BY <2>5
  <2>7. posts[Current] <= new.tries + Faults + (IF new.channel = "notify-gate" THEN 1 ELSE 0)
    BY <1>3, <1>c, <2>5
  <2> QED BY <1>0, <1>1, <1>3, <1>4, <1>8, <1>c, <2>3, <2>4, <2>5, <2>6, <2>7, Handled
<1> QED BY <1>5, <1>6, <1>7, <1>8

LEMMA LegacyAnswerStep ==
  ASSUME IInv, NEW ok \in BOOLEAN, LegacyAnswer(ok)
  PROVE  IInv'
<1> DEFINE c == Current
           new == rows'[Current]
<1>0. /\ TypeOK /\ PassInv /\ RowInv /\ pc \in {"parallel", "fallback", "only"}
      /\ LegacyMark(c, ok) /\ Advance
      /\ alerts' = [alerts EXCEPT ![c] = @ + IF ok THEN 1 ELSE 0]
      /\ UNCHANGED <<agg, settings, seen, posts, got, crashes, errors>>
  BY DEF IInv, LegacyAnswer, faults
<1>1. pass # {}
  BY <1>0 DEF PassInv, Busy
<1>2. /\ c \in Ids /\ c \in 1..MaxRows /\ rows[c] \in Row /\ rows[c].tries < MaxTries
      /\ rows[c].state = "pending" /\ rows[c].channel = "none"
  BY <1>0, <1>1, InHand
<1>3. /\ posts[c] \in Nat /\ got[c] \in Nat
      /\ rows[c].tries \in Nat /\ Faults \in Nat /\ MaxTries \in Nat
      /\ got[c] <= posts[c] /\ posts[c] <= rows[c].tries + Faults + 1
      /\ pc = "only" => posts[c] <= rows[c].tries + Faults
      /\ pc = "parallel" => got[c] > 0
  BY <1>0, <1>1, InHandPosts
<1>c. c = Current /\ new = rows'[Current]
  OBVIOUS
<1>r. rows \in Seq(Row) /\ c \in 1..Len(rows)
  BY <1>0, <1>2 DEF TypeOK, Ids
<1> HIDE DEF c, new
<1>4. /\ alerts' \in [1..MaxRows -> Nat] /\ \A r \in 1..MaxRows : alerts[r] <= alerts'[r]
      /\ ok => alerts'[c] > 0
  <2>1. alerts \in [1..MaxRows -> Nat]
    BY <1>0 DEF TypeOK
  <2>2. alerts[c] \in Nat /\ alerts[c] + (IF ok THEN 1 ELSE 0) \in Nat
    BY <1>2, <2>1
  <2>3. /\ alerts' \in [1..MaxRows -> Nat] /\ alerts'[c] = alerts[c] + (IF ok THEN 1 ELSE 0)
        /\ \A r \in 1..MaxRows : r # c => alerts'[r] = alerts[r]
    BY <1>0, <1>2, <2>1, <2>2
  <2>4. ASSUME NEW r \in 1..MaxRows PROVE alerts[r] <= alerts'[r]
    <3>1. alerts[r] \in Nat
      BY <2>1
    <3> QED BY <2>3, <3>1
  <2>5. ok => alerts'[c] > 0
    BY <2>2, <2>3
  <2> QED BY <2>3, <2>4, <2>5
<1>5. CASE pc = "parallel"
  <2>1. Mark(c, "sent", "notify-gate")
    BY <1>0, <1>5 DEF LegacyMark
  <2>2. /\ RowChanged(c) /\ new.state = "sent" /\ new.channel = "notify-gate"
        /\ new.tries = rows[c].tries
    BY <1>2, <1>c, <1>r, <2>1, MarkFacts DEF States
  <2> QED BY <1>0, <1>1, <1>2, <1>3, <1>4, <1>5, <1>c, <2>2, Handled
<1>6. CASE pc = "only"
  <2>1. Mark(c, IF ok THEN "sent" ELSE "skipped", IF ok THEN "legacy" ELSE "none")
    BY <1>0, <1>6 DEF LegacyMark
  <2>2. /\ RowChanged(c) /\ new.tries = rows[c].tries
        /\ new.state = (IF ok THEN "sent" ELSE "skipped")
        /\ new.channel = (IF ok THEN "legacy" ELSE "none")
    <3>1. CASE ok
      <4>1. Mark(c, "sent", "legacy")
        BY <2>1, <3>1
      <4> QED BY <1>2, <1>c, <1>r, <3>1, <4>1, MarkFacts DEF States
    <3>2. CASE ~ok
      <4>1. Mark(c, "skipped", "none")
        BY <2>1, <3>2
      <4> QED BY <1>2, <1>c, <1>r, <3>2, <4>1, MarkFacts DEF States
    <3> QED BY <3>1, <3>2
  <2>3. posts[c] <= new.tries + Faults /\ new.tries <= MaxTries
    BY <1>2, <1>3, <1>6, <2>2
  <2>4. /\ new.state # "pending" /\ new.channel # "notify-gate"
        /\ (new.state \in {"sent", "fallback"} <=> new.channel # "none")
        /\ (new.channel = "legacy" => alerts'[c] > 0)
    BY <1>4, <2>2
  <2> QED BY <1>0, <1>1, <1>3, <1>4, <1>c, <2>2, <2>3, <2>4, Handled
<1>7. CASE pc = "fallback"
  <2> DEFINE s == IF ok THEN "fallback" ELSE "failed"
             ch == IF ok THEN "legacy" ELSE "none"
             t == rows[c].tries + 1
             x == [rows[c] EXCEPT !.state = s, !.channel = ch, !.tries = t]
  <2>1. rows' = [rows EXCEPT ![c].state = s, ![c].channel = ch, ![c].tries = @ + 1]
    BY <1>0, <1>7 DEF LegacyMark
  <2>2. s \in States /\ ch \in {"none", "legacy"}
    BY DEF States
  <2>2a. (s \in {"sent", "fallback"} <=> ch # "none") /\ (ch = "legacy" => ok) /\ s # "pending"
    OBVIOUS
  <2>t. t \in Nat /\ t <= MaxTries /\ posts[c] <= t + Faults
    BY <1>2, <1>3
  <2>u. rows' = [rows EXCEPT ![c] = x]
    BY <1>2, <1>r, <2>1
  <2> HIDE DEF t
  <2> HIDE DEF s, ch
  <2>3. /\ x \in Row /\ x.key = rows[c].key /\ x.counts = rows[c].counts
        /\ x.state = s /\ x.channel = ch /\ x.tries = t
    BY <1>2, <2>t, <2>2 DEF Row
  <2> HIDE DEF x
  <2>5. RowChanged(c) /\ new = x
    BY <1>2, <1>c, <1>r, <2>3, <2>u, UpdateFacts
  <2>6. new.tries \in Nat /\ new.tries <= MaxTries /\ posts[c] <= new.tries + Faults
    BY <2>3, <2>5, <2>t
  <2>7. /\ new.state # "pending" /\ new.channel # "notify-gate"
        /\ (new.state \in {"sent", "fallback"} <=> new.channel # "none")
        /\ (new.channel = "legacy" => alerts'[c] > 0)
    BY <1>4, <2>2, <2>2a, <2>3, <2>5
  <2> QED BY <1>0, <1>1, <1>3, <1>4, <1>c, <2>5, <2>6, <2>7, Handled
<1> QED BY <1>0, <1>5, <1>6, <1>7

LEMMA DeliverStartStep ==
  ASSUME IInv, DeliverStart
  PROVE  IInv'
<1>1. TypeOK /\ PassInv /\ NothingReportedTwice
  BY DEF IInv
<1>2. /\ pc = "idle" /\ pc' = "next" /\ pass' = First(Pending)
      /\ settings' \in [ng: Ng, legacy: Legacy]
      /\ UNCHANGED <<agg, rows, seen, posts, got, alerts, crashes, errors>>
  BY DEF DeliverStart, history, faults
<1>3. pass' \subseteq Ids /\ \A r \in pass' : rows[r].state = "pending"
  BY <1>2 DEF First, Pending
<1>4. TypeOK'
  BY <1>1, <1>2, <1>3, IdsBounded DEF TypeOK
<1>5. PassInv'
  BY <1>1, <1>2, <1>3 DEF PassInv, Busy, Ids
<1>6. NothingReportedTwice'
  BY <1>1, <1>2, SameReports DEF Ids
<1>7. Faults' = Faults
  BY <1>2 DEF Faults
<1> QED BY <1>2, <1>4, <1>5, <1>6, <1>7, Rests

LEMMA RetryDueStep ==
  ASSUME IInv, NEW r \in 1..MaxRows, RetryDue(r)
  PROVE  IInv'
<1> DEFINE x == [rows[r] EXCEPT !.due = TRUE]
<1>1. TypeOK /\ PassInv /\ NothingReportedTwice
  BY DEF IInv
<1>2. /\ r \in Ids /\ rows' = [rows EXCEPT ![r].due = TRUE]
      /\ UNCHANGED <<agg, pass, pc, settings, seen, posts, got, alerts, crashes, errors>>
  BY DEF RetryDue, history, faults
<1>3. rows \in Seq(Row) /\ r \in 1..Len(rows) /\ rows[r] \in Row
  BY <1>1, <1>2 DEF TypeOK, Ids
<1>4. /\ x \in Row /\ x.key = rows[r].key /\ x.counts = rows[r].counts
      /\ x.state = rows[r].state /\ x.tries = rows[r].tries /\ x.channel = rows[r].channel
  BY <1>3 DEF Row
<1>5. rows' = [rows EXCEPT ![r] = x]
  BY <1>2, <1>3
<1> HIDE DEF x
<1>6. RowChanged(r) /\ rows'[r] = x
  BY <1>2, <1>3, <1>4, <1>5, UpdateFacts
<1>7. /\ rows' \in Seq(Row) /\ Len(rows') = Len(rows) /\ Ids' = Ids
      /\ \A q \in Ids : q # r => rows'[q] = rows[q]
  BY <1>6 DEF RowChanged, Ids
<1>8. ASSUME NEW q \in Ids
      PROVE  /\ rows'[q].state = rows[q].state /\ rows'[q].tries = rows[q].tries
             /\ rows'[q].channel = rows[q].channel
             /\ rows'[q].key = rows[q].key /\ rows'[q].counts = rows[q].counts
  <2>1. CASE q = r
    BY <1>4, <1>6, <2>1
  <2>2. CASE q # r
    BY <1>7, <2>2
  <2> QED BY <2>1, <2>2
<1>9. TypeOK'
  BY <1>1, <1>2, <1>7 DEF TypeOK
<1>10. NothingReportedTwice'
  BY <1>1, <1>2, <1>7, <1>8, SameReports
<1>11. Len(rows') <= MaxRows /\ Ids \subseteq Ids'
  BY <1>1, <1>7 DEF PassInv
<1>12. \A q \in Ids' : q \in Ids
  BY <1>7
<1> QED BY <1>2, <1>8, <1>9, <1>10, <1>11, <1>12, Queued

LEMMA LoopErrorStep ==
  ASSUME IInv, LoopError
  PROVE  IInv'
<1>1. TypeOK /\ PassInv /\ NothingReportedTwice
  BY DEF IInv
<1>2. /\ errors < MaxErrors /\ errors' = errors + 1 /\ pass' = {} /\ pc' = "idle"
      /\ settings' = NoSettings
      /\ UNCHANGED <<agg, rows, seen, posts, got, alerts, crashes>>
  BY DEF LoopError, history
<1>3. errors \in Nat /\ crashes \in Nat /\ errors' \in 0..MaxErrors
  BY <1>1, <1>2, BoundAssumption DEF TypeOK
<1>4. TypeOK'
  BY <1>1, <1>2, <1>3 DEF TypeOK
<1>5. PassInv'
  BY <1>1, <1>2 DEF PassInv, Busy
<1>6. NothingReportedTwice'
  BY <1>1, <1>2, SameReports DEF Ids
<1>7. Faults' = Faults + 1
  BY <1>2, <1>3 DEF Faults
<1> QED BY <1>2, <1>4, <1>5, <1>6, <1>7, Rests

LEMMA CrashStep ==
  ASSUME IInv, Crash
  PROVE  IInv'
<1>1. TypeOK /\ PassInv /\ NothingReportedTwice
  BY DEF IInv
<1>2. /\ crashes < MaxCrashes /\ crashes' = crashes + 1 /\ pass' = {} /\ pc' = "idle"
      /\ settings' = NoSettings /\ agg' = [k \in Keys |-> NoWindow]
      /\ UNCHANGED <<rows, seen, posts, got, alerts, errors>>
  BY DEF Crash, history
<1>3. errors \in Nat /\ crashes \in Nat /\ crashes' \in 0..MaxCrashes
  BY <1>1, <1>2, BoundAssumption DEF TypeOK
<1>4. TypeOK'
  BY <1>1, <1>2, <1>3, BoundAssumption DEF TypeOK, NoWindow
<1>5. PassInv'
  BY <1>1, <1>2 DEF PassInv, Busy
<1>6. NothingReportedTwice'
  <2>1. ASSUME NEW k \in Keys PROVE Cardinality(Reported(k))' + agg'[k].n <= seen'[k]
    <3>1. Reported(k)' = Reported(k) /\ agg'[k].n = 0 /\ seen'[k] = seen[k]
      BY <1>2 DEF Reported, Ids, NoWindow
    <3>2. /\ Cardinality(Reported(k)) \in Nat /\ agg[k].n \in 0..MaxSeen /\ seen[k] \in 0..MaxSeen
          /\ Cardinality(Reported(k)) + agg[k].n <= seen[k]
      BY <1>1, ReportedFacts
    <3> QED BY <3>1, <3>2, BoundAssumption
  <2> QED BY <2>1 DEF NothingReportedTwice
<1>7. Faults' = Faults + 1
  BY <1>2, <1>3 DEF Faults
<1> QED BY <1>2, <1>4, <1>5, <1>6, <1>7, Rests

\* The summaries: one new row for every window that is over and counted something,
\* reporting what it counted; those windows start at nothing again.
LEMMA DeliverEndStep ==
  ASSUME IInv, DeliverEnd
  PROVE  IInv'
<1> DEFINE M == {k \in Over : agg[k].n > 0}
           more == SetToSeq(M)
           m == Cardinality(M)
           l == Len(rows)
           t == [i \in DOMAIN more |-> NewRow(more[i], agg[more[i]].n)]
<1>1. TypeOK /\ PassInv /\ NothingReportedTwice
  BY DEF IInv
<1>2. /\ pc = "next" /\ pass = {} /\ pc' = "idle" /\ settings' = NoSettings
      /\ UNCHANGED <<pass, seen, posts, got, alerts, crashes, errors>>
      /\ Len(rows) + Len(more) <= MaxRows /\ rows' = rows \o t /\ agg' = Flushed(agg)
  BY DEF DeliverEnd, _flush_agg, history, faults
<1>3. M \subseteq Keys /\ IsFiniteSet(M)
  BY BoundAssumption, FS_Subset DEF Over
<1>4. /\ m \in Nat /\ more \in [1..m -> M]
      /\ \A i, j \in 1..m : more[i] = more[j] => i = j
      /\ \A k \in M : \E i \in 1..m : more[i] = k
  BY <1>3, FS_CardinalityType, Listed
<1>m. \A k \in Keys : k \in M <=> agg[k].over /\ agg[k].n > 0
  BY DEF Over
<1> HIDE DEF more, m
<1>5. rows \in Seq(Row) /\ l \in Nat /\ MaxRows \in Nat /\ MaxSeen \in Nat
  BY <1>1, IdsBounded, BoundAssumption DEF TypeOK
<1>6. ASSUME NEW i \in 1..m
      PROVE  /\ t[i] \in Row /\ more[i] \in Keys /\ agg[more[i]].n \in 0..MaxSeen
             /\ t[i].key = more[i] /\ t[i].counts = agg[more[i]].n
             /\ t[i].state = "pending" /\ t[i].tries = 0 /\ t[i].channel = "none"
  <2>1. more[i] \in Keys
    BY <1>3, <1>4
  <2>2. agg[more[i]].n \in 0..MaxSeen
    BY <1>1, <2>1 DEF TypeOK
  <2>3. t[i] = NewRow(more[i], agg[more[i]].n)
    BY <1>4
  <2> QED BY <2>1, <2>2, <2>3, NewRowType
<1> HIDE DEF M
<1>7. t \in [1..m -> Row] /\ DOMAIN more = 1..m
  BY <1>4, <1>6
<1>8. t \in Seq(Row) /\ Len(t) = m /\ Len(more) = m
  BY <1>4, <1>7
<1> HIDE DEF t
<1>9. /\ rows' \in Seq(Row) /\ Len(rows') = l + m
      /\ \A r \in 1..l : rows'[r] = rows[r]
      /\ \A i \in 1..m : rows'[l + i] = t[i]
  <2>1. rows' \in Seq(Row) /\ Len(rows') = l + m
    BY <1>2, <1>5, <1>8
  <2>2. ASSUME NEW r \in 1..l PROVE rows'[r] = rows[r]
    BY <1>2, <1>4, <1>5, <1>8
  <2>3. ASSUME NEW i \in 1..m PROVE rows'[l + i] = t[i]
    <3>1. l + i \in 1..(l + m) /\ l + i > l /\ (l + i) - l = i
      BY <1>4, <1>5
    <3> QED BY <1>2, <1>5, <1>8, <3>1
  <2> QED BY <2>1, <2>2, <2>3
<1>10. /\ Ids \subseteq Ids' /\ \A r \in Ids : rows'[r] = rows[r]
       /\ \A r \in Ids' : r \notin Ids => r - l \in 1..m /\ r = l + (r - l)
       /\ \A i \in 1..m : l + i \in Ids' /\ l + i \notin Ids
  BY <1>4, <1>5, <1>9 DEF Ids
<1>l. l = Len(rows)
  OBVIOUS
<1> HIDE DEF l
<1>11. agg' \in [Keys -> [n: 0..MaxSeen, over: BOOLEAN, open: BOOLEAN]]
  BY <1>1, <1>2, <1>5 DEF TypeOK, Flushed, NoWindow
<1>12. TypeOK'
  BY <1>1, <1>2, <1>9, <1>11 DEF TypeOK
<1>13. NothingReportedTwice'
  <2>1. ASSUME NEW k \in Keys PROVE Cardinality(Reported(k))' + agg'[k].n <= seen'[k]
    <3>1. /\ IsFiniteSet(Reported(k)) /\ Cardinality(Reported(k)) \in Nat
          /\ agg[k].n \in 0..MaxSeen /\ seen[k] \in 0..MaxSeen
          /\ Cardinality(Reported(k)) + agg[k].n <= seen[k]
      BY <1>1, ReportedFacts
    <3>2. agg'[k] = IF agg[k].over THEN NoWindow ELSE agg[k]
      BY <1>2 DEF Flushed
    <3>3. Reported(k) \subseteq Reported(k)'
      BY <1>10 DEF Reported
    <3>4. CASE k \in M
      <4>1. PICK i \in 1..m : more[i] = k
        BY <1>4, <3>4
      <4> DEFINE a == l + i
                 n == agg[k].n
                 new == {a} \X (1..n)
      <4>2. agg'[k].n = 0
        BY <1>m, <3>2, <3>4 DEF NoWindow
      <4>3. /\ a \in Ids' /\ a \notin Ids /\ rows'[a].key = k /\ rows'[a].counts = n
        BY <1>6, <1>9, <1>10, <4>1
      <4> HIDE DEF a
      <4>4. n \in Nat /\ n <= MaxSeen /\ 1..n \subseteq 1..MaxSeen
        BY <1>5, <3>1
      <4>5. Reported(k)' = Reported(k) \cup new
        <5>1. ASSUME NEW x \in Reported(k)' PROVE x \in Reported(k) \cup new
          <6>1. /\ x \in Ids' \X (1..MaxSeen) /\ rows'[x[1]].key = k
                /\ x[2] <= rows'[x[1]].counts
            BY DEF Reported
          <6>2. CASE x[1] \in Ids
            BY <1>10, <6>1, <6>2 DEF Reported
          <6>3. CASE x[1] \notin Ids
            <7>1. x[1] - l \in 1..m /\ x[1] = l + (x[1] - l)
              BY <1>10, <6>1, <6>3
            <7>2. more[x[1] - l] = k
              BY <1>6, <1>9, <6>1, <7>1
            <7>3. x[1] - l = i
              BY <1>4, <4>1, <7>1, <7>2
            <7>4. x[1] = a
              BY <7>1, <7>3 DEF a
            <7>5. x[2] \in 1..n
              BY <4>3, <4>4, <6>1, <7>4
            <7>6. x = <<x[1], x[2]>>
              BY <6>1
            <7> QED BY <7>4, <7>5, <7>6
          <6> QED BY <6>2, <6>3
        <5>2. ASSUME NEW x \in new PROVE x \in Reported(k)'
          <6>1. x[1] = a /\ x[2] \in 1..n /\ x = <<x[1], x[2]>>
            OBVIOUS
          <6>2. x \in Ids' \X (1..MaxSeen) /\ x[2] <= n
            BY <4>3, <4>4, <6>1
          <6> QED BY <4>3, <6>1, <6>2 DEF Reported
        <5> QED BY <3>3, <5>1, <5>2
      <4>6. IsFiniteSet(new) /\ Cardinality(new) = n
        <5>1. IsFiniteSet({a}) /\ Cardinality({a}) = 1
          BY FS_Singleton
        <5>2. IsFiniteSet(1..n) /\ Cardinality(1..n) = n
          <6>1. 1 \in Int /\ n \in Int /\ (IF 1 > n THEN 0 ELSE n - 1 + 1) = n
            BY <4>4
          <6> HIDE DEF n
          <6> QED BY <6>1, FS_Interval
        <5>3. IsFiniteSet(new) /\ Cardinality(new) = 1 * n
          BY <5>1, <5>2, FS_Product
        <5> QED BY <4>4, <5>3
      <4>7. Reported(k) \cap new = {}
        BY <4>3 DEF Reported
      <4> HIDE DEF new
      <4>8. Cardinality(Reported(k) \cup new) = Cardinality(Reported(k)) + n - 0
        <5>1. Cardinality(Reported(k) \cap new) = 0
          BY <4>7, FS_EmptySet
        <5> QED BY <3>1, <4>6, <5>1, FS_Union
      <4> QED BY <1>2, <3>1, <4>2, <4>4, <4>5, <4>8
    <3>5. CASE k \notin M
      <4>1. ASSUME NEW x \in Reported(k)' PROVE x \in Reported(k)
        <5>1. /\ x \in Ids' \X (1..MaxSeen) /\ rows'[x[1]].key = k
              /\ x[2] <= rows'[x[1]].counts
          BY DEF Reported
        <5>2. x[1] \in Ids
          <6>1. SUFFICES ASSUME x[1] \notin Ids PROVE FALSE
            OBVIOUS
          <6>2. x[1] - l \in 1..m /\ x[1] = l + (x[1] - l)
            BY <1>10, <5>1, <6>1
          <6>3. more[x[1] - l] = k
            BY <1>6, <1>9, <5>1, <6>2
          <6> QED BY <1>4, <3>5, <6>2, <6>3
        <5> QED BY <1>10, <5>1, <5>2 DEF Reported
      <4>2. Reported(k)' = Reported(k)
        BY <3>3, <4>1
      <4>3. agg'[k].n = agg[k].n
        BY <1>m, <3>1, <3>2, <3>5 DEF NoWindow
      <4> QED BY <1>2, <3>1, <4>2, <4>3
    <3> QED BY <3>4, <3>5
  <2> QED BY <2>1 DEF NothingReportedTwice
<1>14. Len(rows') <= MaxRows
  BY <1>2, <1>8, <1>9, <1>l
<1>15. ASSUME NEW r \in Ids', r \notin Ids
       PROVE  rows'[r].state = "pending" /\ rows'[r].tries = 0 /\ rows'[r].channel = "none"
  <2>1. r - l \in 1..m /\ r = l + (r - l)
    BY <1>10, <1>15
  <2> QED BY <1>6, <1>9, <2>1
<1> QED BY <1>2, <1>10, <1>12, <1>13, <1>14, <1>15, Queued

-----------------------------------------------------------------------------
LEMMA InvStep == IInv /\ [Next]_vars => IInv'
<1> SUFFICES ASSUME IInv, [Next]_vars PROVE IInv'
  OBVIOUS
<1>1. CASE \E k \in Keys : emit(k) \/ WindowEnds(k)
  BY <1>1, EmitStep, WindowEndsStep
<1>2. CASE LoopStep
  <2>1. CASE DeliverStart \/ NextRow \/ NgReceives \/ NgOk \/ DeliverEnd
    BY <2>1, DeliverStartStep, NextRowStep, NgReceivesStep, NgOkStep, DeliverEndStep
  <2>2. CASE \E b \in BOOLEAN : NgFailed(b) \/ LegacyAnswer(b)
    BY <2>2, NgFailedStep, LegacyAnswerStep
  <2> QED BY <1>2, <2>1, <2>2 DEF LoopStep
<1>3. CASE \E r \in 1..MaxRows : RetryDue(r)
  BY <1>3, RetryDueStep
<1>4. CASE LoopError \/ Crash
  BY <1>4, LoopErrorStep, CrashStep
<1>5. CASE UNCHANGED vars
  <2>1. UNCHANGED <<agg, rows, pass, pc, settings, seen, posts, got, alerts, crashes, errors>>
    BY <1>5 DEF vars
  <2>2. TypeOK /\ PassInv /\ NothingReportedTwice
    BY DEF IInv
  <2>3. TypeOK'
    BY <2>1, <2>2 DEF TypeOK
  <2>4. Ids' = Ids /\ Len(rows') <= MaxRows
    BY <2>1, <2>2 DEF Ids, PassInv
  <2>5. NothingReportedTwice'
    BY <2>1, <2>2, <2>4, SameReports
  <2> QED BY <2>1, <2>3, <2>4, <2>5, Queued
<1> QED BY <1>1, <1>2, <1>3, <1>4, <1>5 DEF Next

LEMMA OutboxInvariant == Spec => []IInv
<1>1. Init => IInv
  BY InitIInv
<1>2. IInv /\ [Next]_vars => IInv'
  BY InvStep
<1> QED BY <1>1, <1>2, PTL DEF Spec

\* A post that no try counts yet belongs to a row with tries left.
LEMMA PostsCounted ==
  ASSUME IInv, NEW r \in Ids
  PROVE  /\ posts[r] <= MaxTries + Faults
         /\ got[r] <= rows[r].tries + 1 + Faults
<1>1. TypeOK /\ PassInv /\ RowInv /\ PostInv
  BY DEF IInv
<1>2. rows[r] \in Row /\ r \in 1..MaxRows
  <2>1. rows[r] \in Row
    BY <1>1 DEF TypeOK, Ids
  <2> QED BY <1>1, <2>1, IdsBounded
<1>3. /\ posts[r] \in Nat /\ got[r] \in Nat /\ rows[r].tries \in Nat
      /\ Faults \in Nat /\ MaxTries \in Nat
  BY <1>1, <1>2, BoundAssumption DEF TypeOK, Row, Faults
<1>4. /\ posts[r] <= rows[r].tries + Faults
                       + (IF Posting(r) \/ rows[r].channel = "notify-gate" THEN 1 ELSE 0)
      /\ got[r] <= posts[r] /\ rows[r].tries <= MaxTries
  BY <1>1 DEF PostInv, RowInv
<1>5. Posting(r) \/ rows[r].channel = "notify-gate" => rows[r].tries < MaxTries
  <2>1. ASSUME Posting(r) PROVE rows[r].tries < MaxTries
    <3>1. r = Current /\ pass # {}
      BY <1>1, <2>1 DEF Posting, PassInv, Busy
    <3> QED BY <1>1, <3>1, InHand
  <2> QED BY <1>1, <2>1 DEF RowInv
<1> QED BY <1>3, <1>4, <1>5

\* Windows, outbox rows and the delivery pass stay well formed (emit, _enqueue, _deliver,
\* _flush_agg).
THEOREM OutboxTypes == Spec => []TypeOK
<1>1. IInv => TypeOK
  BY DEF IInv
<1> QED BY <1>1, OutboxInvariant, PTL

\* What the journal says of a row's delivery happened: the channel it names took the
\* message (_deliver's marks).
THEOREM MarksAreTrueHolds == Spec => []MarksAreTrue
<1>1. IInv => MarksAreTrue
  BY DEF IInv
<1> QED BY <1>1, OutboxInvariant, PTL

\* _deliver posts a message at most max_tries times, and once more for every restart or
\* exception of the loop.
THEOREM PostsBoundedHolds == Spec => []PostsBounded
<1>1. ASSUME IInv, NEW r \in Ids PROVE posts[r] <= MaxTries + crashes + errors
  <2>1. posts[r] <= MaxTries + Faults
    BY <1>1, PostsCounted
  <2>2. crashes \in Nat /\ errors \in Nat /\ MaxTries \in Nat
    BY <1>1, BoundAssumption DEF IInv, TypeOK
  <2> QED BY <2>1, <2>2 DEF Faults
<1>2. IInv => PostsBounded
  BY <1>1 DEF PostsBounded
<1> QED BY <1>2, OutboxInvariant, PTL

\* notify-gate receives a message again only after a try that failed, a restart or an
\* exception (_deliver marks what was taken before it goes on).
THEOREM NoNeedlessDuplicateHolds == Spec => []NoNeedlessDuplicate
<1>1. ASSUME IInv, NEW r \in Ids PROVE got[r] <= rows[r].tries + 1 + crashes + errors
  <2>1. got[r] <= rows[r].tries + 1 + Faults
    BY <1>1, PostsCounted
  <2>2. rows[r] \in Row
    BY <1>1 DEF IInv, TypeOK, Ids
  <2>3. crashes \in Nat /\ errors \in Nat /\ rows[r].tries \in Nat
    BY <1>1, <2>2, BoundAssumption DEF IInv, TypeOK, Row
  <2> QED BY <2>1, <2>3 DEF Faults
<1>2. IInv => NoNeedlessDuplicate
  BY <1>1 DEF NoNeedlessDuplicate
<1> QED BY <1>2, OutboxInvariant, PTL

\* Flood control counts every occurrence at most once: emit and _flush_agg never report
\* more than what happened, whatever a crash forgets.
THEOREM NothingReportedTwiceHolds == Spec => []NothingReportedTwice
<1>1. IInv => NothingReportedTwice
  BY DEF IInv
<1> QED BY <1>1, OutboxInvariant, PTL
=============================================================================
