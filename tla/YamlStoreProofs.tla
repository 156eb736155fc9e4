--------------------------- MODULE YamlStoreProofs ---------------------------
(***************************************************************************)
(* The cache of the YAML files is invisible: YamlStore implements          *)
(* RegularFile; and no edit is lost.  For any number of handlers, threads, *)
(* tools, edits and failed writes, and however coarse the clock.           *)
(***************************************************************************)
EXTENDS YamlStore, TLAPS

Reading(p) == pc[p] \in {"get", "parse", "store"}

\* Who does what.
RoleInv ==
  /\ \A t \in Threads : pc[t] \in {"idle", "get", "parse", "store"}
  /\ kind = "registry" => \A c \in Clis : pc[c] = "idle"

\* One handler at a time is between two awaits.
TurnInv == \A p, q \in Handlers : pc[p] \notin Suspended /\ pc[q] \notin Suspended => p = q

\* One process at a time has the .tmp file, and it is newer than the file.
TmpInv ==
  /\ \A p \in Procs : target[p] = IF pc[p] \in {"fill", "rename"} THEN "tmp" ELSE "none"
  /\ \A p, q \in Procs : target[p] = "tmp" /\ target[q] = "tmp" => p = q
  /\ \A p \in Procs : pc[p] = "rename" => tmp.edits = data[p]
  /\ \A p \in Procs : target[p] = "tmp" =>
       tmp.mtime \in Times /\ file.mtime <= tmp.mtime /\ tmp.mtime <= now

\* Modification times are from the past.
TimeInv ==
  /\ file.mtime <= now
  /\ \A p \in Procs : stat[p] <= file.mtime
  /\ \A h \in Homes : cache[h].mtime # NoTime => cache[h].mtime <= file.mtime

\* A read may answer with whatever is readable now.
WindowInv == \A p \in Procs : Reading(p) => Readable \subseteq window[p]

\* What a process has parsed may be its answer, and that of a read that saw the same
\* modification time; it is what is stored if that has not changed.
ParsedInv ==
  \A p \in Procs : pc[p] = "store" =>
    /\ data[p] \in window[p]
    /\ stat[p] = file.mtime => data[p] = file.edits
    /\ \A q \in Procs : pc[q] = "get" /\ stat[q] = stat[p] => data[p] \in window[q]

\* An entry of the cache that will be taken for current is, unless somebody of its
\* process is about to replace the file or to drop the entry.
CacheInv ==
  /\ \A h \in Homes : cache[h].mtime = file.mtime =>
       \/ cache[h].edits = file.edits
       \/ \E p \in Writers : Home(p) = h /\ cache[h].edits \in Busy(p)
  /\ \A p \in Procs : pc[p] = "get" /\ cache[Home(p)].mtime = stat[p] =>
       cache[Home(p)].edits \in window[p]

StoreInv == TmpInv /\ TimeInv /\ WindowInv /\ ParsedInv /\ CacheInv

IInv == TypeOK /\ RoleInv /\ TurnInv /\ (~disturbed => StoreInv)

-----------------------------------------------------------------------------
(* Types and roles.                                                        *)

LEMMA Homely ==
  /\ \A p \in Procs : Home(p) \in Homes
  /\ \A p \in Clis : Home(p) = p
  /\ \A p \in Handlers \cup Threads : Home(p) = Server
  /\ Writers \subseteq Procs /\ Server \in Homes
  /\ \A p \in Procs \ Writers : p \in Threads
  /\ \A p \in Writers : p \notin Threads
BY ProcAssumption DEF Home, Homes, Procs, Writers

LEMMA NothingTypes ==
  Nothing \in Stamped /\ {} \in Contents /\ Nothing.mtime = NoTime /\ NoTime \notin Times
BY ProcAssumption DEF Nothing, Stamped, Contents, Times

LEMMA TypeInit == Init => TypeOK /\ RoleInv /\ TurnInv
<1> SUFFICES ASSUME Init PROVE TypeOK /\ RoleInv /\ TurnInv
  OBVIOUS
<1>1. 0 \in Times /\ 0 \in 0..MaxEdits /\ 0 \in 0..MaxFails
  BY ProcAssumption DEF Times
<1>2. TypeOK
  BY <1>1, NothingTypes DEF Init, TypeOK, File
<1>3. RoleInv /\ TurnInv
  BY DEF Init, RoleInv, TurnInv, Suspended, Procs
<1> QED
  BY <1>2, <1>3

\* A read returns a content, to those who keep it.
LEMMA ReturnsType ==
  ASSUME TypeOK, NEW p \in Procs, NEW d \in Contents, Returns(p, d)
  PROVE  /\ data' \in [Procs -> Contents]
         /\ stat' \in [Procs -> Times]
         /\ pc' \in [Procs -> {"idle", "get", "parse", "store", "loaded", "open", "fill", "rename", "pop"}]
         /\ window' \in [Procs -> SUBSET Contents]
         /\ result' \in Contents
BY ProcAssumption DEF Returns, GoTo, TypeOK, Contents, Times

\* Who leaves has nothing in hand; the others keep what they have.
LEMMA LeavesType ==
  ASSUME TypeOK, NEW p \in Procs, Leaves(p)
  PROVE  /\ data' \in [Procs -> Contents] /\ before' \in [Procs -> Contents]
         /\ pc' \in [Procs -> {"idle", "get", "parse", "store", "loaded", "open", "fill", "rename", "pop"}]
         /\ pc' = [pc EXCEPT ![p] = "idle"]
         /\ \A q \in Procs \ {p} : data'[q] = data[q] /\ before'[q] = before[q]
BY NothingTypes DEF Leaves, GoTo, TypeOK

LEMMA TypeStep ==
  ASSUME TypeOK, [Next]_vars
  PROVE  TypeOK'
<1> USE Homely
<1>1. ASSUME NEW p \in Procs, Stat(p) PROVE TypeOK'
  <2>1. Readable \subseteq Contents
    BY DEF Readable, Busy, TypeOK, File
  <2> QED
    BY <1>1, <2>1 DEF Stat, GoTo, TypeOK, File
<1>2. ASSUME NEW p \in Procs, Get(p) PROVE TypeOK'
  <2>1. cache[Home(p)].edits \in Contents
    BY DEF TypeOK, Stamped
  <2>2. CASE Hit(p)
    BY <1>2, <2>1, <2>2, ReturnsType DEF Get, TypeOK
  <2>3. CASE ~Hit(p)
    BY <1>2, <2>3 DEF Get, GoTo, TypeOK
  <2> QED
    BY <2>2, <2>3
<1>3. ASSUME NEW p \in Procs, Parse(p) PROVE TypeOK'
  BY <1>3 DEF Parse, GoTo, TypeOK, histories, File
<1>4. ASSUME NEW p \in Procs, Store(p) PROVE TypeOK'
  <2>1. data[p] \in Contents /\ Stored(p) \in Stamped
    BY DEF TypeOK, Stored, Stamped
  <2>2. cache' \in [Homes -> Stamped]
    BY <1>4, <2>1 DEF Store, TypeOK
  <2> QED
    BY <1>4, <2>1, <2>2, ReturnsType DEF Store, TypeOK
<1>5. ASSUME NEW p \in Writers, Discard(p) PROVE TypeOK'
  BY <1>5, LeavesType DEF Discard, TypeOK, histories
<1>6. ASSUME NEW p \in Writers, BeginEdit(p) PROVE TypeOK'
  <2> DEFINE new == data[p] \cup {edits + 1}
  <2>1. edits' \in 0..MaxEdits /\ edits + 1 \in 1..MaxEdits
    BY <1>6, ProcAssumption DEF BeginEdit, TypeOK
  <2>2. new \in Contents
    BY <2>1 DEF TypeOK, Contents
  <2> HIDE DEF new
  <2>3. window' \in [Procs -> SUBSET Contents]
    <3>1. window' = [q \in Procs |-> IF window[q] = {} THEN {} ELSE window[q] \cup {new}]
      BY <1>6 DEF BeginEdit, new
    <3> QED
      BY <2>2, <3>1 DEF TypeOK
  <2>4. cache' \in [Homes -> Stamped]
    <3>1. cache' = cache \/ cache' = [cache EXCEPT ![Server].edits = new]
      BY <1>6 DEF BeginEdit, new
    <3> QED
      BY <2>2, <3>1 DEF TypeOK, Stamped
  <2>5. data' = [data EXCEPT ![p] = new] /\ pc' = [pc EXCEPT ![p] = "open"]
    BY <1>6 DEF BeginEdit, GoTo, new
  <2>6. UNCHANGED <<kind, now, file, tmp, stat, target, before, fails, result, disturbed, behind,
                    overlapped, made>>
    BY <1>6 DEF BeginEdit
  <2> QED
    BY <2>1, <2>2, <2>3, <2>4, <2>5, <2>6 DEF TypeOK
<1>7. ASSUME NEW p \in Writers, OpenTmp(p) PROVE TypeOK'
  BY <1>7 DEF OpenTmp, GoTo, TypeOK, File, Contents
<1>8. ASSUME NEW p \in Writers, Fill(p) PROVE TypeOK'
  <2>1. [edits |-> data[p], mtime |-> now] \in File
    BY DEF TypeOK, File
  <2>2. tmp' \in File \cup {Nothing} /\ file' \in File
    BY <1>8, <2>1 DEF Fill, TypeOK
  <2> QED
    BY <1>8, <2>2 DEF Fill, GoTo, TypeOK, histories
<1>9. ASSUME NEW p \in Writers, WriteFails(p) \/ RenameFails(p) PROVE TypeOK'
  <2>1. fails' \in 0..MaxFails
    BY <1>9, ProcAssumption DEF WriteFails, RenameFails, TypeOK
  <2>2. disturbed' \in BOOLEAN
    BY <1>9, Zenon DEF WriteFails, RenameFails, Abandon
  <2> QED
    BY <1>9, <2>1, <2>2, LeavesType DEF WriteFails, RenameFails, Abandon, TypeOK
<1>10. ASSUME NEW p \in Writers, Rename(p) PROVE TypeOK'
  <2>1. file' \in File /\ tmp' = Nothing
    BY <1>10 DEF Rename, TypeOK
  <2>2. disturbed' \in BOOLEAN
    BY <1>10, Zenon DEF Rename
  <2>3. file.edits \in Contents
    BY DEF TypeOK, File
  <2>4. UNCHANGED <<kind, now, cache, stat, data, edits, fails, window, result, made>>
    BY <1>10 DEF Rename
  <2> QED
    BY <1>10, <2>1, <2>2, <2>3, <2>4 DEF Rename, GoTo, TypeOK
<1>11. ASSUME NEW p \in Writers, Pop(p) PROVE TypeOK'
  BY <1>11, NothingTypes, LeavesType DEF Pop, TypeOK, Contents
<1>12. ASSUME NEW S, Ends(S) PROVE TypeOK'
  BY <1>12, NothingTypes, ProcAssumption DEF Ends, TypeOK, Times
<1>13. CASE Tick
  BY <1>13, ProcAssumption DEF Tick, TypeOK, Times, histories
<1>14. CASE UNCHANGED vars
  BY <1>14 DEF vars, histories, TypeOK
<1> QED
  BY <1>1, <1>2, <1>3, <1>4, <1>5, <1>6, <1>7, <1>8, <1>9, <1>10, <1>11, <1>12, <1>13, <1>14
     DEF Next, CliEnds, Restart

\* Type correctness of the YAML store.
THEOREM StoreTypes == Spec => []TypeOK
BY TypeInit, TypeStep, PTL DEF Spec

-----------------------------------------------------------------------------
(* The inductive invariant.                                                *)

LEMMA RoleStep ==
  ASSUME TypeOK, RoleInv, Next
  PROVE  RoleInv'
<1> USE Homely
<1> USE DEF RoleInv
<1>1. ASSUME NEW p \in Procs, Stat(p) \/ Get(p) \/ Parse(p) \/ Store(p) PROVE RoleInv'
  <2>1. /\ pc' = [pc EXCEPT ![p] = pc'[p]] /\ kind' = kind
        /\ pc'[p] \in {"get", "parse", "store"} \/ pc'[p] = IF p \in Writers THEN "loaded" ELSE "idle"
    BY <1>1 DEF Stat, Get, Parse, Store, Returns, GoTo, TypeOK
  <2>2. p \in Clis /\ kind = "registry" => FALSE
    BY <1>1, ProcAssumption DEF Stat, Get, Parse, Store, Active
  <2> QED
    BY <2>1, <2>2 DEF TypeOK, Procs
<1>2. ASSUME NEW p \in Writers,
             Discard(p) \/ BeginEdit(p) \/ OpenTmp(p) \/ Fill(p) \/ WriteFails(p)
               \/ RenameFails(p) \/ Rename(p) \/ Pop(p)
      PROVE  RoleInv'
  <2>1. pc' = [pc EXCEPT ![p] = pc'[p]] /\ kind' = kind /\ pc[p] # "idle"
    BY <1>2 DEF Discard, BeginEdit, OpenTmp, Fill, WriteFails, RenameFails, Abandon, Rename, Pop,
                Leaves, GoTo, TypeOK
  <2> QED
    BY <2>1 DEF TypeOK, Procs, Writers
<1>3. ASSUME NEW S, Ends(S) PROVE RoleInv'
  BY <1>3 DEF Ends, TypeOK, Procs
<1>4. CASE Tick
  BY <1>4 DEF Tick
<1> QED
  BY <1>1, <1>2, <1>3, <1>4 DEF Next, CliEnds, Restart

\* A handler moves on when the others are suspended, or suspends itself.
LEMMA TurnStep ==
  ASSUME TypeOK, TurnInv, Next
  PROVE  TurnInv'
<1> USE Homely
<1>1. ASSUME NEW p \in Procs, UNCHANGED kind, \A q \in Procs \ {p} : pc'[q] = pc[q],
             Turn(p) \/ pc[p] \notin Suspended \/ pc'[p] \in Suspended
      PROVE  TurnInv'
  <2>1. p \in Handlers /\ pc'[p] \notin Suspended => \A q \in Handlers \ {p} : pc[q] \in Suspended
    BY <1>1 DEF Turn, TurnInv
  <2> QED
    BY <1>1, <2>1 DEF TurnInv, Suspended, Procs
<1>2. ASSUME NEW p \in Procs, Stat(p) \/ Get(p) \/ Parse(p) \/ Store(p) PROVE TurnInv'
  <2>1. UNCHANGED kind /\ \A q \in Procs \ {p} : pc'[q] = pc[q]
    BY <1>2 DEF Stat, Get, Parse, Store, Returns, GoTo, TypeOK
  <2>2. Turn(p) \/ pc[p] \notin Suspended
    BY <1>2 DEF Stat, Get, Parse, Store, Suspended
  <2> QED
    BY <1>1, <2>1, <2>2
<1>3. ASSUME NEW p \in Writers,
             Discard(p) \/ BeginEdit(p) \/ OpenTmp(p) \/ Fill(p) \/ WriteFails(p)
               \/ RenameFails(p) \/ Rename(p) \/ Pop(p)
      PROVE  TurnInv'
  <2>1. UNCHANGED kind /\ \A q \in Procs \ {p} : pc'[q] = pc[q]
    BY <1>3 DEF Discard, BeginEdit, OpenTmp, Fill, WriteFails, RenameFails, Abandon, Rename, Pop,
                Leaves, GoTo, TypeOK
  <2>2. CASE Discard(p) \/ BeginEdit(p)
    <3>1. Turn(p) \/ pc'[p] \in Suspended
      BY <2>2 DEF Discard, BeginEdit, Leaves, GoTo, Suspended, TypeOK
    <3> QED
      BY <1>1, <2>1, <3>1
  <2>3. CASE ~(Discard(p) \/ BeginEdit(p))
    <3>1. pc[p] \notin Suspended
      BY <1>3, <2>3 DEF OpenTmp, Fill, WriteFails, RenameFails, Rename, Pop, Suspended
    <3> QED
      BY <1>1, <2>1, <3>1
  <2> QED
    BY <2>2, <2>3
<1>4. ASSUME NEW S, Ends(S) PROVE TurnInv'
  BY <1>4 DEF Ends, TypeOK, TurnInv, Suspended, Procs
<1>5. CASE Tick
  BY <1>5 DEF Tick, TurnInv, Suspended
<1> QED
  BY <1>2, <1>3, <1>4, <1>5 DEF Next, CliEnds, Restart

\* Times are numbers.
LEMMA Sorts ==
  ASSUME TypeOK
  PROVE  /\ now \in Nat /\ file.mtime \in Nat /\ NoTime \notin Nat
         /\ \A p \in Procs : stat[p] \in Nat
         /\ \A h \in Homes : cache[h].mtime \in Nat \cup {NoTime}
         /\ Nothing.mtime = NoTime
BY ProcAssumption DEF TypeOK, File, Stamped, Times, Nothing

\* A read begins when the cache is as CacheInv says.
LEMMA StatStep ==
  ASSUME TypeOK, StoreInv, NEW p \in Procs, Stat(p)
  PROVE  StoreInv'
<1> USE Homely, Sorts DEF StoreInv
<1>1. /\ stat' = [stat EXCEPT ![p] = file.mtime]
      /\ pc' = [pc EXCEPT ![p] = "get"]
      /\ window' = [window EXCEPT ![p] = Readable]
      /\ UNCHANGED <<now, file, tmp, cache, data, target, before>>
      /\ pc[p] = "idle"
  BY DEF Stat, GoTo
<1>2. \A q \in Procs : Busy(q)' = Busy(q)
  BY <1>1 DEF Busy, TypeOK
<1>3. Readable' = Readable
  BY <1>1, <1>2 DEF Readable
<1>4. TmpInv' /\ TimeInv'
  BY <1>1 DEF TmpInv, TimeInv, TypeOK
<1>5. WindowInv'
  BY <1>1, <1>3 DEF WindowInv, Reading, TypeOK
<1>6. ParsedInv'
  BY <1>1 DEF ParsedInv, TypeOK, Readable
<1>7. CacheInv'
  <2>1. \A q \in Writers : Busy(q) \subseteq Readable
    BY DEF Readable
  <2> QED
    BY <1>1, <1>2, <2>1 DEF CacheInv, TypeOK, Readable
<1> QED
  BY <1>4, <1>5, <1>6, <1>7

\* A read returns what is cached, or goes on to parse the file.
LEMMA GetStep ==
  ASSUME TypeOK, StoreInv, NEW p \in Procs, Get(p)
  PROVE  StoreInv'
<1> USE Homely, Sorts DEF StoreInv
<1>1. /\ pc[p] = "get" /\ pc'[p] \in {"idle", "loaded", "parse"}
      /\ window'[p] = IF pc'[p] = "parse" THEN window[p] ELSE {}
      /\ \A q \in Procs \ {p} : /\ pc'[q] = pc[q] /\ data'[q] = data[q] /\ window'[q] = window[q]
                                /\ stat'[q] = stat[q]
      /\ stat'[p] = IF pc'[p] = "parse" THEN stat[p] ELSE 0
      /\ UNCHANGED <<now, file, tmp, cache, target, before>>
  <2>1. CASE Hit(p)
    BY <2>1 DEF Get, Returns, GoTo, TypeOK
  <2>2. CASE ~Hit(p)
    BY <2>2 DEF Get, GoTo, TypeOK
  <2> QED
    BY <2>1, <2>2
<1>2. \A q \in Procs : Busy(q)' = Busy(q)
  BY <1>1 DEF Busy
<1>3. Readable' = Readable
  BY <1>1, <1>2 DEF Readable
<1>4. TmpInv' /\ TimeInv'
  BY <1>1 DEF TmpInv, TimeInv
<1>5. WindowInv'
  BY <1>1, <1>3 DEF WindowInv, Reading
<1>6. ParsedInv'
  BY <1>1 DEF ParsedInv
<1>7. CacheInv'
  BY <1>1, <1>2 DEF CacheInv
<1> QED
  BY <1>4, <1>5, <1>6, <1>7

\* What is parsed is in every window that is open.
LEMMA ParseStep ==
  ASSUME TypeOK, StoreInv, NEW p \in Procs, Parse(p)
  PROVE  StoreInv'
<1> USE Homely, Sorts DEF StoreInv
<1>1. /\ pc[p] = "parse" /\ pc' = [pc EXCEPT ![p] = "store"]
      /\ data' = [data EXCEPT ![p] = file.edits]
      /\ UNCHANGED <<now, file, tmp, cache, stat, target, before, window>>
  BY DEF Parse, GoTo, histories
<1>2. \A q \in Procs : Busy(q)' = Busy(q)
  BY <1>1 DEF Busy, TypeOK
<1>3. Readable' = Readable
  BY <1>1, <1>2 DEF Readable
<1>4. TmpInv' /\ TimeInv'
  BY <1>1 DEF TmpInv, TimeInv, TypeOK
<1>5. WindowInv'
  BY <1>1, <1>3 DEF WindowInv, Reading, TypeOK
<1>6. ParsedInv'
  <2>1. \A q \in Procs : pc[q] \in {"get", "parse", "store"} => file.edits \in window[q]
    BY DEF WindowInv, Reading, Readable
  <2> QED
    BY <1>1, <2>1 DEF ParsedInv, TypeOK
<1>7. CacheInv'
  BY <1>1, <1>2 DEF CacheInv, TypeOK
<1> QED
  BY <1>4, <1>5, <1>6, <1>7

\* What is cached is current if its time is.
LEMMA StorePutStep ==
  ASSUME TypeOK, StoreInv, NEW p \in Procs, Store(p)
  PROVE  StoreInv'
<1> USE Homely, Sorts DEF StoreInv
<1>1. /\ pc[p] = "store" /\ pc'[p] \in {"idle", "loaded"} /\ window'[p] = {}
      /\ \A q \in Procs \ {p} : /\ pc'[q] = pc[q] /\ data'[q] = data[q] /\ window'[q] = window[q]
                                /\ stat'[q] = stat[q]
      /\ stat'[p] = 0
      /\ cache' = [cache EXCEPT ![Home(p)] = [edits |-> data[p], mtime |-> stat[p]]]
      /\ UNCHANGED <<now, file, tmp, target, before>>
  BY DEF Store, Stored, Returns, GoTo, TypeOK
<1>2. \A q \in Procs : Busy(q)' = Busy(q)
  BY <1>1 DEF Busy
<1>3. Readable' = Readable
  BY <1>1, <1>2 DEF Readable
<1>4. TmpInv'
  BY <1>1 DEF TmpInv
<1>5. TimeInv'
  BY <1>1 DEF TimeInv, TypeOK
<1>6. WindowInv'
  BY <1>1, <1>3 DEF WindowInv, Reading
<1>7. ParsedInv'
  BY <1>1 DEF ParsedInv
<1>8. CacheInv'
  BY <1>1, <1>2 DEF CacheInv, ParsedInv, TypeOK
<1> QED
  BY <1>4, <1>5, <1>6, <1>7, <1>8

\* An edit begins; where it changes the cached object, its owner is the writer.
LEMMA BeginStep ==
  ASSUME TypeOK, RoleInv, StoreInv, NEW p \in Writers, BeginEdit(p)
  PROVE  StoreInv'
<1> USE Homely, Sorts, ProcAssumption DEF StoreInv
<1> DEFINE new == data[p] \cup {edits + 1}
<1>1. /\ pc[p] = "loaded" /\ pc' = [pc EXCEPT ![p] = "open"]
      /\ data' = [data EXCEPT ![p] = new]
      /\ window' = [q \in Procs |-> IF window[q] = {} THEN {} ELSE window[q] \cup {new}]
      /\ UNCHANGED <<now, file, tmp, stat, target, before>>
      /\ \/ UNCHANGED cache
         \/ kind = "registry" /\ cache' = [cache EXCEPT ![Server].edits = new]
  BY DEF BeginEdit, GoTo
<1> HIDE DEF new
<1>2. cache' = cache \/ (Home(p) = Server /\ cache' = [cache EXCEPT ![Server].edits = new])
  <2>1. CASE UNCHANGED cache
    BY <2>1
  <2>2. CASE kind = "registry" /\ cache' = [cache EXCEPT ![Server].edits = new]
    <3>1. p \notin Clis
      BY <1>1, <2>2 DEF RoleInv
    <3>2. Home(p) = Server
      BY <3>1 DEF Writers
    <3> QED
      BY <2>2, <3>2
  <2> QED
    BY <1>1, <2>1, <2>2
<1>3. Busy(p) = {} /\ Busy(p)' = {new} /\ \A q \in Procs \ {p} : Busy(q)' = Busy(q)
  BY <1>1 DEF Busy, TypeOK
<1>4. Readable' = Readable \cup {new}
  BY <1>1, <1>3 DEF Readable
<1>5. \A q \in Procs : Reading(q)' => Reading(q) /\ pc'[q] = pc[q] /\ data'[q] = data[q]
                                   /\ window'[q] = window[q] \cup {new}
  <2>1. \A q \in Procs : Reading(q) => window[q] # {}
    BY DEF WindowInv, Readable
  <2> QED
    BY <1>1, <2>1 DEF Reading, TypeOK
<1>11. \A h \in Homes : cache'[h].mtime = cache[h].mtime
                         /\ (cache'[h].edits = cache[h].edits \/ (h = Home(p) /\ cache'[h].edits = new))
  <2>1. CASE cache' = cache
    BY <2>1
  <2>2. CASE Home(p) = Server /\ cache' = [cache EXCEPT ![Server].edits = new]
    <3>1. cache[Server] \in Stamped /\ Server \in Homes /\ DOMAIN cache = Homes
      BY DEF TypeOK, Homes
    <3>2. cache'[Server] = [cache[Server] EXCEPT !.edits = new]
            /\ \A h \in Homes \ {Server} : cache'[h] = cache[h]
      BY <2>2, <3>1
    <3> QED
      BY <2>2, <3>1, <3>2 DEF Stamped
  <2> QED
    BY <1>2, <2>1, <2>2
<1>6. TmpInv'
  BY <1>1 DEF TmpInv, TypeOK
<1>7. TimeInv'
  BY <1>1, <1>11 DEF TimeInv
<1>8. WindowInv'
  BY <1>4, <1>5 DEF WindowInv
<1>9. ParsedInv'
  BY <1>1, <1>5 DEF ParsedInv, Reading
<1>10. CacheInv'
  <2>2. \A q \in Procs : pc'[q] = "get" =>
          /\ pc[q] = "get"
          /\ window'[q] = window[q] \cup {new}
    BY <1>5 DEF Reading
  <2> QED
    <3>1. ASSUME NEW h \in Homes, cache'[h].mtime = file'.mtime
          PROVE  \/ cache'[h].edits = file'.edits
                 \/ \E q \in Writers : Home(q) = h /\ cache'[h].edits \in Busy(q)'
      <4>1. CASE h = Home(p) /\ cache'[h].edits = new
        BY <1>3, <4>1
      <4>2. CASE cache'[h].edits = cache[h].edits
        BY <1>1, <1>3, <1>11, <3>1, <4>2 DEF CacheInv
      <4> QED
        BY <1>11, <4>1, <4>2
    <3>2. ASSUME NEW q \in Procs, pc'[q] = "get", cache'[Home(q)].mtime = stat'[q]
          PROVE  cache'[Home(q)].edits \in window'[q]
      BY <1>1, <1>11, <2>2, <3>2 DEF CacheInv
    <3> QED
      BY <3>1, <3>2 DEF CacheInv
<1> QED
  BY <1>6, <1>7, <1>8, <1>9, <1>10

\* The .tmp file is opened by one who does not share it.
LEMMA OpenStep ==
  ASSUME TypeOK, StoreInv, NEW p \in Writers, OpenTmp(p), ~disturbed'
  PROVE  StoreInv'
<1> USE Homely, Sorts DEF StoreInv
<1>1. /\ pc[p] = "open" /\ pc' = [pc EXCEPT ![p] = "fill"]
      /\ tmp' = [edits |-> {}, mtime |-> now]
      /\ target' = [target EXCEPT ![p] = "tmp"]
      /\ \A q \in Procs \ {p} : target[q] # "tmp"
      /\ UNCHANGED <<now, file, cache, stat, data, before, window>>
  BY DEF OpenTmp, GoTo, Clash
<1>2. \A q \in Procs : Busy(q)' = Busy(q)
  BY <1>1 DEF Busy, TypeOK
<1>3. Readable' = Readable
  BY <1>1, <1>2 DEF Readable
<1>4. TmpInv'
  BY <1>1 DEF TmpInv, TimeInv, TypeOK
<1>5. TimeInv'
  BY <1>1 DEF TimeInv
<1>6. WindowInv' /\ ParsedInv'
  BY <1>1, <1>3 DEF WindowInv, ParsedInv, Reading, TypeOK
<1>7. CacheInv'
  BY <1>1, <1>2 DEF CacheInv, TypeOK
<1> QED
  BY <1>4, <1>5, <1>6, <1>7

LEMMA FillStep ==
  ASSUME TypeOK, StoreInv, NEW p \in Writers, Fill(p)
  PROVE  StoreInv'
<1> USE Homely, Sorts DEF StoreInv
<1>1. /\ pc[p] = "fill" /\ pc' = [pc EXCEPT ![p] = "rename"]
      /\ target[p] = "tmp"
      /\ tmp' = [edits |-> data[p], mtime |-> now]
      /\ UNCHANGED <<now, file, cache, stat, data, target, before, window>>
  BY DEF Fill, GoTo, histories, TmpInv
<1>2. \A q \in Procs : Busy(q)' = Busy(q)
  BY <1>1 DEF Busy, TypeOK
<1>3. Readable' = Readable
  BY <1>1, <1>2 DEF Readable
<1>4. TmpInv'
  BY <1>1 DEF TmpInv, TimeInv, TypeOK
<1>5. TimeInv'
  BY <1>1 DEF TimeInv
<1>6. WindowInv' /\ ParsedInv'
  BY <1>1, <1>3 DEF WindowInv, ParsedInv, Reading, TypeOK
<1>7. CacheInv'
  BY <1>1, <1>2 DEF CacheInv, TypeOK
<1> QED
  BY <1>4, <1>5, <1>6, <1>7

\* A write fails without having touched the cached object.
LEMMA AbandonStep ==
  ASSUME TypeOK, StoreInv, NEW p \in Writers, pc[p] \in {"open", "fill", "rename"},
         Abandon(p), UNCHANGED <<file, tmp>>, ~disturbed'
  PROVE  StoreInv'
<1> USE Homely, Sorts DEF StoreInv
<1>1. /\ pc' = [pc EXCEPT ![p] = "idle"]
      /\ target' = [target EXCEPT ![p] = "none"]
      /\ ~Aliased(p)
      /\ \A q \in Procs \ {p} : data'[q] = data[q] /\ before'[q] = before[q]
      /\ UNCHANGED <<now, file, tmp, cache, stat, window>>
  BY LeavesType DEF Abandon
<1>2. Busy(p) = {data[p]} /\ Busy(p)' = {} /\ \A q \in Procs \ {p} : Busy(q)' = Busy(q)
  BY <1>1 DEF Busy, TypeOK
<1>3. Readable' \subseteq Readable
  BY <1>1, <1>2 DEF Readable
<1>4. TmpInv'
  BY <1>1 DEF TmpInv, TypeOK
<1>5. TimeInv'
  BY <1>1 DEF TimeInv
<1>6. WindowInv' /\ ParsedInv'
  BY <1>1, <1>3 DEF WindowInv, ParsedInv, Reading, TypeOK
<1>7. CacheInv'
  BY <1>1, <1>2 DEF CacheInv, Aliased, TypeOK
<1> QED
  BY <1>4, <1>5, <1>6, <1>7

\* The file is replaced; who could take the older content for current notices the
\* new modification time.
LEMMA RenameStep ==
  ASSUME TypeOK, StoreInv, NEW p \in Writers, Rename(p), ~disturbed'
  PROVE  StoreInv'
<1> USE Homely, Sorts DEF StoreInv
<1>1. /\ pc[p] = "rename" /\ pc' = [pc EXCEPT ![p] = "pop"]
      /\ file' = tmp /\ tmp' = Nothing
      /\ before' = [before EXCEPT ![p] = file.edits]
      /\ target' = [q \in Procs |-> IF target[q] = "tmp" /\ q # p THEN "file" ELSE "none"]
      /\ ~SameTick(p)
      /\ UNCHANGED <<now, cache, stat, data, window>>
  BY DEF Rename, GoTo
<1>2. /\ target[p] = "tmp" /\ \A q \in Procs \ {p} : target[q] # "tmp"
      /\ tmp.edits = data[p] /\ tmp.mtime \in Nat
      /\ file.mtime <= tmp.mtime /\ tmp.mtime <= now
  BY <1>1 DEF TmpInv, Times
<1>4. /\ Busy(p) = {data[p]} /\ Busy(p)' = {data[p], file.edits}
      /\ \A q \in Procs \ {p} : Busy(q)' = Busy(q)
  BY <1>1 DEF Busy, TypeOK
<1>5. Readable' \subseteq Readable
  BY <1>1, <1>2, <1>4 DEF Readable
<1>6. TmpInv'
  <2>1. \A q \in Procs : target'[q] = "none" /\ pc'[q] \notin {"fill", "rename"}
    BY <1>1, <1>2 DEF TmpInv, TypeOK
  <2> QED
    BY <2>1 DEF TmpInv
<1>7. TimeInv'
  BY <1>1, <1>2 DEF TimeInv, TypeOK
<1>8. WindowInv'
  BY <1>1, <1>5 DEF WindowInv, Reading, TypeOK
<1>9. ParsedInv'
  BY <1>1 DEF ParsedInv, SameTick, TypeOK
<1>10. CacheInv'
  <2>1. ASSUME NEW h \in Homes, cache'[h].mtime = file'.mtime
        PROVE  \E q \in Writers : Home(q) = h /\ cache'[h].edits \in Busy(q)'
    <3>1. h = Home(p)
      BY <1>1, <2>1 DEF SameTick
    <3>2. cache[h].mtime = file.mtime
      BY <1>1, <1>2, <2>1, <3>1 DEF TimeInv
    <3>3. CASE cache[h].edits = file.edits
      BY <1>1, <1>4, <3>1, <3>3
    <3>4. CASE \E q \in Writers : Home(q) = h /\ cache[h].edits \in Busy(q)
      <4>1. \A q \in Writers : Busy(q) \subseteq Busy(q)'
        BY <1>4
      <4> QED
        BY <1>1, <3>4, <4>1
    <3> QED
      BY <3>2, <3>3, <3>4 DEF CacheInv
  <2> QED
    BY <1>1, <2>1 DEF CacheInv, TypeOK
<1> QED
  BY <1>6, <1>7, <1>8, <1>9, <1>10

LEMMA PopStep ==
  ASSUME TypeOK, StoreInv, NEW p \in Writers, Pop(p)
  PROVE  StoreInv'
<1> USE Homely, Sorts DEF StoreInv
<1>1. /\ pc[p] = "pop" /\ pc' = [pc EXCEPT ![p] = "idle"]
      /\ cache' = [cache EXCEPT ![Home(p)] = Nothing]
      /\ \A q \in Procs \ {p} : data'[q] = data[q] /\ before'[q] = before[q]
      /\ UNCHANGED <<now, file, tmp, stat, target, window>>
  BY LeavesType DEF Pop
<1>2. Busy(p)' = {} /\ \A q \in Procs \ {p} : Busy(q)' = Busy(q)
  BY <1>1 DEF Busy, TypeOK
<1>3. Readable' \subseteq Readable
  BY <1>1, <1>2 DEF Readable
<1>4. TmpInv'
  BY <1>1 DEF TmpInv, TypeOK
<1>5. TimeInv'
  BY <1>1 DEF TimeInv, TypeOK
<1>6. WindowInv' /\ ParsedInv'
  BY <1>1, <1>3 DEF WindowInv, ParsedInv, Reading, TypeOK
<1>7. CacheInv'
  <2>1. \A h \in Homes : cache'[h].mtime \in Nat => h # Home(p) /\ cache'[h] = cache[h]
    BY <1>1 DEF TypeOK
  <2> QED
    BY <1>1, <1>2, <2>1 DEF CacheInv, TypeOK
<1> QED
  BY <1>4, <1>5, <1>6, <1>7

\* A process that ends takes its cache, its reads and its writes with it.
LEMMA EndsStep ==
  ASSUME TypeOK, StoreInv, NEW S, Ends(S)
  PROVE  StoreInv'
<1> USE Homely, Sorts DEF StoreInv
<1>1. /\ pc' = [p \in Procs |-> IF Home(p) \in S THEN "idle" ELSE pc[p]]
      /\ target' = [p \in Procs |-> IF Home(p) \in S THEN "none" ELSE target[p]]
      /\ window' = [p \in Procs |-> IF Home(p) \in S THEN {} ELSE window[p]]
      /\ cache' = [h \in Homes |-> IF h \in S THEN Nothing ELSE cache[h]]
      /\ stat' = [p \in Procs |-> IF Home(p) \in S THEN 0 ELSE stat[p]]
      /\ \A p \in Procs : Home(p) \notin S => data'[p] = data[p] /\ before'[p] = before[p]
      /\ UNCHANGED <<now, file, tmp>>
  BY DEF Ends
<1>2. \A q \in Procs : Busy(q)' = IF Home(q) \in S THEN {} ELSE Busy(q)
  BY <1>1 DEF Busy
<1>3. Readable' \subseteq Readable
  BY <1>1, <1>2 DEF Readable
<1>4. TmpInv'
  BY <1>1 DEF TmpInv
<1>5. TimeInv'
  BY <1>1 DEF TimeInv
<1>6. WindowInv' /\ ParsedInv'
  BY <1>1, <1>3 DEF WindowInv, ParsedInv, Reading
<1>7. CacheInv'
  <2>1. \A h \in Homes : cache'[h].mtime \in Nat => h \notin S /\ cache'[h] = cache[h]
    BY <1>1
  <2>2. \A q \in Writers : Home(q) \notin S => Busy(q)' = Busy(q)
    BY <1>2
  <2> QED
    BY <1>1, <2>1, <2>2 DEF CacheInv
<1> QED
  BY <1>4, <1>5, <1>6, <1>7

\* Steps that change no more than the clock or the place of one who read.
LEMMA IdleStep ==
  ASSUME TypeOK, StoreInv, Tick \/ (\E p \in Writers : Discard(p)) \/ UNCHANGED vars
  PROVE  StoreInv'
<1> USE Homely, Sorts DEF StoreInv
<1>1. ASSUME NEW p \in Writers, Discard(p) PROVE StoreInv'
  <2>1. /\ pc[p] = "loaded" /\ pc' = [pc EXCEPT ![p] = "idle"]
        /\ \A q \in Procs \ {p} : data'[q] = data[q] /\ before'[q] = before[q]
        /\ UNCHANGED <<now, file, tmp, cache, stat, target, window>>
    BY <1>1, LeavesType DEF Discard, histories
  <2>2. \A q \in Procs : Busy(q)' = Busy(q)
    BY <2>1 DEF Busy, TypeOK
  <2>3. Readable' = Readable
    BY <2>1, <2>2 DEF Readable
  <2>4. TmpInv' /\ TimeInv'
    BY <2>1 DEF TmpInv, TimeInv, TypeOK
  <2>5. WindowInv' /\ ParsedInv'
    BY <2>1, <2>3 DEF WindowInv, ParsedInv, Reading, TypeOK
  <2>6. CacheInv'
    BY <2>1, <2>2 DEF CacheInv, TypeOK
  <2> QED
    BY <2>4, <2>5, <2>6
<1>2. CASE Tick \/ UNCHANGED vars
  <2>1. /\ now' \in Nat /\ now <= now'
        /\ UNCHANGED <<file, tmp, cache, pc, stat, data, target, before, window>>
    BY <1>2 DEF Tick, vars, histories
  <2>2. \A q \in Procs : Busy(q)' = Busy(q)
    BY <2>1 DEF Busy
  <2>3. Readable' = Readable
    BY <2>1, <2>2 DEF Readable
  <2>4. TmpInv' /\ TimeInv'
    BY <2>1 DEF TmpInv, TimeInv, Times
  <2>5. WindowInv' /\ ParsedInv' /\ CacheInv'
    BY <2>1, <2>2, <2>3 DEF WindowInv, ParsedInv, CacheInv, Reading
  <2> QED
    BY <2>4, <2>5
<1> QED
  BY <1>1, <1>2

\* What has been disturbed stays so.
LEMMA StaysDisturbed ==
  ASSUME Next, disturbed
  PROVE  disturbed'
BY Zenon DEF Next, Stat, Get, Parse, Store, Discard, BeginEdit, OpenTmp, Fill, WriteFails, RenameFails,
  Leaves, Abandon, Rename, Pop, CliEnds, Restart, Ends, Tick, histories

LEMMA StoreStep ==
  ASSUME TypeOK, RoleInv, StoreInv, [Next]_vars, ~disturbed'
  PROVE  StoreInv'
<1>1. ASSUME NEW p \in Writers, WriteFails(p) \/ RenameFails(p) PROVE StoreInv'
  <2>1. pc[p] \in {"open", "fill", "rename"} /\ Abandon(p) /\ UNCHANGED <<file, tmp>>
    BY <1>1 DEF WriteFails, RenameFails
  <2> QED
    BY <2>1, AbandonStep
<1>2. ASSUME NEW p \in Writers, BeginEdit(p) \/ OpenTmp(p) \/ Fill(p) \/ Rename(p) \/ Pop(p)
      PROVE  StoreInv'
  BY <1>2, BeginStep, OpenStep, FillStep, RenameStep, PopStep
<1>3. ASSUME NEW p \in Procs, Stat(p) \/ Get(p) \/ Parse(p) \/ Store(p) PROVE StoreInv'
  BY <1>3, StatStep, GetStep, ParseStep, StorePutStep
<1>4. ASSUME NEW S, Ends(S) PROVE StoreInv'
  BY <1>4, EndsStep
<1> QED
  BY <1>1, <1>2, <1>3, <1>4, IdleStep DEF Next, CliEnds, Restart

LEMMA InvInit == Init => IInv
<1> SUFFICES ASSUME Init PROVE IInv
  OBVIOUS
<1>1. TypeOK /\ RoleInv /\ TurnInv
  BY TypeInit
<1>2. TmpInv /\ TimeInv
  BY Homely, NothingTypes DEF Init, TmpInv, TimeInv
<1>3. WindowInv /\ ParsedInv
  BY DEF Init, WindowInv, ParsedInv, Reading
<1>4. CacheInv
  BY Homely, NothingTypes, ProcAssumption DEF Init, CacheInv, Times
<1> QED
  BY <1>1, <1>2, <1>3, <1>4 DEF IInv, StoreInv

LEMMA InvStep ==
  ASSUME IInv, [Next]_vars
  PROVE  IInv'
<1>1. TypeOK'
  BY TypeStep DEF IInv
<1>2. RoleInv' /\ TurnInv'
  <2>1. CASE Next
    BY <2>1, RoleStep, TurnStep DEF IInv
  <2>2. CASE UNCHANGED vars
    BY <2>2 DEF IInv, RoleInv, TurnInv, Suspended, vars
  <2> QED
    BY <2>1, <2>2
<1>3. ASSUME ~disturbed' PROVE StoreInv'
  <2>1. ~disturbed
    BY <1>3, StaysDisturbed DEF vars, histories
  <2> QED
    BY <1>3, <2>1, StoreStep DEF IInv
<1> QED
  BY <1>1, <1>2, <1>3 DEF IInv

-----------------------------------------------------------------------------
(* The refinement.                                                         *)

LEMMA SameReadable == Regular!Readable = Readable
BY DEF Regular!Readable, Readable

LEMMA RegularInit == Init => Regular!Init
BY DEF Init, Regular!Init, Busy

LEMMA RegularStep ==
  ASSUME IInv, [Next]_vars
  PROVE  [Regular!Next]_Regular!vars
<1> USE Homely, SameReadable DEF IInv
<1>1. CASE disturbed'
  BY <1>1 DEF Regular!Next, Regular!Disturbed
<1>2. CASE ~disturbed'
  <2>1. ~disturbed /\ StoreInv /\ TypeOK
    BY <1>2, StaysDisturbed DEF vars, histories
  <2>15. UNCHANGED disturbed
    BY <1>2, <2>1, TypeStep DEF TypeOK
  <2> USE <1>2, <2>1
  <2>2. ASSUME NEW p \in Procs, \A q \in Procs \ {p} : Busy(q)' = Busy(q)
        PROVE  \A c : Busy(p)' = c => [q \in Procs |-> Busy(q)'] = [[q \in Procs |-> Busy(q)] EXCEPT ![p] = c]
    BY <2>2
  <2>3. ASSUME NEW p \in Procs, Stat(p) PROVE Regular!ReadBegins(p)
    <3>1. \A q \in Procs : Busy(q)' = Busy(q)
      BY <2>3 DEF Stat, GoTo, Busy, TypeOK
    <3> QED
      BY <2>3, <3>1 DEF Stat, Regular!ReadBegins
  <2>4. ASSUME NEW p \in Procs, Get(p) PROVE Regular!ReadEnds(p) \/ UNCHANGED Regular!vars
    <3>1. \A q \in Procs : Busy(q)' = Busy(q)
      <4>1. pc[p] = "get" /\ UNCHANGED before
        BY <2>4 DEF Get
      <4>2. /\ pc'[p] \in {"loaded", "idle", "parse"}
            /\ \A q \in Procs \ {p} : pc'[q] = pc[q] /\ data'[q] = data[q]
        <5>1. CASE Hit(p)
          BY <2>4, <5>1 DEF Get, Returns, GoTo, TypeOK
        <5>2. CASE ~Hit(p)
          BY <2>4, <5>2 DEF Get, GoTo, TypeOK
        <5> QED
          BY <5>1, <5>2
      <4>3. Busy(p)' = Busy(p)
        BY <4>1, <4>2 DEF Busy
      <4>4. \A q \in Procs \ {p} : Busy(q)' = Busy(q)
        BY <4>1, <4>2 DEF Busy
      <4> QED
        BY <4>3, <4>4
    <3>2. CASE Hit(p)
      <4>1. cache[Home(p)].edits \in window[p]
        BY <2>4, <3>2 DEF Get, Hit, StoreInv, CacheInv
      <4> QED
        BY <2>4, <3>1, <3>2, <4>1 DEF Get, Returns, Regular!ReadEnds
    <3>3. CASE ~Hit(p)
      BY <2>4, <3>1, <3>3 DEF Get, Regular!vars
    <3> QED
      BY <3>2, <3>3
  <2>5. ASSUME NEW p \in Procs, Parse(p) PROVE UNCHANGED Regular!vars
    <3>1. \A q \in Procs : Busy(q)' = Busy(q)
      BY <2>5 DEF Parse, GoTo, Busy, TypeOK, histories
    <3> QED
      BY <2>5, <3>1 DEF Parse, histories, Regular!vars
  <2>6. ASSUME NEW p \in Procs, Store(p) PROVE Regular!ReadEnds(p)
    <3>1. \A q \in Procs : Busy(q)' = Busy(q)
      BY <2>6 DEF Store, Returns, GoTo, Busy, TypeOK
    <3>2. data[p] \in window[p]
      BY <2>6 DEF Store, StoreInv, ParsedInv
    <3> QED
      BY <2>6, <3>1, <3>2 DEF Store, Returns, Regular!ReadEnds
  <2>7. ASSUME NEW p \in Writers, Discard(p) \/ OpenTmp(p) PROVE UNCHANGED Regular!vars
    <3>1. \A q \in Procs : Busy(q)' = Busy(q)
      BY <2>7 DEF Discard, OpenTmp, Leaves, GoTo, Busy, TypeOK, histories
    <3> QED
      BY <2>7, <2>15, <3>1 DEF Discard, OpenTmp, histories, Regular!vars
  <2>8. ASSUME NEW p \in Writers, Fill(p) PROVE UNCHANGED Regular!vars
    <3>1. \A q \in Procs : Busy(q)' = Busy(q)
      BY <2>8 DEF Fill, GoTo, Busy, TypeOK, histories
    <3>2. target[p] = "tmp"
      BY <2>8 DEF Fill, StoreInv, TmpInv
    <3> QED
      BY <2>8, <3>1, <3>2 DEF Fill, histories, Regular!vars
  <2>9. ASSUME NEW p \in Writers, BeginEdit(p) PROVE Regular!WriteBegins(p)
    <3> DEFINE new == data[p] \cup {edits + 1}
    <3>1. /\ data' = [data EXCEPT ![p] = new] /\ pc' = [pc EXCEPT ![p] = "open"]
          /\ window' = [q \in Procs |-> IF window[q] = {} THEN {} ELSE window[q] \cup {new}]
          /\ UNCHANGED <<file, before, result, disturbed>>
      BY <2>9 DEF BeginEdit, GoTo
    <3>2. new \in Contents
      <4>1. data'[p] \in Contents
        BY TypeStep DEF TypeOK
      <4> QED
        BY <3>1, <4>1 DEF TypeOK
    <3> HIDE DEF new
    <3>3. Busy(p)' = {new} /\ \A q \in Procs \ {p} : Busy(q)' = Busy(q)
      BY <3>1 DEF Busy, TypeOK
    <3> QED
      BY <2>2, <3>1, <3>2, <3>3 DEF Regular!WriteBegins
  <2>10. ASSUME NEW p \in Writers, WriteFails(p) \/ RenameFails(p) \/ Pop(p)
         PROVE  Regular!WriteEnds(p)
    <3>1. /\ pc' = [pc EXCEPT ![p] = "idle"] /\ UNCHANGED <<file, window, result, disturbed>>
          /\ \A q \in Procs \ {p} : data'[q] = data[q] /\ before'[q] = before[q]
      BY <2>10, <2>15, LeavesType DEF WriteFails, RenameFails, Abandon, Pop
    <3>2. Busy(p)' = {} /\ \A q \in Procs \ {p} : Busy(q)' = Busy(q)
      BY <3>1 DEF Busy, TypeOK
    <3> QED
      BY <2>2, <3>1, <3>2 DEF Regular!WriteEnds
  <2>11. ASSUME NEW p \in Writers, Rename(p) PROVE Regular!Stores(p)
    <3>1. /\ pc[p] = "rename" /\ pc' = [pc EXCEPT ![p] = "pop"]
          /\ file' = tmp
          /\ before' = [before EXCEPT ![p] = file.edits]
          /\ UNCHANGED <<data, window, result>>
      BY <2>11 DEF Rename, GoTo
    <3>2. tmp.edits = data[p] /\ UNCHANGED disturbed
      BY <2>11, <2>15, <3>1 DEF StoreInv, TmpInv
    <3>3. /\ Busy(p) = {data[p]} /\ Busy(p)' = Busy(p) \cup {file.edits}
          /\ \A q \in Procs \ {p} : Busy(q)' = Busy(q)
      BY <3>1 DEF Busy, TypeOK
    <3>4. [q \in Procs |-> Busy(q)'] = [[q \in Procs |-> Busy(q)] EXCEPT ![p] = @ \cup {file.edits}]
      BY <3>3
    <3> QED
      BY <3>1, <3>2, <3>3, <3>4 DEF Regular!Stores
  <2>12. ASSUME NEW S, Ends(S) PROVE Regular!Dies({p \in Procs : Home(p) \in S})
    <3>1. /\ pc' = [p \in Procs |-> IF Home(p) \in S THEN "idle" ELSE pc[p]]
          /\ window' = [p \in Procs |-> IF Home(p) \in S THEN {} ELSE window[p]]
          /\ \A p \in Procs : Home(p) \notin S => data'[p] = data[p] /\ before'[p] = before[p]
          /\ UNCHANGED <<file, result, disturbed>>
      BY <2>12 DEF Ends
    <3>2. \A q \in Procs : Busy(q)' = IF Home(q) \in S THEN {} ELSE Busy(q)
      BY <3>1 DEF Busy
    <3> QED
      BY <3>1, <3>2 DEF Regular!Dies
  <2>13. CASE Tick \/ UNCHANGED vars
    <3>1. UNCHANGED <<file, pc, data, before, window, result, disturbed>>
      BY <2>13 DEF Tick, vars, histories
    <3>2. \A q \in Procs : Busy(q)' = Busy(q)
      BY <3>1 DEF Busy
    <3> QED
      BY <3>1, <3>2 DEF Regular!vars
  <2>14. \A S : {p \in Procs : Home(p) \in S} \in SUBSET Procs
    OBVIOUS
  <2> QED
    BY <2>3, <2>4, <2>5, <2>6, <2>7, <2>8, <2>9, <2>10, <2>11, <2>12, <2>13, <2>14
       DEF Next, Regular!Next, CliEnds, Restart
<1> QED
  BY <1>1, <1>2

\* The cache is invisible: whatever the threads, the command-line tools and the writers
\* do, a read of _load_yaml_file answers as one that had read the file itself.
THEOREM ReadsAreRegularHolds == Spec => ReadsAreRegular
<1>1. Spec => []IInv
  BY InvInit, InvStep, PTL DEF Spec
<1> QED
  BY <1>1, RegularInit, RegularStep, PTL DEF Spec, ReadsAreRegular, Regular!Spec

-----------------------------------------------------------------------------
(* No completed edit is lost.                                              *)

\* A writer that has read the file since it was last replaced carries all of it.
Carries(p) ==
  /\ pc[p] \in {"get", "parse"} => stat[p] = file.mtime
  /\ pc[p] \in {"store", "loaded", "open", "fill", "rename"} => file.edits \subseteq data[p]

KeptInv ==
  /\ made \subseteq file.edits
  /\ \A p \in Writers : p \notin behind => Carries(p)
  /\ \A p \in Writers : pc[p] = "pop" => data[p] \subseteq file.edits

LEMMA KeptStep ==
  ASSUME TypeOK, RoleInv, TurnInv, StoreInv, KeptInv, [Next]_vars, ~disturbed', ~overlapped'
  PROVE  KeptInv'
<1> USE Homely DEF StoreInv
<1>1. ASSUME NEW p \in Procs, Stat(p) PROVE KeptInv'
  BY <1>1 DEF Stat, GoTo, KeptInv, Carries, TypeOK
<1>2. ASSUME NEW p \in Procs, Get(p) PROVE KeptInv'
  <2>1. /\ pc[p] = "get" /\ pc'[p] \in {"idle", "loaded", "parse"}
        /\ \A q \in Procs \ {p} : pc'[q] = pc[q] /\ data'[q] = data[q]
        /\ \A q \in Procs : pc'[q] \in {"get", "parse"} => stat'[q] = stat[q]
        /\ UNCHANGED <<file, behind, made>>
        /\ p \in Writers /\ pc'[p] = "loaded" =>
             cache[Home(p)].mtime = stat[p] /\ data'[p] = cache[Home(p)].edits
    <3>1. CASE Hit(p)
      BY <1>2, <3>1 DEF Get, Hit, Returns, GoTo, TypeOK
    <3>2. CASE ~Hit(p)
      BY <1>2, <3>2 DEF Get, GoTo, TypeOK
    <3> QED
      BY <3>1, <3>2
  <2>2. p \in Writers /\ p \notin behind /\ pc'[p] = "loaded" => data'[p] = file.edits
    <3>1. ASSUME NEW q \in Writers, p \in Writers, Home(q) = Home(p) PROVE Busy(q) = {}
      <4>1. CASE q = p
        BY <2>1, <4>1 DEF Busy
      <4>2. CASE q # p
        <5>1. p \in Handlers /\ q \in Handlers
          BY <3>1, <4>2, ProcAssumption DEF Writers
        <5>2. pc[q] \in Suspended
          BY <2>1, <4>2, <5>1 DEF TurnInv, Suspended
        <5> QED
          BY <5>2 DEF Busy, Suspended
      <4> QED
        BY <4>1, <4>2
    <3>2. p \in Writers /\ p \notin behind => stat[p] = file.mtime
      BY <2>1 DEF KeptInv, Carries
    <3> QED
      BY <2>1, <3>1, <3>2 DEF CacheInv
  <2> QED
    BY <2>1, <2>2 DEF KeptInv, Carries
<1>3. ASSUME NEW p \in Procs, Parse(p) PROVE KeptInv'
  BY <1>3 DEF Parse, GoTo, histories, KeptInv, Carries, TypeOK
<1>4. ASSUME NEW p \in Procs, Store(p) PROVE KeptInv'
  BY <1>4 DEF Store, Returns, GoTo, KeptInv, Carries, TypeOK
<1>5. ASSUME NEW p \in Writers, Discard(p) \/ OpenTmp(p) PROVE KeptInv'
  <2>1. /\ pc'[p] \in {"idle", "fill"} /\ (pc'[p] = "fill" => pc[p] = "open" /\ data'[p] = data[p])
        /\ \A q \in Procs \ {p} : pc'[q] = pc[q] /\ data'[q] = data[q]
        /\ UNCHANGED <<file, stat, behind, made>>
    BY <1>5 DEF Discard, OpenTmp, Leaves, GoTo, histories, TypeOK
  <2> QED
    BY <2>1 DEF KeptInv, Carries
<1>6. ASSUME NEW p \in Writers, BeginEdit(p) PROVE KeptInv'
  <2>1. /\ pc[p] = "loaded" /\ pc' = [pc EXCEPT ![p] = "open"]
        /\ data' = [data EXCEPT ![p] = data[p] \cup {edits + 1}]
        /\ UNCHANGED <<file, stat, behind, made>>
    BY <1>6 DEF BeginEdit, GoTo
  <2> QED
    BY <2>1 DEF KeptInv, Carries, TypeOK
<1>7. ASSUME NEW p \in Writers, Fill(p) PROVE KeptInv'
  <2>1. /\ pc[p] = "fill" /\ pc' = [pc EXCEPT ![p] = "rename"]
        /\ UNCHANGED <<file, stat, data, behind, made>>
    BY <1>7 DEF Fill, GoTo, histories, TmpInv
  <2> QED
    BY <2>1 DEF KeptInv, Carries, TypeOK
<1>8. ASSUME NEW p \in Writers, WriteFails(p) \/ RenameFails(p) PROVE KeptInv'
  <2>1. /\ pc' = [pc EXCEPT ![p] = "idle"] /\ UNCHANGED <<file, stat, behind, made>>
        /\ \A q \in Procs \ {p} : data'[q] = data[q]
    BY <1>8, LeavesType DEF WriteFails, RenameFails, Abandon
  <2> QED
    BY <2>1 DEF KeptInv, Carries, TypeOK
<1>9. ASSUME NEW p \in Writers, Rename(p) PROVE KeptInv'
  <2>1. /\ pc[p] = "rename" /\ pc' = [pc EXCEPT ![p] = "pop"]
        /\ file' = tmp /\ p \notin behind
        /\ behind' = {q \in Procs : pc[q] # "idle"} \ {p}
        /\ UNCHANGED <<stat, data, made>>
    BY <1>9 DEF Rename, GoTo
  <2>2. file'.edits = data[p] /\ file.edits \subseteq data[p]
    BY <2>1 DEF KeptInv, Carries, TmpInv
  <2>3. made' \subseteq file'.edits
    BY <2>1, <2>2 DEF KeptInv
  <2>4. ASSUME NEW q \in Writers, q \notin behind' PROVE Carries(q)'
    BY <2>1, <2>4 DEF Carries, TypeOK
  <2>5. ASSUME NEW q \in Writers, pc'[q] = "pop" PROVE data'[q] \subseteq file'.edits
    BY <2>1, <2>2, <2>5 DEF KeptInv, TypeOK
  <2> QED
    BY <2>3, <2>4, <2>5 DEF KeptInv
<1>10. ASSUME NEW p \in Writers, Pop(p) PROVE KeptInv'
  <2>1. /\ pc[p] = "pop" /\ pc' = [pc EXCEPT ![p] = "idle"] /\ UNCHANGED <<file, stat, behind>>
        /\ \A q \in Procs \ {p} : data'[q] = data[q]
        /\ made' = made \cup (data[p] \ before[p])
    BY <1>10, LeavesType DEF Pop
  <2> QED
    BY <2>1 DEF KeptInv, Carries, TypeOK
<1>11. ASSUME NEW S, Ends(S) PROVE KeptInv'
  BY <1>11 DEF Ends, KeptInv, Carries
<1>12. CASE Tick \/ UNCHANGED vars
  BY <1>12 DEF Tick, vars, histories, KeptInv, Carries
<1> QED
  BY <1>1, <1>2, <1>3, <1>4, <1>5, <1>6, <1>7, <1>8, <1>9, <1>10, <1>11, <1>12
     DEF Next, CliEnds, Restart

LEMMA StaysOverlapped ==
  ASSUME Next, overlapped
  PROVE  overlapped'
BY Zenon DEF Next, Stat, Get, Parse, Store, Discard, BeginEdit, OpenTmp, Fill, WriteFails, RenameFails,
  Leaves, Abandon, Rename, Pop, CliEnds, Restart, Ends, Tick, histories

\* No completed edit of a YAML file is lost: neither the cache, nor a failed or torn
\* write, nor the end of a process puts an older file back; only a process that loaded
\* the file before somebody else saved it does.
THEOREM EditsKeptHolds == Spec => []EditsKept
<1> DEFINE Kept == ~disturbed /\ ~overlapped => KeptInv
<1>1. Init => IInv /\ Kept
  <2>1. Init => KeptInv
    BY Homely DEF Init, KeptInv, Carries
  <2> QED
    BY <2>1, InvInit
<1>2. IInv /\ Kept /\ [Next]_vars => IInv' /\ Kept'
  <2> SUFFICES ASSUME IInv, Kept, [Next]_vars PROVE IInv' /\ Kept'
    OBVIOUS
  <2>1. ASSUME ~disturbed', ~overlapped' PROVE KeptInv'
    <3>1. ~disturbed /\ ~overlapped
      BY <2>1, StaysDisturbed, StaysOverlapped DEF vars, histories
    <3> QED
      BY <2>1, <3>1, KeptStep DEF IInv
  <2> QED
    BY <2>1, InvStep
<1>3. Kept => EditsKept
  BY DEF KeptInv, EditsKept
<1> QED
  BY <1>1, <1>2, <1>3, PTL DEF Spec
=============================================================================
