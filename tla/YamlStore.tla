------------------------------ MODULE YamlStore ------------------------------
(***************************************************************************)
(* A YAML file of storage.py: read through a cache that is keyed by the    *)
(* file's modification time, replaced through a .tmp file and a rename.    *)
(*                                                                         *)
(* The file is either config.yaml, which load_config copies before it is   *)
(* changed and which the command-line tool, a process with a cache of its  *)
(* own, edits too; or a registry (hosts.yaml, secrets.yaml, ...), whose    *)
(* cached objects the handlers change in place and which worker threads    *)
(* read.  In the server only handlers write.  The event loop runs one of   *)
(* them until it suspends: a registry is loaded, changed and saved in one  *)
(* go, but the pages that change the config may await the body of their    *)
(* request between load_config and save_config.                            *)
(*                                                                         *)
(* A content is the set of the edits it carries: an edit loads the file,   *)
(* adds itself and saves.  A step is one system call or one access to the  *)
(* cache.  Modification times advance with now, coarser than the steps.    *)
(*                                                                         *)
(* Definitions with an underscore and a capital (Store_StatAgain) are      *)
(* slips the properties are tried against; Next does not use them.         *)
(***************************************************************************)
EXTENDS Naturals

CONSTANTS
  Server,     \* the server, with the cache its handlers and threads share
  Handlers,   \* its coroutines, which take turns on the event loop
  Threads,    \* its worker threads
  Clis,       \* command-line tools
  NoTime,     \* no modification time
  MaxEdits,   \* bound on edits
  MaxTime,    \* bound on the clock
  MaxFails    \* bound on failed writes

ASSUME ProcAssumption ==
  /\ Server \notin Clis
  /\ Handlers \cap Threads = {} /\ Handlers \cap Clis = {} /\ Threads \cap Clis = {}
  /\ NoTime \notin Nat
  /\ MaxEdits \in Nat /\ MaxTime \in Nat /\ MaxFails \in Nat

VARIABLES
  kind,      \* "config" or "registry"; never changes
  now,       \* the clock of modification times
  file,      \* the file: its edits and modification time
  tmp,       \* the .tmp file; mtime NoTime: there is none
  cache,     \* _yaml_cache of each process; mtime NoTime: no entry
  pc,        \* what each process does next
  stat,      \* the modification time it has seen
  data,      \* the edits of what it has parsed, or is about to save
  target,    \* where its open file is: "tmp", "file" or "none"
  before,    \* the edits its rename replaced
  window,    \* the contents its read may answer with
  result,    \* the latest answer of a read
  disturbed, \* a case the cache or the .tmp file is not made for has happened
  behind,    \* those who read the file before somebody else replaced it
  overlapped,\* one of them has saved
  made,      \* the edits that were completed
  edits,     \* edits begun
  fails      \* writes that failed

histories == <<window, result, disturbed, behind, overlapped, made>>
vars == <<kind, now, file, tmp, cache, pc, stat, data, target, before, edits, fails, histories>>

Procs   == Handlers \cup Threads \cup Clis
Writers == Handlers \cup Clis

\* The process whose cache p uses.
Home(p) == IF p \in Clis THEN p ELSE Server
Homes   == {Server} \cup Clis

\* Who uses the file that is modelled.
Active(p) == \/ p \in Handlers
             \/ kind = "registry" /\ p \in Threads
             \/ kind = "config" /\ p \in Clis

Times    == 0..MaxTime
Contents == SUBSET (1..MaxEdits)
File     == [edits: Contents, mtime: Times]
Stamped  == [edits: Contents, mtime: Times \cup {NoTime}]
Nothing  == [edits |-> {}, mtime |-> NoTime]

\* The type invariant.
TypeOK ==
  /\ kind \in {"config", "registry"}
  /\ now \in Times
  /\ file \in File
  /\ tmp \in File \cup {Nothing}
  /\ cache \in [Homes -> Stamped]
  /\ pc \in [Procs -> {"idle", "get", "parse", "store", "loaded", "open", "fill", "rename", "pop"}]
  /\ stat \in [Procs -> Times]
  /\ data \in [Procs -> Contents]
  /\ target \in [Procs -> {"none", "tmp", "file"}]
  /\ before \in [Procs -> Contents]
  /\ window \in [Procs -> SUBSET Contents]
  /\ result \in Contents
  /\ disturbed \in BOOLEAN /\ overlapped \in BOOLEAN
  /\ behind \subseteq Procs
  /\ made \in Contents
  /\ edits \in 0..MaxEdits /\ fails \in 0..MaxFails

Init ==
  /\ kind \in {"config", "registry"}
  /\ now = 0
  /\ file = [edits |-> {}, mtime |-> 0]
  /\ tmp = Nothing
  /\ cache = [h \in Homes |-> Nothing]
  /\ pc = [p \in Procs |-> "idle"]
  /\ stat = [p \in Procs |-> 0]
  /\ data = [p \in Procs |-> {}]
  /\ target = [p \in Procs |-> "none"]
  /\ before = [p \in Procs |-> {}]
  /\ window = [p \in Procs |-> {}]
  /\ result = {}
  /\ disturbed = FALSE /\ overlapped = FALSE
  /\ behind = {}
  /\ made = {}
  /\ edits = 0 /\ fails = 0

-----------------------------------------------------------------------------
(* Reading: _load_yaml_file.                                               *)

\* The contents a write of p that is under way adds to what may be read.
Busy(p) ==
  CASE pc[p] \in {"open", "fill", "rename"} -> {data[p]}
    [] pc[p] = "pop"                        -> {data[p], before[p]}
    [] OTHER                                -> {}

Readable == {file.edits} \cup UNION {Busy(p) : p \in Procs}

GoTo(p, at) == pc' = [pc EXCEPT ![p] = at]

\* Its call over, p has nothing in hand.
Leaves(p) ==
  /\ GoTo(p, "idle")
  /\ data' = [data EXCEPT ![p] = {}]
  /\ before' = [before EXCEPT ![p] = {}]

\* Where a handler may be while another one runs: a page that changes the config may
\* wait for the body of its request after load_config.
Suspended == IF kind = "config" THEN {"idle", "loaded"} ELSE {"idle"}

\* A handler begins, or goes on after such an await.
Turn(p) == p \in Handlers => \A q \in Handlers \ {p} : pc[q] \in Suspended

Stat(p) ==
  /\ Active(p)
  /\ Turn(p)
  /\ pc[p] = "idle"
  /\ stat' = [stat EXCEPT ![p] = file.mtime]
  /\ GoTo(p, "get")
  /\ window' = [window EXCEPT ![p] = Readable]
  /\ behind' = behind \ {p}
  /\ UNCHANGED <<kind, now, file, tmp, cache, data, target, before, edits, fails,
                 result, disturbed, overlapped, made>>

\* The read of p returns d; those who may write keep it.
Returns(p, d) ==
  /\ data' = [data EXCEPT ![p] = IF p \in Writers THEN d ELSE {}]
  /\ GoTo(p, IF p \in Writers THEN "loaded" ELSE "idle")
  /\ stat' = [stat EXCEPT ![p] = 0]
  /\ result' = d
  /\ window' = [window EXCEPT ![p] = {}]

Hit_AnyTime(p) == cache[Home(p)] # Nothing
Hit(p) == cache[Home(p)].mtime = stat[p]

\* The cached object, if the time is the one just seen.
Get(p) ==
  /\ pc[p] = "get"
  /\ IF Hit(p) THEN Returns(p, cache[Home(p)].edits)
     ELSE /\ GoTo(p, "parse")
          /\ UNCHANGED <<data, stat, window, result>>
  /\ UNCHANGED <<kind, now, file, tmp, cache, target, before, edits, fails,
                 disturbed, behind, overlapped, made>>

\* Read and parse the file, whichever it is by now.
Parse(p) ==
  /\ pc[p] = "parse"
  /\ data' = [data EXCEPT ![p] = file.edits]
  /\ GoTo(p, "store")
  /\ UNCHANGED <<kind, now, file, tmp, cache, stat, target, before, edits, fails, histories>>

Stored_StatAgain(p) == [edits |-> data[p], mtime |-> file.mtime]

\* What is cached: the object under the time seen before it was parsed.
Stored(p) == [edits |-> data[p], mtime |-> stat[p]]

Store(p) ==
  /\ pc[p] = "store"
  /\ cache' = [cache EXCEPT ![Home(p)] = Stored(p)]
  /\ Returns(p, data[p])
  /\ UNCHANGED <<kind, now, file, tmp, target, before, edits, fails,
                 disturbed, behind, overlapped, made>>

\* The handler only wanted to read.
Discard(p) ==
  /\ pc[p] = "loaded"
  /\ Leaves(p)
  /\ UNCHANGED <<kind, now, file, tmp, cache, stat, target, edits, fails, histories>>

-----------------------------------------------------------------------------
(* Editing: an upsert or save_config, and _atomic_write.                   *)

\* The change is made in a copy (load_config, or a handler that builds a new
\* entry), or in the very object the registry's cache holds (toggle_host,
\* toggle_agent, gen_agent_key, ...).
BeginEdit(p) ==
  LET new == data[p] \cup {edits + 1} IN
  /\ pc[p] = "loaded"
  /\ Turn(p)
  /\ edits < MaxEdits
  /\ edits' = edits + 1
  /\ data' = [data EXCEPT ![p] = new]
  /\ GoTo(p, "open")
  /\ window' = [q \in Procs |-> IF window[q] = {} THEN {} ELSE window[q] \cup {new}]
  /\ \/ UNCHANGED cache
     \/ /\ kind = "registry"
        /\ cache[Server].mtime # NoTime
        /\ cache[Server].edits = data[p]
        /\ cache' = [cache EXCEPT ![Server].edits = new]
  /\ UNCHANGED <<kind, now, file, tmp, stat, target, before, fails,
                 result, disturbed, behind, overlapped, made>>

Clash(p) == \E q \in Procs \ {p} : target[q] = "tmp"

\* write_text opens the .tmp file, which empties it, whoever else is writing it.
OpenTmp(p) ==
  /\ pc[p] = "open"
  /\ tmp' = [edits |-> {}, mtime |-> now]
  /\ target' = [target EXCEPT ![p] = "tmp"]
  /\ GoTo(p, "fill")
  /\ disturbed' = (disturbed \/ Clash(p))
  /\ UNCHANGED <<kind, now, file, cache, stat, data, before, edits, fails,
                 window, result, behind, overlapped, made>>

\* ... and writes it.  If another process has renamed it meanwhile, what is
\* written is the live file; if that was replaced too, a file nobody sees.
Fill(p) ==
  LET full == [edits |-> data[p], mtime |-> now] IN
  /\ pc[p] = "fill"
  /\ tmp' = IF target[p] = "tmp" THEN full ELSE tmp
  /\ file' = IF target[p] = "file" THEN full ELSE file
  /\ GoTo(p, "rename")
  /\ UNCHANGED <<kind, now, cache, stat, data, target, before, edits, fails, histories>>

\* The object in the cache carries the edit that is being saved.
Aliased(p) == cache[Home(p)].mtime # NoTime /\ cache[Home(p)].edits = data[p]

Abandon(p) ==
  /\ Leaves(p)
  /\ target' = [target EXCEPT ![p] = "none"]
  /\ disturbed' = (disturbed \/ Aliased(p))
  /\ UNCHANGED <<kind, now, cache, stat, edits,
                 window, result, behind, overlapped, made>>

\* The disk is full or the file cannot be written; what is in .tmp stays there,
\* what was changed in the cache stays changed.
WriteFails(p) ==
  /\ pc[p] \in {"open", "fill", "rename"}
  /\ fails < MaxFails
  /\ fails' = fails + 1
  /\ Abandon(p)
  /\ UNCHANGED <<file, tmp>>

\* Another process has renamed the .tmp file away.
RenameFails(p) ==
  /\ pc[p] = "rename"
  /\ tmp = Nothing
  /\ Abandon(p)
  /\ UNCHANGED <<file, tmp, fails>>

\* The new file has the modification time of an older content that another
\* process has cached, or that a thread has parsed and has yet to cache.
SameTick(p) ==
  \/ \E h \in Homes \ {Home(p)} : cache[h].mtime = tmp.mtime
  \/ \E q \in Procs : pc[q] = "store" /\ stat[q] = tmp.mtime

Rename(p) ==
  /\ pc[p] = "rename"
  /\ tmp # Nothing
  /\ file' = tmp
  /\ tmp' = Nothing
  /\ before' = [before EXCEPT ![p] = file.edits]
  /\ target' = [q \in Procs |-> IF target[q] = "tmp" /\ q # p THEN "file" ELSE "none"]
  /\ GoTo(p, "pop")
  /\ disturbed' = (disturbed \/ SameTick(p))
  /\ overlapped' = (overlapped \/ p \in behind)
  /\ behind' = {q \in Procs : pc[q] # "idle"} \ {p}
  /\ UNCHANGED <<kind, now, cache, stat, data, edits, fails, window, result, made>>

\* The entry is dropped after the file is replaced.
Pop(p) ==
  /\ pc[p] = "pop"
  /\ cache' = [cache EXCEPT ![Home(p)] = Nothing]
  /\ Leaves(p)
  /\ made' = made \cup (data[p] \ before[p])
  /\ UNCHANGED <<kind, now, file, tmp, stat, target, edits, fails,
                 window, result, disturbed, behind, overlapped>>

-----------------------------------------------------------------------------
(* The clock, the end of a command-line tool, a restart.                   *)

Tick ==
  /\ now < MaxTime
  /\ now' = now + 1
  /\ UNCHANGED <<kind, file, tmp, cache, pc, stat, data, target, before, edits, fails, histories>>

\* The processes with a home in S end, wherever they are; .tmp stays.
Ends(S) ==
  LET Without(f, none) == [p \in Procs |-> IF Home(p) \in S THEN none ELSE f[p]] IN
  /\ pc' = Without(pc, "idle")
  /\ stat' = Without(stat, 0)
  /\ data' = Without(data, {})
  /\ before' = Without(before, {})
  /\ target' = Without(target, "none")
  /\ window' = Without(window, {})
  /\ cache' = [h \in Homes |-> IF h \in S THEN Nothing ELSE cache[h]]
  /\ UNCHANGED <<kind, now, file, tmp, edits, fails, result, disturbed, behind, overlapped, made>>

\* The tool's next run is a new process.
CliEnds(c) == kind = "config" /\ Ends({c})

\* The container stops, and the tools that run in it.
Restart == Ends(Homes)

Next ==
  \/ \E p \in Procs : Stat(p) \/ Get(p) \/ Parse(p) \/ Store(p)
  \/ \E p \in Writers : \/ Discard(p) \/ BeginEdit(p) \/ OpenTmp(p) \/ Fill(p)
                        \/ WriteFails(p) \/ RenameFails(p) \/ Rename(p) \/ Pop(p)
  \/ \E c \in Clis : CliEnds(c)
  \/ Restart
  \/ Tick

Spec == Init /\ [][Next]_vars

-----------------------------------------------------------------------------
(* Properties.                                                             *)

\* The cache is invisible: a read answers with what the file held while it was
\* read (or with a write under way), until two processes write .tmp at once, a
\* write fails after it changed the cached object, or two writes fall into one
\* tick of the modification time while a thread or another process holds the
\* older one, which the comment on _yaml_cache does not except.
Regular == INSTANCE RegularFile WITH
  Contents <- Contents,
  First    <- {},
  content  <- file.edits,
  busy     <- [p \in Procs |-> Busy(p)],
  broken   <- disturbed

ReadsAreRegular == Regular!Spec

\* No completed edit disappears from the file: an older load, cached or not, is
\* saved over it only by a writer that had loaded the file before another one's
\* rename (overlapped): the tool and the server, or two pages of the server of which
\* one awaited its body in between.
EditsKept == ~disturbed /\ ~overlapped => made \subseteq file.edits
=============================================================================
