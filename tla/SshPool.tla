------------------------------ MODULE SshPool ------------------------------
(***************************************************************************)
(* SSH connections (ssh_client.py): the pool of clients with its per-host  *)
(* locks, and the known_hosts file in which the key of a host is pinned    *)
(* when it is first seen.                                                  *)
(*                                                                         *)
(* Calls run in worker threads, and some administration pages call from    *)
(* the thread of the event loop; a member of Threads is either.  A lock is *)
(* held while a pooled client is looked up or set up, not while it is      *)
(* used, and not at all by the calls that connect directly: threads run    *)
(* commands over one client at the same time.  known_hosts is read when a  *)
(* connection begins and rewritten from that copy: opened (and so          *)
(* emptied), written, closed.                                              *)
(*                                                                         *)
(* A host stands for a pool key and for its name in known_hosts: the       *)
(* hostname, or [hostname]:port when the port is not 22.                   *)
(*                                                                         *)
(* Definitions with an underscore and a capital (Usable_Reversed) are       *)
(* slips the properties are tried against; Next does not use them.         *)
(***************************************************************************)
EXTENDS Naturals, Sequences

CONSTANTS
  Threads,
  Hosts,
  Keys,        \* host keys a server may present
  None,        \* no thread, no host, no key
  MaxCalls,    \* bound on calls
  MaxRekeys,   \* bound on hosts that come back with another key
  FirstKey,    \* the key hosts present at first
  AlsoCleared  \* host -> the port-22 host of the same hostname, cleared along with it

ASSUME BoundAssumption ==
  /\ None \notin Threads \cup Hosts \cup Keys
  /\ FirstKey \in Keys
  /\ MaxCalls \in Nat /\ MaxRekeys \in Nat
  /\ AlsoCleared \in [Hosts -> SUBSET Hosts]
  /\ \A h \in Hosts : h \notin AlsoCleared[h]

VARIABLES
  pool,     \* _pool: host -> connection, or 0
  lock,     \* _pool_locks: host -> the thread that holds it, or None
  conns,    \* the connections there have been
  thread,   \* what each thread is doing
  pins,     \* the known_hosts file
  server,   \* the key each host presents
  trusted,  \* the key last pinned for a host, or None if the administrator cleared it
  swept,    \* hosts cleared along with another one, and not pinned since
  raced,    \* known_hosts was not written, or was used while it was changing
  calls, rekeys

counts == <<calls, rekeys>>
vars   == <<pool, lock, conns, thread, pins, server, trusted, swept, raced, counts>>

Ids   == 1..Len(conns)
Pins  == [Hosts -> Keys \cup {None}]
NoPin == [h \in Hosts |-> None]

\* The connections; old: POOL_TTL seconds have passed since the connection was made.
Connection == [state: {"new", "open", "dead", "closed"}, old: BOOLEAN]

\* at: what comes next; copy: known_hosts as this thread has it.
Idle    == [job |-> "none", at |-> "idle", host |-> None, conn |-> 0, copy |-> NoPin]
Working == [job: {"execute", "direct", "clear"}, host: Hosts, conn: Nat, copy: Pins,
            at: {"lookup", "load", "connect", "save", "flush", "auth", "use"}]

\* The type invariant: pool, locks, connections, threads and pins are well formed.
TypeOK ==
  /\ pool \in [Hosts -> 0..Len(conns)]
  /\ lock \in [Hosts -> Threads \cup {None}]
  /\ conns \in Seq(Connection)
  /\ thread \in [Threads -> Working \cup {Idle}]
  /\ \A t \in Threads : thread[t].at \in {"connect", "auth", "use"} => thread[t].conn \in Ids
  /\ \A h \in Hosts : lock[h] # None => thread[lock[h]].job = "execute" /\ thread[lock[h]].host = h
  /\ pins \in Pins /\ trusted \in Pins /\ swept \subseteq Hosts
  /\ server \in [Hosts -> Keys]
  /\ raced \in BOOLEAN
  /\ calls \in 0..MaxCalls /\ rekeys \in 0..MaxRekeys

Init ==
  /\ pool = [h \in Hosts |-> 0]
  /\ lock = [h \in Hosts |-> None]
  /\ conns = <<>>
  /\ thread = [t \in Threads |-> Idle]
  /\ pins = NoPin /\ trusted = NoPin /\ swept = {}
  /\ server = [h \in Hosts |-> FirstKey]
  /\ raced = FALSE
  /\ calls = 0 /\ rekeys = 0

-----------------------------------------------------------------------------
(* Calls.                                                                  *)

Start(t, h, job, at) ==
  /\ thread[t] = Idle
  /\ calls < MaxCalls
  /\ calls' = calls + 1
  /\ thread' = [thread EXCEPT ![t] = [job |-> job, at |-> at, host |-> h, conn |-> 0, copy |-> NoPin]]
  /\ UNCHANGED <<pool, lock, conns, pins, server, trusted, swept, raced, rekeys>>

\* A command, over the pooled client.
execute(t, h) == Start(t, h, "execute", "lookup")

\* These make a connection of their own.
test_connection(t, h)    == Start(t, h, "direct", "load")
write_sandbox_file(t, h) == Start(t, h, "direct", "load")
deploy_key_to_host(t, h) == Start(t, h, "direct", "load")

\* The administrator forgets a host's key; nothing is connected.
clear_known_host(t, h) == Start(t, h, "clear", "load")

-----------------------------------------------------------------------------
(* Steps of a call.                                                        *)

At(t, at)    == thread[t].at = at
Now(t, at, conn, copy) ==
  [thread EXCEPT ![t] = [job |-> @.job, host |-> @.host, at |-> at, conn |-> conn, copy |-> copy]]
GoTo(t, at)  == Now(t, at, thread[t].conn, thread[t].copy)
Return(t)    == [thread EXCEPT ![t] = Idle]
Released(t)  == [h \in Hosts |-> IF lock[h] = t THEN None ELSE lock[h]]
Set(c, s)    == [conns EXCEPT ![c] = [state |-> s, old |-> FALSE]]

LockFree_Always(h) == TRUE
LockFree(h) == lock[h] = None

Usable_Reversed(c) == c # 0 /\ conns[c].state = "open" /\ conns[c].old
Usable(c) == c # 0 /\ conns[c].state = "open" /\ ~conns[c].old

\* _get_or_connect, with the lock: hand out the pooled client, or close it, take
\* it out of the pool and keep the lock to connect.
_get_or_connect(t) ==
  LET h == thread[t].host
      c == pool[h]
  IN /\ At(t, "lookup")
     /\ LockFree(h)
     /\ IF Usable(c)
        THEN /\ thread' = Now(t, "use", c, NoPin)
             /\ UNCHANGED <<pool, lock, conns>>
        ELSE /\ lock' = [lock EXCEPT ![h] = t]
             /\ pool' = [pool EXCEPT ![h] = 0]
             /\ conns' = IF c = 0 THEN conns ELSE Set(c, "closed")
             /\ thread' = GoTo(t, "load")
     /\ UNCHANGED <<pins, server, trusted, swept, raced, counts>>

Torn == \E u \in Threads : At(u, "flush")

\* The names clear_known_host deletes: the host's own and the plain hostname.
Cleared(h) == {h} \cup AlsoCleared[h]
Without(names) == [g \in Hosts |-> IF g \in names THEN None ELSE pins[g]]

\* _connect and clear_known_host read the file, torn or not; there is nothing to
\* clear when none of the names is in it.
Load(t) ==
  LET names == Cleared(thread[t].host) IN
  /\ At(t, "load")
  /\ raced' = (raced \/ Torn)
  /\ IF thread[t].job = "clear"
     THEN /\ thread' = IF \A g \in names : pins[g] = None THEN Return(t)
                       ELSE Now(t, "save", 0, Without(names))
          /\ UNCHANGED conns
     ELSE /\ conns' = Append(conns, [state |-> "new", old |-> FALSE])
          /\ thread' = Now(t, "connect", Len(conns'), pins)
  /\ UNCHANGED <<pool, lock, pins, server, trusted, swept, counts>>

\* Some other host's pin, or a pin this thread saw none of, differs from its copy.
Stale(t) ==
  LET h == thread[t].host IN
  \E g \in Hosts :
    /\ thread[t].copy[g] # pins[g]
    /\ IF thread[t].job = "clear" THEN g \notin Cleared(h) ELSE g = h => pins[g] # None

Accepted(t) == Now(t, "auth", thread[t].conn, NoPin)

\* The server presents its key: the pinned one, or one to be pinned
\* (_ManagedHostKeyPolicy); another one is refused, see ConnectFails.
Connect(t) ==
  LET h == thread[t].host
      k == server[h]
  IN /\ At(t, "connect")
     /\ thread[t].copy[h] \in {None, k}
     /\ raced' = (raced \/ Torn \/ Stale(t))
     /\ thread' = IF thread[t].copy[h] = k THEN Accepted(t)
                  ELSE Now(t, "save", thread[t].conn, [thread[t].copy EXCEPT ![h] = k])
     /\ UNCHANGED <<pool, lock, conns, pins, server, trusted, swept, counts>>

AfterSave(t) == IF thread[t].job = "clear" THEN Return(t) ELSE Accepted(t)

\* HostKeys.save opens the file, which empties it, or fails (only logged).
SaveBegin(t) ==
  /\ At(t, "save")
  /\ \/ /\ thread' = GoTo(t, "flush")
        /\ pins' = NoPin
        /\ raced' = (raced \/ Torn \/ Stale(t))
        /\ IF thread[t].job = "clear"
           THEN LET h == thread[t].host IN
                /\ trusted' = [trusted EXCEPT ![h] = None]
                /\ swept' = swept \cup AlsoCleared[h]
           ELSE UNCHANGED <<trusted, swept>>
     \/ /\ thread' = AfterSave(t)
        /\ raced' = TRUE
        /\ UNCHANGED <<pins, trusted, swept>>
  /\ UNCHANGED <<pool, lock, conns, server, counts>>

Written_OwnHost(t) == [NoPin EXCEPT ![thread[t].host] = thread[t].copy[thread[t].host]]
Written(t) == thread[t].copy

\* ... and writes every pin of this thread's copy.
SaveEnd(t) ==
  /\ At(t, "flush")
  /\ pins' = Written(t)
  /\ trusted' = [trusted EXCEPT ![thread[t].host] = thread[t].copy[thread[t].host]]
  /\ swept' = swept \ {thread[t].host}
  /\ thread' = AfterSave(t)
  /\ UNCHANGED <<pool, lock, conns, server, raced, counts>>

\* Public-key authentication succeeds: the client is used, a pooled one is put
\* into the pool and its lock released.
Authenticate(t) ==
  LET h == thread[t].host IN
  /\ At(t, "auth")
  /\ conns' = Set(thread[t].conn, "open")
  /\ pool' = IF thread[t].job = "execute" THEN [pool EXCEPT ![h] = thread[t].conn] ELSE pool
  /\ lock' = Released(t)
  /\ thread' = GoTo(t, "use")
  /\ UNCHANGED <<pins, server, trusted, swept, raced, counts>>

ConnectFails_KeepsLock(t) ==
  /\ At(t, "connect") \/ At(t, "auth")
  /\ conns' = Set(thread[t].conn, "closed")
  /\ thread' = Return(t)
  /\ UNCHANGED <<pool, lock, pins, server, trusted, swept, raced, counts>>

\* No route, a key that is not the pinned one, a refused login, a timeout: the
\* exception leaves the block that holds the lock.
ConnectFails(t) ==
  /\ At(t, "connect") \/ At(t, "auth")
  /\ conns' = Set(thread[t].conn, "closed")
  /\ lock' = Released(t)
  /\ thread' = Return(t)
  /\ UNCHANGED <<pool, pins, server, trusted, swept, raced, counts>>

\* The command ends, fails or times out; its client stays in the pool.  A direct
\* connection is closed, or by an exception left to the garbage collector.
Finish(t) ==
  LET c == thread[t].conn IN
  /\ At(t, "use")
  /\ IF thread[t].job = "direct"
     THEN conns' = Set(c, "closed")
     ELSE UNCHANGED conns
  /\ thread' = Return(t)
  /\ UNCHANGED <<pool, lock, pins, server, trusted, swept, raced, counts>>

-----------------------------------------------------------------------------
(* The network and the clock.                                              *)

Dies(c) ==
  /\ conns[c].state = "open"
  /\ conns' = Set(c, "dead")
  /\ UNCHANGED <<pool, lock, thread, pins, server, trusted, swept, raced, counts>>

\* POOL_TTL is counted from the connection, not from its last use.
GrowsOld(c) ==
  /\ conns[c].state = "open" /\ ~conns[c].old
  /\ conns' = [conns EXCEPT ![c].old = TRUE]
  /\ UNCHANGED <<pool, lock, thread, pins, server, trusted, swept, raced, counts>>

Rekeyed(h) ==
  /\ rekeys < MaxRekeys
  /\ rekeys' = rekeys + 1
  /\ \E k \in Keys \ {server[h]} : server' = [server EXCEPT ![h] = k]
  /\ UNCHANGED <<pool, lock, conns, thread, pins, trusted, swept, raced, calls>>

\* The process dies: a file that was being written stays as it is.
Restart ==
  /\ \E t \in Threads : thread[t] # Idle
  /\ pool' = [h \in Hosts |-> 0]
  /\ lock' = [h \in Hosts |-> None]
  /\ conns' = [c \in Ids |-> [state |-> "closed", old |-> FALSE]]
  /\ thread' = [t \in Threads |-> Idle]
  /\ raced' = (raced \/ Torn)
  /\ UNCHANGED <<pins, server, trusted, swept, counts>>

CallStep(t) ==
  \/ _get_or_connect(t) \/ Load(t) \/ Connect(t) \/ SaveBegin(t) \/ SaveEnd(t)
  \/ Authenticate(t) \/ ConnectFails(t) \/ Finish(t)

Next ==
  \/ \E t \in Threads, h \in Hosts :
       \/ execute(t, h) \/ test_connection(t, h) \/ write_sandbox_file(t, h)
       \/ deploy_key_to_host(t, h) \/ clear_known_host(t, h)
  \/ \E t \in Threads : CallStep(t)
  \/ \E c \in Ids : Dies(c) \/ GrowsOld(c)
  \/ \E h \in Hosts : Rekeyed(h)
  \/ Restart

\* A pooled call ends: connecting and running have deadlines.  (A direct one may
\* hang: deploy_key_to_host waits for an exit status without a deadline.)
Fairness == \A t \in Threads : WF_vars(thread[t].job = "execute" /\ CallStep(t))

Spec     == Init /\ [][Next]_vars
FairSpec == Spec /\ Fairness

-----------------------------------------------------------------------------
(* Properties.                                                             *)

\* No connection is forgotten: what is open is in the pool or in the hands of the
\* call that made it, so a host holds one pooled session, not one per race.
NothingLeaks ==
  \A c \in Ids : conns[c].state = "open" =>
    \/ \E h \in Hosts : pool[h] = c
    \/ \E t \in Threads : thread[t].conn = c

\* A host is verified on subsequent connects: the key that is accepted is the one
\* pinned before, unless the administrator cleared it, cleared another port of the
\* same hostname (swept), a write of known_hosts failed or was cut off, or a thread
\* worked from a copy that was not current (raced).
PinsAreVerified ==
  [][~raced' =>
       \A t \in Threads : At(t, "connect") /\ thread'[t].at \in {"auth", "save"} =>
         \/ thread[t].host \in swept
         \/ trusted[thread[t].host] \in {None, server[thread[t].host]}]_vars

\* _get_or_connect lends one client to several threads at once, although the comment
\* on _pool (ssh_client.py:28) says access to it is serialised.  What holds is only
\* this: a client that one thread is using is closed by another no sooner than
\* POOL_TTL has passed or the connection is dead.
NotClosedInUse ==
  [][\A c \in Ids : conns[c].state = "open" /\ conns'[c].state = "closed" /\ ~conns[c].old =>
       ~\E t \in Threads : thread[t].conn = c /\ thread'[t].conn = c]_vars

\* No failure keeps the lock of a host, on which every later command would wait.
LockIsFreed == \A t \in Threads : (\E h \in Hosts : lock[h] = t) ~> (\A h \in Hosts : lock[h] # t)
=============================================================================
