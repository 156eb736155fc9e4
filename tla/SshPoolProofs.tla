---------------------------- MODULE SshPoolProofs ----------------------------
(***************************************************************************)
(* No SSH client is forgotten, none is closed under the call that uses it  *)
(* while it is fresh, and a pinned host key is verified.  For any number   *)
(* of threads, hosts, keys, calls, failures and restarts.                  *)
(***************************************************************************)
EXTENDS SshPool, SequenceTheorems, TLAPS

\* A call that sets up a connection; a pooled one holds the lock of its host meanwhile.
SettingUp == {"load", "connect", "save", "flush", "auth"}
Connecting(t) == thread[t].job \in {"execute", "direct"} /\ thread[t].at \in {"connect", "save", "flush", "auth"}

\* The lock of a host is held by the one call that connects to it.
LockInv ==
  /\ \A t \in Threads : thread[t].job = "execute" /\ thread[t].at \in SettingUp =>
       thread[t].host \in Hosts /\ lock[thread[t].host] = t /\ pool[thread[t].host] = 0
  /\ \A h \in Hosts : lock[h] # None =>
       /\ lock[h] \in Threads
       /\ thread[lock[h]].at \in SettingUp
       /\ thread[lock[h]].job = "execute"
       /\ thread[lock[h]].host = h

\* Whose a connection is, and in which state.
ConnInv ==
  /\ \A t \in Threads : thread[t].job \in {"none", "clear"} \/ thread[t].at \in {"lookup", "load"} =>
       thread[t].conn = 0
  /\ \A t \in Threads : /\ thread[t].at = "lookup" => thread[t].job = "execute"
                        /\ thread[t].at \in {"connect", "auth", "use"} => thread[t].job \in {"execute", "direct"}
  /\ \A t \in Threads : Connecting(t) => thread[t].conn \in Ids /\ conns[thread[t].conn].state = "new"
  /\ \A t \in Threads : thread[t].at = "use" =>
       thread[t].conn \in Ids /\ conns[thread[t].conn].state # "new"
  /\ \A h \in Hosts : pool[h] # 0 => pool[h] \in Ids /\ conns[pool[h]].state # "new"
  /\ \A t, u \in Threads :
       Connecting(t) /\ thread[u].conn = thread[t].conn => t = u

\* The client of a direct call is its own.
DirectInv ==
  \A t \in Threads : thread[t].job = "direct" /\ thread[t].conn # 0 =>
    /\ \A u \in Threads : thread[u].conn = thread[t].conn => t = u
    /\ \A h \in Hosts : pool[h] # thread[t].conn

\* An open client is where it can be found.
OpenInv ==
  \A c \in Ids : conns[c].state = "open" =>
    \/ \E h \in Hosts : pool[h] = c
    \/ \E t \in Threads : thread[t].job = "direct" /\ thread[t].conn = c

\* As long as nothing was raced for, one thread at a time writes known_hosts and what
\* it writes is what is trusted, but for the pins that went with another host's.
PinInv ==
  ~raced =>
    /\ ~Torn => \A g \in Hosts \ swept : pins[g] = trusted[g]
    /\ \A t, u \in Threads : At(t, "flush") /\ At(u, "flush") => t = u
    /\ \A t \in Threads : At(t, "flush") =>
         \A g \in Hosts \ (swept \cup {thread[t].host}) : thread[t].copy[g] = trusted[g]

IInv == TypeOK /\ LockInv /\ ConnInv /\ DirectInv /\ OpenInv /\ PinInv

-----------------------------------------------------------------------------
(* Types.                                                                  *)

LEMMA Distinct ==
  /\ None \notin Threads /\ 0 \notin Ids
  /\ NoPin \in Pins
  /\ Idle.job = "none" /\ Idle.at = "idle" /\ Idle.conn = 0 /\ Idle.copy = NoPin
BY BoundAssumption DEF NoPin, Pins, Idle, Ids

\* A thread that is not idle is at work.
LEMMA AtWork ==
  ASSUME TypeOK, NEW t \in Threads
  PROVE  /\ thread[t].job # "none" => thread[t] \in Working
         /\ thread[t].at # "idle" => thread[t] \in Working
         /\ thread[t] = Idle \/ thread[t] \in Working
BY Distinct DEF TypeOK

\* What a thread at work becomes.
LEMMA NowTypes ==
  ASSUME TypeOK, NEW t \in Threads, thread[t] \in Working,
         NEW at \in {"lookup", "load", "connect", "save", "flush", "auth", "use"},
         NEW conn \in Nat, NEW copy \in Pins, thread' = Now(t, at, conn, copy)
  PROVE  /\ thread' \in [Threads -> Working \cup {Idle}]
         /\ thread'[t].job = thread[t].job /\ thread'[t].host = thread[t].host
         /\ thread'[t].at = at /\ thread'[t].conn = conn /\ thread'[t].copy = copy
         /\ \A u \in Threads \ {t} : thread'[u] = thread[u]
<1> DEFINE r == [job |-> thread[t].job, host |-> thread[t].host, at |-> at, conn |-> conn, copy |-> copy]
<1>1. r \in Working
  BY DEF Working
<1>2. thread' = [thread EXCEPT ![t] = r]
  BY DEF Now
<1>3. /\ r.job = thread[t].job /\ r.host = thread[t].host /\ r.at = at
      /\ r.conn = conn /\ r.copy = copy
  OBVIOUS
<1> HIDE DEF r
<1>4. thread'[t] = r /\ \A u \in Threads \ {t} : thread'[u] = thread[u]
  BY <1>2 DEF TypeOK
<1> QED
  BY <1>1, <1>2, <1>3, <1>4 DEF TypeOK

LEMMA SetTypes ==
  ASSUME TypeOK, NEW c \in Ids, NEW s \in {"new", "open", "dead", "closed"}
  PROVE  /\ Set(c, s) \in Seq(Connection)
         /\ Len(Set(c, s)) = Len(conns)
         /\ Set(c, s)[c].state = s
         /\ \A d \in Ids \ {c} : Set(c, s)[d] = conns[d]
<1>1. [state |-> s, old |-> FALSE] \in Connection
  BY DEF Connection
<1> QED
  BY <1>1, ExceptSeq DEF TypeOK, Ids, Set

\* What is left to show of TypeOK when the other parts are.
LEMMA Typed ==
  ASSUME TypeOK, LockInv', ConnInv', conns' \in Seq(Connection),
         pool' \in [Hosts -> 0..Len(conns')], lock' \in [Hosts -> Threads \cup {None}],
         thread' \in [Threads -> Working \cup {Idle}],
         pins' \in Pins, trusted' \in Pins, swept' \subseteq Hosts, raced' \in BOOLEAN,
         UNCHANGED <<server, calls, rekeys>>
  PROVE  TypeOK'
<1>1. \A t \in Threads : thread'[t].at \in {"connect", "auth", "use"} => thread'[t].conn \in Ids'
  BY DEF ConnInv, Connecting
<1>2. \A h \in Hosts : lock'[h] # None => thread'[lock'[h]].job = "execute" /\ thread'[lock'[h]].host = h
  BY DEF LockInv
<1>3. server' \in [Hosts -> Keys] /\ calls' \in 0..MaxCalls /\ rekeys' \in 0..MaxRekeys
  BY DEF TypeOK
<1> QED
  BY <1>1, <1>2, <1>3 DEF TypeOK

-----------------------------------------------------------------------------
(* Steps.                                                                  *)

LEMMA InitInv == Init => IInv
<1> SUFFICES ASSUME Init PROVE IInv
  OBVIOUS
<1> USE Distinct DEF Init
<1>1. TypeOK
  <2>1. conns \in Seq(Connection)
    OBVIOUS
  <2>2. \A t \in Threads : thread[t] = Idle
    OBVIOUS
  <2>3. server \in [Hosts -> Keys] /\ calls \in 0..MaxCalls /\ rekeys \in 0..MaxRekeys
    BY BoundAssumption
  <2>4. pool \in [Hosts -> 0..Len(conns)]
    OBVIOUS
  <2> QED
    BY <2>1, <2>2, <2>3, <2>4 DEF TypeOK
<1>2. LockInv /\ ConnInv /\ DirectInv
  BY DEF LockInv, ConnInv, DirectInv, Connecting, SettingUp
<1>3. OpenInv
  BY DEF OpenInv, Ids
<1>4. PinInv
  BY DEF PinInv, At, Torn
<1> QED
  BY <1>1, <1>2, <1>3, <1>4 DEF IInv

\* A call begins.
LEMMA StartStep ==
  ASSUME IInv, NEW t \in Threads, NEW h \in Hosts,
         NEW job \in {"execute", "direct", "clear"}, NEW at \in {"lookup", "load"},
         job = "execute" <=> at = "lookup", Start(t, h, job, at)
  PROVE  IInv'
<1> DEFINE r == [job |-> job, at |-> at, host |-> h, conn |-> 0, copy |-> NoPin]
<1> USE Distinct DEF IInv
<1>1. /\ thread[t] = Idle
      /\ thread' = [thread EXCEPT ![t] = r]
      /\ calls' \in 0..MaxCalls
      /\ UNCHANGED <<pool, lock, conns, pins, server, trusted, swept, raced, rekeys>>
  BY BoundAssumption DEF Start, TypeOK
<1>2. r \in Working /\ r.job = job /\ r.at = at /\ r.host = h /\ r.conn = 0
  BY DEF Working
<1> HIDE DEF r
<1>3. thread'[t] = r /\ \A u \in Threads \ {t} : thread'[u] = thread[u]
  BY <1>1 DEF TypeOK
<1>4. \A g \in Hosts : lock[g] # t
  BY <1>1 DEF LockInv
<1>5. TypeOK'
  <2>1. thread' \in [Threads -> Working \cup {Idle}]
    BY <1>1, <1>2 DEF TypeOK
  <2>2. \A u \in Threads : thread'[u].at \in {"connect", "auth", "use"} => thread'[u].conn \in Ids'
    BY <1>1, <1>2, <1>3 DEF TypeOK, Ids
  <2>3. \A g \in Hosts : lock'[g] # None => thread'[lock'[g]].job = "execute" /\ thread'[lock'[g]].host = g
    BY <1>1, <1>3, <1>4 DEF TypeOK
  <2> QED
    BY <1>1, <2>1, <2>2, <2>3 DEF TypeOK
<1>6. LockInv'
  BY <1>1, <1>2, <1>3, <1>4 DEF LockInv, SettingUp
<1>7. ConnInv'
  BY <1>1, <1>2, <1>3 DEF ConnInv, Connecting, Ids
<1>8. DirectInv' /\ OpenInv'
  BY <1>1, <1>2, <1>3 DEF DirectInv, OpenInv, Ids
<1>9. PinInv'
  BY <1>1, <1>2, <1>3 DEF PinInv, Torn, At
<1> QED
  BY <1>5, <1>6, <1>7, <1>8, <1>9

\* The pooled client is handed out, or taken out of the pool under the lock.
LEMMA LookupStep ==
  ASSUME IInv, NEW t \in Threads, _get_or_connect(t)
  PROVE  IInv'
<1> DEFINE h == thread[t].host
<1> DEFINE c == pool[h]
<1> USE Distinct DEF IInv
<1>1. thread[t].at = "lookup" /\ thread[t] \in Working /\ thread[t].conn = 0 /\ thread[t].job = "execute"
  <2>1. thread[t].at = "lookup"
    BY DEF _get_or_connect, At
  <2> QED
    BY <2>1, AtWork DEF ConnInv
<1>2. /\ h \in Hosts /\ c \in 0..Len(conns) /\ thread[t].copy \in Pins /\ lock[h] = None
      /\ UNCHANGED <<pins, server, trusted, swept, raced, calls, rekeys>>
  BY <1>1 DEF _get_or_connect, LockFree, Working, TypeOK, counts
<1>3. c # 0 => c \in Ids
  BY <1>2 DEF Ids, TypeOK
<1>4. CASE Usable(c)
  <2>1. /\ thread' = Now(t, "use", c, NoPin)
        /\ UNCHANGED <<pool, lock, conns>>
    BY <1>4 DEF _get_or_connect
  <2>2. c \in Ids /\ conns[c].state = "open" /\ c \in Nat
    BY <1>2, <1>3, <1>4 DEF Usable, Ids
  <2>3. /\ thread' \in [Threads -> Working \cup {Idle}]
        /\ thread'[t].job = "execute" /\ thread'[t].host = thread[t].host
        /\ thread'[t].at = "use" /\ thread'[t].conn = c
        /\ \A u \in Threads \ {t} : thread'[u] = thread[u]
    BY <1>1, <2>1, <2>2, NowTypes
  <2>4. \A g \in Hosts : lock[g] # t
    BY <1>1 DEF LockInv, SettingUp
  <2> HIDE DEF h, c
  <2>5. LockInv'
    BY <1>1, <2>1, <2>3, <2>4 DEF LockInv, SettingUp
  <2>7. ConnInv'
    BY <1>1, <1>2, <2>1, <2>2, <2>3 DEF ConnInv, Connecting, Ids
  <2>6. TypeOK'
    BY <1>2, <2>1, <2>3, <2>5, <2>7, Typed DEF TypeOK
  <2>8. DirectInv'
    BY <1>1, <1>2, <2>1, <2>2, <2>3 DEF DirectInv, Ids, c
  <2>9. OpenInv' /\ PinInv'
    BY <1>1, <1>2, <2>1, <2>3 DEF OpenInv, PinInv, Ids, Torn, At
  <2> QED
    BY <2>5, <2>6, <2>7, <2>8, <2>9
<1>5. CASE ~Usable(c)
  <2>1. /\ thread' = Now(t, "load", thread[t].conn, thread[t].copy)
        /\ lock' = [lock EXCEPT ![h] = t]
        /\ pool' = [pool EXCEPT ![h] = 0]
        /\ conns' = IF c = 0 THEN conns ELSE Set(c, "closed")
    BY <1>5 DEF _get_or_connect, GoTo
  <2>2. /\ conns' \in Seq(Connection) /\ Len(conns') = Len(conns)
        /\ c # 0 => conns'[c].state = "closed"
        /\ \A d \in Ids : d # c => conns'[d] = conns[d]
    BY <1>3, <2>1, SetTypes DEF TypeOK
  <2>3. /\ thread' \in [Threads -> Working \cup {Idle}]
        /\ thread'[t].job = "execute" /\ thread'[t].host = h
        /\ thread'[t].at = "load" /\ thread'[t].conn = 0
        /\ \A u \in Threads \ {t} : thread'[u] = thread[u]
    BY <1>1, <1>2, <2>1, NowTypes
  <2>4. /\ lock' \in [Hosts -> Threads \cup {None}] /\ pool' \in [Hosts -> 0..Len(conns')]
        /\ lock'[h] = t /\ pool'[h] = 0
        /\ \A g \in Hosts \ {h} : lock'[g] = lock[g] /\ pool'[g] = pool[g]
        /\ Ids' = Ids
    BY <1>2, <2>1, <2>2 DEF TypeOK, Ids
  <2>5. \A g \in Hosts : lock[g] # t
    BY <1>1 DEF LockInv, SettingUp
  <2> HIDE DEF h, c
  <2>6. LockInv'
    BY <1>2, <2>3, <2>4, <2>5 DEF LockInv, SettingUp
  <2>8. c # 0 => conns[c].state # "new"
    BY <1>2 DEF ConnInv, h, c
  <2>9. ConnInv'
    <3>1. \A d \in Ids : conns'[d].state = "new" <=> conns[d].state = "new"
      BY <2>2, <2>8
    <3>2. \A g \in Hosts : pool'[g] # 0 => pool'[g] \in Ids' /\ conns'[pool'[g]].state # "new"
      BY <1>2, <2>4, <3>1 DEF ConnInv
    <3> QED
      BY <2>3, <2>4, <3>1, <3>2 DEF ConnInv, Connecting
  <2>7. TypeOK'
    BY <1>2, <2>2, <2>3, <2>4, <2>6, <2>9, Typed DEF TypeOK
  <2>10. DirectInv'
    BY <1>1, <2>3, <2>4, SMTT(40) DEF DirectInv
  <2>11. OpenInv'
    <3>1. ASSUME NEW d \in Ids, conns'[d].state = "open" PROVE d # c /\ conns[d].state = "open"
      BY <1>2, <2>2, <3>1 DEF Ids
    <3> QED
      BY <1>1, <2>3, <2>4, <3>1 DEF OpenInv, h, c
  <2>12. PinInv'
    BY <1>1, <1>2, <2>3 DEF PinInv, Torn, At
  <2> QED
    BY <2>6, <2>7, <2>9, <2>10, <2>11, <2>12
<1> QED
  BY <1>4, <1>5

\* A thread has a connection that exists, or none.
LEMMA Held ==
  ASSUME TypeOK, ConnInv, NEW u \in Threads
  PROVE  thread[u].conn = 0 \/ thread[u].conn \in Ids
<1>1. CASE thread[u] = Idle
  BY <1>1, Distinct
<1>2. CASE thread[u] \in Working
  <2>1. /\ thread[u].job \in {"execute", "direct", "clear"}
        /\ thread[u].at \in {"lookup", "load", "connect", "save", "flush", "auth", "use"}
    BY <1>2 DEF Working
  <2> QED
    BY <2>1 DEF ConnInv, Connecting
<1> QED
  BY <1>1, <1>2, AtWork

\* A call that has read known_hosts: who clears returns or goes on to save, who
\* connects has a client that nobody else has.
LEMMA LoadStep ==
  ASSUME IInv, NEW t \in Threads, Load(t)
  PROVE  IInv'
<1> USE Distinct DEF IInv
<1>1. /\ thread[t].at = "load" /\ thread[t] \in Working /\ thread[t].conn = 0
      /\ thread[t].job \in {"execute", "direct", "clear"} /\ thread[t].host \in Hosts
      /\ UNCHANGED <<pool, lock, pins, server, trusted, swept, calls, rekeys>>
  <2>1. thread[t].at = "load"
    BY DEF Load, At
  <2>2. thread[t] \in Working
    BY <2>1, AtWork
  <2> QED
    BY <2>1, <2>2 DEF Load, ConnInv, Working, counts
<1>2. raced' \in BOOLEAN /\ (~raced' => ~raced /\ ~Torn)
  BY Zenon DEF Load
<1>3. CASE thread[t].job = "clear"
  <2>1. /\ UNCHANGED conns
        /\ thread'[t].conn = 0 /\ thread'[t].job \in {"none", "clear"} /\ thread'[t].at \in {"idle", "save"}
        /\ thread' \in [Threads -> Working \cup {Idle}]
        /\ \A u \in Threads \ {t} : thread'[u] = thread[u]
    <3> DEFINE names == Cleared(thread[t].host)
    <3>1. CASE \A g \in names : pins[g] = None
      BY <1>3, <3>1 DEF Load, Return, TypeOK
    <3>2. CASE ~\A g \in names : pins[g] = None
      <4>1. Without(names) \in Pins
        BY DEF TypeOK, Pins, Without
      <4>2. thread' = Now(t, "save", 0, Without(names)) /\ 0 \in Nat
        BY <1>3, <3>2 DEF Load
      <4>3. UNCHANGED conns
        BY <1>3 DEF Load
      <4> HIDE DEF IInv, names
      <4> QED
        BY <1>1, <1>3, <3>2, <4>1, <4>2, <4>3, NowTypes DEF IInv
    <3> QED
      BY <3>1, <3>2
  <2>2. LockInv'
    BY <1>1, <1>3, <2>1 DEF LockInv, SettingUp
  <2>3. ConnInv'
    BY <1>1, <1>3, <2>1 DEF ConnInv, Connecting, Ids
  <2>4. TypeOK'
    BY <1>1, <1>2, <2>1, <2>2, <2>3, Typed DEF TypeOK
  <2>5. DirectInv'
    BY <1>1, <1>3, <2>1 DEF DirectInv
  <2>6. OpenInv'
    BY <1>1, <1>3, <2>1 DEF OpenInv, Ids
  <2>7. PinInv'
    BY <1>1, <1>2, <2>1 DEF PinInv, Torn, At
  <2> QED
    BY <2>2, <2>3, <2>4, <2>5, <2>6, <2>7
<1>4. CASE thread[t].job # "clear"
  <2> DEFINE new == [state |-> "new", old |-> FALSE]
  <2>1. /\ conns' = Append(conns, new)
        /\ thread' = Now(t, "connect", Len(conns'), pins)
    BY <1>4 DEF Load
  <2>2. /\ conns' \in Seq(Connection) /\ Len(conns') = Len(conns) + 1
        /\ conns'[Len(conns')].state = "new"
        /\ \A d \in Ids : conns'[d] = conns[d]
        /\ Ids' = Ids \cup {Len(conns')} /\ Len(conns') \in Nat /\ Len(conns') \notin Ids
    <3>1. new \in Connection /\ new.state = "new"
      BY DEF Connection
    <3> HIDE DEF new
    <3> QED
      BY <2>1, <3>1 DEF TypeOK, Ids
  <2>3. /\ thread' \in [Threads -> Working \cup {Idle}]
        /\ thread'[t].job = thread[t].job /\ thread'[t].host = thread[t].host
        /\ thread'[t].at = "connect" /\ thread'[t].conn = Len(conns')
        /\ \A u \in Threads \ {t} : thread'[u] = thread[u]
    BY <1>1, <2>1, <2>2, NowTypes DEF TypeOK
  <2>4. pool' \in [Hosts -> 0..Len(conns')]
    BY <1>1, <2>2 DEF TypeOK
  <2>5. \A u \in Threads : thread[u].conn # Len(conns')
    BY <2>2, Held
  <2> HIDE DEF new
  <2>6. LockInv'
    BY <1>1, <2>3 DEF LockInv, SettingUp
  <2>7. ConnInv'
    BY <1>1, <1>4, <2>2, <2>3, <2>5 DEF ConnInv, Connecting
  <2>8. TypeOK'
    BY <1>1, <1>2, <2>2, <2>3, <2>4, <2>6, <2>7, Typed DEF TypeOK
  <2>9. DirectInv'
    <3>1. \A h \in Hosts : pool[h] # Len(conns')
      BY <2>2 DEF TypeOK
    <3> QED
      BY <1>1, <2>3, <2>5, <3>1 DEF DirectInv
  <2>10. OpenInv'
    BY <1>1, <2>2, <2>3 DEF OpenInv
  <2>11. PinInv'
    BY <1>1, <1>2, <2>3 DEF PinInv, Torn, At
  <2> QED
    BY <2>6, <2>7, <2>8, <2>9, <2>10, <2>11
<1> QED
  BY <1>3, <1>4

\* A call that goes on without a change to the pool or its client.
LEMMA MovesOn ==
  ASSUME IInv, NEW t \in Threads, thread[t].at \in {"connect", "save", "flush"},
         \A u \in Threads \ {t} : thread'[u] = thread[u],
         \/ /\ thread'[t].job = thread[t].job /\ thread'[t].host = thread[t].host
            /\ thread'[t].conn = thread[t].conn
            /\ thread'[t].at \in {"save", "flush"} \/ (thread'[t].at = "auth" /\ thread[t].job # "clear")
         \/ thread[t].job = "clear" /\ thread'[t] = Idle,
         UNCHANGED <<pool, lock, conns>>
  PROVE  LockInv' /\ ConnInv' /\ DirectInv' /\ OpenInv'
<1> USE Distinct DEF IInv
<1>1. thread[t] \in Working /\ thread[t].job \in {"execute", "direct", "clear"}
  BY AtWork DEF Working
<1>2. CASE thread[t].job = "clear" /\ thread'[t] = Idle
  <2>1. LockInv'
    BY <1>2 DEF LockInv, SettingUp
  <2>2. ConnInv'
    BY <1>2 DEF ConnInv, Connecting, Ids
  <2>3. DirectInv'
    BY <1>2 DEF DirectInv
  <2>4. OpenInv'
    BY <1>2 DEF OpenInv, Ids
  <2> QED
    BY <2>1, <2>2, <2>3, <2>4
<1>3. CASE /\ thread'[t].job = thread[t].job /\ thread'[t].host = thread[t].host
           /\ thread'[t].conn = thread[t].conn
           /\ thread'[t].at \in {"save", "flush"} \/ (thread'[t].at = "auth" /\ thread[t].job # "clear")
  <2>1. LockInv'
    BY <1>3 DEF LockInv, SettingUp
  <2>2. Connecting(t)' <=> Connecting(t)
    BY <1>3 DEF Connecting
  <2>3. \A u \in Threads : thread'[u].conn = thread[u].conn /\ thread'[u].job = thread[u].job
                             /\ (Connecting(u)' <=> Connecting(u))
    BY <1>3, <2>2 DEF Connecting
  <2>4. ConnInv'
    BY <1>1, <1>3, <2>3 DEF ConnInv, Ids
  <2>5. DirectInv'
    BY <1>3, <2>3 DEF DirectInv
  <2>6. OpenInv'
    BY <1>3, <2>3 DEF OpenInv, Ids
  <2> QED
    BY <2>1, <2>4, <2>5, <2>6
<1> QED
  BY <1>2, <1>3

\* The host presents its key.
LEMMA ConnectStep ==
  ASSUME IInv, NEW t \in Threads, Connect(t)
  PROVE  IInv'
<1> DEFINE k == server[thread[t].host]
<1> USE Distinct DEF IInv
<1>1. /\ thread[t].at = "connect" /\ thread[t] \in Working
      /\ thread[t].job # "clear" /\ thread[t].conn \in Nat /\ thread[t].host \in Hosts
      /\ thread[t].copy \in Pins /\ k \in Keys
      /\ UNCHANGED <<pool, lock, conns, pins, server, trusted, swept, calls, rekeys>>
  <2>1. thread[t].at = "connect"
    BY DEF Connect, At
  <2>2. thread[t] \in Working
    BY <2>1, AtWork
  <2> QED
    BY <2>1, <2>2 DEF Connect, ConnInv, Working, TypeOK, counts
<1>2. raced' \in BOOLEAN /\ (~raced' => ~raced /\ ~Torn)
  BY Zenon DEF Connect
<1>3. /\ thread' \in [Threads -> Working \cup {Idle}]
      /\ thread'[t].job = thread[t].job /\ thread'[t].host = thread[t].host
      /\ thread'[t].conn = thread[t].conn /\ thread'[t].at \in {"auth", "save"}
      /\ \A u \in Threads \ {t} : thread'[u] = thread[u]
  <2>1. CASE thread[t].copy[thread[t].host] = k
    BY <1>1, <2>1, NowTypes DEF Connect, Accepted
  <2>2. CASE thread[t].copy[thread[t].host] # k
    <3> DEFINE copy == [thread[t].copy EXCEPT ![thread[t].host] = k]
    <3>1. copy \in Pins
      BY <1>1 DEF Pins
    <3>2. thread' = Now(t, "save", thread[t].conn, copy)
      BY <2>2 DEF Connect
    <3> HIDE DEF copy
    <3> QED
      BY <1>1, <3>1, <3>2, NowTypes
  <2> QED
    BY <2>1, <2>2
<1>4. LockInv' /\ ConnInv' /\ DirectInv' /\ OpenInv'
  BY <1>1, <1>3, MovesOn
<1>5. TypeOK'
  BY <1>1, <1>2, <1>3, <1>4, Typed DEF TypeOK
<1>6. PinInv'
  BY <1>1, <1>2, <1>3 DEF PinInv, Torn, At
<1> QED
  BY <1>4, <1>5, <1>6

\* known_hosts is opened, or cannot be.
LEMMA SaveBeginStep ==
  ASSUME IInv, NEW t \in Threads, SaveBegin(t)
  PROVE  IInv'
<1> DEFINE h == thread[t].host
<1> USE Distinct DEF IInv
<1>1. /\ thread[t].at = "save" /\ thread[t] \in Working
      /\ thread[t].conn \in Nat /\ h \in Hosts /\ thread[t].copy \in Pins
      /\ UNCHANGED <<pool, lock, conns, server, calls, rekeys>>
  <2>1. thread[t].at = "save"
    BY DEF SaveBegin, At
  <2>2. thread[t] \in Working
    BY <2>1, AtWork
  <2> QED
    BY <2>1, <2>2 DEF SaveBegin, Working, counts
<1>2. CASE /\ thread' = GoTo(t, "flush")
           /\ pins' = NoPin
           /\ raced' = (raced \/ Torn \/ Stale(t))
           /\ IF thread[t].job = "clear"
              THEN trusted' = [trusted EXCEPT ![h] = None] /\ swept' = swept \cup AlsoCleared[h]
              ELSE UNCHANGED <<trusted, swept>>
  <2>1. raced' \in BOOLEAN /\ (~raced' => ~raced /\ ~Torn /\ ~Stale(t))
    BY <1>2, Zenon
  <2>2. thread' = Now(t, "flush", thread[t].conn, thread[t].copy)
    BY <1>2 DEF GoTo
  <2>3. /\ thread' \in [Threads -> Working \cup {Idle}]
        /\ thread'[t].job = thread[t].job /\ thread'[t].host = h /\ thread'[t].copy = thread[t].copy
        /\ thread'[t].conn = thread[t].conn /\ thread'[t].at = "flush"
        /\ \A u \in Threads \ {t} : thread'[u] = thread[u]
    BY <1>1, <2>2, NowTypes
  <2>4. LockInv' /\ ConnInv' /\ DirectInv' /\ OpenInv'
    BY <1>1, <2>3, MovesOn
  <2>5. /\ trusted' \in Pins /\ \A g \in Hosts \ {h} : trusted'[g] = trusted[g]
        /\ swept' \subseteq Hosts /\ swept \subseteq swept'
        /\ thread[t].job = "clear" => AlsoCleared[h] \subseteq swept'
    <3>1. AlsoCleared[h] \subseteq Hosts
      BY <1>1, BoundAssumption
    <3> QED
      BY <1>1, <1>2, <3>1 DEF TypeOK, Pins
  <2>6. TypeOK'
    BY <1>1, <1>2, <2>1, <2>3, <2>4, <2>5, Typed DEF TypeOK
  <2>7. PinInv'
    <3> SUFFICES ASSUME ~raced' PROVE PinInv'
      BY DEF PinInv
    <3>1. \A g \in Hosts \ (swept' \cup {h}) : thread[t].copy[g] = pins[g] /\ pins[g] = trusted[g]
      BY <2>1, <2>5 DEF PinInv, Stale, Cleared
    <3>2. \A u \in Threads : thread'[u].at = "flush" => u = t
      BY <2>1, <2>3 DEF Torn, At
    <3>3. \A g \in Hosts \ (swept' \cup {h}) : thread'[t].copy[g] = trusted'[g]
      BY <2>3, <2>5, <3>1
    <3>4. Torn'
      BY <2>3 DEF Torn, At
    <3> QED
      BY <2>3, <3>2, <3>3, <3>4 DEF PinInv, At
  <2> QED
    BY <2>4, <2>6, <2>7
<1>3. CASE /\ thread' = AfterSave(t)
           /\ raced' = TRUE
           /\ UNCHANGED <<pins, trusted, swept>>
  <2>1. /\ thread' \in [Threads -> Working \cup {Idle}]
        /\ \A u \in Threads \ {t} : thread'[u] = thread[u]
        /\ \/ /\ thread'[t].job = thread[t].job /\ thread'[t].host = thread[t].host
              /\ thread'[t].conn = thread[t].conn
              /\ thread'[t].at = "auth" /\ thread[t].job # "clear"
           \/ thread[t].job = "clear" /\ thread'[t] = Idle
    <3>1. CASE thread[t].job = "clear"
      BY <1>3, <3>1 DEF AfterSave, Return, TypeOK
    <3>2. CASE thread[t].job # "clear"
      BY <1>1, <1>3, <3>2, NowTypes DEF AfterSave, Accepted
    <3> QED
      BY <3>1, <3>2
  <2>2. LockInv' /\ ConnInv' /\ DirectInv' /\ OpenInv'
    BY <1>1, <2>1, MovesOn
  <2>3. TypeOK'
    BY <1>1, <1>3, <2>1, <2>2, Typed DEF TypeOK
  <2> QED
    BY <1>3, <2>2, <2>3 DEF PinInv
<1> QED
  BY <1>2, <1>3 DEF SaveBegin

\* known_hosts holds what this thread has.
LEMMA SaveEndStep ==
  ASSUME IInv, NEW t \in Threads, SaveEnd(t)
  PROVE  IInv'
<1> DEFINE h == thread[t].host
<1> USE Distinct DEF IInv
<1>1. /\ thread[t].at = "flush" /\ thread[t] \in Working
      /\ thread[t].conn \in Nat /\ h \in Hosts /\ thread[t].copy \in Pins
      /\ UNCHANGED <<pool, lock, conns, server, calls, rekeys, raced>>
      /\ pins' = thread[t].copy /\ trusted' = [trusted EXCEPT ![h] = thread[t].copy[h]]
      /\ swept' = swept \ {h}
  <2>1. thread[t].at = "flush"
    BY DEF SaveEnd, At
  <2>2. thread[t] \in Working
    BY <2>1, AtWork
  <2> QED
    BY <2>1, <2>2 DEF SaveEnd, Written, Working, counts
<1>2. /\ thread' \in [Threads -> Working \cup {Idle}]
      /\ \A u \in Threads \ {t} : thread'[u] = thread[u]
      /\ \/ /\ thread'[t].job = thread[t].job /\ thread'[t].host = thread[t].host
            /\ thread'[t].conn = thread[t].conn
            /\ thread'[t].at = "auth" /\ thread[t].job # "clear"
         \/ thread[t].job = "clear" /\ thread'[t] = Idle
  <2>1. CASE thread[t].job = "clear"
    BY <2>1 DEF SaveEnd, AfterSave, Return, TypeOK
  <2>2. CASE thread[t].job # "clear"
    BY <1>1, <2>2, NowTypes DEF SaveEnd, AfterSave, Accepted
  <2> QED
    BY <2>1, <2>2
<1>3. LockInv' /\ ConnInv' /\ DirectInv' /\ OpenInv'
  BY <1>1, <1>2, MovesOn
<1>4. /\ trusted' \in Pins /\ swept' \subseteq Hosts
      /\ trusted'[h] = thread[t].copy[h] /\ \A g \in Hosts \ {h} : trusted'[g] = trusted[g]
  BY <1>1 DEF TypeOK, Pins
<1>5. TypeOK'
  BY <1>1, <1>2, <1>3, <1>4, Typed DEF TypeOK
<1>6. PinInv'
  <2> SUFFICES ASSUME ~raced' PROVE PinInv'
    BY DEF PinInv
  <2>1. \A g \in Hosts \ swept' : thread[t].copy[g] = trusted'[g]
    BY <1>1, <1>4 DEF PinInv, At
  <2>2. \A g \in Hosts \ swept' : pins'[g] = trusted'[g]
    BY <1>1, <2>1
  <2>3. \A u \in Threads : thread'[u].at # "flush"
    BY <1>1, <1>2 DEF PinInv, At
  <2> QED
    BY <2>2, <2>3 DEF PinInv, At
<1> QED
  BY <1>3, <1>5, <1>6

\* The client is ready: the pool has it, or the call itself.
LEMMA AuthenticateStep ==
  ASSUME IInv, NEW t \in Threads, Authenticate(t)
  PROVE  IInv'
<1> DEFINE h == thread[t].host
<1> DEFINE c == thread[t].conn
<1> USE Distinct DEF IInv
<1>1. /\ thread[t].at = "auth" /\ thread[t] \in Working /\ h \in Hosts
      /\ thread[t].copy \in Pins /\ c \in Nat /\ thread[t].job \in {"execute", "direct"}
      /\ UNCHANGED <<pins, server, trusted, swept, raced, calls, rekeys>>
  <2>1. thread[t].at = "auth"
    BY DEF Authenticate, At
  <2>2. thread[t] \in Working
    BY <2>1, AtWork
  <2> QED
    BY <2>1, <2>2 DEF Authenticate, ConnInv, Working, counts
<1>2. /\ Connecting(t) /\ c \in Ids /\ conns[c].state = "new"
      /\ \A u \in Threads : thread[u].conn = c => u = t
      /\ \A g \in Hosts : pool[g] # c
  <2>1. Connecting(t)
    BY <1>1 DEF Connecting
  <2>2. c \in Ids /\ conns[c].state = "new" /\ \A u \in Threads : thread[u].conn = c => u = t
    BY <2>1 DEF ConnInv
  <2> QED
    BY <2>1, <2>2 DEF ConnInv
<1>3. /\ conns' = Set(c, "open")
      /\ pool' = IF thread[t].job = "execute" THEN [pool EXCEPT ![h] = c] ELSE pool
      /\ lock' = Released(t)
      /\ thread' = Now(t, "use", c, thread[t].copy)
  BY DEF Authenticate, GoTo
<1>4. /\ conns' \in Seq(Connection) /\ Len(conns') = Len(conns) /\ Ids' = Ids
      /\ conns'[c].state = "open"
      /\ \A d \in Ids : d # c => conns'[d] = conns[d]
  BY <1>2, <1>3, SetTypes DEF Ids
<1>5. /\ thread' \in [Threads -> Working \cup {Idle}]
      /\ thread'[t].job = thread[t].job /\ thread'[t].host = h
      /\ thread'[t].at = "use" /\ thread'[t].conn = c
      /\ \A u \in Threads \ {t} : thread'[u] = thread[u]
  BY <1>1, <1>3, NowTypes
<1>6. /\ pool' \in [Hosts -> 0..Len(conns')]
      /\ thread[t].job = "execute" => pool'[h] = c /\ pool[h] = 0 /\ lock[h] = t
      /\ \A g \in Hosts : pool'[g] # pool[g] => g = h /\ thread[t].job = "execute" /\ pool'[g] = c
  <2>1. c \in 0..Len(conns')
    BY <1>2, <1>4 DEF Ids
  <2>2. thread[t].job = "execute" => pool[h] = 0 /\ lock[h] = t
    BY <1>1 DEF LockInv, SettingUp
  <2> QED
    BY <1>1, <1>3, <1>4, <2>1, <2>2 DEF TypeOK
<1>7. /\ lock' \in [Hosts -> Threads \cup {None}]
      /\ \A g \in Hosts : lock'[g] # t /\ (lock[g] # t => lock'[g] = lock[g])
                            /\ (lock'[g] # None => lock'[g] = lock[g])
  BY <1>3 DEF Released, TypeOK
<1> HIDE DEF h, c
<1>8. LockInv'
  BY <1>1, <1>5, <1>6, <1>7 DEF LockInv, SettingUp
<1>9. ConnInv'
  <2>1. \A g \in Hosts : pool'[g] # 0 => pool'[g] \in Ids' /\ conns'[pool'[g]].state # "new"
    BY <1>2, <1>4, <1>6 DEF ConnInv
  <2>2. ASSUME NEW u \in Threads, Connecting(u)'
        PROVE  /\ u # t /\ Connecting(u)
               /\ thread'[u].conn \in Ids' /\ conns'[thread'[u].conn].state = "new"
               /\ \A v \in Threads : thread'[v].conn = thread'[u].conn => v = u
    <3>1. u # t /\ Connecting(u) /\ thread'[u].conn = thread[u].conn
      BY <1>5, <2>2 DEF Connecting
    <3>2. thread[u].conn # c
      BY <1>2, <3>1
    <3>3. thread[u].conn \in Ids /\ conns[thread[u].conn].state = "new"
      BY <3>1 DEF ConnInv
    <3>4. \A v \in Threads : thread'[v].conn = thread[v].conn
      BY <1>5 DEF c
    <3>5. \A v \in Threads : thread[v].conn = thread[u].conn => v = u
      BY <3>1 DEF ConnInv
    <3> QED
      BY <1>4, <3>1, <3>2, <3>3, <3>4, <3>5
  <2>3. \A u \in Threads : thread'[u].at = "use" => thread'[u].conn \in Ids' /\ conns'[thread'[u].conn].state # "new"
    BY <1>2, <1>4, <1>5 DEF ConnInv
  <2>4. \A u \in Threads : /\ thread'[u].job \in {"none", "clear"} \/ thread'[u].at \in {"lookup", "load"} =>
                                thread'[u].conn = 0
                           /\ thread'[u].at = "lookup" => thread'[u].job = "execute"
                           /\ thread'[u].at \in {"connect", "auth", "use"} => thread'[u].job \in {"execute", "direct"}
    BY <1>1, <1>5 DEF ConnInv
  <2> QED
    BY <2>1, <2>2, <2>3, <2>4 DEF ConnInv
<1>10. TypeOK'
  BY <1>1, <1>4, <1>5, <1>6, <1>7, <1>8, <1>9, Typed DEF TypeOK
<1>11. DirectInv'
  BY <1>1, <1>2, <1>5, <1>6 DEF DirectInv, c
<1>12. OpenInv'
  <2> SUFFICES ASSUME NEW d \in Ids, conns'[d].state = "open"
               PROVE  \/ \E g \in Hosts : pool'[g] = d
                      \/ \E u \in Threads : thread'[u].job = "direct" /\ thread'[u].conn = d
    BY <1>4 DEF OpenInv
  <2>1. CASE d = c
    BY <1>1, <1>5, <1>6, <2>1
  <2>2. CASE d # c
    <3>1. conns[d].state = "open"
      BY <1>4, <2>2
    <3>2. CASE \E g \in Hosts : pool[g] = d
      <4>1. PICK g \in Hosts : pool[g] = d
        BY <3>2
      <4>2. d # 0
        OBVIOUS
      <4> QED
        BY <1>6, <4>1, <4>2
    <3>3. CASE \E u \in Threads : thread[u].job = "direct" /\ thread[u].conn = d
      BY <1>5, <2>2, <3>3 DEF c
    <3> QED
      BY <3>1, <3>2, <3>3 DEF OpenInv
  <2> QED
    BY <2>1, <2>2
<1>13. PinInv'
  BY <1>1, <1>5 DEF PinInv, Torn, At
<1> QED
  BY <1>8, <1>9, <1>10, <1>11, <1>12, <1>13

\* A call that returns and lets go of the lock, if it had it; the clients that
\* are left are as open as they were.
LEMMA GoesHome ==
  ASSUME IInv, NEW t \in Threads, thread' = Return(t), lock' = Released(t),
         conns' \in Seq(Connection), Len(conns') = Len(conns),
         \A d \in Ids : \/ conns'[d].state = conns[d].state
                        \/ d = thread[t].conn /\ conns'[d].state = "closed",
         \/ conns'[thread[t].conn].state # "open"
         \/ \E h \in Hosts : pool[h] = thread[t].conn
         \/ thread[t].conn = 0,
         thread[t].at # "flush",
         UNCHANGED <<pool, pins, server, trusted, swept, raced, calls, rekeys>>
  PROVE  IInv'
<1> USE Distinct DEF IInv
<1>1. /\ thread' \in [Threads -> Working \cup {Idle}]
      /\ thread'[t] = Idle
      /\ \A u \in Threads \ {t} : thread'[u] = thread[u]
  BY DEF Return, TypeOK
<1>2. /\ lock' \in [Hosts -> Threads \cup {None}]
      /\ \A g \in Hosts : lock'[g] # t /\ (lock[g] # t => lock'[g] = lock[g])
                            /\ (lock'[g] # None => lock'[g] = lock[g])
  BY DEF Released, TypeOK
<1>3. Ids' = Ids /\ pool' \in [Hosts -> 0..Len(conns')]
  BY DEF Ids, TypeOK
<1>4. LockInv'
  BY <1>1, <1>2 DEF LockInv, SettingUp
<1>5. ConnInv'
  <2>1. \A g \in Hosts : pool'[g] # 0 => pool'[g] \in Ids' /\ conns'[pool'[g]].state # "new"
    BY <1>3 DEF ConnInv
  <2>2. ASSUME NEW u \in Threads, Connecting(u)'
        PROVE  /\ thread'[u].conn \in Ids' /\ conns'[thread'[u].conn].state = "new"
               /\ \A v \in Threads : thread'[v].conn = thread'[u].conn => u = v
    <3>1. u # t /\ Connecting(u) /\ thread'[u].conn = thread[u].conn
      BY <1>1, <2>2 DEF Connecting
    <3>2. /\ thread[u].conn \in Ids /\ conns[thread[u].conn].state = "new"
          /\ \A v \in Threads : thread[v].conn = thread[u].conn => u = v
      BY <3>1 DEF ConnInv
    <3> QED
      BY <1>1, <1>3, <3>1, <3>2
  <2>3. \A u \in Threads : thread'[u].at = "use" => thread'[u].conn \in Ids' /\ conns'[thread'[u].conn].state # "new"
    BY <1>1, <1>3 DEF ConnInv
  <2>4. \A u \in Threads : /\ thread'[u].job \in {"none", "clear"} \/ thread'[u].at \in {"lookup", "load"} =>
                                thread'[u].conn = 0
                           /\ thread'[u].at = "lookup" => thread'[u].job = "execute"
                           /\ thread'[u].at \in {"connect", "auth", "use"} => thread'[u].job \in {"execute", "direct"}
    BY <1>1 DEF ConnInv
  <2> QED
    BY <2>1, <2>2, <2>3, <2>4 DEF ConnInv
<1>6. TypeOK'
  BY <1>1, <1>2, <1>3, <1>4, <1>5, Typed DEF TypeOK
<1>7. DirectInv'
  BY <1>1 DEF DirectInv
<1>8. OpenInv'
  <2> SUFFICES ASSUME NEW d \in Ids, conns'[d].state = "open"
               PROVE  \/ \E g \in Hosts : pool'[g] = d
                      \/ \E u \in Threads : thread'[u].job = "direct" /\ thread'[u].conn = d
    BY <1>3 DEF OpenInv
  <2>1. conns[d].state = "open"
    OBVIOUS
  <2>2. d = thread[t].conn => \E g \in Hosts : pool[g] = d
    OBVIOUS
  <2> QED
    BY <1>1, <2>1, <2>2 DEF OpenInv
<1>9. PinInv'
  <2>1. \A u \in Threads : At(u, "flush")' => u # t /\ At(u, "flush")
    BY <1>1 DEF At
  <2>2. Torn' <=> Torn
    BY <1>1, <2>1 DEF Torn, At
  <2> QED
    BY <1>1, <2>1, <2>2 DEF PinInv, At
<1> QED
  BY <1>4, <1>5, <1>6, <1>7, <1>8, <1>9

LEMMA ConnectFailsStep ==
  ASSUME IInv, NEW t \in Threads, ConnectFails(t)
  PROVE  IInv'
<1> USE DEF IInv
<1>1. thread[t].at \in {"connect", "auth"}
  BY DEF ConnectFails, At
<1>2. thread[t].conn \in Ids
  BY <1>1 DEF TypeOK
<1>3. /\ thread' = Return(t) /\ lock' = Released(t) /\ conns' = Set(thread[t].conn, "closed")
      /\ UNCHANGED <<pool, pins, server, trusted, swept, raced, calls, rekeys>>
  BY DEF ConnectFails, counts
<1>4. /\ conns' \in Seq(Connection) /\ Len(conns') = Len(conns)
      /\ conns'[thread[t].conn].state = "closed"
      /\ \A d \in Ids \ {thread[t].conn} : conns'[d] = conns[d]
  BY <1>2, <1>3, SetTypes
<1> HIDE DEF IInv
<1> QED
  BY <1>1, <1>3, <1>4, GoesHome

\* A call returns; its client stays in the pool, or is closed.
LEMMA FinishStep ==
  ASSUME IInv, NEW t \in Threads, Finish(t)
  PROVE  IInv'
<1> USE Distinct DEF IInv
<1>1. /\ thread[t].at = "use" /\ thread' = Return(t)
      /\ UNCHANGED <<pool, lock, pins, server, trusted, swept, raced, calls, rekeys>>
  BY DEF Finish, At, counts
<1>2. thread[t].conn \in Ids /\ thread[t].job \in {"execute", "direct"}
  BY <1>1 DEF ConnInv
<1>3. lock' = Released(t)
  <2>1. \A g \in Hosts : lock[g] # t
    BY <1>1 DEF LockInv, SettingUp
  <2> QED
    BY <1>1, <2>1 DEF Released, TypeOK
<1>4. CASE thread[t].job = "direct"
  <2>1. /\ conns' \in Seq(Connection) /\ Len(conns') = Len(conns)
        /\ conns'[thread[t].conn].state = "closed"
        /\ \A d \in Ids \ {thread[t].conn} : conns'[d] = conns[d]
    BY <1>2, <1>4, SetTypes DEF Finish
  <2> HIDE DEF IInv
  <2> QED
    BY <1>1, <1>3, <2>1, GoesHome
<1>5. CASE thread[t].job = "execute"
  <2>1. UNCHANGED conns
    BY <1>5 DEF Finish
  <2>2. \/ conns[thread[t].conn].state # "open"
        \/ \E h \in Hosts : pool[h] = thread[t].conn
    <3>1. \A u \in Threads : thread[u].job = "direct" => thread[u].conn # thread[t].conn
      <4>1. t \in Threads /\ thread[t].conn # 0
        BY <1>2
      <4> QED
        BY <1>5, <4>1 DEF DirectInv
    <3> QED
      BY <1>2, <3>1 DEF OpenInv
  <2>3. conns' \in Seq(Connection)
    BY <2>1 DEF TypeOK
  <2> HIDE DEF IInv
  <2> QED
    BY <1>1, <1>3, <2>1, <2>2, <2>3, GoesHome
<1> QED
  BY <1>2, <1>4, <1>5

\* Clients die and grow old, hosts change their keys.
LEMMA WorldStep ==
  ASSUME IInv, (\E c \in Ids : Dies(c) \/ GrowsOld(c)) \/ (\E h \in Hosts : Rekeyed(h))
  PROVE  IInv'
<1> USE Distinct DEF IInv
<1>1. ASSUME NEW c \in Ids, Dies(c) \/ GrowsOld(c) PROVE IInv'
  <2>1. /\ UNCHANGED <<pool, lock, thread, pins, server, trusted, swept, raced, calls, rekeys>>
        /\ conns[c].state = "open"
    BY <1>1 DEF Dies, GrowsOld, counts
  <2>2. /\ conns' \in Seq(Connection) /\ Len(conns') = Len(conns)
        /\ \A d \in Ids : \/ conns'[d].state = conns[d].state
                          \/ conns[d].state = "open" /\ conns'[d].state = "dead"
    <3>1. CASE Dies(c)
      BY <2>1, <3>1, SetTypes DEF Dies
    <3>2. CASE GrowsOld(c)
      <4> DEFINE e == [conns[c] EXCEPT !.old = TRUE]
      <4>1. conns[c] \in Connection
        BY DEF TypeOK, Ids
      <4>2. e \in Connection /\ e.state = conns[c].state
        BY <4>1 DEF Connection
      <4>3. conns' = [conns EXCEPT ![c] = e]
        BY <3>2 DEF GrowsOld
      <4> HIDE DEF e
      <4> QED
        BY <4>2, <4>3, ExceptSeq DEF TypeOK, Ids
    <3> QED
      BY <1>1, <3>1, <3>2
  <2>3. Ids' = Ids
    BY <2>2 DEF Ids
  <2>4. LockInv'
    BY <2>1 DEF LockInv
  <2>5. ConnInv'
    <3>1. \A d \in Ids : conns'[d].state = "new" <=> conns[d].state = "new"
      BY <2>2
    <3> QED
      BY <2>1, <2>3, <3>1 DEF ConnInv, Connecting
  <2>6. TypeOK'
    BY <2>1, <2>2, <2>4, <2>5, Typed DEF TypeOK
  <2>7. DirectInv'
    BY <2>1 DEF DirectInv
  <2>8. OpenInv'
    BY <2>1, <2>2, <2>3 DEF OpenInv
  <2>9. PinInv'
    BY <2>1 DEF PinInv, Torn, At
  <2> QED
    BY <2>4, <2>5, <2>6, <2>7, <2>8, <2>9
<1>2. ASSUME NEW h \in Hosts, Rekeyed(h) PROVE IInv'
  <2>1. /\ UNCHANGED <<pool, lock, conns, thread, pins, trusted, swept, raced, calls>>
        /\ server' \in [Hosts -> Keys] /\ rekeys' \in 0..MaxRekeys
    BY <1>2, BoundAssumption DEF Rekeyed, TypeOK
  <2>2. LockInv' /\ DirectInv' /\ PinInv'
    BY <2>1 DEF LockInv, DirectInv, PinInv, Torn, At
  <2>3. ConnInv' /\ OpenInv'
    BY <2>1 DEF ConnInv, Connecting, OpenInv, Ids
  <2>4. TypeOK'
    BY <2>1 DEF TypeOK, Ids
  <2> QED
    BY <2>2, <2>3, <2>4
<1> QED
  BY <1>1, <1>2

LEMMA RestartStep ==
  ASSUME IInv, Restart
  PROVE  IInv'
<1> USE Distinct DEF IInv
<1>1. /\ pool' = [h \in Hosts |-> 0] /\ lock' = [h \in Hosts |-> None]
      /\ conns' = [c \in Ids |-> [state |-> "closed", old |-> FALSE]]
      /\ thread' = [t \in Threads |-> Idle]
      /\ UNCHANGED <<pins, server, trusted, swept, calls, rekeys>>
  BY DEF Restart, counts
<1>2. raced' \in BOOLEAN /\ (~raced' => ~raced /\ ~Torn)
  BY Zenon DEF Restart
<1>3. conns' \in Seq(Connection) /\ Ids' = Ids /\ \A c \in Ids : conns'[c].state = "closed"
  <2> DEFINE e == [state |-> "closed", old |-> FALSE]
  <2>1. e \in Connection /\ e.state = "closed"
    BY DEF Connection
  <2> HIDE DEF e
  <2>2. conns' = [c \in 1..Len(conns) |-> e] /\ Len(conns) \in Nat
    BY <1>1 DEF e, Ids, TypeOK
  <2> QED
    BY <2>1, <2>2 DEF Ids
<1>4. \A t \in Threads : thread'[t] = Idle
  BY <1>1
<1>5. LockInv'
  BY <1>1, <1>4 DEF LockInv, SettingUp
<1>6. ConnInv'
  BY <1>1, <1>4 DEF ConnInv, Connecting
<1>7. TypeOK'
  <2>1. Len(conns') \in Nat
    BY <1>3
  <2> QED
    BY <1>1, <1>2, <1>3, <1>5, <1>6, <2>1, Typed DEF TypeOK
<1>8. DirectInv' /\ OpenInv'
  BY <1>3, <1>4 DEF DirectInv, OpenInv
<1>9. PinInv'
  BY <1>1, <1>2, <1>4 DEF PinInv, At, Torn
<1> QED
  BY <1>5, <1>6, <1>7, <1>8, <1>9

LEMMA InvStep ==
  ASSUME IInv, [Next]_vars
  PROVE  IInv'
<1>1. ASSUME NEW t \in Threads, NEW h \in Hosts,
             \/ execute(t, h) \/ test_connection(t, h) \/ write_sandbox_file(t, h)
             \/ deploy_key_to_host(t, h) \/ clear_known_host(t, h)
      PROVE  IInv'
  BY <1>1, StartStep DEF execute, test_connection, write_sandbox_file, deploy_key_to_host, clear_known_host
<1>2. ASSUME NEW t \in Threads, CallStep(t) PROVE IInv'
  BY <1>2, LookupStep, LoadStep, ConnectStep, SaveBeginStep, SaveEndStep, AuthenticateStep,
     ConnectFailsStep, FinishStep DEF CallStep
<1>3. CASE UNCHANGED vars
  BY <1>3 DEF vars, counts, IInv, TypeOK, LockInv, ConnInv, Connecting, DirectInv, OpenInv, PinInv, Torn, At, Ids
<1> QED
  BY <1>1, <1>2, <1>3, WorldStep, RestartStep DEF Next

LEMMA InvariantHolds == Spec => []IInv
BY InitInv, InvStep, PTL DEF Spec

-----------------------------------------------------------------------------
(* What follows from it.                                                   *)

\* Type correctness of the pool, the locks, the connections and the pins.
THEOREM PoolTypes == Spec => []TypeOK
<1>1. IInv => TypeOK
  BY DEF IInv
<1> QED
  BY <1>1, InvariantHolds, PTL

\* _get_or_connect forgets no client: one that is open is in the pool or in the hands
\* of the call that made it, however many threads race for a host.
THEOREM NothingLeaksHolds == Spec => []NothingLeaks
<1>1. IInv => NothingLeaks
  BY DEF IInv, OpenInv, NothingLeaks
<1> QED
  BY <1>1, InvariantHolds, PTL

\* Who closes an open client, and when.
LEMMA ClosesOld ==
  ASSUME IInv, [Next]_vars, NEW c \in Ids,
         conns[c].state = "open", conns'[c].state = "closed", ~conns[c].old,
         NEW u \in Threads, thread[u].conn = c
  PROVE  thread'[u].conn # c
<1> USE Distinct DEF IInv
<1>1. ASSUME NEW t \in Threads, NEW d \in Ids, conns' = Set(d, "closed") PROVE d = c
  BY <1>1, SetTypes
<1>2. ASSUME NEW t \in Threads, _get_or_connect(t) PROVE FALSE
  <2>1. ~Usable(pool[thread[t].host]) /\ pool[thread[t].host] # 0
          /\ conns' = Set(pool[thread[t].host], "closed")
    BY <1>2 DEF _get_or_connect
  <2>2. thread[t].host \in Hosts
    BY <1>2, AtWork DEF _get_or_connect, At, Working
  <2>3. pool[thread[t].host] \in Ids
    BY <2>1, <2>2 DEF ConnInv
  <2>4. pool[thread[t].host] = c
    BY <1>1, <2>1, <2>3
  <2> QED
    BY <2>1, <2>4 DEF Usable
<1>3. ASSUME NEW t \in Threads, ConnectFails(t) PROVE FALSE
  <2>1. thread[t].at \in {"connect", "auth"} /\ conns' = Set(thread[t].conn, "closed")
    BY <1>3 DEF ConnectFails, At
  <2>2. thread[t].conn \in Ids /\ conns[thread[t].conn].state = "new"
    BY <2>1 DEF ConnInv, Connecting
  <2> QED
    BY <1>1, <2>1, <2>2
<1>4. ASSUME NEW t \in Threads, Finish(t) PROVE thread'[u].conn # c
  <2>1. thread[t].at = "use" /\ thread' = [thread EXCEPT ![t] = Idle]
    BY <1>4 DEF Finish, At, Return
  <2>2. thread[t].conn \in Ids
    BY <2>1 DEF ConnInv
  <2>3. thread[t].job = "direct" /\ conns' = Set(thread[t].conn, "closed")
    BY <1>4 DEF Finish
  <2>4. thread[t].conn = c
    BY <1>1, <2>2, <2>3
  <2>5. u = t
    BY <2>2, <2>3, <2>4 DEF DirectInv
  <2> QED
    BY <2>1, <2>5 DEF TypeOK
<1>5. ASSUME NEW t \in Threads, Load(t) PROVE FALSE
  <2>1. UNCHANGED conns \/ conns' = Append(conns, [state |-> "new", old |-> FALSE])
    BY <1>5 DEF Load
  <2>2. conns'[c] = conns[c]
    BY <2>1 DEF TypeOK, Ids
  <2> QED
    BY <2>2
<1>6. ASSUME NEW t \in Threads, Authenticate(t) PROVE FALSE
  <2>1. thread[t].at = "auth" /\ conns' = Set(thread[t].conn, "open")
    BY <1>6 DEF Authenticate, At
  <2>2. thread[t].conn \in Ids
    BY <2>1 DEF TypeOK
  <2> QED
    BY <2>1, <2>2, SetTypes
<1>7. ASSUME NEW d \in Ids, Dies(d) \/ GrowsOld(d) PROVE FALSE
  <2>1. CASE Dies(d)
    BY <2>1, SetTypes DEF Dies
  <2>2. CASE GrowsOld(d)
    <3>1. conns'[c].state = conns[c].state
      BY <2>2 DEF GrowsOld, TypeOK, Connection, Ids
    <3> QED
      BY <3>1
  <2> QED
    BY <1>7, <2>1, <2>2
<1>8. CASE Restart
  BY <1>8 DEF Restart, Ids
<1>9. ASSUME NEW t \in Threads, NEW h \in Hosts,
             \/ execute(t, h) \/ test_connection(t, h) \/ write_sandbox_file(t, h)
             \/ deploy_key_to_host(t, h) \/ clear_known_host(t, h)
      PROVE  FALSE
  BY <1>9 DEF execute, test_connection, write_sandbox_file, deploy_key_to_host, clear_known_host, Start
<1>10. ASSUME NEW t \in Threads, Connect(t) \/ SaveBegin(t) \/ SaveEnd(t) PROVE FALSE
  BY <1>10 DEF Connect, SaveBegin, SaveEnd
<1>11. (\A h \in Hosts : ~Rekeyed(h)) /\ ~UNCHANGED vars
  BY DEF Rekeyed, vars
<1> QED
  BY <1>2, <1>3, <1>4, <1>5, <1>6, <1>7, <1>8, <1>9, <1>10, <1>11 DEF Next, CallStep

\* _get_or_connect and the direct calls close no client under a thread that is using
\* it, unless POOL_TTL has passed since the connection or the connection is dead.
THEOREM NotClosedInUseHolds == Spec => NotClosedInUse
<1>1. IInv /\ [Next]_vars =>
        [\A c \in Ids : conns[c].state = "open" /\ conns'[c].state = "closed" /\ ~conns[c].old =>
           ~\E t \in Threads : thread[t].conn = c /\ thread'[t].conn = c]_vars
  BY ClosesOld
<1> QED
  BY <1>1, InvariantHolds, PTL DEF Spec, NotClosedInUse

\* Only Connect accepts a key, and it does so with a copy that is current.
LEMMA AcceptsPinned ==
  ASSUME IInv, [Next]_vars, ~raced', NEW t \in Threads,
         At(t, "connect"), thread'[t].at \in {"auth", "save"}
  PROVE  \/ thread[t].host \in swept
         \/ trusted[thread[t].host] \in {None, server[thread[t].host]}
<1> USE Distinct DEF IInv
<1>1. thread[t].host \in Hosts
  BY AtWork DEF At, Working
<1>2. CASE Connect(t)
  <2>1. ~raced /\ ~Torn /\ ~Stale(t)
    BY <1>2, Zenon DEF Connect
  <2>2. /\ \A g \in Hosts \ swept : pins[g] = trusted[g]
        /\ thread[t].copy[thread[t].host] \in {None, server[thread[t].host]}
    BY <1>2, <2>1 DEF PinInv, Connect
  <2>3. thread[t].job # "clear"
    BY DEF At, ConnInv
  <2> QED
    BY <1>1, <2>1, <2>2, <2>3 DEF Stale
<1>3. CASE ~Connect(t)
  <2>1. ASSUME thread'[t] = thread[t] PROVE FALSE
    BY <2>1 DEF At
  <2>2. ASSUME NEW u \in Threads, NEW r, thread' = [thread EXCEPT ![u] = r] PROVE u = t
    BY <2>1, <2>2 DEF TypeOK
  <2>3. ASSUME NEW u \in Threads, NEW h \in Hosts,
               \/ execute(u, h) \/ test_connection(u, h) \/ write_sandbox_file(u, h)
               \/ deploy_key_to_host(u, h) \/ clear_known_host(u, h)
        PROVE  FALSE
    BY <2>2, <2>3 DEF execute, test_connection, write_sandbox_file, deploy_key_to_host, clear_known_host, Start, At
  <2>4. ASSUME NEW u \in Threads, CallStep(u) PROVE FALSE
    <3>1. \E r : thread' = [thread EXCEPT ![u] = r]
      BY <2>4 DEF CallStep, _get_or_connect, Load, Connect, SaveBegin, SaveEnd, Authenticate, ConnectFails,
                  Finish, Now, GoTo, Return, Accepted, AfterSave
    <3>2. u = t
      BY <2>2, <3>1
    <3>3. ConnectFails(t)
      BY <1>3, <2>4, <3>2 DEF CallStep, _get_or_connect, Load, SaveBegin, SaveEnd, Authenticate, Finish, At
    <3> QED
      BY <3>3 DEF ConnectFails, Return, TypeOK
  <2>5. CASE Restart
    BY <2>5 DEF Restart
  <2>6. CASE \/ \E c \in Ids : Dies(c) \/ GrowsOld(c)
             \/ \E h \in Hosts : Rekeyed(h)
             \/ UNCHANGED vars
    BY <2>1, <2>6 DEF Dies, GrowsOld, Rekeyed, vars
  <2> QED
    BY <2>3, <2>4, <2>5, <2>6 DEF Next
<1> QED
  BY <1>2, <1>3

\* "verify on subsequent connects" (ssh_client.py:505): no key is accepted but the one
\* that was pinned, as long as known_hosts was written and not raced for, and the pin
\* did not go with that of another port of the same hostname.
THEOREM PinsAreVerifiedHolds == Spec => PinsAreVerified
<1>1. IInv /\ [Next]_vars =>
        [~raced' =>
           \A t \in Threads : At(t, "connect") /\ thread'[t].at \in {"auth", "save"} =>
             \/ thread[t].host \in swept
             \/ trusted[thread[t].host] \in {None, server[thread[t].host]}]_vars
  BY AcceptsPinned
<1> QED
  BY <1>1, InvariantHolds, PTL DEF Spec, PinsAreVerified
=============================================================================
