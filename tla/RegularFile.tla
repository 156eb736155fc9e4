----------------------------- MODULE RegularFile -----------------------------
(***************************************************************************)
(* What the readers of a YAML file may rely on, whatever is cached: a read *)
(* answers with a content that was stored at some moment of the read, or   *)
(* that a write under way at such a moment was about to store or had just  *)
(* replaced.  After a disturbance (which the implementing module names)    *)
(* nothing is promised.                                                    *)
(***************************************************************************)
CONSTANTS
  Procs,      \* those who read and write
  Contents,   \* contents of the file
  First       \* its content at first

VARIABLES
  content,    \* what is stored
  busy,       \* busy[p]: contents a write of p under way adds to what may be read
  window,     \* window[p]: contents a read of p under way may answer with
  result,     \* the latest answer
  broken      \* a disturbance has happened

vars == <<content, busy, window, result, broken>>

Init ==
  /\ content = First
  /\ busy = [p \in Procs |-> {}]
  /\ window = [p \in Procs |-> {}]
  /\ result = First
  /\ broken = FALSE

Readable == {content} \cup UNION {busy[p] : p \in Procs}

ReadBegins(p) ==
  /\ window' = [window EXCEPT ![p] = Readable]
  /\ UNCHANGED <<content, busy, result, broken>>

ReadEnds(p) ==
  /\ result' \in window[p]
  /\ window' = [window EXCEPT ![p] = {}]
  /\ UNCHANGED <<content, busy, broken>>

\* A read under way may already see what is about to be stored.
WriteBegins(p) ==
  \E c \in Contents :
    /\ busy' = [busy EXCEPT ![p] = {c}]
    /\ window' = [q \in Procs |-> IF window[q] = {} THEN {} ELSE window[q] \cup {c}]
    /\ UNCHANGED <<content, result, broken>>

Stores(p) ==
  /\ content' \in busy[p]
  /\ busy' = [busy EXCEPT ![p] = @ \cup {content}]
  /\ UNCHANGED <<window, result, broken>>

WriteEnds(p) ==
  /\ busy' = [busy EXCEPT ![p] = {}]
  /\ UNCHANGED <<content, window, result, broken>>

\* A process dies with its reads and writes.
Dies(S) ==
  /\ busy' = [p \in Procs |-> IF p \in S THEN {} ELSE busy[p]]
  /\ window' = [p \in Procs |-> IF p \in S THEN {} ELSE window[p]]
  /\ UNCHANGED <<content, result, broken>>

Disturbed == broken' = TRUE

Next ==
  \/ \E p \in Procs : \/ ReadBegins(p) \/ ReadEnds(p)
                      \/ WriteBegins(p) \/ Stores(p) \/ WriteEnds(p)
  \/ \E S \in SUBSET Procs : Dies(S)
  \/ Disturbed

Spec == Init /\ [][Next]_vars
=============================================================================
