----------------------------- MODULE AtomicCall -----------------------------
(***************************************************************************)
(* What a call promises the node: it reads and writes a private view of    *)
(* the state, and publishes the whole view when it halts or nothing at all *)
(* when it faults. No cache, no declared slots, no meter.                  *)
(***************************************************************************)
CONSTANTS Key, Word

VARIABLES
    view,   \* the state as the call sees it
    db,     \* the state as the node has it
    read,   \* the word the last read returned
    phase   \* "running", "committed" or "aborted"

vars == <<view, db, read, phase>>

Init ==
    /\ db \in [Key -> Word]
    /\ view = db
    /\ read \in Word
    /\ phase = "running"

Read(k) ==
    /\ phase = "running"
    /\ read' = view[k]
    /\ UNCHANGED <<view, db, phase>>

Write(k, v) ==
    /\ phase = "running"
    /\ view' = [view EXCEPT ![k] = v]
    /\ UNCHANGED <<db, read, phase>>

Commit ==
    /\ phase = "running"
    /\ phase' = "committed"
    /\ db' = view
    /\ UNCHANGED <<view, read>>

Abort ==
    /\ phase = "running"
    /\ phase' = "aborted"
    /\ UNCHANGED <<view, db, read>>

Next ==
    \/ \E k \in Key : Read(k)
    \/ \E k \in Key, v \in Word : Write(k, v)
    \/ Commit
    \/ Abort

Spec == Init /\ [][Next]_vars
=============================================================================
