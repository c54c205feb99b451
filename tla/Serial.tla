------------------------------- MODULE Serial -------------------------------
(***************************************************************************)
(* What parallel execution promises: the calls that commit do so one at a  *)
(* time, each as if it ran alone between the one before and the one after. *)
(* A call is the log of the rows it read and wrote, with their values.     *)
(***************************************************************************)
EXTENDS Integers, Sequences

CONSTANTS
    Calls, Key, Word,
    Log,        \* the logs a call may leave
    NoLog       \* of a call that has not committed

VARIABLES
    db,
    logs        \* of the calls that committed

vars == <<db, logs>>

(* The writes to k among the first n entries of a log *)
WritesTo(log, k, n) ==
    {i \in 1..n : log[i].op = "write" /\ log[i].key = k}

(* The row k after the first n entries *)
RowAfter(rows, log, k, n) ==
    LET w == WritesTo(log, k, n) IN
    IF w = {} THEN rows[k]
    ELSE log[CHOOSE i \in w : \A j \in w : j <= i].val

(* Every read of the log is what a lone run from rows would read. *)
RunsFrom(rows, log) ==
    \A i \in DOMAIN log :
        log[i].op = "read" =>
            log[i].val = RowAfter(rows, log, log[i].key, i - 1)

Init ==
    /\ db \in [Key -> Word]
    /\ logs = [c \in Calls |-> NoLog]

Commit(c, log) ==
    /\ logs[c] = NoLog
    /\ RunsFrom(db, log)
    /\ db' = [k \in Key |-> RowAfter(db, log, k, Len(log))]
    /\ logs' = [logs EXCEPT ![c] = log]

(* A call commits, with whatever log it leaves. *)
Next == \E c \in Calls : logs'[c] \in Log /\ Commit(c, logs'[c])

Spec == Init /\ [][Next]_vars
=============================================================================
