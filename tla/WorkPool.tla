------------------------------ MODULE WorkPool ------------------------------
(***************************************************************************)
(* What the workers' queues promise their callers, whatever their locking: *)
(* a pool of pending jobs from which each caller takes one job of its own, *)
(* a caller that finds the pool empty is blocked, and the pool does not    *)
(* leave a job pending and a caller blocked for ever.  The order in which  *)
(* jobs leave, condition variables and wake-ups are not visible here.      *)
(***************************************************************************)
CONSTANTS Job, Consumer

VARIABLES
    pending,     \* the jobs accepted and not yet taken
    shut,        \* no more jobs are accepted
    blocked,     \* the callers inside a blocking take
    result       \* what each caller's last take returned

poolVars == <<pending, shut, blocked, result>>

Init ==
    /\ pending = {}
    /\ shut = FALSE
    /\ blocked = {}
    /\ result = [c \in Consumer |-> "none"]

Accept(j) ==
    /\ ~shut
    /\ j \notin pending
    /\ pending' = pending \cup {j}
    /\ UNCHANGED <<shut, blocked, result>>

Block(c) ==
    /\ pending = {} /\ ~shut
    /\ blocked' = blocked \cup {c}
    /\ UNCHANGED <<pending, shut, result>>

Deliver(c) ==
    \E j \in pending :
        /\ pending' = pending \ {j}
        /\ result' = [result EXCEPT ![c] = j]
        /\ blocked' = blocked \ {c}
        /\ UNCHANGED shut

\* A take without a job: the pool is empty.
Fail(c, why) ==
    /\ pending = {}
    /\ why = "closed" => shut
    /\ result' = [result EXCEPT ![c] = why]
    /\ blocked' = blocked \ {c}
    /\ UNCHANGED <<pending, shut>>

Discard ==
    /\ pending' = {}
    /\ UNCHANGED <<shut, blocked, result>>

Shut ==
    /\ shut' = TRUE
    /\ UNCHANGED <<pending, blocked, result>>

Next ==
    \/ \E j \in Job : Accept(j)
    \/ \E c \in Consumer :
          \/ Block(c)
          \/ Deliver(c)
          \/ \E why \in {"none", "closed", "canceled"} : Fail(c, why)
    \/ Discard
    \/ Shut

\* The pool serves a blocked caller while jobs are pending, and lets every
\* blocked caller go once it is shut.
Progress ==
    /\ WF_poolVars(\E c \in Consumer : c \in blocked /\ Deliver(c))
    /\ WF_poolVars(\E c \in Consumer : c \in blocked /\ Fail(c, "closed"))

Safety == Init /\ [][Next]_poolVars
Spec   == Safety /\ Progress
=============================================================================
