---------------------------- MODULE AdmissionControl ----------------------------
(***************************************************************************)
(* What concurrency admission control promises (spec sections 4.3 and 8),  *)
(* stated per execution: at most `cap` executions of a gated mode run at   *)
(* once; executions that cannot run wait, and leave the wait in the order  *)
(* they entered it; executions of an internal mode, or any execution when  *)
(* enforcement is off (cap = -1), run at once.                             *)
(*                                                                         *)
(* The promise says when an execution MAY be admitted, not that it must:   *)
(* an arrival may wait even with a slot free.  Whether waiters are         *)
(* eventually admitted is a separate, liveness, question.                  *)
(***************************************************************************)
EXTENDS Integers, Sequences, FiniteSets

CONSTANTS
    Execs,          \* execution ids
    Modes,          \* execution modes an execution may have
    GatedModes      \* modes that take an admission slot ('webhook', 'trigger')

VARIABLES
    cap,            \* the configured production cap
    mode,           \* the mode of each execution
    status,         \* idle, waiting, running or done
    queue           \* the waiting executions, oldest first

vars == <<cap, mode, status, queue>>

Enforced == cap > 0
Gated(e) == Enforced /\ mode[e] \in GatedModes
Admitted == {e \in Execs : status[e] = "running" /\ Gated(e)}

\* An execution asks to run: at once when it is not gated or a slot is
\* free; otherwise it queues.
Arrive(e) ==
    /\ status[e] = "idle"
    /\ \/ /\ ~Gated(e) \/ Cardinality(Admitted) < cap
          /\ status' = [status EXCEPT ![e] = "running"]
          /\ UNCHANGED queue
       \/ /\ Gated(e)
          /\ status' = [status EXCEPT ![e] = "waiting"]
          /\ queue' = Append(queue, e)
    /\ UNCHANGED <<cap, mode>>

\* A running execution finishes.  If it held a slot, the slot may go to the
\* oldest waiter in the same step.
Finish(e) ==
    /\ status[e] = "running"
    /\ \/ /\ status' = [status EXCEPT ![e] = "done"]
          /\ UNCHANGED queue
       \/ /\ Gated(e) /\ queue # <<>>
          /\ status' = [status EXCEPT ![e] = "done", ![Head(queue)] = "running"]
          /\ queue' = Tail(queue)
    /\ UNCHANGED <<cap, mode>>

\* Executions that are running or waiting are abandoned (cancellation,
\* shutdown): they stop and leave the queue.
Abandon(S) ==
    /\ S # {}
    /\ \A e \in S : status[e] \in {"running", "waiting"}
    /\ status' = [e \in Execs |-> IF e \in S THEN "done" ELSE status[e]]
    /\ queue' = SelectSeq(queue, LAMBDA x : x \notin S)
    /\ UNCHANGED <<cap, mode>>

Init ==
    /\ cap \in {-1} \cup (Nat \ {0})
    /\ mode \in [Execs -> Modes]
    /\ status = [e \in Execs |-> "idle"]
    /\ queue = <<>>

Next ==
    \/ \E e \in Execs : Arrive(e) \/ Finish(e)
    \/ \E S \in SUBSET Execs : Abandon(S)

Spec == Init /\ [][Next]_vars

====
