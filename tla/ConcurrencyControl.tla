--------------------------- MODULE ConcurrencyControl ---------------------------
(***************************************************************************)
(* The concurrency control service and its production queue (spec 4.3).    *)
(* The implementation is not under src/ (only its unit test is); every     *)
(* definition is modelled from the spec.                                   *)
(*                                                                         *)
(* The queue keeps `running`, a sequence of logical slots in admission     *)
(* order, and `waiting`, a FIFO of blocked `check` calls.  `release(mode)` *)
(* names no execution: it frees the OLDEST slot and hands it to the head   *)
(* of `waiting`.  `remove(id)` drops that id from wherever it is.  The     *)
(* callers are executions: each calls `check`, then exactly one of         *)
(* `release` (it finished) or `remove` (it was cancelled).                 *)
(***************************************************************************)
EXTENDS Integers, Sequences, SequencesExt, FiniteSets

CONSTANTS
    Execs,          \* execution ids
    Modes,          \* modes the model gives executions
    CapChoices      \* configured capacities; 0 fails construction

GatedModes == {"webhook", "trigger"}
InternalModes == {"cli", "error", "integrated", "internal", "manual", "retry"}

ASSUME Modes \subseteq GatedModes \cup InternalModes
ASSUME 0 \notin CapChoices

VARIABLES
    cap,            \* the capacity the service was constructed with
    mode,           \* each execution's mode
    pc,             \* idle, waiting (blocked in check), running, done
    running,        \* queue.running: logical slots, oldest first
    waiting         \* queue.waiting: blocked executions, oldest first

vars == <<cap, mode, pc, running, waiting>>

\* cap < 0 turns the service into a pass-through; internal modes never
\* touch the queue.
isEnabled == cap > 0
Gated(e) == isEnabled /\ mode[e] \in GatedModes

\* check(executionId, mode): admit when a slot is free, otherwise block.
check(e) ==
    /\ pc[e] = "idle"
    /\ \/ /\ ~Gated(e)
          /\ pc' = [pc EXCEPT ![e] = "running"]
          /\ UNCHANGED <<running, waiting>>
       \/ /\ Gated(e) /\ Len(running) < cap
          /\ running' = Append(running, e)
          /\ pc' = [pc EXCEPT ![e] = "running"]
          /\ UNCHANGED waiting
       \/ /\ Gated(e) /\ Len(running) >= cap
          /\ waiting' = Append(waiting, e)
          /\ pc' = [pc EXCEPT ![e] = "waiting"]
          /\ UNCHANGED running
    /\ UNCHANGED <<cap, mode>>

\* Free the oldest logical slot; releasing with nothing running is a no-op
\* (spec section 9 settles this open question that way).
FreeOldest(r) == IF r = <<>> THEN r ELSE Tail(r)

\* release(mode) by execution e as it finishes: free the oldest slot and,
\* when someone waits, move the head of `waiting` into `running` and
\* resolve its promise.
release(e) ==
    /\ pc[e] = "running"
    /\ \/ /\ ~Gated(e)
          /\ pc' = [pc EXCEPT ![e] = "done"]
          /\ UNCHANGED <<running, waiting>>
       \/ /\ Gated(e) /\ waiting = <<>>
          /\ running' = FreeOldest(running)
          /\ pc' = [pc EXCEPT ![e] = "done"]
          /\ UNCHANGED waiting
       \/ /\ Gated(e) /\ waiting # <<>>
          /\ running' = Append(FreeOldest(running), Head(waiting))
          /\ waiting' = Tail(waiting)
          /\ pc' = [pc EXCEPT ![e] = "done", ![Head(waiting)] = "running"]
    /\ UNCHANGED <<cap, mode>>

\* remove(executionId, mode) for each id of S, in order: drop it from
\* `running` or `waiting`; a waiter's promise is never resolved, and no
\* waiter is promoted.  One id is `remove`; several are `removeMany`.
removeMany(S) ==
    /\ S # {}
    /\ \A e \in S : pc[e] \in {"running", "waiting"}
    /\ LET dropped == {e \in S : Gated(e)}
       IN /\ running' = SelectSeq(running, LAMBDA x : x \notin dropped)
          /\ waiting' = SelectSeq(waiting, LAMBDA x : x \notin dropped)
    /\ pc' = [e \in Execs |-> IF e \in S THEN "done" ELSE pc[e]]
    /\ UNCHANGED <<cap, mode>>

\* remove(executionId, mode) of one execution.
remove(e) == removeMany({e})

\* removeAll(): the same per-id removal applied to the snapshot of every id
\* the queue holds, in its order.  The snapshot can hold the id of an
\* execution that already ended (its release freed someone else's slot);
\* removing that id is a no-op for the execution, and executions whose
\* slot another release already freed are not in the snapshot at all.
removeAll ==
    /\ running \o waiting # <<>>
    /\ LET snapshot == ToSet(running \o waiting) IN
       pc' = [e \in Execs |->
                IF e \in snapshot /\ pc[e] \in {"running", "waiting"}
                THEN "done" ELSE pc[e]]
    /\ running' = <<>>
    /\ waiting' = <<>>
    /\ UNCHANGED <<cap, mode>>

Init ==
    /\ cap \in CapChoices
    /\ mode \in [Execs -> Modes]
    /\ pc = [e \in Execs |-> "idle"]
    /\ running = <<>>
    /\ waiting = <<>>

Next ==
    \/ \E e \in Execs : check(e) \/ release(e)
    \/ \E e \in Execs : remove(e)
    \/ removeAll

Spec == Init /\ [][Next]_vars

-----------------------------------------------------------------------------
(* The executions that really hold a slot. *)
Holding == {e \in Execs : pc[e] = "running" /\ Gated(e)}

AC == INSTANCE AdmissionControl WITH status <- pc, queue <- waiting

TypeOK ==
    /\ cap \in CapChoices
    /\ mode \in [Execs -> Modes]
    /\ pc \in [Execs -> {"idle", "waiting", "running", "done"}]
    /\ running \in Seq(Execs) /\ waiting \in Seq(Execs)

\* The queue implements the promise of admission control (spec section 8:
\* at most cap gated executions run at once; waiters are admitted only
\* from the head of the FIFO; internal modes never wait): every step of
\* check, release, remove, removeMany and removeAll is a step of
\* AdmissionControl.  It rests on release counting slots rather than
\* naming them, which removeAll's snapshot does not account for.
AdmissionRefined == AC!Spec

\* Every execution that holds a slot eventually calls release.
FairSpec == Spec /\ \A e \in Execs : WF_vars(release(e))

\* The queue counts exactly the executions that hold a slot: remove and
\* release never leave a slot to an execution that has already ended.
SlotsCountHolders == isEnabled => Len(running) = Cardinality(Holding)

\* A blocked check eventually returns, or its execution is removed, as long
\* as every admitted execution finishes.
WaiterEventuallyAdmitted ==
    \A e \in Execs : pc[e] = "waiting" ~> pc[e] # "waiting"

====
