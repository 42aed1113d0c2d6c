----------------------------- MODULE PeriodicTask -----------------------------
(***************************************************************************)
(* What RecurringTimeout promises to its callers, without sessions, timers *)
(* and microtasks: a job that was started is executed again and again      *)
(* until it is stopped, one execution after the other unless a caller asks *)
(* for an overlap.  A stop or a restart forgets the execution under way,   *)
(* which then ends beside the next ones.                                   *)
(***************************************************************************)
EXTENDS Naturals

CONSTANT MaxExecutions  \* bound: executions explored

VARIABLES wanted,       \* started or restarted, and not stopped since
          current,      \* the execution the task waits for, 0 if none
          begun,        \* executions begun so far
          active,       \* those that have not ended
          overlapAsked  \* a caller asked for an overlap, and no start met it yet

taskVars == <<wanted, current, begun, active, overlapAsked>>

TaskInit == /\ wanted = FALSE /\ overlapAsked = FALSE
            /\ current = 0 /\ begun = 0 /\ active = {}

\* start: a task that waits for its first execution takes the wish to overlap.
Start(overlap) ==
    /\ wanted' = TRUE
    /\ overlapAsked' \in {overlapAsked, overlapAsked \/ overlap}
    /\ UNCHANGED <<current, begun, active>>

Restart(overlap) ==
    /\ wanted' = TRUE /\ current' = 0
    /\ overlapAsked' = (overlapAsked \/ overlap)
    /\ UNCHANGED <<begun, active>>

Stop == /\ wanted' = FALSE /\ current' = 0
        /\ UNCHANGED <<begun, active, overlapAsked>>

\* An execution begins; the job may stop the task at its beginning.
Begin ==
    /\ wanted /\ begun < MaxExecutions
    /\ begun' = begun + 1 /\ current' = begun + 1 /\ active' = active \cup {begun + 1}
    /\ overlapAsked' \in {FALSE, overlapAsked} /\ wanted' \in BOOLEAN
    /\ current # 0 => overlapAsked /\ ~overlapAsked'

End(e) ==
    /\ e \in active /\ active' = active \ {e}
    /\ current' = IF e = current THEN 0 ELSE current
    /\ UNCHANGED <<wanted, begun, overlapAsked>>

TaskNext == \/ \E overlap \in BOOLEAN : Start(overlap) \/ Restart(overlap)
            \/ Stop \/ Begin
            \/ \E e \in active : End(e)

TaskSpec == TaskInit /\ [][TaskNext]_taskVars

\* A wanted task is executed once nothing it waits for is under way, and
\* executions end.
TaskFairness == /\ WF_taskVars(Begin)
                /\ \A e \in 1..MaxExecutions : WF_taskVars(End(e))

FairTaskSpec == TaskSpec /\ TaskFairness
=============================================================================
