---------------------------- MODULE RetrySweeper ----------------------------
(***************************************************************************)
(* RetrySweeper (scheduler/retry_sweeper.py): moves due tasks from         *)
(* retry:pending back to the stream.  One sweeper, one sweep at a time.    *)
(* pop_due removes the whole batch first; until a task is back on the      *)
(* stream only the sweep's local list knows of it.                         *)
(***************************************************************************)
EXTENDS TaskStream, RetryQueue, Faults

VARIABLE popped   \* due_task_ids not yet handled by the sweep

SweeperTypeOK == popped \subseteq Tasks

SweeperInit == popped = {}

\* pop_due reads what is due ...
RetryScan(S) ==
    /\ popped = {}
    /\ S \subseteq zset
    /\ ReadDue(S)
    /\ NoFault
    /\ UNCHANGED <<popped, streamVars>>

\* Mutant: what was removed is not handed to the loop.
RetryPopForgets ==
    /\ RemoveDue
    /\ popped' = {}
    /\ NoFault
    /\ UNCHANGED streamVars

\* ... and removes it.
RetryPop ==
    /\ RemoveDue
    /\ popped' = due
    /\ NoFault
    /\ UNCHANGED streamVars

\* ZREM is applied and its reply lost: sweep_once ends with the exception.
RetryPopReplyLost ==
    /\ Fault("reply")
    /\ RemoveDue
    /\ UNCHANGED <<popped, streamVars>>

\* One turn of the loop.
RetryEnqueue(t) ==
    /\ t \in popped
    /\ Enqueue(t)
    /\ popped' = popped \ {t}
    /\ NoFault
    /\ UNCHANGED retryVars

\* XADD raises, the task goes back to retry:pending.  With "reply" the entry was
\* added all the same.
RetryEnqueueFails(t) ==
    /\ t \in popped
    /\ \/ Fault("enqueue") /\ UNCHANGED streamVars
       \/ Fault("reply") /\ Enqueue(t)
    /\ ScheduleRetry(t)
    /\ popped' = popped \ {t}

\* XADD and then schedule_retry raise: the exception leaves sweep_once, and the
\* rest of due_task_ids goes with it.
RetryAbort ==
    /\ popped # {}
    /\ Fault("outage")
    /\ popped' = {}
    /\ UNCHANGED <<retryVars, streamVars>>
===========================================================================
