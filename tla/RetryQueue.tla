---------------------------- MODULE RetryQueue ----------------------------
(***************************************************************************)
(* RetryQueue (app/queue/retry_queue.py): the sorted set retry:pending.    *)
(* A member is a task; its score, the time of the next attempt, is         *)
(* abstracted: any member may be due when the sweep looks.  ZADD of a      *)
(* member that is already there only moves its score.                      *)
(***************************************************************************)
EXTENDS TestModels

VARIABLES
    zset,   \* members of retry:pending
    due     \* what pop_due has read (ZRANGEBYSCORE) and not yet removed

retryVars == <<zset, due>>

RetryTypeOK ==
    /\ zset \subseteq Tasks
    /\ due \subseteq Tasks

RetryInit ==
    /\ zset = {}
    /\ due = {}

\* schedule_retry: ZADD
ScheduleRetry(t) ==
    /\ zset' = zset \cup {t}
    /\ UNCHANGED due

\* pop_due, first half: ZRANGEBYSCORE.  S is whatever is due, cut at the batch
\* size.
ReadDue(S) ==
    /\ due = {}
    /\ S # {}
    /\ due' = S
    /\ UNCHANGED zset

\* pop_due, second half: ZREM of what was read
RemoveDue ==
    /\ due # {}
    /\ zset' = zset \ due
    /\ due' = {}
===========================================================================
