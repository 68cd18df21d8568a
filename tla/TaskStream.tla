---------------------------- MODULE TaskStream ----------------------------
(***************************************************************************)
(* StreamQueue (app/queue/stream_client.py): a Redis stream read by one    *)
(* consumer group.  The stream is an append-only log of task references;   *)
(* an entry id is the position of the entry in the log.  XACK does not     *)
(* delete and XADD does not trim, so the log only grows.                   *)
(*                                                                         *)
(* XREADGROUP with ">" hands each entry out once and remembers it in the   *)
(* group's pending-entries list until XACK.  XACK and XAUTOCLAIM work on   *)
(* the group's list whatever consumer owns the entry, so the owner is not  *)
(* part of the state.                                                      *)
(***************************************************************************)
EXTENDS TestModels, Sequences

VARIABLES
    stream,         \* the log: stream[e] is the task entry e refers to
    lastDelivered,  \* the group's last-delivered id
    pel             \* ids delivered and not yet acknowledged

streamVars == <<stream, lastDelivered, pel>>

StreamTypeOK ==
    /\ stream \in Seq(Tasks)
    /\ lastDelivered \in 0..Len(stream)
    /\ pel \subseteq 1..lastDelivered

\* ensure_group: XGROUP CREATE ... id="0" MKSTREAM, idempotent
StreamInit ==
    /\ stream = <<>>
    /\ lastDelivered = 0
    /\ pel = {}

\* Ids no consumer of the group has been given.
Undelivered == (lastDelivered + 1) .. Len(stream)

\* XADD
Enqueue(t) ==
    /\ stream' = Append(stream, t)
    /\ UNCHANGED <<lastDelivered, pel>>

\* Mutant: the batch starts at the last delivered entry instead of after it.
BatchFromLast(count) ==
    {e \in 1..Len(stream) : lastDelivered <= e /\ e <= lastDelivered + count}

\* What XREADGROUP ... ">" COUNT count returns: the oldest undelivered entries,
\* all of them if there are fewer than count.
Batch(count) == {e \in Undelivered : e <= lastDelivered + count}

\* Mutant: the cursor advances by count even past the end of the log.
ReadGroupPastEnd(count) ==
    /\ Undelivered # {}
    /\ pel' = pel \cup Batch(count)
    /\ lastDelivered' = lastDelivered + count
    /\ UNCHANGED stream

\* consume: the batch moves to the pending-entries list.  An empty batch is the
\* timeout of BLOCK, after which the caller just asks again.
ReadGroup(count) ==
    /\ Undelivered # {}
    /\ pel' = pel \cup Batch(count)
    /\ lastDelivered' = IF Len(stream) <= lastDelivered + count
                        THEN Len(stream) ELSE lastDelivered + count
    /\ UNCHANGED stream

\* XACK
Ack(ids) ==
    /\ pel' = pel \ ids
    /\ UNCHANGED <<stream, lastDelivered>>
===========================================================================
