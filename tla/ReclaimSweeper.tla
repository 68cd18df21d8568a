--------------------------- MODULE ReclaimSweeper ---------------------------
(***************************************************************************)
(* ReclaimSweeper (scheduler/reclaim_sweeper.py): takes over entries that  *)
(* have been pending for longer than min_idle_ms, adds a fresh copy of     *)
(* each to the stream and then acknowledges the old one.                   *)
(***************************************************************************)
EXTENDS TaskStream, Faults

VARIABLES
    claimed,   \* stale_entries the loop has not come to
    copied     \* the entry whose copy is on the stream and that is to be acked

reclaimVars == <<claimed, copied>>

ReclaimTypeOK ==
    /\ claimed \subseteq 1..lastDelivered
    /\ copied \subseteq 1..lastDelivered

ReclaimInit ==
    /\ claimed = {}
    /\ copied = {}

\* Mutant: only entries of live workers are claimed.
ClaimHeld(S, held) ==
    /\ claimed = {} /\ copied = {}
    /\ S # {}
    /\ S \subseteq pel \cap held
    /\ Fault("slow")
    /\ claimed' = S
    /\ UNCHANGED <<copied, streamVars>>

\* claim_stale: XAUTOCLAIM.  min_idle_ms is above the longest processing cycle,
\* so an entry in a live worker's hands (held) is claimed only if that worker is
\* slower than the configuration allows for.
ClaimStale(S, held) ==
    /\ claimed = {} /\ copied = {}
    /\ S # {}
    /\ S \subseteq pel
    /\ IF S \cap held = {} THEN NoFault ELSE Fault("slow")
    /\ claimed' = S
    /\ UNCHANGED <<copied, streamVars>>

\* XAUTOCLAIM returns the entries in the order of their ids.
Oldest(e) == \A f \in claimed : e <= f

\* The loop takes one entry at a time: enqueue the copy ...
ReclaimEnqueue(e) ==
    /\ e \in claimed /\ Oldest(e) /\ copied = {}
    /\ Enqueue(stream[e])
    /\ claimed' = claimed \ {e}
    /\ copied' = {e}
    /\ NoFault

\* ... which may fail, and with "reply" has been added all the same ...
ReclaimEnqueueFails(e) ==
    /\ e \in claimed /\ Oldest(e) /\ copied = {}
    /\ \/ Fault("enqueue") /\ UNCHANGED streamVars
       \/ Fault("reply") /\ Enqueue(stream[e])
    /\ claimed' = claimed \ {e}
    /\ UNCHANGED copied

\* ... then acknowledge the old entry, which may fail as well.
ReclaimAck ==
    /\ copied # {}
    /\ Ack(copied)
    /\ copied' = {}
    /\ NoFault
    /\ UNCHANGED claimed

ReclaimAckFails ==
    /\ copied # {}
    /\ Fault("ack")
    /\ copied' = {}
    /\ UNCHANGED <<claimed, streamVars>>
===========================================================================
