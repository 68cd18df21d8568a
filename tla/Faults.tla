------------------------------ MODULE Faults ------------------------------
(***************************************************************************)
(* The environment of the pipeline: what may go wrong, and how often.      *)
(* Redis, Postgres, the workers and the backend process may each fail at a *)
(* step; MaxFaults bounds the failures of one behaviour, so that the log   *)
(* of the stream stays finite.  Redis and Postgres keep their data.        *)
(*                                                                         *)
(*   throttle  the target host's token bucket is empty                     *)
(*   process   process_task ends in an unexpected exception                *)
(*   write     write_batch fails and is rolled back                        *)
(*   reply     a call is applied but its reply is lost: the commit of      *)
(*             write_batch, XADD or ZREM                                   *)
(*   ack       XACK by a worker, or by the reclaim sweep, fails            *)
(*   crash     a worker process dies and is restarted                      *)
(*   enqueue   XADD fails, by the API, the cron sweep or the other sweeps  *)
(*   outage    ZADD fails right after XADD failed, in the retry sweep      *)
(*   commit    the commit of a new run fails                               *)
(*   backend   the backend process dies and is restarted                   *)
(*   slow      a live worker holds an entry longer than min_idle_ms        *)
(***************************************************************************)
EXTENDS Integers

FaultKinds == {"throttle", "process", "write", "reply", "ack", "crash",
               "enqueue", "outage", "commit", "backend", "slow"}

CONSTANTS
    Faults,     \* the kinds that may happen
    MaxFaults   \* how many of them, in all

ASSUME FaultsAssumption ==
    /\ Faults \subseteq FaultKinds
    /\ MaxFaults \in Nat

VARIABLE faultsLeft

FaultsTypeOK == faultsLeft \in 0..MaxFaults

FaultsInit == faultsLeft = MaxFaults

Fault(kind) ==
    /\ kind \in Faults
    /\ faultsLeft > 0
    /\ faultsLeft' = faultsLeft - 1

NoFault == UNCHANGED faultsLeft
===========================================================================
