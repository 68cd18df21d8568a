--------------------------- MODULE WorkerRegistry ---------------------------
(***************************************************************************)
(* Registration, heartbeat, deregistration and health check of the worker  *)
(* container (worker/main.py, app/services/worker_service.py,              *)
(* app/queue/worker_registry.py, worker/healthcheck.py).  The container    *)
(* restarts its process when it ends; every process registers under a new  *)
(* id.  The heartbeat loop and the consume loop are the two tasks of one   *)
(* TaskGroup; when both have ended the process deregisters.                *)
(*                                                                         *)
(* Time is counted in ticks.  ttl is what is left of each liveness key.  A *)
(* loop's sleep ends on time, and the calls of a beat (or of what follows  *)
(* the first mark_alive of a registration) take BeatTime together, unless  *)
(* one of them never returns: then the loop is "hung".  Redis applies the  *)
(* calls of a process in the order in which they are made.                 *)
(***************************************************************************)
EXTENDS Integers

CONSTANTS
    Interval,   \* worker_heartbeat_interval_seconds
    Ttl,        \* HEARTBEAT_TTL_SECONDS
    BeatTime,   \* what the calls of one beat take at most
    MaxIds      \* bound on the registrations of the container

\* "tolerates one missed beat": two intervals and three beats fit in the TTL.
ASSUME RegistryAssumption ==
    /\ Interval \in Nat /\ BeatTime \in Nat /\ MaxIds \in Nat
    /\ Ttl \in Nat /\ Ttl > 2 * Interval + 3 * BeatTime

Ids == 1..MaxIds

VARIABLES
    process,    \* where the process stands between start and end
    me,         \* the id it registers under, the last one that was drawn
    shutdown,   \* shutdown_event
    beat,       \* where _heartbeat_loop stands
    consuming,  \* where _consume_loop stands
    since,      \* ticks since the timed phase of the process began
    missed,     \* beats in a row that failed before mark_alive, counted to 2
    row,        \* workers.status
    ttl,        \* worker:{id}:alive
    idFile,     \* WORKER_ID_FILE, 0 when there is none
    probe       \* the id the last health check read from it

loopVars == <<beat, consuming, since, missed>>
registryVars == <<process, me, shutdown, loopVars, row, ttl, idFile, probe>>

RegistryTypeOK ==
    /\ process \in {"down", "inserted", "marked", "committed", "running", "unlisted"}
    /\ me \in 0..MaxIds
    /\ shutdown \in BOOLEAN
    /\ beat \in {"off", "asleep", "reading", "marked", "hung", "ended"}
    /\ consuming \in {"off", "asking", "batch", "hung", "failed", "ended"}
    /\ since \in Nat
    /\ missed \in 0..2
    /\ row \in [Ids -> {"none", "online", "offline"}]
    /\ ttl \in [Ids -> 0..Ttl]
    /\ idFile \in 0..me /\ probe \in 0..me

RegistryInit ==
    /\ process = "down" /\ me = 0 /\ shutdown = FALSE
    /\ beat = "off" /\ consuming = "off" /\ since = 0 /\ missed = 0
    /\ row = [id \in Ids |-> "none"]
    /\ ttl = [id \in Ids |-> 0]
    /\ idFile = 0 /\ probe = 0

-----------------------------------------------------------------------------
Alive(id) == ttl[id] > 0

\* list_workers: every registered worker with its status and what Redis says.
ListWorkers ==
    [id \in {i \in Ids : row[i] # "none"} |-> [status |-> row[id], is_alive |-> Alive(id)]]

\* What the health check answers: is_alive of the id it has read.
Healthy == probe # 0 /\ Alive(probe)

\* The process ends; its memory is gone.
Exit ==
    /\ process' = "down" /\ shutdown' = FALSE
    /\ beat' = "off" /\ consuming' = "off" /\ since' = 0 /\ missed' = 0
    /\ UNCHANGED me

\* Docker starts the process, in the same container or in a new one, whose /tmp
\* is empty; it inserts its row under a new id.
Start ==
    /\ process = "down" /\ me < MaxIds
    /\ process' = "inserted" /\ me' = me + 1
    /\ idFile' \in {idFile, 0}
    /\ UNCHANGED <<shutdown, loopVars, row, ttl, probe>>

\* Mutant: the id is written to the file before the row is committed.
MarkThenWriteFile ==
    /\ process = "inserted"
    /\ process' = "marked" /\ since' = 0
    /\ ttl' = [ttl EXCEPT ![me] = Ttl]
    /\ idFile' = me
    /\ UNCHANGED <<me, shutdown, beat, consuming, missed, row, probe>>

\* mark_alive of register
MarkRegistered ==
    /\ process = "inserted"
    /\ process' = "marked" /\ since' = 0
    /\ ttl' = [ttl EXCEPT ![me] = Ttl]
    /\ UNCHANGED <<me, shutdown, beat, consuming, missed, row, idFile, probe>>

CommitRegistration ==
    /\ process = "marked"
    /\ process' = "committed"
    /\ row' = [row EXCEPT ![me] = "online"]
    /\ UNCHANGED <<me, shutdown, loopVars, ttl, idFile, probe>>

\* An exception in register or its commit ends the process: start() has not
\* reached its try.  The reply of the commit may be what was lost.
RegistrationFails ==
    /\ process \in {"inserted", "marked"}
    /\ Exit
    /\ \/ UNCHANGED row
       \/ process = "marked" /\ row' = [row EXCEPT ![me] = "online"]
    /\ UNCHANGED <<ttl, idFile, probe>>

\* The id goes to the file, unless writing it fails, and the loops start.  The
\* first beat is due at once.
StartLoops ==
    /\ process = "committed"
    /\ process' = "running"
    /\ idFile' \in {idFile, me}
    /\ beat' = "asleep" /\ since' = Interval
    /\ consuming' = IF shutdown THEN "ended" ELSE "asking"
    /\ UNCHANGED <<me, shutdown, missed, row, ttl, probe>>

-----------------------------------------------------------------------------
\* _heartbeat_loop

BeatStart ==
    /\ beat = "asleep" /\ since = Interval /\ ~shutdown
    /\ beat' = "reading" /\ since' = 0
    /\ UNCHANGED <<process, me, shutdown, consuming, missed, row, ttl, idFile, probe>>

\* Mutant: the TTL is two intervals instead of three.
MarkForTwoIntervals ==
    /\ beat = "reading"
    /\ beat' = "marked" /\ missed' = 0
    /\ ttl' = [ttl EXCEPT ![me] = 2 * Interval]
    /\ UNCHANGED <<process, me, shutdown, consuming, since, row, idFile, probe>>

\* Mutant: the beat refreshes the id the file names.
MarkFile ==
    /\ beat = "reading"
    /\ beat' = "marked" /\ missed' = 0
    /\ ttl' = [id \in Ids |-> IF id = idFile THEN Ttl ELSE ttl[id]]
    /\ UNCHANGED <<process, me, shutdown, consuming, since, row, idFile, probe>>

\* mark_alive of heartbeat
MarkAlive ==
    /\ beat = "reading"
    /\ beat' = "marked" /\ missed' = 0
    /\ ttl' = [ttl EXCEPT ![me] = Ttl]
    /\ UNCHANGED <<process, me, shutdown, consuming, since, row, idFile, probe>>

\* record_heartbeat, last_seen_at and the commit; or one of them fails, which is
\* caught: the key has been refreshed either way.
EndBeat ==
    /\ beat = "marked"
    /\ beat' = "asleep" /\ since' = 0
    /\ UNCHANGED <<process, me, shutdown, consuming, missed, row, ttl, idFile, probe>>

\* get_by_id or mark_alive fails: caught, and tried again after the interval.
BeatFails ==
    /\ beat = "reading"
    /\ beat' = "asleep" /\ since' = 0
    /\ missed' = IF missed = 2 THEN 2 ELSE missed + 1
    /\ UNCHANGED <<process, me, shutdown, consuming, row, ttl, idFile, probe>>

\* shutdown_event wakes the loop; the failure of the consume loop cancels it
\* wherever it stands.
EndHeartbeatLoop ==
    /\ \/ beat = "asleep" /\ shutdown
       \/ beat \notin {"off", "ended"} /\ consuming = "failed"
    /\ beat' = "ended"
    /\ UNCHANGED <<process, me, shutdown, consuming, since, missed, row, ttl, idFile, probe>>

-----------------------------------------------------------------------------
\* _consume_loop

\* consume returns entries, also when shutdown was requested meanwhile.
Receive ==
    /\ consuming = "asking"
    /\ consuming' = "batch"
    /\ UNCHANGED <<process, me, shutdown, beat, since, missed, row, ttl, idFile, probe>>

\* Mutant: after a batch the loop asks again, whatever the event says.
FinishBatchAndAsk ==
    /\ consuming = "batch"
    /\ consuming' = "asking"
    /\ UNCHANGED <<process, me, shutdown, beat, since, missed, row, ttl, idFile, probe>>

\* The batch is processed, written and acknowledged; its failures are caught.
FinishBatch ==
    /\ consuming = "batch"
    /\ consuming' = IF shutdown THEN "ended" ELSE "asking"
    /\ UNCHANGED <<process, me, shutdown, beat, since, missed, row, ttl, idFile, probe>>

\* consume times out with nothing and finds the event set.
EndConsumeLoop ==
    /\ consuming = "asking" /\ shutdown
    /\ consuming' = "ended"
    /\ UNCHANGED <<process, me, shutdown, beat, since, missed, row, ttl, idFile, probe>>

\* consume raises: the exception leaves the loop and aborts the TaskGroup.
ConsumeFails ==
    /\ consuming = "asking"
    /\ consuming' = "failed"
    /\ UNCHANGED <<process, me, shutdown, beat, since, missed, row, ttl, idFile, probe>>

-----------------------------------------------------------------------------
\* Mutant: the process deregisters as soon as the consume loop has ended.
DropKeyEarly ==
    /\ process = "running"
    /\ consuming \in {"failed", "ended"}
    /\ process' = "unlisted"
    /\ ttl' = [ttl EXCEPT ![me] = 0]
    /\ UNCHANGED <<me, shutdown, loopVars, row, idFile, probe>>

\* _deregister, when the TaskGroup is over: the key first, then the row.
DropKey ==
    /\ process = "running"
    /\ beat = "ended" /\ consuming \in {"failed", "ended"}
    /\ process' = "unlisted"
    /\ ttl' = [ttl EXCEPT ![me] = 0]
    /\ UNCHANGED <<me, shutdown, loopVars, row, idFile, probe>>

MarkOffline ==
    /\ process = "unlisted"
    /\ Exit
    /\ row' = [row EXCEPT ![me] = "offline"]
    /\ UNCHANGED <<ttl, idFile, probe>>

\* An exception in _deregister: the process ends with its row still ONLINE.
DeregisterFails ==
    /\ \/ process = "running" /\ beat = "ended" /\ consuming \in {"failed", "ended"}
       \/ process = "unlisted"
    /\ Exit
    /\ UNCHANGED <<row, ttl, idFile, probe>>

-----------------------------------------------------------------------------
\* SIGTERM or SIGINT, whose handlers are installed before start().
RequestShutdown ==
    /\ process # "down" /\ ~shutdown
    /\ shutdown' = TRUE
    /\ UNCHANGED <<process, me, loopVars, row, ttl, idFile, probe>>

\* The process is killed.
Crash ==
    /\ process # "down"
    /\ Exit
    /\ UNCHANGED <<row, ttl, idFile, probe>>

\* A call of one of the loops never returns.
Hang ==
    /\ \/ beat \in {"reading", "marked"} /\ beat' = "hung" /\ UNCHANGED consuming
       \/ consuming \in {"asking", "batch"} /\ consuming' = "hung" /\ UNCHANGED beat
    /\ UNCHANGED <<process, me, shutdown, since, missed, row, ttl, idFile, probe>>

\* The health check reads the file; it asks Redis later.
ReadWorkerId ==
    /\ probe' = idFile
    /\ UNCHANGED <<process, me, shutdown, loopVars, row, ttl, idFile>>

\* How long the present phase may take; phases without a limit are not timed.
Timed == process \in {"marked", "committed"} \/ beat \in {"asleep", "reading", "marked"}
Limit == IF beat = "asleep" THEN Interval ELSE BeatTime

Tick ==
    /\ Timed => since < Limit
    /\ since' = IF Timed THEN since + 1 ELSE since
    /\ ttl' = [id \in Ids |-> IF ttl[id] > 0 THEN ttl[id] - 1 ELSE 0]
    /\ UNCHANGED <<process, me, shutdown, beat, consuming, missed, row, idFile, probe>>

ProcessStep == Start \/ MarkRegistered \/ CommitRegistration \/ StartLoops \/ DropKey \/ MarkOffline
BeatStep == BeatStart \/ MarkAlive \/ EndBeat \/ EndHeartbeatLoop
ConsumeStep == FinishBatch \/ EndConsumeLoop

RegistryNext ==
    \/ ProcessStep \/ RegistrationFails \/ DeregisterFails
    \/ BeatStep \/ BeatFails
    \/ ConsumeStep \/ Receive \/ ConsumeFails
    \/ RequestShutdown \/ Crash \/ Hang
    \/ ReadWorkerId \/ Tick

RegistrySpec == RegistryInit /\ [][RegistryNext]_registryVars

\* Docker restarts the process, the event loop runs both loops, calls return
\* unless they hang, and time passes.  Failures and requests need not happen.
FairRegistrySpec ==
    /\ RegistrySpec
    /\ WF_registryVars(ProcessStep) /\ WF_registryVars(BeatStep)
    /\ WF_registryVars(ConsumeStep) /\ WF_registryVars(Tick)

-----------------------------------------------------------------------------
\* The steps of the process and the phases of its loops agree.
Phases ==
    /\ process # "down" => me \in Ids
    /\ process = "down" => shutdown = FALSE
    /\ process \in {"down", "inserted", "marked", "committed"} =>
          beat = "off" /\ consuming = "off" /\ missed = 0
    /\ process = "running" => beat # "off" /\ consuming # "off"
    /\ process = "unlisted" => beat = "ended" /\ consuming \in {"failed", "ended"}

\* What the rows say of ids: drawn later, being registered, registered, and in
\* the hands of the health check.
RowsKnown ==
    /\ \A id \in Ids : id > me => row[id] = "none" /\ ttl[id] = 0
    /\ process \in {"inserted", "marked"} => row[me] = "none"
    /\ process \in {"committed", "running", "unlisted"} => row[me] = "online"
    /\ process = "unlisted" => ttl[me] = 0
    /\ idFile # 0 => row[idFile] # "none"
    /\ probe # 0 => row[probe] # "none"

\* How much of the liveness key is left, at least, where a beat that does its
\* work or the first one after it that does not can stand.
Freshness ==
    /\ process \in {"marked", "committed"} =>
          since <= BeatTime /\ ttl[me] >= Ttl - since
    /\ beat = "asleep" =>
          /\ since <= Interval
          /\ missed = 0 => ttl[me] >= Ttl - BeatTime - since
          /\ missed = 1 => ttl[me] >= Ttl - 2 * BeatTime - Interval - since
    /\ beat = "reading" =>
          /\ since <= BeatTime
          /\ missed = 0 => ttl[me] >= Ttl - BeatTime - Interval - since
          /\ missed = 1 => ttl[me] >= Ttl - 2 * BeatTime - 2 * Interval - since
    /\ beat = "marked" =>
          since <= BeatTime /\ missed = 0 /\ ttl[me] >= Ttl - since

\* A worker that has been marked OFFLINE is done: its key is gone and stays
\* gone, because nothing of the process is left that could refresh it
\* (worker/main.py: _deregister after the TaskGroup).
OfflineIsDone ==
    \A id \in Ids : row[id] = "offline" => ~Alive(id) /\ (id = me => process = "down")

\* The inductive invariant of the proofs, with the types.
RegistryInv == RegistryTypeOK /\ Phases /\ RowsKnown /\ Freshness /\ OfflineIsDone

\* While the heartbeat loop runs, one missed beat does not make its worker look
\* dead in GET /workers (app/queue/worker_registry.py: HEARTBEAT_TTL_SECONDS),
\* also when it is the first beat after the registration.
MissedBeatTolerated ==
    beat \in {"asleep", "reading", "marked"} /\ missed <= 1 =>
        /\ me \in DOMAIN ListWorkers
        /\ ListWorkers[me] = [status |-> "online", is_alive |-> TRUE]

\* The health check, which reads the file and asks Redis later, never answers
\* "healthy" for a worker that is not registered or has deregistered
\* (worker/healthcheck.py: is_healthy).
HealthyIsOnline == Healthy => row[probe] = "online"

\* Nobody is left who would refresh the key of id.
Stalled(id) == id # me \/ process = "down" \/ beat = "hung"

\* A worker that died, or whose heartbeat hangs, drops out of the live workers
\* (worker/healthcheck.py: "which then expires in Redis on its own").
DeadIsDropped == \A id \in Ids : Stalled(id) ~> ~Alive(id)

\* A requested shutdown ends the process, after the work in flight, however much
\* more is on the stream, unless a call of a loop hangs (request_shutdown).
ShutdownCompletes ==
    shutdown ~> process = "down" \/ beat = "hung" \/ consuming = "hung"
=============================================================================
