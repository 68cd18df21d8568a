------------------------ MODULE WorkerRegistryProofs ------------------------
(***************************************************************************)
(* The registration invariant for every interval, TTL and duration of a    *)
(* beat that fit together, and every number of restarts.                   *)
(***************************************************************************)
EXTENDS WorkerRegistry, TLAPS

\* The initial state has no process, no row and no key (WorkerProcess.__init__).
LEMMA InitRegistry == RegistryInit => RegistryInv
  <1> SUFFICES ASSUME RegistryInit PROVE RegistryInv
      OBVIOUS
  <1> USE RegistryAssumption DEF RegistryInit, Ids
  <1>1. RegistryTypeOK
    <2>1. shutdown \in BOOLEAN
        OBVIOUS
    <2> QED
        BY <2>1 DEF RegistryTypeOK
  <1>2. Phases /\ RowsKnown /\ Freshness /\ OfflineIsDone
      BY DEF Phases, RowsKnown, Freshness, OfflineIsDone, Alive
  <1> QED
      BY <1>1, <1>2 DEF RegistryInv

\* Every step keeps the invariant (worker/main.py: start, _register,
\* _heartbeat_loop, _consume_loop, _deregister).
LEMMA StepRegistry == RegistryInv /\ [RegistryNext]_registryVars => RegistryInv'
  <1> SUFFICES ASSUME RegistryInv, [RegistryNext]_registryVars
               PROVE  RegistryInv'
      OBVIOUS
  <1> USE RegistryAssumption
      DEF RegistryInv, RegistryTypeOK, Phases, RowsKnown, Freshness, OfflineIsDone, Ids, Alive
  <1>1. CASE Start
      BY <1>1 DEF Start, loopVars
  <1>2. CASE MarkRegistered
      BY <1>2 DEF MarkRegistered
  <1>3. CASE CommitRegistration
      BY <1>3 DEF CommitRegistration, loopVars
  <1>4. CASE RegistrationFails
    <2> USE <1>4 DEF RegistrationFails, Exit
    <2>1. RegistryTypeOK'
      <3>1. shutdown' \in BOOLEAN /\ row' \in [Ids -> {"none", "online", "offline"}]
          OBVIOUS
      <3> QED
          BY <3>1
    <2>2. Phases' /\ Freshness'
        OBVIOUS
    <2>3. RowsKnown'
        OBVIOUS
    <2>4. OfflineIsDone'
        OBVIOUS
    <2> QED
        BY <2>1, <2>2, <2>3, <2>4
  <1>5. CASE StartLoops
      BY <1>5 DEF StartLoops
  <1>6. CASE DropKey
      BY <1>6 DEF DropKey, loopVars
  <1>7. CASE MarkOffline
    <2> USE <1>7 DEF MarkOffline, Exit
    <2>1. RegistryTypeOK'
      <3>1. shutdown' \in BOOLEAN /\ row' \in [Ids -> {"none", "online", "offline"}]
          OBVIOUS
      <3> QED
          BY <3>1
    <2>2. Phases' /\ Freshness'
        OBVIOUS
    <2>3. RowsKnown'
        OBVIOUS
    <2>4. OfflineIsDone'
        OBVIOUS
    <2> QED
        BY <2>1, <2>2, <2>3, <2>4
  <1>8. CASE DeregisterFails
    <2>1. shutdown' \in BOOLEAN /\ RowsKnown' /\ Phases' /\ Freshness' /\ OfflineIsDone'
        BY <1>8 DEF DeregisterFails, Exit
    <2> QED
        BY <1>8, <2>1 DEF DeregisterFails, Exit
  <1>9. CASE BeatStart
      BY <1>9 DEF BeatStart
  <1>10. CASE MarkAlive
      BY <1>10 DEF MarkAlive
  <1>11. CASE EndBeat
      BY <1>11 DEF EndBeat
  <1>12. CASE BeatFails
      BY <1>12 DEF BeatFails
  <1>13. CASE EndHeartbeatLoop
      BY <1>13 DEF EndHeartbeatLoop
  <1>14. CASE Receive
      BY <1>14 DEF Receive
  <1>15. CASE FinishBatch
      BY <1>15 DEF FinishBatch
  <1>16. CASE EndConsumeLoop
      BY <1>16 DEF EndConsumeLoop
  <1>17. CASE ConsumeFails
      BY <1>17 DEF ConsumeFails
  <1>18. CASE RequestShutdown
      BY <1>18 DEF RequestShutdown, loopVars
  <1>19. CASE Crash
    <2>1. shutdown' \in BOOLEAN /\ RowsKnown' /\ Phases' /\ Freshness' /\ OfflineIsDone'
        BY <1>19 DEF Crash, Exit
    <2> QED
        BY <1>19, <2>1 DEF Crash, Exit
  <1>20. CASE Hang
      BY <1>20 DEF Hang
  <1>21. CASE ReadWorkerId
      BY <1>21 DEF ReadWorkerId, loopVars
  <1>22. CASE Tick
    <2> USE <1>22 DEF Tick
    <2>1. since' \in Nat /\ (Timed => since' = since + 1 /\ since' <= Limit)
        BY DEF Timed, Limit
    <2>2. \A id \in Ids : ttl'[id] \in 0..Ttl /\ ttl'[id] >= ttl[id] - 1
                          /\ (ttl[id] = 0 => ttl'[id] = 0)
        OBVIOUS
    <2>3. RegistryTypeOK' /\ Phases' /\ RowsKnown' /\ OfflineIsDone'
        BY <2>1, <2>2
    <2>4. Freshness'
      <3>1. CASE process \in {"marked", "committed"}
          BY <3>1, <2>1, <2>2 DEF Timed, Limit
      <3>2. CASE beat \in {"asleep", "reading", "marked"}
        <4>1. process = "running" /\ me \in Ids
            BY <3>2
        <4>2. since' = since + 1 /\ since' <= Limit /\ ttl'[me] >= ttl[me] - 1
            BY <3>2, <4>1, <2>1, <2>2 DEF Timed
        <4>3. since \in Int /\ ttl[me] \in Int /\ ttl'[me] \in Int
            BY <4>1, <2>2
        <4> QED
            BY <3>2, <4>1, <4>2, <4>3 DEF Limit
      <3>3. CASE ~ (process \in {"marked", "committed"} \/ beat \in {"asleep", "reading", "marked"})
          BY <3>3
      <3> QED
          BY <3>1, <3>2, <3>3
    <2> QED
        BY <2>3, <2>4
  <1>23. CASE UNCHANGED registryVars
      BY <1>23 DEF registryVars, loopVars
  <1> QED
      BY <1>1, <1>2, <1>3, <1>4, <1>5, <1>6, <1>7, <1>8, <1>9, <1>10, <1>11, <1>12, <1>13, <1>14, <1>15, <1>16, <1>17, <1>18, <1>19, <1>20, <1>21, <1>22, <1>23
      DEF RegistryNext, ProcessStep, BeatStep, ConsumeStep

\* The inductive invariant of the registration.
THEOREM RegistryInvariance == RegistrySpec => []RegistryInv
  BY InitRegistry, StepRegistry, PTL DEF RegistrySpec

\* An OFFLINE worker has no key and no process (WorkerProcess._deregister).
THEOREM OfflineWorkersAreDone == RegistrySpec => []OfflineIsDone
  <1>1. RegistryInv => OfflineIsDone
      BY DEF RegistryInv
  <1> QED
      BY <1>1, RegistryInvariance, PTL

\* One missed beat is tolerated (HEARTBEAT_TTL_SECONDS).
THEOREM OneMissedBeat == RegistrySpec => []MissedBeatTolerated
  <1>1. RegistryInv => MissedBeatTolerated
    <2> SUFFICES ASSUME RegistryInv, beat \in {"asleep", "reading", "marked"}, missed <= 1
                 PROVE  me \in Ids /\ row[me] = "online" /\ ttl[me] > 0
        BY DEF MissedBeatTolerated, ListWorkers, Alive
    <2>1. process = "running" /\ me \in Ids /\ row[me] = "online"
        BY DEF RegistryInv, RegistryTypeOK, Phases, RowsKnown
    <2>2. missed = 0 \/ missed = 1
        BY DEF RegistryInv, RegistryTypeOK
    <2>3. ttl[me] \in Int
        BY <2>1 DEF RegistryInv, RegistryTypeOK
    <2>4. ttl[me] > 0
        BY <2>2, <2>3, RegistryAssumption DEF RegistryInv, RegistryTypeOK, Freshness
    <2> QED
        BY <2>1, <2>4
  <1> QED
      BY <1>1, RegistryInvariance, PTL

\* A healthy answer names a registered worker that is online (is_healthy).
THEOREM HealthyWorkersAreOnline == RegistrySpec => []HealthyIsOnline
  <1>1. RegistryInv => HealthyIsOnline
    <2> SUFFICES ASSUME RegistryInv, probe # 0, ttl[probe] > 0
                 PROVE  row[probe] = "online"
        BY DEF HealthyIsOnline, Healthy, Alive
    <2>1. probe \in Ids
        BY RegistryAssumption DEF RegistryInv, RegistryTypeOK, Ids
    <2>2. row[probe] \in {"none", "online", "offline"} /\ row[probe] # "none"
        BY <2>1 DEF RegistryInv, RegistryTypeOK, RowsKnown
    <2>3. row[probe] # "offline"
        BY <2>1 DEF RegistryInv, OfflineIsDone, Alive
    <2> QED
        BY <2>2, <2>3
  <1> QED
      BY <1>1, RegistryInvariance, PTL
=============================================================================
