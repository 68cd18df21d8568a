----------------------- MODULE CronSchedulesProofs -----------------------
(***************************************************************************)
(* What CronSchedules promises for any number of schedules, any cron       *)
(* expressions and any failures: no occurrence runs twice (whatever        *)
(* requests overlap), and an active schedule always has a next_run_at when *)
(* requests do not overlap each other.                                     *)
(***************************************************************************)
EXTENDS CronSchedules, TLAPS

\* At most one API request is in progress, next to the sweep.
OneRequest == \A r, q \in Requests : r = q

USE DEF Null, Idle

\* The computed next_run_at is in the future.
LEMMA NextIsLater ==
    ASSUME CronTypeOK, NEW c \in Crons
    PROVE  compute_next_run_at(c) \in Nat /\ compute_next_run_at(c) > now
BY CronAssumption DEF CronTypeOK, compute_next_run_at

\* A row with a newly computed next_run_at is a row, and fires if it is active.
LEMMA ScheduledRow ==
    ASSUME CronTypeOK, NEW active \in BOOLEAN, NEW c \in Crons
    PROVE  /\ Scheduled(active, c) \in Row
           /\ Scheduled(active, c).active = active
           /\ active => Scheduled(active, c).next # Null
<1>1. compute_next_run_at(c) \in Nat /\ compute_next_run_at(c) > now /\ now \in Nat
  BY NextIsLater DEF CronTypeOK
<1> QED BY <1>1 DEF Scheduled, Row

\* The placeholder of a schedule without a row is a row that does not fire.
LEMMA NoRowIsRow ==
    ASSUME NEW s \in Schedules
    PROVE  NoRow(s) \in Row /\ NoRow(s).next = Null
<1>1. (CHOOSE c \in CronsOf[s] : TRUE) \in CronsOf[s]
  BY CronAssumption
<1> QED BY <1>1 DEF NoRow, Row, Crons

\* A request that is not idle has a schedule and the row it loaded.
LEMMA RequestParts ==
    ASSUME CronTypeOK, NEW r \in Requests, req[r].stage # "idle"
    PROVE  /\ req[r].schedule \in Schedules /\ req[r].seen \in Row
           /\ req[r].stage = "computed" => req[r].want \in Row
BY DEF CronTypeOK, Request

\* What an UPDATE makes of a row is a row.
LEMMA WrittenRow ==
    ASSUME NEW seen \in Row, NEW want \in Row, NEW current \in Row
    PROVE  Written(seen, want, current) \in Row
BY DEF Written, Row

\* A later occurrence at the end keeps a history increasing.
LEMMA AppendLater ==
    ASSUME NEW q \in Seq(Nat), NEW n \in Nat, NEW m \in Nat, n < m,
           \A i, j \in 1..Len(q) : i < j => q[i] < q[j],
           \A i \in 1..Len(q) : q[i] < n,
           NEW a, a = Append(q, n)
    PROVE  /\ \A i, j \in 1..Len(a) : i < j => a[i] < a[j]
           /\ \A i \in 1..Len(a) : a[i] < m
<1>1. Len(q) \in Nat /\ Len(a) = Len(q) + 1
  OBVIOUS
<1>2. a[Len(q) + 1] = n /\ \A i \in 1..Len(q) : a[i] = q[i] /\ q[i] \in Nat
  OBVIOUS
<1>3. \A i \in 1..Len(a) : i \in 1..Len(q) \/ i = Len(q) + 1
  BY <1>1
<1>4. \A i \in 1..Len(a) : a[i] < m
  BY <1>2, <1>3
<1>5. ASSUME NEW i \in 1..Len(a), NEW j \in 1..Len(a), i < j PROVE a[i] < a[j]
  <2>1. i \in 1..Len(q)
    BY <1>1, <1>5
  <2> QED BY <1>2, <1>3, <1>5, <2>1
<1> QED BY <1>4, <1>5

-----------------------------------------------------------------------------
\* Every step keeps the types.
LEMMA TypeStep ==
    ASSUME CronTypeOK, [CronNext]_cronVars
    PROVE  CronTypeOK'
<1> USE DEF CronTypeOK, sweepVars, apiVars
<1>1. CASE list_due
  BY <1>1 DEF list_due, Due, Nothing
<1>2. ASSUME NEW s \in Schedules, TriggerRun(s) PROVE CronTypeOK'
  BY <1>2 DEF TriggerRun
<1>3. ASSUME NEW s \in Schedules, AdvanceSchedule(s) PROVE CronTypeOK'
  <2>1. listed[s].cron \in Crons
    BY <1>3 DEF AdvanceSchedule, Row
  <2>2. compute_next_run_at(listed[s].cron) \in Nat
    BY <2>1, NextIsLater
  <2>3. CASE s \in stored
    <3>1. advanced' = [u \in DOMAIN advanced \cup {s} |->
                         IF u = s THEN compute_next_run_at(listed[s].cron) ELSE advanced[u]]
      BY <1>3, <2>3 DEF AdvanceSchedule
    <3>2. DOMAIN advanced' = DOMAIN advanced \cup {s} /\ advanced' \in [DOMAIN advanced' -> Nat]
      BY <2>2, <3>1
    <3> QED BY <1>3, <2>3, <3>2 DEF AdvanceSchedule
  <2>4. CASE s \notin stored
    BY <1>3, <2>4 DEF AdvanceSchedule, EndSweep, Nothing
  <2> QED BY <2>3, <2>4
<1>4. CASE CommitSweep
  <2>1. row' \in [Schedules -> Row]
    BY <1>4 DEF CommitSweep, Row
  <2>2. runs' \in [Schedules -> Seq(Nat)]
    BY <1>4 DEF CommitSweep, Row
  <2> QED BY <1>4, <2>1, <2>2 DEF CommitSweep, EndSweep, Nothing
<1>5. CASE SweepFails
  BY <1>5 DEF SweepFails, EndSweep, Nothing
<1>6. ASSUME NEW r \in Requests, NEW s \in Schedules, LoadSchedule(r, s) PROVE CronTypeOK'
  BY <1>6 DEF LoadSchedule, Request
<1>7. ASSUME NEW r \in Requests, ComputeUpdate(r) PROVE CronTypeOK'
  <2>1. PICK active \in BOOLEAN, c \in CronsOf[req[r].schedule] :
          req' = [req EXCEPT ![r] = [stage |-> "computed", schedule |-> req[r].schedule,
                                     seen |-> req[r].seen, want |-> Scheduled(active, c)]]
    BY <1>7 DEF ComputeUpdate
  <2>2. req[r].schedule \in Schedules /\ req[r].seen \in Row
    BY <1>7, RequestParts DEF ComputeUpdate
  <2>3. Scheduled(active, c) \in Row
    BY <2>2, ScheduledRow DEF Crons
  <2>4. req' \in [Requests -> Request]
    BY <2>1, <2>2, <2>3 DEF Request
  <2> QED BY <1>7, <2>4 DEF ComputeUpdate
<1>8. ASSUME NEW r \in Requests, ApplyUpdate(r) PROVE CronTypeOK'
  <2>1. req[r].schedule \in Schedules /\ req[r].seen \in Row /\ req[r].want \in Row
    BY <1>8, RequestParts DEF ApplyUpdate
  <2>2. Written(req[r].seen, req[r].want, row[req[r].schedule]) \in Row
    BY <2>1, WrittenRow
  <2>3. row' \in [Schedules -> Row]
    BY <1>8, <2>1, <2>2 DEF ApplyUpdate
  <2>4. runs' \in [Schedules -> Seq(Nat)]
    <3>1. << >> \in Seq(Nat)
      OBVIOUS
    <3> QED BY <1>8, <2>1, <3>1 DEF ApplyUpdate
  <2>5. req' \in [Requests -> Request]
    BY <1>8 DEF ApplyUpdate, Request
  <2> QED BY <1>8, <2>3, <2>4, <2>5 DEF ApplyUpdate
<1>9. ASSUME NEW r \in Requests, delete_schedule(r) PROVE CronTypeOK'
  <2>1. req[r].schedule \in Schedules
    BY <1>9, RequestParts DEF delete_schedule
  <2>2. NoRow(req[r].schedule) \in Row
    BY <2>1, NoRowIsRow
  <2> QED BY <1>9, <2>1, <2>2 DEF delete_schedule, DropRow, Request
<1>10. ASSUME NEW s \in Schedules, create_schedule(s) PROVE CronTypeOK'
  <2>1. PICK active \in BOOLEAN, c \in CronsOf[s] : row' = [row EXCEPT ![s] = Scheduled(active, c)]
    BY <1>10 DEF create_schedule
  <2>2. Scheduled(active, c) \in Row
    BY ScheduledRow DEF Crons
  <2> QED BY <1>10, <2>1, <2>2 DEF create_schedule
<1>11. ASSUME NEW s \in Schedules, DeleteCollection(s) PROVE CronTypeOK'
  BY <1>11, NoRowIsRow DEF DeleteCollection, DropRow
<1>12. CASE Tick
  BY <1>12, CronAssumption DEF Tick
<1>13. CASE UNCHANGED cronVars
  BY <1>13 DEF cronVars
<1> QED BY <1>1, <1>2, <1>3, <1>4, <1>5, <1>6, <1>7, <1>8, <1>9, <1>10, <1>11, <1>12, <1>13
        DEF CronNext, SweepStep, RequestStep

-----------------------------------------------------------------------------
\* The parts of SweepInv that relate runs to rows and to the sweep.
Ordered == OccurrencesIncrease /\ RunsBeforeNext /\ RunsBeforeListed /\ AdvancedBeyondListed

\* Steps that move neither the sweep nor any run keep the order, if next_run_at stays
\* where it is or the history of the schedule begins anew.
LEMMA RowStepOrdered ==
    ASSUME SweepInv, CronTypeOK', UNCHANGED <<now, sweepVars>>,
           \A s \in Schedules : runs'[s] = << >> \/ (runs'[s] = runs[s] /\ row'[s].next = row[s].next)
    PROVE  Ordered'
<1> USE DEF SweepInv, sweepVars
<1>1. OccurrencesIncrease'
  BY DEF OccurrencesIncrease
<1>2. RunsBeforeNext'
  BY DEF RunsBeforeNext
<1>3. RunsBeforeListed'
  BY DEF RunsBeforeListed, CronTypeOK
<1>4. AdvancedBeyondListed'
  BY DEF AdvancedBeyondListed
<1> QED BY <1>1, <1>2, <1>3, <1>4 DEF Ordered

\* Every step keeps SweepInv: requests restart a history or leave next_run_at alone, and
\* the sweep moves next_run_at beyond the occurrence it runs in the same commit.
LEMMA SweepInvStep ==
    ASSUME SweepInv, [CronNext]_cronVars
    PROVE  SweepInv'
<1> USE DEF SweepInv, sweepVars, apiVars
<1>0. CronTypeOK /\ CronTypeOK'
  BY TypeStep
<1> SUFFICES Ordered'
  BY <1>0 DEF Ordered
<1>1. CASE list_due
  <2>1. PICK D \in SUBSET Due : listed' = [s \in D |-> row[s]]
    BY <1>1 DEF list_due
  <2>2. \A s \in D : row[s].next # Null /\ row[s].next <= now /\ s \in Schedules
    BY <1>0 DEF Due, CronTypeOK
  <2>3. UNCHANGED <<now, row, runs, advanced>> /\ DOMAIN listed' = D
    BY <1>1, <2>1 DEF list_due
  <2>4. DOMAIN advanced = {}
    BY <1>0, <1>1 DEF list_due, Nothing, CronTypeOK
  <2>5. RunsBeforeListed'
    BY <2>1, <2>2, <2>3 DEF RunsBeforeListed, RunsBeforeNext
  <2> QED BY <2>3, <2>4, <2>5 DEF Ordered, OccurrencesIncrease, RunsBeforeNext, AdvancedBeyondListed
<1>2. ASSUME NEW s \in Schedules, TriggerRun(s) PROVE Ordered'
  BY <1>2 DEF TriggerRun, Ordered, OccurrencesIncrease, RunsBeforeNext, RunsBeforeListed,
              AdvancedBeyondListed
<1>3. ASSUME NEW s \in Schedules, AdvanceSchedule(s) PROVE Ordered'
  <2>1. UNCHANGED <<now, row, runs>>
    BY <1>3 DEF AdvanceSchedule
  <2>2. OccurrencesIncrease' /\ RunsBeforeNext'
    BY <2>1 DEF OccurrencesIncrease, RunsBeforeNext
  <2>3. CASE s \in stored
    <3>1. /\ advanced' = [u \in DOMAIN advanced \cup {s} |->
                            IF u = s THEN compute_next_run_at(listed[s].cron) ELSE advanced[u]]
          /\ listed' = listed /\ s \in DOMAIN listed
      BY <1>0, <1>3, <2>3 DEF AdvanceSchedule, CronTypeOK
    <3>2. listed[s].cron \in Crons /\ listed[s].next \in Nat /\ now \in Nat
      BY <1>0, <3>1 DEF CronTypeOK, Row
    <3>3. compute_next_run_at(listed[s].cron) > listed[s].next
      BY <1>0, <3>1, <3>2, NextIsLater DEF RunsBeforeListed
    <3>4. AdvancedBeyondListed'
      BY <3>1, <3>3 DEF AdvancedBeyondListed
    <3> QED BY <2>1, <2>2, <3>1, <3>4 DEF Ordered, RunsBeforeListed
  <2>4. CASE s \notin stored
    <3>1. DOMAIN listed' = {} /\ DOMAIN advanced' = {}
      BY <1>3, <2>4 DEF AdvanceSchedule, EndSweep, Nothing
    <3> QED BY <2>2, <3>1 DEF Ordered, RunsBeforeListed, AdvancedBeyondListed
  <2> QED BY <2>3, <2>4
<1>4. CASE CommitSweep
  <2>1. DOMAIN listed' = {} /\ DOMAIN advanced' = {}
    BY <1>4 DEF CommitSweep, EndSweep, Nothing
  <2>2. ASSUME NEW s \in Schedules
        PROVE  /\ \A i, j \in 1..Len(runs'[s]) : i < j => runs'[s][i] < runs'[s][j]
               /\ \A i \in 1..Len(runs'[s]) : row'[s].next = Null \/ runs'[s][i] < row'[s].next
    <3>1. runs[s] \in Seq(Nat)
      BY <1>0 DEF CronTypeOK
    <3>2. \A i, j \in 1..Len(runs[s]) : i < j => runs[s][i] < runs[s][j]
      BY DEF OccurrencesIncrease
    <3>3. CASE s \in DOMAIN advanced
      <4>1. /\ s \in DOMAIN listed /\ listed[s].next \in Nat /\ advanced[s] \in Nat
            /\ row'[s].next = advanced[s]
        BY <1>0, <1>4, <3>3 DEF CommitSweep, CronTypeOK, Row
      <4>2. advanced[s] > listed[s].next /\ \A i \in 1..Len(runs[s]) : runs[s][i] < listed[s].next
        BY <3>3, <4>1 DEF AdvancedBeyondListed, RunsBeforeListed
      <4>3. CASE s \in inserted
        <5>1. runs'[s] = Append(runs[s], listed[s].next)
          BY <1>4, <4>3 DEF CommitSweep
        <5> QED BY <3>1, <3>2, <4>1, <4>2, <5>1, AppendLater
      <4>4. CASE s \notin inserted
        <5>1. runs'[s] = runs[s]
          BY <1>4, <4>4 DEF CommitSweep
        <5> QED BY <3>1, <3>2, <4>1, <4>2, <5>1
      <4> QED BY <4>3, <4>4
    <3>4. CASE s \notin DOMAIN advanced
      <4>1. s \notin inserted
        BY <1>0, <1>4, <3>4 DEF CommitSweep, CronTypeOK
      <4>2. runs'[s] = runs[s] /\ row'[s] = row[s]
        BY <1>4, <3>4, <4>1 DEF CommitSweep
      <4> QED BY <3>2, <4>2 DEF RunsBeforeNext
    <3> QED BY <3>3, <3>4
  <2> QED BY <2>1, <2>2 DEF Ordered, OccurrencesIncrease, RunsBeforeNext, RunsBeforeListed,
                            AdvancedBeyondListed
<1>5. CASE SweepFails
  BY <1>5 DEF SweepFails, EndSweep, Nothing, Ordered, OccurrencesIncrease, RunsBeforeNext,
              RunsBeforeListed, AdvancedBeyondListed
<1>6. ASSUME NEW r \in Requests, NEW s \in Schedules, LoadSchedule(r, s) PROVE Ordered'
  BY <1>0, <1>6, RowStepOrdered DEF LoadSchedule
<1>7. ASSUME NEW r \in Requests, ComputeUpdate(r) PROVE Ordered'
  BY <1>0, <1>7, RowStepOrdered DEF ComputeUpdate
<1>8. ASSUME NEW r \in Requests, ApplyUpdate(r) PROVE Ordered'
  <2>1. req[r].schedule \in Schedules
    BY <1>0, <1>8, RequestParts DEF ApplyUpdate
  <2>2. \A s \in Schedules : runs'[s] = << >> \/ (runs'[s] = runs[s] /\ row'[s].next = row[s].next)
    <3>1. \A s \in Schedules \ {req[r].schedule} : runs'[s] = runs[s] /\ row'[s] = row[s]
      BY <1>0, <1>8 DEF ApplyUpdate, CronTypeOK
    <3>2. CASE req[r].schedule \notin stored
      BY <1>8, <3>2 DEF ApplyUpdate
    <3>3. CASE req[r].schedule \in stored /\ req[r].want.next = req[r].seen.next
      <4>1. /\ runs' = runs /\ row \in [Schedules -> Row]
            /\ row' = [row EXCEPT ![req[r].schedule] =
                          Written(req[r].seen, req[r].want, row[req[r].schedule])]
        BY <1>0, <1>8, <3>3 DEF ApplyUpdate, CronTypeOK
      <4>2. row'[req[r].schedule].next = row[req[r].schedule].next
        BY <2>1, <3>3, <4>1 DEF Written
      <4> QED BY <3>1, <4>1, <4>2
    <3>4. CASE req[r].schedule \in stored /\ req[r].want.next # req[r].seen.next
      <4>1. runs' = [runs EXCEPT ![req[r].schedule] = << >>]
        BY <1>8, <3>4 DEF ApplyUpdate
      <4> QED BY <1>0, <2>1, <3>1, <4>1 DEF CronTypeOK
    <3> QED BY <3>2, <3>3, <3>4
  <2> QED BY <1>0, <1>8, <2>2, RowStepOrdered DEF ApplyUpdate
<1>9. ASSUME NEW r \in Requests, delete_schedule(r) PROVE Ordered'
  <2>1. \A s \in Schedules : runs'[s] = << >> \/ (runs'[s] = runs[s] /\ row'[s].next = row[s].next)
    BY <1>0, <1>9 DEF delete_schedule, DropRow, CronTypeOK
  <2> QED BY <1>0, <1>9, <2>1, RowStepOrdered DEF delete_schedule
<1>10. ASSUME NEW s \in Schedules, create_schedule(s) PROVE Ordered'
  <2>1. \A u \in Schedules : runs'[u] = << >> \/ (runs'[u] = runs[u] /\ row'[u].next = row[u].next)
    BY <1>0, <1>10 DEF create_schedule, CronTypeOK
  <2> QED BY <1>0, <1>10, <2>1, RowStepOrdered DEF create_schedule
<1>11. ASSUME NEW s \in Schedules, DeleteCollection(s) PROVE Ordered'
  <2>1. \A u \in Schedules : runs'[u] = << >> \/ (runs'[u] = runs[u] /\ row'[u].next = row[u].next)
    BY <1>0, <1>11 DEF DeleteCollection, DropRow, CronTypeOK
  <2> QED BY <1>0, <1>11, <2>1, RowStepOrdered DEF DeleteCollection
<1>12. CASE Tick
  <2>1. now \in Nat /\ now' = now + 1 /\ listed' = listed /\ runs' = runs
    BY <1>0, <1>12 DEF Tick, CronTypeOK
  <2>2. RunsBeforeListed'
    BY <1>0, <2>1 DEF RunsBeforeListed, CronTypeOK, Row
  <2> QED BY <1>12, <2>2 DEF Tick, Ordered, OccurrencesIncrease, RunsBeforeNext, AdvancedBeyondListed
<1>13. CASE UNCHANGED cronVars
  BY <1>0, <1>13, RowStepOrdered DEF cronVars
<1> QED BY <1>1, <1>2, <1>3, <1>4, <1>5, <1>6, <1>7, <1>8, <1>9, <1>10, <1>11, <1>12, <1>13
        DEF CronNext, SweepStep, RequestStep

-----------------------------------------------------------------------------
\* Requests that follow one another, and sweeps, leave no active schedule without a
\* next_run_at: a sweep only ever writes one, and a request decides about the row it
\* has seen.
LEMMA CronInvStep ==
    ASSUME OneRequest, CronInv, [CronNext]_cronVars
    PROVE  CronInv'
<1> USE DEF sweepVars, apiVars
<1>0. SweepInv /\ SweepInv' /\ CronTypeOK /\ CronTypeOK'
  BY SweepInvStep DEF CronInv, SweepInv
<1> DEFINE Fires == ActiveWillFire /\ SeenButForNext /\ WantsToFire
<1> SUFFICES Fires'
  BY <1>0 DEF CronInv
<1>a. Fires
  BY DEF CronInv
<1>b. ASSUME UNCHANGED <<stored, created, row, req>> PROVE Fires'
  BY <1>a, <1>b DEF ActiveWillFire, SeenButForNext, WantsToFire
<1>1. CASE list_due
  BY <1>1, <1>b DEF list_due
<1>2. ASSUME NEW s \in Schedules, TriggerRun(s) PROVE Fires'
  BY <1>2, <1>b DEF TriggerRun
<1>3. ASSUME NEW s \in Schedules, AdvanceSchedule(s) PROVE Fires'
  BY <1>3, <1>b DEF AdvanceSchedule
<1>4. CASE CommitSweep
  <2>1. ASSUME NEW s \in Schedules
        PROVE  /\ row'[s].active = row[s].active
               /\ row'[s].next = row[s].next \/ row'[s].next # Null
    <3>1. CASE s \in DOMAIN advanced
      <4>1. row'[s] = [row[s] EXCEPT !.next = advanced[s]] /\ row[s] \in Row
        BY <1>0, <1>4, <3>1 DEF CommitSweep, CronTypeOK
      <4>2. advanced[s] \in Nat /\ listed[s].next \in Nat /\ advanced[s] > listed[s].next
        BY <1>0, <3>1 DEF CronTypeOK, Row, SweepInv, AdvancedBeyondListed
      <4> QED BY <4>1, <4>2 DEF Row
    <3>2. CASE s \notin DOMAIN advanced
      BY <1>4, <3>2 DEF CommitSweep
    <3> QED BY <3>1, <3>2
  <2>2. stored' = stored /\ created' = created /\ req' = req /\ stored \subseteq Schedules
    BY <1>0, <1>4 DEF CommitSweep, CronTypeOK
  <2>3. ActiveWillFire'
    BY <1>a, <2>1, <2>2 DEF ActiveWillFire
  <2>4. SeenButForNext'
    BY <1>a, <2>1, <2>2 DEF SeenButForNext
  <2> QED BY <1>a, <2>2, <2>3, <2>4 DEF WantsToFire
<1>5. CASE SweepFails
  BY <1>5, <1>b DEF SweepFails
<1>6. ASSUME NEW r \in Requests, NEW s \in Schedules, LoadSchedule(r, s) PROVE Fires'
  <2>1. /\ UNCHANGED <<stored, created, row>> /\ s \in created
        /\ req' = [req EXCEPT ![r] = [stage |-> "loaded", schedule |-> s, seen |-> row[s]]]
        /\ req \in [Requests -> Request]
    BY <1>0, <1>6 DEF LoadSchedule, CronTypeOK
  <2> QED BY <1>a, <2>1 DEF ActiveWillFire, SeenButForNext, WantsToFire
<1>7. ASSUME NEW r \in Requests, ComputeUpdate(r) PROVE Fires'
  <2>1. PICK active \in BOOLEAN, c \in CronsOf[req[r].schedule] :
          req' = [req EXCEPT ![r] = [stage |-> "computed", schedule |-> req[r].schedule,
                                     seen |-> req[r].seen, want |-> Scheduled(active, c)]]
    BY <1>7 DEF ComputeUpdate
  <2>2. UNCHANGED <<stored, created, row>> /\ req \in [Requests -> Request] /\ req[r].stage # "idle"
    BY <1>0, <1>7 DEF ComputeUpdate, CronTypeOK
  <2>3. req[r].schedule \in Schedules
    BY <1>0, <2>2, RequestParts
  <2>4. Scheduled(active, c).active => Scheduled(active, c).next # Null
    BY <1>0, <2>3, ScheduledRow DEF Crons
  <2>5. WantsToFire'
    BY <1>a, <2>1, <2>2, <2>4 DEF WantsToFire
  <2>6. SeenButForNext'
    BY <1>a, <2>1, <2>2 DEF SeenButForNext
  <2> QED BY <1>a, <2>2, <2>5, <2>6 DEF ActiveWillFire
<1>8. ASSUME NEW r \in Requests, ApplyUpdate(r) PROVE Fires'
  <2> DEFINE s == req[r].schedule
  <2>1. /\ stored' = stored /\ req \in [Requests -> Request] /\ req[r].stage = "computed"
        /\ req' = [req EXCEPT ![r] = Idle]
    BY <1>0, <1>8 DEF ApplyUpdate, CronTypeOK
  <2>2. \A q \in Requests : req'[q].stage = "idle"
    BY <2>1 DEF OneRequest
  <2>3. CASE s \in stored
    <3>1. s \in Schedules /\ req[r].seen \in Row /\ req[r].want \in Row /\ row \in [Schedules -> Row]
      BY <1>0, <2>1, RequestParts DEF CronTypeOK
    <3>2. row' = [row EXCEPT ![s] = Written(req[r].seen, req[r].want, row[s])]
      BY <1>8, <2>3 DEF ApplyUpdate
    <3>3. row[s].active = req[r].seen.active /\ (row[s].next = Null => req[r].seen.next = Null)
      BY <1>a, <2>1, <2>3 DEF SeenButForNext
    <3>4. row'[s].active => row'[s].next # Null
      BY <1>a, <2>1, <3>1, <3>2, <3>3 DEF Written, Row, WantsToFire
    <3>5. ActiveWillFire'
      BY <1>0, <1>a, <2>1, <3>1, <3>2, <3>4 DEF ActiveWillFire, CronTypeOK
    <3> QED BY <2>2, <3>5 DEF SeenButForNext, WantsToFire
  <2>4. CASE s \notin stored
    <3>1. row' = row
      BY <1>8, <2>4 DEF ApplyUpdate
    <3> QED BY <1>a, <2>1, <2>2, <3>1 DEF ActiveWillFire, SeenButForNext, WantsToFire
  <2> QED BY <2>3, <2>4
<1>c. ASSUME NEW s \in Schedules, DropRow(s), created' = created,
             \/ req' = req
             \/ \A q \in Requests : req'[q].stage = "idle"
      PROVE  Fires'
  <2>1. stored' = stored \ {s} /\ \A u \in stored' : row'[u] = row[u]
    BY <1>0, <1>c DEF DropRow, CronTypeOK
  <2> QED BY <1>a, <1>c, <2>1 DEF ActiveWillFire, SeenButForNext, WantsToFire
<1>9. ASSUME NEW r \in Requests, delete_schedule(r) PROVE Fires'
  <2>1. req[r].schedule \in Schedules
    BY <1>0, <1>9, RequestParts DEF delete_schedule
  <2>2. \A q \in Requests : req'[q].stage = "idle"
    BY <1>0, <1>9 DEF delete_schedule, OneRequest, CronTypeOK
  <2> QED BY <1>9, <1>c, <2>1, <2>2 DEF delete_schedule
<1>10. ASSUME NEW s \in Schedules, create_schedule(s) PROVE Fires'
  <2>1. PICK active \in BOOLEAN, c \in CronsOf[s] : row' = [row EXCEPT ![s] = Scheduled(active, c)]
    BY <1>10 DEF create_schedule
  <2>2. Scheduled(active, c).active => Scheduled(active, c).next # Null
    BY <1>0, ScheduledRow DEF Crons
  <2>3. s \notin stored /\ stored' = stored \cup {s} /\ req' = req
    BY <1>0, <1>10 DEF create_schedule, CronTypeOK
  <2>4. ActiveWillFire'
    BY <1>0, <1>a, <2>1, <2>2, <2>3 DEF ActiveWillFire, CronTypeOK
  <2>5. ASSUME NEW r \in Requests, req[r].stage # "idle"
        PROVE  /\ req[r].schedule # s /\ req[r].schedule \in created'
               /\ row'[req[r].schedule] = row[req[r].schedule]
    <3>1. req[r].schedule \in created /\ s \notin created /\ created' = created \cup {s}
      BY <1>10, <1>a, <2>5 DEF SeenButForNext, create_schedule
    <3> QED BY <1>0, <2>1, <3>1 DEF CronTypeOK
  <2>6. SeenButForNext'
    BY <1>a, <2>3, <2>5 DEF SeenButForNext
  <2> QED BY <1>a, <2>3, <2>4, <2>6 DEF WantsToFire
<1>11. ASSUME NEW s \in Schedules, DeleteCollection(s) PROVE Fires'
  BY <1>11, <1>c DEF DeleteCollection
<1>12. CASE Tick
  BY <1>12, <1>b DEF Tick
<1>13. CASE UNCHANGED cronVars
  BY <1>13, <1>b DEF cronVars
<1> QED BY <1>1, <1>2, <1>3, <1>4, <1>5, <1>6, <1>7, <1>8, <1>9, <1>10, <1>11, <1>12, <1>13
        DEF CronNext, SweepStep, RequestStep

-----------------------------------------------------------------------------
\* The first state satisfies everything.
LEMMA CronInitInv ==
    ASSUME CronInit
    PROVE  CronInv
<1> USE DEF CronInit, Nothing
<1>1. \A s \in Schedules : NoRow(s) \in Row
  BY NoRowIsRow
<1>2. CronTypeOK
  BY <1>1, CronAssumption DEF CronTypeOK, Request
<1>3. SweepInv
  BY <1>2 DEF SweepInv, OccurrencesIncrease, RunsBeforeNext, RunsBeforeListed, AdvancedBeyondListed
<1> QED BY <1>3 DEF CronInv, ActiveWillFire, SeenButForNext, WantsToFire

\* No occurrence of a schedule runs twice, and none after a later one, unless a request
\* has moved next_run_at in between: for any requests, sweeps and failures.
THEOREM NoOccurrenceTwice == CronSpec => []OccurrencesIncrease
<1>1. CronInit => SweepInv
  BY CronInitInv DEF CronInv
<1>2. SweepInv /\ [CronNext]_cronVars => SweepInv'
  BY SweepInvStep
<1>3. SweepInv => OccurrencesIncrease
  BY DEF SweepInv
<1> QED BY <1>1, <1>2, <1>3, PTL DEF CronSpec

\* With one request at a time, the invariant of the run holds for any instance.
THEOREM CronInvariance ==
    ASSUME OneRequest
    PROVE  CronSpec => []CronInv
<1>1. CronInit => CronInv
  BY CronInitInv
<1>2. CronInv /\ [CronNext]_cronVars => CronInv'
  BY CronInvStep
<1> QED BY <1>1, <1>2, PTL DEF CronSpec

\* With one request at a time, next to a sweep, an active schedule always has a
\* next_run_at to fire at.
THEOREM ActiveSchedulesFire ==
    ASSUME OneRequest
    PROVE  CronSpec => []ActiveWillFire
<1>1. CronInv => ActiveWillFire
  BY DEF CronInv
<1> QED BY <1>1, CronInvariance, PTL
=============================================================================
