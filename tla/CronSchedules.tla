--------------------------- MODULE CronSchedules ---------------------------
(***************************************************************************)
(* Schedules: CronScheduler.sweep_once (scheduler/cron_scheduler.py) next  *)
(* to the API's create, update and delete (app/services/schedule_service). *)
(*                                                                         *)
(* The sweep is one transaction: it lists the due schedules, creates a run *)
(* and advances next_run_at for each, and commits once.  A request loads   *)
(* the row, computes what it wants it to be, and its UPDATE writes only    *)
(* the columns that differ from what it loaded (SQLAlchemy's unit of work);*)
(* a row the sweep has written is locked until the sweep commits.          *)
(* A request that is refused changes nothing and is left out.              *)
(*                                                                         *)
(* next = Null stands for a NULL next_run_at.                              *)
(***************************************************************************)
EXTENDS Naturals, Sequences, FiniteSets

CONSTANTS
    Schedules,
    Requests,               \* API requests that may be in progress at once
    CronsOf,                \* the cron expressions (and timezones) a schedule may be given
    NextOccurrence(_, _),   \* croniter(cron, time).get_next
    BatchSize,              \* DEFAULT_BATCH_SIZE
    MaxTime, MaxFailures    \* bounds on the clock and on failing sweeps

Crons == UNION {CronsOf[s] : s \in Schedules}

ASSUME CronAssumption ==
    /\ \A s \in Schedules : CronsOf[s] # {}
    /\ \A c \in Crons, t \in 1..MaxTime :
         NextOccurrence(c, t) \in Nat /\ NextOccurrence(c, t) > t
    /\ BatchSize \in Nat \ {0}
    /\ MaxTime \in Nat \ {0}
    /\ MaxFailures \in Nat

VARIABLES
    now,
    stored,    \* schedules that have a row
    created,   \* schedules that were ever created
    row,       \* the committed rows
    req,       \* the requests in progress
    listed,    \* what list_due returned to the sweep in progress
    triggered, \* the schedules it has called create_scheduled_run for
    inserted,  \* those whose run it has inserted
    advanced,  \* the next_run_at it has written
    runs,      \* occurrences whose run was committed, since a request last moved next_run_at
    failures,
    ran        \* the schedules whose collection has a committed run

apiVars == <<created, req>>
sweepVars == <<listed, triggered, inserted, advanced>>
cronVars == <<now, stored, created, row, req, listed, triggered, inserted, advanced, runs, failures, ran>>

Null == 0
Row == [active : BOOLEAN, cron : Crons, next : Nat]
Idle == [stage |-> "idle"]
Request ==
    {Idle}
      \cup [stage : {"loaded"}, schedule : Schedules, seen : Row]
      \cup [stage : {"computed"}, schedule : Schedules, seen : Row, want : Row]

CronTypeOK ==
    /\ now \in 1..MaxTime
    /\ stored \subseteq created /\ created \subseteq Schedules
    /\ row \in [Schedules -> Row]
    /\ req \in [Requests -> Request]
    /\ DOMAIN listed \subseteq Schedules /\ listed \in [DOMAIN listed -> Row]
    /\ advanced \in [DOMAIN advanced -> Nat]
    /\ inserted \subseteq triggered
    /\ DOMAIN advanced \subseteq triggered /\ triggered \subseteq DOMAIN listed
    /\ runs \in [Schedules -> Seq(Nat)]
    /\ failures \in Nat
    /\ ran \subseteq Schedules

NoRow(s) == [active |-> FALSE, cron |-> CHOOSE c \in CronsOf[s] : TRUE, next |-> Null]
Nothing == [s \in {} |-> Null]

CronInit ==
    /\ now = 1
    /\ stored = {} /\ created = {}
    /\ row = [s \in Schedules |-> NoRow(s)]
    /\ req = [r \in Requests |-> Idle]
    /\ listed = Nothing /\ triggered = {} /\ inserted = {} /\ advanced = Nothing
    /\ runs = [s \in Schedules |-> << >>]
    /\ failures = 0
    /\ ran = {}

-----------------------------------------------------------------------------
\* Mutant: the occurrence of this very moment counts as the next one.
ComputeFromNow(cron) == NextOccurrence(cron, now - 1)

compute_next_run_at(cron) == NextOccurrence(cron, now)

\* UPDATE: columns set to what was loaded are not written.
Written(seen, want, current) ==
    [active |-> IF want.active = seen.active THEN current.active ELSE want.active,
     cron   |-> IF want.cron = seen.cron THEN current.cron ELSE want.cron,
     next   |-> IF want.next = seen.next THEN current.next ELSE want.next]

\* The row of an (in)active schedule.
Scheduled(active, cron) ==
    [active |-> active, cron |-> cron,
     next |-> IF active THEN compute_next_run_at(cron) ELSE Null]

create_schedule(s) ==
    /\ s \notin created
    /\ \E active \in BOOLEAN, cron \in CronsOf[s] :
         row' = [row EXCEPT ![s] = Scheduled(active, cron)]
    /\ stored' = stored \cup {s}
    /\ created' = created \cup {s}
    /\ runs' = [runs EXCEPT ![s] = << >>]
    /\ UNCHANGED <<now, req, sweepVars, failures, ran>>

\* get_by_id at the beginning of an update or a delete
LoadSchedule(r, s) ==
    /\ req[r].stage = "idle" /\ s \in stored
    /\ req' = [req EXCEPT ![r] = [stage |-> "loaded", schedule |-> s, seen |-> row[s]]]
    /\ UNCHANGED <<now, stored, created, row, sweepVars, runs, failures, ran>>

\* Mutant: only a new cron expression is reason to compute next_run_at.
ComputeForCron(r) ==
    /\ req[r].stage = "loaded"
    /\ \E active \in BOOLEAN, cron \in CronsOf[req[r].schedule] :
         LET seen == req[r].seen
             want == IF cron = seen.cron THEN [seen EXCEPT !.active = active] ELSE Scheduled(active, cron)
         IN  req' = [req EXCEPT ![r] = [stage |-> "computed", schedule |-> req[r].schedule,
                                        seen |-> seen, want |-> want]]
    /\ UNCHANGED <<now, stored, created, row, sweepVars, runs, failures, ran>>

\* update_schedule, up to its UPDATE; a field that is not given keeps the loaded value.
ComputeUpdate(r) ==
    /\ req[r].stage = "loaded"
    /\ \E active \in BOOLEAN, cron \in CronsOf[req[r].schedule] :
         req' = [req EXCEPT ![r] = [stage |-> "computed", schedule |-> req[r].schedule,
                                    seen |-> req[r].seen, want |-> Scheduled(active, cron)]]
    /\ UNCHANGED <<now, stored, created, row, sweepVars, runs, failures, ran>>

\* Mutant: the UPDATE writes every column.
ApplyWhole(r) ==
    LET s == req[r].schedule IN
    /\ req[r].stage = "computed" /\ s \notin DOMAIN advanced
    /\ row' = [row EXCEPT ![s] = req[r].want]
    /\ runs' = runs
    /\ req' = [req EXCEPT ![r] = Idle]
    /\ UNCHANGED <<now, stored, created, sweepVars, failures, ran>>

\* The UPDATE and the commit, or the error on a row that is gone.
ApplyUpdate(r) ==
    LET s == req[r].schedule IN
    /\ req[r].stage = "computed" /\ s \notin DOMAIN advanced
    /\ IF s \in stored
       THEN /\ row' = [row EXCEPT ![s] = Written(req[r].seen, req[r].want, row[s])]
            /\ runs' = IF req[r].want.next = req[r].seen.next THEN runs
                       ELSE [runs EXCEPT ![s] = << >>]
       ELSE UNCHANGED <<row, runs>>
    /\ req' = [req EXCEPT ![r] = Idle]
    /\ UNCHANGED <<now, stored, created, sweepVars, failures, ran>>

DropRow(s) ==
    /\ stored' = stored \ {s}
    /\ row' = [row EXCEPT ![s] = NoRow(s)]
    /\ runs' = [runs EXCEPT ![s] = << >>]

\* delete_schedule and its commit
delete_schedule(r) ==
    /\ req[r].stage = "loaded" /\ req[r].schedule \notin DOMAIN advanced
    /\ DropRow(req[r].schedule)
    /\ req' = [req EXCEPT ![r] = Idle]
    /\ UNCHANGED <<now, created, sweepVars, failures, ran>>

\* The collection is deleted and its schedules with it.  A run that was inserted holds
\* its collection's row, and a collection that has runs cannot be deleted: its
\* relationship to them does not cascade (app/models/collection.py).
DeleteCollection(s) ==
    /\ s \in stored /\ s \notin inserted /\ s \notin DOMAIN advanced /\ s \notin ran
    /\ DropRow(s)
    /\ UNCHANGED <<now, apiVars, sweepVars, failures, ran>>

-----------------------------------------------------------------------------
Due == {s \in stored : row[s].active /\ row[s].next # Null /\ row[s].next <= now}

\* list_due: the earliest, at most BatchSize of them
list_due ==
    /\ listed = Nothing /\ Due # {}
    /\ \E D \in SUBSET Due :
         /\ Cardinality(D) <= BatchSize
         /\ D = Due \/ Cardinality(D) = BatchSize
         /\ \A s \in D, u \in Due \ D : row[s].next <= row[u].next
         /\ listed' = [s \in D |-> row[s]]
    /\ UNCHANGED <<now, stored, row, apiVars, triggered, inserted, advanced, runs, failures, ran>>

\* create_scheduled_run; the collection may have no requests.
TriggerRun(s) ==
    /\ s \in DOMAIN listed \ triggered
    /\ triggered = DOMAIN advanced
    /\ \A u \in DOMAIN listed \ triggered : listed[s].next <= listed[u].next
    /\ triggered' = triggered \cup {s}
    /\ inserted' \in {inserted, inserted \cup {s}}
    /\ UNCHANGED <<now, stored, row, apiVars, listed, advanced, runs, failures, ran>>

EndSweep ==
    listed' = Nothing /\ triggered' = {} /\ inserted' = {} /\ advanced' = Nothing

\* Mutant: only a schedule whose run was created is advanced.
AdvanceInserted(s) ==
    /\ s \in triggered \ DOMAIN advanced
    /\ IF s \in stored
       THEN /\ advanced' = [u \in DOMAIN advanced \cup {s} |->
                              IF u # s THEN advanced[u]
                              ELSE IF s \in inserted THEN compute_next_run_at(listed[s].cron)
                              ELSE listed[s].next]
            /\ UNCHANGED <<listed, triggered, inserted>>
       ELSE EndSweep
    /\ UNCHANGED <<now, stored, row, apiVars, runs, failures, ran>>

\* The UPDATE of next_run_at, from the cron expression list_due returned; on a row that
\* is gone it raises, and the whole sweep is rolled back.
AdvanceSchedule(s) ==
    /\ s \in triggered \ DOMAIN advanced
    /\ IF s \in stored
       THEN /\ advanced' = [u \in DOMAIN advanced \cup {s} |->
                              IF u = s THEN compute_next_run_at(listed[s].cron) ELSE advanced[u]]
            /\ UNCHANGED <<listed, triggered, inserted>>
       ELSE EndSweep
    /\ UNCHANGED <<now, stored, row, apiVars, runs, failures, ran>>

CommitSweep ==
    /\ listed # Nothing /\ DOMAIN advanced = DOMAIN listed
    /\ row' = [s \in Schedules |->
                 IF s \in DOMAIN advanced THEN [row[s] EXCEPT !.next = advanced[s]] ELSE row[s]]
    /\ runs' = [s \in Schedules |->
                 IF s \in inserted THEN Append(runs[s], listed[s].next) ELSE runs[s]]
    /\ ran' = ran \cup inserted
    /\ EndSweep
    /\ UNCHANGED <<now, stored, apiVars, failures>>

\* The database fails or the backend stops: all of the sweep is rolled back.
SweepFails ==
    /\ failures < MaxFailures
    /\ listed # Nothing
    /\ failures' = failures + 1
    /\ EndSweep
    /\ UNCHANGED <<now, stored, row, apiVars, runs, ran>>

Tick ==
    /\ now < MaxTime
    /\ now' = now + 1
    /\ UNCHANGED <<stored, row, apiVars, sweepVars, runs, failures, ran>>

SweepStep ==
    \/ list_due
    \/ \E s \in Schedules : TriggerRun(s) \/ AdvanceSchedule(s)
    \/ CommitSweep

RequestStep(r) ==
    \/ \E s \in Schedules : LoadSchedule(r, s)
    \/ ComputeUpdate(r)
    \/ ApplyUpdate(r)
    \/ delete_schedule(r)

CronNext ==
    \/ SweepStep
    \/ SweepFails
    \/ \E r \in Requests : RequestStep(r)
    \/ \E s \in Schedules : create_schedule(s) \/ DeleteCollection(s)
    \/ Tick

\* run_forever sweeps again after every interval.
CronSpec == CronInit /\ [][CronNext]_cronVars /\ WF_cronVars(SweepStep)

-----------------------------------------------------------------------------
\* Between two requests that move next_run_at, the runs of a schedule are of ever later
\* occurrences: however sweeps fail, and whatever they overlap with, none runs twice.
OccurrencesIncrease ==
    \A s \in Schedules : \A i, j \in 1..Len(runs[s]) : i < j => runs[s][i] < runs[s][j]

\* An active schedule has a next_run_at, so it will fire, even when an update lands in the
\* middle of a sweep (one half of "non-null if and only if the schedule is active").
ActiveWillFire == \A s \in stored : row[s].active => row[s].next # Null

\* A due schedule does not stay due: it is advanced whether or not its run could be
\* created, and neither a deleted neighbour nor a failed sweep holds it up for ever.
DueIsSwept == \A s \in Schedules : s \in Due ~> s \notin Due

-----------------------------------------------------------------------------
(* The inductive invariant behind the first two *)

RunsBeforeNext ==
    \A s \in Schedules : \A i \in 1..Len(runs[s]) :
      row[s].next = Null \/ runs[s][i] < row[s].next

\* Only the sweep that listed a schedule runs it, so nothing later has run meanwhile.
RunsBeforeListed ==
    \A s \in DOMAIN listed :
      /\ listed[s].next <= now
      /\ \A i \in 1..Len(runs[s]) : runs[s][i] < listed[s].next

AdvancedBeyondListed == \A s \in DOMAIN advanced : advanced[s] > listed[s].next

\* Whatever requests do, a sweep runs only what has not run yet.
SweepInv ==
    /\ CronTypeOK /\ OccurrencesIncrease
    /\ RunsBeforeNext /\ RunsBeforeListed /\ AdvancedBeyondListed

\* While a request is in progress, only a sweep can have touched its row.
SeenButForNext ==
    \A r \in Requests :
      req[r].stage # "idle" =>
        LET s == req[r].schedule IN
        /\ s \in created
        /\ s \in stored => row[s].active = req[r].seen.active
        /\ s \in stored /\ row[s].next = Null => req[r].seen.next = Null

\* No request means to leave an active schedule without a next_run_at.
WantsToFire ==
    \A r \in Requests :
      req[r].stage = "computed" /\ req[r].want.active => req[r].want.next # Null

\* What sweeps and requests that follow one another leave behind at every step.
CronInv == SweepInv /\ ActiveWillFire /\ SeenButForNext /\ WantsToFire
=============================================================================
