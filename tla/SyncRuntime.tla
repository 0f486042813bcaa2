----------------------------- MODULE SyncRuntime -----------------------------
(***************************************************************************)
(* When the pipeline runs, and what its runtime status says about it.  One *)
(* process holds the lock under which a sync runs; syncs are asked for by  *)
(* the startup thread, the scheduler loop, POST /runtime/sync and PATCH    *)
(* /runtime/llm.  The status is a row of the runtime key-value file: it is *)
(* written at once, outside the session of the sync, and it survives the   *)
(* process.  launchd restarts a process that died; a watchdog asks the     *)
(* service for the status once per period and restarts the process when it *)
(* says failed or stalled, or when the answer does not come.               *)
(*                                                                         *)
(* Time is discrete, one unit being the watchdog's period (300 s), and is  *)
(* kept as ages and remaining times, so that no clock has to be bounded.   *)
(* An operator whose name ends in _Bug is a plausible mistake in the       *)
(* definition that follows it and is used by no specification.             *)
(***************************************************************************)
EXTENDS Integers

CONSTANTS
  Interval,     \* events.expected_sync_interval_minutes, in units
  EventStages,  \* the stages a sync reports before it takes its current_time
  LastStage,    \* the stages a sync reports at most
  StaleAfter,   \* max(2 * interval, 15 minutes), in units
  MaxWaiting,   \* bound: jobs of one trigger that wait for the lock
  MaxFaults     \* bound: deaths of the process, unanswered checks and syncs that end unrecorded

ASSUME RuntimeAssumption ==
  /\ Interval \in Nat \ {0}
  /\ EventStages \in Nat \ {0} /\ LastStage \in Nat /\ EventStages < LastStage
  /\ StaleAfter \in Nat /\ StaleAfter >= Interval
  /\ MaxWaiting \in Nat \ {0}
  /\ MaxFaults \in Nat

Triggers == {"startup", "scheduler", "manual_api", "runtime_provider_switch"}
NoOne == "no one"

\* The scheduler task: how long it still sleeps, or one of these.
Busy == -1
Off == -2
NoStage == -1
Closing == LastStage + 1   \* the final status is written, the session is not committed yet

VARIABLES
  up,         \* does the service process run?
  state,      \* current_state as stored; "missing" before the first boot
  bootstrap,  \* is the stored current_stage 'startup_bootstrap'?
  age,        \* time since last_run_at, counted up to StaleAfter + 1
  due,        \* time until expected_next_run_at, counted down to -1, or NoDue
  succeeded,  \* is last_success_at set?
  lock,       \* the trigger whose sync holds _PIPELINE_SYNC_LOCK, or NoOne
  stage,      \* how many stages that sync has reported, or NoStage
  snapAge,    \* time since the sync took its current_time, up to Interval + 1
  waiting,    \* how many jobs of each trigger wait for the lock
  sched,      \* the scheduler task
  check,      \* is the watchdog's check of this period still to come?
  wanted,     \* was a sync asked for, or the provider switched, since one began?
  faults

statusVars == <<state, bootstrap, age, due, succeeded>>
runVars == <<lock, stage, snapAge>>
vars == <<up, statusVars, runVars, waiting, sched, check, wanted, faults>>

NoDue == Interval + 1

-----------------------------------------------------------------------------
\* get_pipeline_runtime_status: what readers of the status see.

Stalled_Bug ==
  \/ state = "running" /\ age > Interval
  \/ state # "running" /\ due < 0

Stalled ==
  \/ state = "running" /\ age > StaleAfter
  \/ state # "running" /\ due < 0

CurrentState_Bug ==
  IF Stalled /\ state \notin {"failed", "degraded", "running"} THEN "stalled" ELSE state

CurrentState ==
  IF Stalled /\ state \notin {"failed", "degraded"} THEN "stalled"
  ELSE IF state = "missing" THEN "idle"
  ELSE IF state = "idle" /\ succeeded /\ due # NoDue THEN "scheduled"
  ELSE state

\* _runtime_sync_in_progress: the test behind the 409 of POST /runtime/sync.
InProgress == CurrentState = "running" /\ ~bootstrap

-----------------------------------------------------------------------------
Init ==
  /\ up = FALSE
  /\ state = "missing" /\ bootstrap = FALSE /\ age = 0 /\ due = NoDue /\ succeeded = FALSE
  /\ lock = NoOne /\ stage = NoStage /\ snapAge = 0
  /\ waiting = [t \in Triggers |-> 0]
  /\ sched = Off
  /\ check = FALSE /\ wanted = FALSE /\ faults = 0

\* The lifespan handler: baseline status, scheduler task, startup sync thread.
Boot ==
  /\ ~up
  /\ up' = TRUE
  /\ IF state = "missing"
     THEN /\ state' = "running" /\ bootstrap' = TRUE /\ age' = 0
          /\ UNCHANGED <<due, succeeded>>
     ELSE UNCHANGED statusVars
  /\ sched' = Interval
  /\ waiting' = [waiting EXCEPT !["startup"] = 1]
  /\ UNCHANGED <<runVars, check, wanted, faults>>

\* A death of the process takes its lock, its threads and its tasks with it.
Die ==
  /\ up' = FALSE
  /\ lock' = NoOne /\ stage' = NoStage /\ snapAge' = 0
  /\ waiting' = [t \in Triggers |-> 0]
  /\ sched' = Off
  /\ UNCHANGED <<statusVars, wanted>>

Crash ==
  /\ up /\ faults < MaxFaults
  /\ faults' = faults + 1
  /\ Die
  /\ UNCHANGED check

\* run_watchdog.  It may get no answer of a process that works: /healthz or /command
\* runs into its timeout or an error, or the answer has no current_state.
Severe_Bug(answered) == ~answered \/ CurrentState = "failed"

Severe(answered) == ~answered \/ CurrentState \in {"failed", "stalled"}

Watchdog(answered) ==
  /\ up /\ check /\ (answered \/ faults < MaxFaults)
  /\ check' = FALSE
  /\ faults' = IF answered THEN faults ELSE faults + 1
  /\ IF Severe(answered) THEN Die ELSE UNCHANGED <<up, statusVars, runVars, waiting, sched, wanted>>

\* launchctl does not restart the service, or the watchdog's own run fails.
WatchdogFails ==
  /\ up /\ check /\ faults < MaxFaults
  /\ check' = FALSE
  /\ faults' = faults + 1
  /\ UNCHANGED <<up, statusVars, runVars, waiting, sched, wanted>>

-----------------------------------------------------------------------------
\* The triggers.

\* The scheduler loop after its sleep.
Wake ==
  /\ up /\ sched = 0
  /\ sched' = Busy
  /\ waiting' = [waiting EXCEPT !["scheduler"] = @ + 1]
  /\ UNCHANGED <<up, statusVars, runVars, check, wanted, faults>>

\* POST /runtime/sync, when it is not answered with 409.
Post ==
  /\ up /\ ~InProgress
  /\ waiting["manual_api"] < MaxWaiting
  /\ waiting' = [waiting EXCEPT !["manual_api"] = @ + 1]
  /\ wanted' = TRUE
  /\ UNCHANGED <<up, statusVars, runVars, sched, check, faults>>

\* PATCH /runtime/llm with a provider the gateway accepts: during a sync the new
\* provider is stored and no job is queued.
SwitchProvider ==
  /\ up
  /\ InProgress \/ waiting["runtime_provider_switch"] < MaxWaiting
  /\ waiting' = IF InProgress THEN waiting
                ELSE [waiting EXCEPT !["runtime_provider_switch"] = @ + 1]
  /\ wanted' = TRUE
  /\ UNCHANGED <<up, statusVars, runVars, sched, check, faults>>

-----------------------------------------------------------------------------
\* sync_agent_state.

Enter_Bug(t) ==
  /\ waiting[t] > 0
  /\ lock' = t /\ stage' = 0
  /\ waiting' = [waiting EXCEPT ![t] = @ - 1]
  /\ wanted' = FALSE
  /\ UNCHANGED <<up, statusVars, snapAge, sched, check, faults>>

Enter(t) ==
  /\ lock = NoOne /\ waiting[t] > 0
  /\ lock' = t /\ stage' = 0
  /\ waiting' = [waiting EXCEPT ![t] = @ - 1]
  /\ wanted' = FALSE
  /\ UNCHANGED <<up, statusVars, snapAge, sched, check, faults>>

Running_Bug ==
  /\ state' = "running" /\ age' = 0 /\ due' = NoDue
  /\ UNCHANGED <<bootstrap, succeeded>>

Running ==
  /\ state' = "running" /\ bootstrap' = FALSE /\ age' = 0 /\ due' = NoDue
  /\ UNCHANGED succeeded

\* The first status write of the sync.
Report ==
  /\ stage = 0
  /\ stage' = 1
  /\ Running
  /\ UNCHANGED <<up, lock, snapAge, waiting, sched, check, wanted, faults>>

\* _set_pipeline_runtime_stage, in front of every stage; current_time, which the
\* final status is written with, is taken between the event stages and the research.
NextStage ==
  /\ stage \in 1..(LastStage - 1)
  /\ stage' = stage + 1
  /\ snapAge' = IF stage = EventStages THEN 0 ELSE snapAge
  /\ Running
  /\ UNCHANGED <<up, lock, waiting, sched, check, wanted, faults>>

\* The sync is over: only the scheduler's loop goes back to sleep by it.
Leave_Bug ==
  /\ lock' = NoOne /\ stage' = NoStage /\ snapAge' = 0
  /\ UNCHANGED <<up, waiting, sched, check, wanted>>

Leave ==
  /\ lock' = NoOne /\ stage' = NoStage /\ snapAge' = 0
  /\ sched' = IF lock = "scheduler" THEN Interval ELSE sched
  /\ UNCHANGED <<up, waiting, check, wanted>>

\* The final status, before the readiness report and the last commit.
Succeed(macroDegraded) ==
  /\ stage \in (EventStages + 1)..LastStage
  /\ stage' = Closing
  /\ state' = IF macroDegraded THEN "degraded" ELSE "idle"
  /\ bootstrap' = FALSE
  /\ age' = snapAge
  /\ due' = IF snapAge > Interval THEN -1 ELSE Interval - snapAge
  /\ succeeded' = TRUE
  /\ UNCHANGED <<up, lock, snapAge, waiting, sched, check, wanted, faults>>

\* An exception in the try block, of which the report and the commit are part.
Fail ==
  /\ stage > 0 /\ (stage = Closing => state # "failed")
  /\ stage' = Closing
  /\ state' = "failed" /\ bootstrap' = FALSE /\ age' = 0 /\ due' = Interval
  /\ UNCHANGED <<up, succeeded, lock, snapAge, waiting, sched, check, wanted, faults>>

End ==
  /\ stage = Closing
  /\ Leave
  /\ UNCHANGED <<statusVars, faults>>

\* An exception outside it: in the first status write or commit, or in the except
\* branch itself (the runtime file stays locked).  The status is what it was.
FailUnrecorded ==
  /\ lock # NoOne /\ faults < MaxFaults
  /\ faults' = faults + 1
  /\ UNCHANGED statusVars
  /\ Leave

-----------------------------------------------------------------------------
\* Time.  A stage may take any time, or hang; what takes the machine no time to
\* speak of (the start of the process, a free lock, a timer that has run out, the
\* first status write, the last commit, the watchdog's check) is done before the next unit begins.

Urgent ==
  \/ ~up \/ check \/ sched = 0 \/ stage \in {0, Closing}
  \/ lock = NoOne /\ \E t \in Triggers : waiting[t] > 0

Tick_Bug ==
  /\ ~Urgent
  /\ age' = IF age <= StaleAfter THEN age + 1 ELSE age
  /\ due' = due - 1
  /\ snapAge' = IF stage <= EventStages \/ snapAge > Interval THEN snapAge ELSE snapAge + 1
  /\ sched' = IF sched = Busy THEN Busy ELSE sched - 1
  /\ check' = TRUE
  /\ UNCHANGED <<up, state, bootstrap, succeeded, lock, stage, waiting, wanted, faults>>

Tick ==
  /\ ~Urgent
  /\ age' = IF age <= StaleAfter THEN age + 1 ELSE age
  /\ due' = IF due = NoDue \/ due < 0 THEN due ELSE due - 1
  /\ snapAge' = IF stage <= EventStages \/ snapAge > Interval THEN snapAge ELSE snapAge + 1
  /\ sched' = IF sched = Busy THEN Busy ELSE sched - 1
  /\ check' = TRUE
  /\ UNCHANGED <<up, state, bootstrap, succeeded, lock, stage, waiting, wanted, faults>>

Next ==
  \/ Boot \/ Crash \/ WatchdogFails
  \/ \E answered \in BOOLEAN : Watchdog(answered)
  \/ Wake \/ Post \/ SwitchProvider
  \/ \E t \in Triggers : Enter(t)
  \/ Report \/ NextStage
  \/ \E macroDegraded \in BOOLEAN : Succeed(macroDegraded)
  \/ Fail \/ FailUnrecorded \/ End
  \/ Tick

\* The machine does what it has to do: launchd restarts, the event loop wakes, a
\* free lock is taken by some thread (by which one is left open), a sync that
\* entered reports, a concluded one commits, the watchdog's timer fires, time goes by.  No stage of a sync
\* is assumed to end.
Fairness ==
  /\ WF_vars(Boot) /\ WF_vars(Wake)
  /\ WF_vars((\E answered \in BOOLEAN : Watchdog(answered)) \/ WatchdogFails)
  /\ WF_vars(\E t \in Triggers : Enter(t))
  /\ WF_vars(Report \/ (stage = 0 /\ FailUnrecorded))
  /\ WF_vars(End)
  /\ SF_vars(Tick)

Safe == Init /\ [][Next]_vars
Spec == Safe /\ Fairness

-----------------------------------------------------------------------------
\* Properties.

\* Every variable has its type.
TypeOK ==
  /\ up \in BOOLEAN
  /\ state \in {"missing", "idle", "running", "degraded", "failed"}
  /\ bootstrap \in BOOLEAN
  /\ age \in 0..(StaleAfter + 1)
  /\ due \in -1..NoDue
  /\ succeeded \in BOOLEAN
  /\ lock \in Triggers \cup {NoOne}
  /\ stage \in NoStage..Closing
  /\ lock = NoOne <=> stage = NoStage
  /\ snapAge \in 0..(Interval + 1)
  /\ waiting \in [Triggers -> Nat]
  /\ sched \in {Off, Busy} \cup 0..Interval
  /\ check \in BOOLEAN /\ wanted \in BOOLEAN
  /\ faults \in Nat

\* The scheduler never overtakes itself and is never lost: while the process runs,
\* its task is asleep, or exactly one job of it waits or runs.
OneSchedulerJob ==
  IF up /\ sched = Busy
  THEN waiting["scheduler"] + (IF lock = "scheduler" THEN 1 ELSE 0) = 1
  ELSE waiting["scheduler"] = 0 /\ lock # "scheduler"

\* The status speaks of the sync that holds the lock: from its first report to its
\* last stage it is `running`, and its outcome after that, whatever restarts, refused
\* requests and provider switches happen.
StatusFollowsTheSync ==
  /\ stage \in 1..LastStage => state = "running" /\ ~bootstrap
  /\ stage = Closing => state \in {"idle", "degraded", "failed"}

\* The watchdog restarts the process under a sync at work only when that sync has
\* reported no stage for longer than the stale limit, or when its own question went
\* unanswered: no answered check ends a sync that makes progress.
WatchdogSparesProgress ==
  [][check /\ ~check' /\ ~up' /\ stage \in 1..LastStage =>
       age > StaleAfter \/ faults' = faults + 1]_vars

\* Whatever hangs, crashes or fails to be recorded, syncs begin again and again.
SyncsGoOn == []<><<\E t \in Triggers : Enter(t)>>_vars

\* A stalled pipeline is repaired: it does not stay stalled for ever.
StallIsRepaired == CurrentState = "stalled" ~> CurrentState # "stalled"

\* POST /runtime/sync is not refused for ever, even when the sync that reported
\* itself running is hanging, or gone without a record.
RefusalEnds == InProgress ~> ~InProgress

\* Every accepted request, and every provider switch (during a sync no job is queued
\* for it), is followed by a sync that begins after it, across restarts.
RequestsAreServed == wanted ~> ~wanted
=============================================================================
