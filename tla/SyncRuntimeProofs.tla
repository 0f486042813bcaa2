-------------------------- MODULE SyncRuntimeProofs --------------------------
(***************************************************************************)
(* Safety of the sync runtime for every interval, stale limit, number of   *)
(* stages, of waiting jobs and of faults.                                  *)
(***************************************************************************)
EXTENDS SyncRuntime, TLAPS

Flags == up \in BOOLEAN /\ bootstrap \in BOOLEAN /\ succeeded \in BOOLEAN
         /\ check \in BOOLEAN /\ wanted \in BOOLEAN

Values ==
  /\ state \in {"missing", "idle", "running", "degraded", "failed"}
  /\ age \in 0..(StaleAfter + 1)
  /\ due \in -1..NoDue
  /\ lock \in Triggers \cup {NoOne}
  /\ stage \in NoStage..Closing
  /\ lock = NoOne <=> stage = NoStage
  /\ snapAge \in 0..(Interval + 1)
  /\ sched \in {Off, Busy} \cup 0..Interval
  /\ up => sched # Off
  /\ faults \in Nat

Jobs == waiting \in [Triggers -> Nat]

\* Every variable keeps its type.
THEOREM TypeInvariant == Safe => []TypeOK
<1> USE RuntimeAssumption DEF NoStage, Closing, NoDue, Busy, Off
<1>0. NoOne \notin Triggers
  BY DEF NoOne, Triggers
<1>00. /\ "startup" \in Triggers /\ "scheduler" \in Triggers
       /\ "manual_api" \in Triggers /\ "runtime_provider_switch" \in Triggers
  BY DEF Triggers
<1>1. Init => Flags /\ Values /\ Jobs
  <2>1. Init => Flags
    BY Zenon DEF Init, Flags
  <2>2. Init => Values
    BY <1>0 DEF Init, Values
  <2>3. Init => Jobs
    BY DEF Init, Jobs
  <2> QED BY <2>1, <2>2, <2>3
<1>2. Flags /\ [Next]_vars => Flags'
  <2> SUFFICES ASSUME Flags, [Next]_vars PROVE Flags'
    OBVIOUS
  <2> USE DEF Flags, statusVars, runVars
  <2>1. CASE Boot
    BY <2>1, Zenon DEF Boot
  <2>2. CASE Crash
    BY <2>2, Zenon DEF Crash, Die
  <2>3. ASSUME NEW answered \in BOOLEAN, Watchdog(answered) PROVE Flags'
    BY <2>3, Zenon DEF Watchdog, Die
  <2>4. CASE Wake
    BY <2>4, Zenon DEF Wake
  <2>5. CASE Post
    BY <2>5, Zenon DEF Post
  <2>6. CASE SwitchProvider
    BY <2>6, Zenon DEF SwitchProvider
  <2>7. ASSUME NEW t \in Triggers, Enter(t) PROVE Flags'
    BY <2>7, Zenon DEF Enter
  <2>8. CASE Report
    BY <2>8, Zenon DEF Report, Running
  <2>9. CASE NextStage
    BY <2>9, Zenon DEF NextStage, Running
  <2>10. ASSUME NEW macroDegraded \in BOOLEAN, Succeed(macroDegraded) PROVE Flags'
    BY <2>10, Zenon DEF Succeed
  <2>11. CASE Fail
    BY <2>11, Zenon DEF Fail
  <2>12. CASE FailUnrecorded
    BY <2>12, Zenon DEF FailUnrecorded, Leave
  <2>13. CASE Tick
    BY <2>13, Zenon DEF Tick, Urgent
  <2>14. CASE UNCHANGED vars
    BY <2>14, Zenon DEF vars
  <2>15. CASE End
    BY <2>15, Zenon DEF End, Leave
  <2>16. CASE WatchdogFails
    BY <2>16, Zenon DEF WatchdogFails
  <2> QED
    BY <2>1, <2>2, <2>3, <2>4, <2>5, <2>6, <2>7, <2>8, <2>9, <2>10, <2>11, <2>12, <2>13, <2>14, <2>15,
      <2>16
    DEF Next
<1>3. Values /\ [Next]_vars => Values'
  <2> SUFFICES ASSUME Values, [Next]_vars PROVE Values'
    OBVIOUS
  <2> USE <1>0 DEF Values, statusVars, runVars
  <2>1. CASE Boot
    BY <2>1 DEF Boot
  <2>2. CASE Crash
    BY <2>2 DEF Crash, Die
  <2>3. ASSUME NEW answered \in BOOLEAN, Watchdog(answered) PROVE Values'
    <3>1. Die \/ UNCHANGED <<up, statusVars, runVars, waiting, sched, wanted>>
      BY <2>3, Zenon DEF Watchdog
    <3>0. faults' \in Nat
      <4>1. faults' = faults \/ faults' = faults + 1
        BY <2>3, Zenon DEF Watchdog
      <4> QED BY <4>1
    <3>2. CASE Die
      <4>1. /\ ~up' /\ lock' = NoOne /\ stage' = NoStage /\ snapAge' = 0 /\ sched' = Off
            /\ state' = state /\ age' = age /\ due' = due
        BY <3>2, Zenon DEF Die
      <4>2. Off \in {Off, Busy} \cup 0..Interval /\ (lock' = NoOne <=> stage' = NoStage)
        BY <4>1
      <4>3. up' => sched' # Off
        BY <4>1, Zenon
      <4> QED BY <3>0, <4>1, <4>2, <4>3
    <3>3. CASE UNCHANGED <<up, statusVars, runVars, waiting, sched, wanted>>
      <4>1. /\ up' = up /\ lock' = lock /\ stage' = stage /\ snapAge' = snapAge
            /\ sched' = sched /\ state' = state /\ age' = age /\ due' = due
        BY <3>3, Zenon
      <4> QED BY <3>0, <4>1, Zenon
    <3> QED BY <3>1, <3>2, <3>3
  <2>4. CASE Wake
    BY <2>4 DEF Wake
  <2>5. CASE Post
    BY <2>5 DEF Post
  <2>6. CASE SwitchProvider
    BY <2>6 DEF SwitchProvider
  <2>7. ASSUME NEW t \in Triggers, Enter(t) PROVE Values'
    BY <2>7 DEF Enter
  <2>8. CASE Report
    BY <2>8 DEF Report, Running
  <2>9. CASE NextStage
    BY <2>9 DEF NextStage, Running
  <2>10. ASSUME NEW macroDegraded \in BOOLEAN, Succeed(macroDegraded) PROVE Values'
    <3>1. state' = "degraded" \/ state' = "idle"
      BY <2>10, Zenon DEF Succeed
    <3>2. /\ stage' = Closing /\ UNCHANGED <<up, lock, snapAge, sched, faults>>
          /\ stage \in (EventStages + 1)..LastStage
      BY <2>10, Zenon DEF Succeed
    <3>3. age' = snapAge /\ due' = IF snapAge > Interval THEN -1 ELSE Interval - snapAge
      BY <2>10, Zenon DEF Succeed
    <3>4. age' \in 0..(StaleAfter + 1) /\ due' \in -1..NoDue
      BY <3>3
    <3>5. stage' \in NoStage..Closing /\ (lock' = NoOne <=> stage' = NoStage)
      BY <3>2
    <3> QED BY <3>1, <3>2, <3>4, <3>5
  <2>11. CASE Fail
    BY <2>11 DEF Fail
  <2>12. CASE FailUnrecorded
    BY <2>12 DEF FailUnrecorded, Leave
  <2>13. CASE Tick
    BY <2>13 DEF Tick, Urgent
  <2>14. CASE UNCHANGED vars
    BY <2>14 DEF vars
  <2>15. CASE End
    BY <2>15 DEF End, Leave
  <2>16. CASE WatchdogFails
    BY <2>16 DEF WatchdogFails
  <2> QED
    BY <2>1, <2>2, <2>3, <2>4, <2>5, <2>6, <2>7, <2>8, <2>9, <2>10, <2>11, <2>12, <2>13, <2>14, <2>15,
      <2>16
    DEF Next
<1>4. Jobs /\ [Next]_vars => Jobs'
  <2> SUFFICES ASSUME Jobs, [Next]_vars PROVE Jobs'
    OBVIOUS
  <2> USE <1>00 DEF Jobs
  <2>0. ASSUME NEW t \in Triggers, NEW n \in Nat, waiting' = [waiting EXCEPT ![t] = n]
        PROVE Jobs'
    BY <2>0
  <2>1. CASE Boot
    BY <2>1 DEF Boot
  <2>2. CASE Crash
    BY <2>2 DEF Crash, Die
  <2>3. ASSUME NEW answered \in BOOLEAN, Watchdog(answered) PROVE Jobs'
    <3>1. Die \/ UNCHANGED <<up, statusVars, runVars, waiting, sched, wanted>>
      BY <2>3, Zenon DEF Watchdog
    <3>2. CASE Die
      BY <3>2 DEF Die
    <3>3. CASE UNCHANGED <<up, statusVars, runVars, waiting, sched, wanted>>
      BY <3>3
    <3> QED BY <3>1, <3>2, <3>3
  <2>4. CASE Wake
    BY <2>4 DEF Wake
  <2>5. CASE Post
    BY <2>5 DEF Post
  <2>6. CASE SwitchProvider
    BY <2>6 DEF SwitchProvider
  <2>7. ASSUME NEW t \in Triggers, Enter(t) PROVE Jobs'
    BY <2>7 DEF Enter
  <2>8. UNCHANGED waiting => Jobs'
    OBVIOUS
  <2> QED
    BY <2>1, <2>2, <2>3, <2>4, <2>5, <2>6, <2>7, <2>8
    DEF Next, vars, Report, NextStage, Succeed, Fail, FailUnrecorded, End, Leave, Tick, WatchdogFails
<1>5. Flags /\ Values /\ Jobs => TypeOK
  BY DEF Flags, Values, Jobs, TypeOK
<1> QED BY <1>1, <1>2, <1>3, <1>4, <1>5, PTL DEF Safe

\* From its first report on, a sync is what the status speaks of.
THEOREM StatusIsOfTheSync == Safe => []StatusFollowsTheSync
<1> USE RuntimeAssumption DEF StatusFollowsTheSync, NoStage, Closing
<1>1. Init => StatusFollowsTheSync
  BY DEF Init
<1>2. StatusFollowsTheSync /\ [Next]_vars => StatusFollowsTheSync'
  <2> SUFFICES ASSUME StatusFollowsTheSync, [Next]_vars PROVE StatusFollowsTheSync'
    OBVIOUS
  <2>0. ASSUME UNCHANGED <<state, bootstrap, stage>> PROVE StatusFollowsTheSync'
    BY <2>0
  <2>1. CASE stage' = NoStage \/ stage' = 0
    BY <2>1
  <2>2. ASSUME Running, stage' # Closing PROVE StatusFollowsTheSync'
    <3>1. state' = "running" /\ ~bootstrap'
      BY <2>2, Zenon DEF Running
    <3> QED BY <3>1, <2>2
  <2>3. ASSUME stage' = Closing, state' \in {"idle", "degraded", "failed"}
        PROVE StatusFollowsTheSync'
    BY <2>3
  <2>4. CASE Boot
    <3>1. CASE state = "missing"
      BY <3>1, <2>4 DEF Boot, runVars
    <3>2. CASE state # "missing"
      BY <3>2, <2>4, <2>0 DEF Boot, runVars, statusVars
    <3> QED BY <3>1, <3>2
  <2>5. ASSUME NEW answered \in BOOLEAN, Watchdog(answered)
        PROVE stage' = NoStage \/ UNCHANGED <<state, bootstrap, stage>>
    BY <2>5, Zenon DEF Watchdog, Die, statusVars, runVars
  <2>6. ASSUME \/ Wake \/ Post \/ SwitchProvider \/ Tick \/ WatchdogFails \/ UNCHANGED vars
        PROVE UNCHANGED <<state, bootstrap, stage>>
    BY <2>6, Zenon DEF Wake, Post, SwitchProvider, Tick, WatchdogFails, vars, statusVars, runVars
  <2>7. ASSUME Crash \/ (\E t \in Triggers : Enter(t)) \/ FailUnrecorded \/ End
        PROVE stage' = NoStage \/ stage' = 0
    BY <2>7, Zenon DEF Crash, Die, Enter, FailUnrecorded, End, Leave
  <2>8. ASSUME Report PROVE Running /\ stage' # Closing
    BY <2>8 DEF Report
  <2>9. ASSUME NextStage PROVE Running /\ stage' # Closing
    BY <2>9 DEF NextStage
  <2>10. ASSUME (\E d \in BOOLEAN : Succeed(d)) \/ Fail
         PROVE stage' = Closing /\ state' \in {"idle", "degraded", "failed"}
    <3>1. stage' = Closing
      BY <2>10, Zenon DEF Succeed, Fail
    <3>2. state' = "idle" \/ state' = "degraded" \/ state' = "failed"
      BY <2>10, Zenon DEF Succeed, Fail
    <3> QED BY <3>1, <3>2
  <2> QED
    BY <2>0, <2>1, <2>2, <2>3, <2>4, <2>5, <2>6, <2>7, <2>8, <2>9, <2>10, Zenon DEF Next
<1> QED BY <1>1, <1>2, PTL DEF Safe

\* The scheduler's task sleeps, or exactly one job of it waits or runs: needs no more
\* than the types, since a job of the scheduler leaves the lock only by ending its wait.
THEOREM SchedulerNeverOvertakesItself == Safe => []OneSchedulerJob
<1> USE RuntimeAssumption DEF NoStage, NoDue, Busy, Off
<1>0. "scheduler" \in Triggers /\ NoOne # "scheduler"
  BY DEF NoOne, Triggers
<1>1. Init => OneSchedulerJob
  BY <1>0 DEF Init, OneSchedulerJob
<1>2. TypeOK /\ OneSchedulerJob /\ [Next]_vars => OneSchedulerJob'
  <2> DEFINE jobs == waiting["scheduler"]
  <2> SUFFICES ASSUME TypeOK, OneSchedulerJob, [Next]_vars PROVE OneSchedulerJob'
    OBVIOUS
  <2>0. jobs \in Nat /\ waiting \in [Triggers -> Nat]
    BY <1>0 DEF TypeOK
  <2>1. ASSUME UNCHANGED <<up, sched, lock>>, jobs' = jobs PROVE OneSchedulerJob'
    BY <2>1, Zenon DEF OneSchedulerJob
  <2>2. ASSUME Die PROVE OneSchedulerJob'
    <3>1. ~up' /\ lock' = NoOne /\ jobs' = 0
      BY <2>2, <1>0 DEF Die
    <3> QED BY <3>1, <1>0 DEF OneSchedulerJob
  <2>3. CASE Boot
    <3>1. ~up /\ sched' = Interval /\ lock' = lock /\ waiting' = [waiting EXCEPT !["startup"] = 1]
      BY <2>3, Zenon DEF Boot, runVars
    <3>2. jobs' = jobs
      BY <3>1, <2>0, <1>0
    <3>3. jobs = 0 /\ lock # "scheduler"
      BY <3>1, Zenon DEF OneSchedulerJob
    <3> QED BY <3>1, <3>2, <3>3 DEF OneSchedulerJob
  <2>4. CASE Wake
    <3>1. /\ up /\ sched = 0 /\ sched' = Busy /\ up' = up /\ lock' = lock
          /\ waiting' = [waiting EXCEPT !["scheduler"] = @ + 1]
      BY <2>4, Zenon DEF Wake, runVars
    <3>2. jobs = 0 /\ lock # "scheduler"
      BY <3>1 DEF OneSchedulerJob
    <3>3. jobs' = 1
      BY <3>1, <3>2, <2>0, <1>0
    <3> QED BY <3>1, <3>2, <3>3 DEF OneSchedulerJob
  <2>5. ASSUME Post \/ SwitchProvider PROVE OneSchedulerJob'
    <3>1. /\ UNCHANGED <<up, sched, lock>>
          /\ \/ waiting' = waiting
             \/ waiting' = [waiting EXCEPT !["manual_api"] = @ + 1]
             \/ waiting' = [waiting EXCEPT !["runtime_provider_switch"] = @ + 1]
      BY <2>5, Zenon DEF Post, SwitchProvider, runVars
    <3>2. jobs' = jobs
      BY <3>1, <2>0, <1>0
    <3> QED BY <3>1, <3>2, <2>1
  <2>6. ASSUME NEW t \in Triggers, Enter(t) PROVE OneSchedulerJob'
    <3>1. /\ lock = NoOne /\ lock' = t /\ waiting[t] > 0 /\ UNCHANGED <<up, sched>>
          /\ waiting' = [waiting EXCEPT ![t] = @ - 1]
      BY <2>6, Zenon DEF Enter
    <3>2. CASE t = "scheduler"
      <4>1. jobs > 0 /\ jobs' = jobs - 1
        BY <3>1, <3>2, <2>0
      <4> QED BY <4>1, <3>1, <3>2, <2>0, <1>0 DEF OneSchedulerJob
    <3>3. CASE t # "scheduler"
      <4>1. jobs' = jobs
        BY <3>1, <3>3, <2>0, <1>0
      <4> QED BY <4>1, <3>1, <3>3, <2>0, <1>0 DEF OneSchedulerJob
    <3> QED BY <3>2, <3>3
  <2>7. ASSUME Leave PROVE OneSchedulerJob'
    <3>1. /\ lock' = NoOne /\ up' = up /\ waiting' = waiting
          /\ sched' = IF lock = "scheduler" THEN Interval ELSE sched
      BY <2>7, Zenon DEF Leave
    <3> QED BY <3>1, <2>0, <1>0 DEF OneSchedulerJob
  <2>8. CASE Tick
    <3>1. /\ sched # 0 /\ UNCHANGED <<up, lock, waiting>>
          /\ sched' = IF sched = Busy THEN Busy ELSE sched - 1
          /\ up
      BY <2>8, Zenon DEF Tick, Urgent, runVars
    <3>2. sched \in {Off, Busy} \cup 0..Interval
      BY DEF TypeOK
    <3>3. sched = Busy <=> sched' = Busy
      BY <3>1, <3>2
    <3> QED BY <3>1, <3>3 DEF OneSchedulerJob
  <2>9. ASSUME \/ Report \/ NextStage \/ (\E d \in BOOLEAN : Succeed(d)) \/ Fail
               \/ WatchdogFails \/ UNCHANGED vars
        PROVE OneSchedulerJob'
    BY <2>9, <2>1, Zenon DEF Report, NextStage, Succeed, Fail, WatchdogFails, vars, runVars
  <2>10. ASSUME NEW answered \in BOOLEAN, Watchdog(answered) PROVE OneSchedulerJob'
    BY <2>10, <2>1, <2>2, Zenon DEF Watchdog, runVars
  <2>11. ASSUME Crash PROVE Die
    BY <2>11, Zenon DEF Crash
  <2>12. ASSUME FailUnrecorded \/ End PROVE Leave
    BY <2>12, Zenon DEF FailUnrecorded, End
  <2> QED
    BY <2>2, <2>3, <2>4, <2>5, <2>6, <2>7, <2>8, <2>9, <2>10, <2>11, <2>12, Zenon DEF Next
<1> QED BY <1>1, <1>2, TypeInvariant, PTL DEF Safe

\* The watchdog ends a sync that reports only after a silence longer than the stale
\* limit, or because a check of its own went unanswered: an answered check acts on what
\* the status says, and the status is of the sync it would end.
THEOREM WatchdogIsPatient == Safe => WatchdogSparesProgress
<1> USE RuntimeAssumption
<1>1. TypeOK /\ StatusFollowsTheSync /\ [Next]_vars
      => [check /\ ~check' /\ ~up' /\ stage \in 1..LastStage =>
            age > StaleAfter \/ faults' = faults + 1]_vars
  <2> SUFFICES ASSUME TypeOK, StatusFollowsTheSync, Next, check, ~check', ~up',
                      stage \in 1..LastStage, faults' # faults + 1
               PROVE age > StaleAfter
    BY Zenon
  <2>1. PICK answered \in BOOLEAN : Watchdog(answered)
    BY Zenon DEF Next, Boot, Crash, WatchdogFails, Wake, Post, SwitchProvider, Enter, Report,
      NextStage, Succeed, Fail, FailUnrecorded, End, Leave, Tick
  <2>2. state = "running"
    BY Zenon DEF StatusFollowsTheSync
  <2>3. answered /\ Severe(answered)
    BY <2>1, Zenon DEF Watchdog
  <2>4. Stalled
    BY <2>2, <2>3 DEF Severe, CurrentState
  <2> QED BY <2>2, <2>4 DEF Stalled
<1> QED BY <1>1, TypeInvariant, StatusIsOfTheSync, PTL DEF Safe, WatchdogSparesProgress
=============================================================================
