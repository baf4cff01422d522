----------------------------- MODULE Scheduler -----------------------------
(***************************************************************************)
(* The RFN scheduler: jobs in memory and in the table jobs (rfn/host.py,   *)
(* the schedule methods), the tick that runs what is due and reschedules it*)
(* (rfn/runtime.py, run_due_jobs), the web handlers that cancel, disable   *)
(* and enable jobs (rfn/live.py), and a reload or restart.                 *)
(* All rows are written over one connection, in a transaction that a       *)
(* script may open, commit or roll back for everybody.                     *)
(*                                                                         *)
(* The times next_run_at are abstracted to the order in which they come:   *)
(* due holds the jobs whose time has come, the earliest first.             *)
(***************************************************************************)
EXTENDS Integers, Sequences, SequencesExt

CONSTANTS
    Keys,         \* job keys
    EveryBound,   \* keys that the manifest binds with every_ms (or cron)
    AfterBound,   \* keys that the manifest binds with after_ms
    Fails,        \* keys whose function may raise, also for a store of its own
    None,         \* no job, no row, no unfinished operation
    BatchMax,     \* limit of run_due_jobs
    OpMax,        \* bound: operations of scripts and of the web
    RestartMax    \* bound: reloads and restarts

ASSUME BindingAssumption ==
    /\ EveryBound \subseteq Keys /\ AfterBound \subseteq Keys /\ Fails \subseteq Keys
    /\ EveryBound \intersect AfterBound = {}

ASSUME SchedulerLimits == BatchMax \in Nat /\ OpMax \in Nat /\ RestartMax \in Nat

VARIABLES
    jobs,      \* host.jobs: the kind of each job in memory
    due,       \* keys in memory whose next_run_at has come
    stored,    \* the table jobs
    at,        \* where run_due_jobs is: see Places
    batch,     \* the due jobs it has collected, with their kind then
    half,      \* per actor, the operation it is in the middle of
    saved,     \* the table when the open transaction began, or None
    ops,       \* operations so far
    restarts,  \* reloads and restarts so far
    ran,       \* history: after-jobs that have run since they were registered
    raced,     \* history: keys with two operations at a time
    cancelled, \* history: keys cancelled and not registered again
    unsaved    \* history: jobs whose row was not written, or was rolled back

tick == <<at, batch>>
bounds == <<ops, restarts>>
database == <<saved, unsaved>>
history == <<ran, raced, cancelled>>
vars == <<jobs, due, stored, tick, half, bounds, history, database>>

(* The tick's thread, the web handlers, another thread that runs a script. *)
Actors == {"tick", "web", "script"}
Kinds == {"every", "after"}
Places == {"idle", "next", "body", "resched"}
Rows == [kind : Kinds, enabled : BOOLEAN]
Unfinished == [op : {"store", "delete", "pop", "enable"}, key : Keys, kind : Kinds]

ASSUME NoneAssumption == None \notin Kinds \union Rows \union Unfinished

(* next_run_at of k is in the future now: due without k.                   *)
Without(k) ==
    IF ~Contains(due, k) THEN due
    ELSE LET n == CHOOSE i \in 1 .. Len(due) : due[i] = k
         IN  [i \in 1 .. Len(due) - 1 |-> due[IF i < n THEN i ELSE i + 1]]
Bindings == [k \in Keys |-> IF k \in EveryBound THEN "every"
                            ELSE IF k \in AfterBound THEN "after" ELSE None]
Row(kind) == [kind |-> kind, enabled |-> TRUE]
Pending(k) == \E a \in Actors : half[a] # None /\ half[a].key = k
Racing(k) == IF Pending(k) THEN raced \union {k} ELSE raced

(* _install_schedule_bindings on a new host over the rows of the database. *)
Installed(rows) ==
    [k \in Keys |-> IF Bindings[k] # None THEN Row(Bindings[k]) ELSE rows[k]]

Init ==
    /\ jobs = Bindings /\ due = <<>> /\ stored = Installed([k \in Keys |-> None])
    /\ at = "idle" /\ batch = <<>> /\ half = [a \in Actors |-> None]
    /\ ops = 0 /\ restarts = 0
    /\ ran = {} /\ raced = {} /\ cancelled = {} /\ saved = None /\ unsaved = {}

-----------------------------------------------------------------------------
(* The operations of the host.  Each has two parts, memory and database,   *)
(* and other threads run in between.                                       *)

(* jobs[k] = job, with next_run_at in the future; then _store_job.         *)
SetJob(a, k, kind) ==
    /\ jobs' = [jobs EXCEPT ![k] = kind] /\ due' = Without(k)
    /\ half' = [half EXCEPT ![a] = [op |-> "store", key |-> k, kind |-> kind]]
    /\ UNCHANGED stored

(* schedule_cancel: jobs.pop, then DELETE.                                 *)
PopJob(a, k) ==
    /\ jobs' = [jobs EXCEPT ![k] = None] /\ due' = Without(k)
    /\ half' = [half EXCEPT ![a] = [op |-> "delete", key |-> k, kind |-> "every"]]
    /\ UNCHANGED stored

(* What the unfinished operation u makes of the row of its key.            *)
Written(u) == IF u.op = "store" THEN Row(u.kind) ELSE None
Writes(u) ==
    /\ stored' = [stored EXCEPT ![u.key] = Written(u)] /\ unsaved' = unsaved \ {u.key}

(* The second part of an operation.                                        *)
Finish(a) ==
    /\ half[a] # None
    /\ LET k == half[a].key
       IN  CASE half[a].op \in {"store", "delete"} ->
                    /\ Writes(half[a])
                    /\ half' = [half EXCEPT ![a] = None] /\ UNCHANGED <<jobs, due, ran>>
             [] half[a].op = "pop" ->
                    /\ jobs' = [jobs EXCEPT ![k] = None] /\ due' = Without(k)
                    /\ half' = [half EXCEPT ![a] = None] /\ UNCHANGED <<stored, ran, unsaved>>
             [] half[a].op = "enable" ->
                    /\ SetJob(a, k, half[a].kind) /\ ran' = ran \ {k} /\ UNCHANGED unsaved
    /\ UNCHANGED <<tick, bounds, raced, cancelled, saved>>

(* json.dumps of the arguments or sqlite raises, for the row or, after it  *)
(* was written, for the audit: memory stays changed.  In the tick the      *)
(* exception leaves the loop over the due jobs, through the job's script if*)
(* that one registered or cancelled; a script that may raise is in Fails.  *)
FinishFails(a) ==
    /\ half[a] # None /\ half[a].op \in {"store", "delete"}
    /\ \/ Writes(half[a])
       \/ /\ unsaved' = IF half[a].op = "store" THEN unsaved \union {half[a].key} ELSE unsaved
          /\ UNCHANGED stored
    /\ half' = [half EXCEPT ![a] = None]
    /\ IF a = "tick"
       THEN /\ at = "body" => Head(batch).key \in Fails
            /\ at' = "idle" /\ batch' = <<>>
       ELSE UNCHANGED tick
    /\ UNCHANGED <<jobs, due, bounds, history, saved>>

MayOperate(a) ==
    /\ half[a] = None /\ ops < OpMax /\ ops' = ops + 1
    /\ a = "tick" => at = "body"

(* schedule.every, schedule.after, schedule.cron in a script.              *)
Register(a, k, kind) ==
    /\ a # "web" /\ MayOperate(a) /\ SetJob(a, k, kind)
    /\ ran' = ran \ {k} /\ cancelled' = cancelled \ {k} /\ raced' = Racing(k)
    /\ UNCHANGED <<tick, restarts, database>>

(* schedule.cancel in a script, or cancel_job of the web.                  *)
Cancel(a, k) ==
    /\ MayOperate(a) /\ PopJob(a, k)
    /\ cancelled' = cancelled \union {k} /\ raced' = Racing(k)
    /\ UNCHANGED <<tick, restarts, ran, database>>

(* Broken: disabling does not reach the job in memory.                     *)
Disable_RowOnly(k) ==
    /\ MayOperate("web")
    /\ stored' = IF stored[k] = None THEN stored ELSE [stored EXCEPT ![k].enabled = FALSE]
    /\ raced' = Racing(k)
    /\ UNCHANGED <<jobs, due, half, tick, restarts, ran, cancelled, database>>

(* set_job_enabled(key, false): UPDATE, then jobs.pop.                     *)
Disable(k) ==
    /\ MayOperate("web")
    /\ stored' = IF stored[k] = None THEN stored ELSE [stored EXCEPT ![k].enabled = FALSE]
    /\ half' = [half EXCEPT !["web"] = [op |-> "pop", key |-> k, kind |-> "every"]]
    /\ raced' = Racing(k)
    /\ UNCHANGED <<jobs, due, tick, restarts, ran, cancelled, database>>

(* set_job_enabled(key, true): the row says what to schedule again.        *)
Enable(k) ==
    /\ MayOperate("web") /\ stored[k] # None
    /\ half' = [half EXCEPT !["web"] = [op |-> "enable", key |-> k, kind |-> stored[k].kind]]
    /\ cancelled' = cancelled \ {k} /\ raced' = Racing(k)
    /\ UNCHANGED <<jobs, due, stored, tick, restarts, ran, database>>

(* db.begin, db.commit and db.rollback in a script: there is one           *)
(* transaction, and it takes in what every thread writes meanwhile.        *)
InScript == \E a \in {"tick", "script"} : half[a] = None /\ (a = "tick" => at = "body")

Begin ==
    /\ InScript /\ ops < OpMax /\ ops' = ops + 1
    /\ saved = None /\ saved' = stored
    /\ UNCHANGED <<jobs, due, stored, half, tick, restarts, history, unsaved>>

Commit ==
    /\ InScript /\ saved # None /\ saved' = None
    /\ UNCHANGED <<jobs, due, stored, half, tick, bounds, history, unsaved>>

Rollback ==
    /\ InScript /\ saved # None /\ saved' = None
    /\ stored' = saved
    /\ unsaved' = unsaved \union {k \in Keys : jobs[k] # None /\ saved[k] # stored[k]}
    /\ UNCHANGED <<jobs, due, half, tick, bounds, history>>

-----------------------------------------------------------------------------
(* run_due_jobs.                                                           *)

(* Time passes: next_run_at of one more job has come.                      *)
BecomesDue(k) ==
    /\ jobs[k] # None /\ ~Contains(due, k) /\ due' = Append(due, k)
    /\ UNCHANGED <<jobs, stored, tick, half, bounds, history, database>>

(* Broken: the job that became due last comes first.                       *)
Collect_Newest ==
    /\ at = "idle" /\ due # <<>> /\ at' = "next"
    /\ batch' = [i \in 1 .. IF Len(due) < BatchMax THEN Len(due) ELSE BatchMax |->
                    [key |-> Reverse(due)[i], kind |-> jobs[Reverse(due)[i]]]]
    /\ UNCHANGED <<jobs, due, stored, half, bounds, history, database>>

(* The first of the due jobs, in the order of next_run_at.                 *)
Collect ==
    /\ at = "idle" /\ due # <<>> /\ at' = "next"
    /\ batch' = [i \in 1 .. IF Len(due) < BatchMax THEN Len(due) ELSE BatchMax |->
                    [key |-> due[i], kind |-> jobs[due[i]]]]
    /\ UNCHANGED <<jobs, due, stored, half, bounds, history, database>>

(* run_job looks the job up again; an unknown one is not run.              *)
RunJob ==
    /\ at = "next" /\ batch # <<>> /\ half["tick"] = None
    /\ at' = IF jobs[Head(batch).key] = None THEN "resched" ELSE "body"
    /\ UNCHANGED <<jobs, due, stored, batch, half, bounds, history, database>>

JobReturns ==
    /\ at = "body" /\ half["tick"] = None /\ at' = "resched"
    /\ ran' = IF jobs[Head(batch).key] = "after" THEN ran \union {Head(batch).key} ELSE ran
    /\ UNCHANGED <<jobs, due, stored, batch, half, bounds, raced, cancelled, database>>

(* The exception leaves the loop over the due jobs; nothing is rescheduled.*)
JobRaises ==
    /\ at = "body" /\ half["tick"] = None /\ Head(batch).key \in Fails
    /\ at' = "idle" /\ batch' = <<>>
    /\ UNCHANGED <<jobs, due, stored, half, bounds, history, database>>

(* Broken: only what is in memory still is removed, an after-job is kept.  *)
Reschedule_KeepsAfter ==
    /\ at = "resched" /\ at' = "next" /\ batch' = Tail(batch)
    /\ LET job == Head(batch)
       IN  SetJob("tick", job.key, job.kind) /\ raced' = Racing(job.key)
    /\ UNCHANGED <<bounds, ran, cancelled, database>>

(* _reschedule goes by the job that was collected: it cancels a one-shot   *)
(* job and puts every other one back, whatever happened to it meanwhile.   *)
Reschedule ==
    /\ at = "resched" /\ at' = "next" /\ batch' = Tail(batch)
    /\ LET job == Head(batch)
       IN  /\ IF job.kind = "after" THEN PopJob("tick", job.key)
                                    ELSE SetJob("tick", job.key, job.kind)
           /\ raced' = Racing(job.key)
    /\ UNCHANGED <<bounds, ran, cancelled, database>>

TickEnds ==
    /\ at = "next" /\ batch = <<>> /\ half["tick"] = None /\ at' = "idle"
    /\ UNCHANGED <<jobs, due, stored, batch, half, bounds, history, database>>

(* A reload that found no active call, or the process was restarted: a new *)
(* host, the jobs of the manifest, the rows of the database that were      *)
(* committed.                                                              *)
Restart ==
    /\ restarts < RestartMax /\ restarts' = restarts + 1
    /\ jobs' = Bindings /\ due' = <<>>
    /\ stored' = Installed(IF saved = None THEN stored ELSE saved)
    /\ at' = "idle" /\ batch' = <<>> /\ half' = [a \in Actors |-> None]
    /\ ran' = {} /\ raced' = {} /\ cancelled' = cancelled \ (EveryBound \union AfterBound)
    /\ saved' = None /\ unsaved' = {} /\ UNCHANGED ops

-----------------------------------------------------------------------------
RunDueJobs == Collect \/ RunJob \/ JobReturns \/ JobRaises \/ Reschedule \/ TickEnds

Operate ==
    \E k \in Keys :
        \/ \E a \in Actors : Cancel(a, k) \/ \E kind \in Kinds : Register(a, k, kind)
        \/ Disable(k) \/ Enable(k)

Transaction == Begin \/ Commit \/ Rollback

Next ==
    \/ RunDueJobs \/ Operate \/ Transaction \/ Restart
    \/ \E a \in Actors : Finish(a) \/ FinishFails(a)
    \/ \E k \in Keys : BecomesDue(k)

Spec == Init /\ [][Next]_vars

(* The tick comes every half second; a script ends, by max_ops or by the   *)
(* timeouts of its queries; a thread in the middle of an operation goes on.*)
Fairness == WF_vars(RunDueJobs) /\ \A a \in Actors : WF_vars(Finish(a) \/ FinishFails(a))

FairSpec == Spec /\ Fairness

-----------------------------------------------------------------------------
(* Every variable has its type; what is due is in memory, once.            *)
TypeOK ==
    /\ jobs \in [Keys -> Kinds \union {None}]
    /\ due \in Seq(Keys) /\ IsInjective(due) /\ \A i \in 1 .. Len(due) : jobs[due[i]] # None
    /\ stored \in [Keys -> Rows \union {None}]
    /\ at \in Places /\ batch \in Seq([key : Keys, kind : Kinds])
    /\ at \in {"body", "resched"} => batch # <<>>
    /\ half \in [Actors -> Unfinished \union {None}]
    /\ ops \in 0 .. OpMax /\ restarts \in 0 .. RestartMax
    /\ ran \subseteq Keys /\ raced \subseteq Keys /\ cancelled \subseteq Keys
    /\ saved \in [Keys -> Rows \union {None}] \union {None} /\ unsaved \subseteq Keys

(* A job in memory is stored and enabled, as that kind, so that the list   *)
(* of jobs, schedule.exists and enabling it speak of the job that runs.    *)
(* Two operations on one key at the same time can break this; and a row    *)
(* that could not be written, or that a rollback of any script took back,  *)
(* breaks it until the key is written again.                               *)
MemoryIsStored ==
    \A k \in Keys : jobs[k] # None /\ ~Pending(k) /\ k \notin raced \union unsaved =>
        stored[k] = Row(jobs[k])
JobsInv == TypeOK /\ MemoryIsStored

(* A one-shot job that has run is not started again by the tick, unless it *)
(* has been registered again.                                              *)
AfterRunsOnce ==
    [][at' = "body" /\ at # "body" =>
        ~(jobs[Head(batch).key] = "after" /\ Head(batch).key \in ran)]_vars

(* What is due only moves ahead: nothing that came due later, was put back *)
(* or registered again gets before it, so each tick begins with the job    *)
(* that has waited longest.                                                *)
KeepsPlaces(s, t) ==
    \A i \in 1 .. Len(s), j \in 1 .. Len(t) : s[i] = t[j] =>
        /\ j <= i
        /\ \A h \in 1 .. j : \E g \in 1 .. i : s[g] = t[h]
DueKeepsItsPlace == [][KeepsPlaces(due, due')]_vars

(* What is due gets its turn, unless a job that may raise comes before it. *)
Blocked(k) ==
    \E i, j \in 1 .. Len(due) : i <= j /\ due[i] \in Fails /\ due[j] = k

DueGetsTurn == \A k \in Keys : Contains(due, k) ~> (~Contains(due, k) \/ Blocked(k))

-----------------------------------------------------------------------------
(* RFN manual, web API: cancelling a job deletes it.                       *)
CancelledIsGone == \A k \in cancelled : ~Pending(k) => jobs[k] = None
=============================================================================
