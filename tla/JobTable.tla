------------------------------ MODULE JobTable ------------------------------
(***************************************************************************)
(* The job table of crates/common/src/jobs.rs as a value: one operator per *)
(* method of JobTable, each taking the table before the call and returning *)
(* the table after it.  The state machines that call the methods are in    *)
(* JobTableSpec (the table alone) and JobControl (the table, the kernel's  *)
(* child processes and the job-control builtins).                          *)
(*                                                                         *)
(* The Vec<Job> is a function from job ids to jobs.  The position of a job *)
(* in the Vec is only ever compared with the position of another one, so a *)
(* job carries the number of the push that appended it (`at').             *)
(***************************************************************************)
EXTENDS Integers, Sequences, FiniteSets

(* Option<JobId>: ids start at 1, so 0 is None. *)
NoJob == 0

(* Option<i32> of Job::exit_status. *)
NoStatus == -1

JobState == {"Running", "Stopped", "Done"}

(* The raw waitpid status, by what WIFEXITED, WIFSIGNALED and WIFSTOPPED   *)
(* say of it and the code or signal number it carries.                     *)
RawStatus == [how : {"exited", "signaled", "stopped"}, arg : Nat]

Exited(n) == [how |-> "exited", arg |-> n]
Signaled(s) == [how |-> "signaled", arg |-> s]
StoppedBy(s) == [how |-> "stopped", arg |-> s]

decode_status(raw) == IF raw.how = "exited" THEN raw.arg ELSE 128 + raw.arg

Process(Pid) == [pid : Pid, status_raw : RawStatus, state : JobState]

Job(Pid, Command) ==
  [pgid : Pid, command_line : Command, state : JobState,
   processes : Seq(Process(Pid)) \ {<<>>}, notified : BOOLEAN, exit_status : Int,
   waited_for : BOOLEAN, nohup : BOOLEAN, jobcontrol : BOOLEAN, at : Nat]

Pids(job) == {job.processes[i].pid : i \in DOMAIN job.processes}
LastProcess(job) == job.processes[Len(job.processes)]
AllDone(job) == \A i \in DOMAIN job.processes : job.processes[i].state = "Done"

(* HashMap::insert and HashMap::remove of a set of keys. *)
Insert(f, keys, v) ==
  [k \in DOMAIN f \cup keys |-> IF k \in keys THEN v ELSE f[k]]
Without(f, keys) == [k \in DOMAIN f \ keys |-> f[k]]

(* Vec::get_mut and an assignment to the job found. *)
SetJob(t, id, job) == [t EXCEPT !.jobs = [t.jobs EXCEPT ![id] = job]]

-----------------------------------------------------------------------------

new ==
  [jobs |-> <<>>, current |-> NoJob, previous |-> NoJob,
   pid_to_job |-> <<>>, waited_pids |-> {},
   completion_order |-> <<>>, next_completion_order |-> 0, pushes |-> 0]

(* The lowest id no job of the table has. *)
allocate_id(t) ==
  CHOOSE n \in 1..(Cardinality(DOMAIN t.jobs) + 1) :
    /\ n \notin DOMAIN t.jobs
    /\ \A m \in 1..(n - 1) : m \in DOMAIN t.jobs

(* The sort key (stopped, index) of reset_current_previous: j before k. *)
Before(j, k) ==
  \/ j.state # "Stopped" /\ k.state = "Stopped"
  \/ (j.state = "Stopped" <=> k.state = "Stopped") /\ j.at < k.at

(* The last job of ids in that order, None when there is none. *)
LastOf(jobs, ids) ==
  IF ids = {} THEN NoJob
  ELSE CHOOSE i \in ids : \A j \in ids \ {i} : Before(jobs[j], jobs[i])

(* Jobs that are not Done are candidates; when every job is Done, the ones *)
(* whose completion has not been reported.                                 *)
Candidates(jobs) ==
  LET live == {i \in DOMAIN jobs : jobs[i].state # "Done"}
  IN  IF live # {} THEN live ELSE {i \in DOMAIN jobs : ~jobs[i].notified}

reset_current_previous(t) ==
  LET pool == Candidates(t.jobs)
      top == LastOf(t.jobs, pool)
  IN  [t EXCEPT !.current = top, !.previous = LastOf(t.jobs, pool \ {top})]

add(t, pgid, command, jobcontrol, processes) ==
  LET id == allocate_id(t)
      job == [pgid |-> pgid, command_line |-> command, state |-> "Running",
              processes |-> processes, notified |-> FALSE,
              exit_status |-> NoStatus, waited_for |-> FALSE, nohup |-> FALSE,
              jobcontrol |-> jobcontrol, at |-> t.pushes]
  IN  [t EXCEPT !.jobs = Insert(@, {id}, job),
                !.waited_pids = @ \ Pids(job),
                !.pid_to_job = Insert(@, Pids(job), id),
                !.previous = t.current,
                !.current = id,
                !.pushes = @ + 1]

(* Wrong variants of the operators, named after what they get wrong, stand *)
(* before the operator they vary.  No specification uses them: each shows  *)
(* that a property of the table can fail.                                  *)
Forget_keeps_pids(t, ids) == [t EXCEPT !.jobs = Without(@, ids),
                                       !.completion_order = Without(@, ids)]

(* What the table forgets with the jobs of ids: their records, the index   *)
(* entries and waited marks of their pids, their completion numbers.       *)
Forget(t, ids) ==
  LET gone == UNION {Pids(t.jobs[i]) : i \in ids}
  IN  [t EXCEPT !.jobs = Without(@, ids),
                !.pid_to_job = Without(@, gone),
                !.waited_pids = @ \ gone,
                !.completion_order = Without(@, ids)]

remove(t, id) == reset_current_previous(Forget(t, {id} \cap DOMAIN t.jobs))

mark_pid_waited(t, pid) ==
  LET w == [t EXCEPT !.waited_pids = @ \cup {pid}]
      id == t.pid_to_job[pid]
  IN  IF pid \in DOMAIN t.pid_to_job /\ Pids(t.jobs[id]) \subseteq w.waited_pids
        THEN SetJob(w, id, [t.jobs[id] EXCEPT !.waited_for = TRUE])
        ELSE w

(* A jobspec: %% and %-, %n, a pid, and %string or %?string, given by the  *)
(* set of command lines the string matches.                                *)
lookup(t, spec) ==
  CASE spec.kind = "current" -> t.current
    [] spec.kind = "previous" -> t.previous
    [] spec.kind = "id" -> IF spec.id \in DOMAIN t.jobs THEN spec.id ELSE NoJob
    [] spec.kind = "pid" ->
         IF spec.pid \in DOMAIN t.pid_to_job THEN t.pid_to_job[spec.pid] ELSE NoJob
    [] spec.kind = "string" ->
         LET hits == {i \in DOMAIN t.jobs : t.jobs[i].command_line \in spec.matches}
         IN  IF Cardinality(hits) = 1 THEN CHOOSE i \in hits : TRUE ELSE NoJob

(* The job with the process of pid updated. *)
WithProcess(job, pid, state, raw) ==
  [job EXCEPT !.processes =
     [i \in DOMAIN job.processes |->
        IF job.processes[i].pid = pid
          THEN [pid |-> pid, status_raw |-> raw, state |-> state]
          ELSE job.processes[i]]]

Completes_any(job) ==
  job.state # "Done" /\ \E i \in DOMAIN job.processes : job.processes[i].state = "Done"

Completes(job) == job.state # "Done" /\ AllDone(job)

Marked_current_only(t, id) == id = t.current

Marked(t, id) == id \in {t.current, t.previous}

(* The job whose last process is dead, with the status of that process. *)
Finished(job) ==
  [job EXCEPT !.state = "Done",
              !.exit_status = decode_status(LastProcess(job).status_raw)]

(* The table with job completed under id and numbered. *)
Complete(t, id, job) ==
  [SetJob(t, id, Finished(job)) EXCEPT
     !.completion_order = Insert(@, {id}, t.next_completion_order),
     !.next_completion_order = @ + 1]

mark_dead(t, pid, raw) ==
  IF pid \notin DOMAIN t.pid_to_job THEN t ELSE
  LET id == t.pid_to_job[pid]
      job == WithProcess(t.jobs[id], pid, "Done", raw)
  IN  IF ~Completes(job) THEN SetJob(t, id, job)
      ELSE IF Marked(t, id) THEN reset_current_previous(Complete(t, id, job))
      ELSE Complete(t, id, job)

(* The job with the process of pid stopped by sig. *)
StoppedJob(job, pid, sig) ==
  [WithProcess(job, pid, "Stopped", StoppedBy(sig)) EXCEPT !.state = "Stopped"]

mark_stopped(t, pid, sig) ==
  IF pid \notin DOMAIN t.pid_to_job THEN t ELSE
  LET id == t.pid_to_job[pid]
  IN  [SetJob(t, id, StoppedJob(t.jobs[id], pid, sig)) EXCEPT
         !.previous = IF t.current # id THEN t.current ELSE @,
         !.current = id]

Continued_all(job) ==
  [job EXCEPT !.processes =
     [i \in DOMAIN job.processes |-> [job.processes[i] EXCEPT !.state = "Running"]]]

(* Every Stopped process of the job is Running again. *)
Continued(job) ==
  [job EXCEPT !.processes =
     [i \in DOMAIN job.processes |->
        IF job.processes[i].state = "Stopped"
          THEN [job.processes[i] EXCEPT !.state = "Running"]
          ELSE job.processes[i]]]

AnyRunning(job) == \E i \in DOMAIN job.processes : job.processes[i].state = "Running"

mark_job_running(t, id) ==
  IF id \notin DOMAIN t.jobs THEN t ELSE
  LET job == Continued(t.jobs[id])
  IN  SetJob(t, id,
        IF AnyRunning(job) THEN [job EXCEPT !.state = "Running", !.notified = FALSE]
                           ELSE job)

mark_running(t, pid) ==
  IF pid \in DOMAIN t.pid_to_job THEN mark_job_running(t, t.pid_to_job[pid]) ELSE t

Purgeable(t) == {i \in DOMAIN t.jobs : t.jobs[i].state = "Done" /\ t.jobs[i].notified}

purge_done(t) ==
  IF Purgeable(t) = {} THEN t ELSE reset_current_previous(Forget(t, Purgeable(t)))

(* The jobs the call returns, and the table it leaves. *)
ToNotify(t) == {i \in DOMAIN t.jobs : ~t.jobs[i].notified /\ t.jobs[i].state # "Running"}

pending_notifications(t) ==
  [t EXCEPT !.jobs = [i \in DOMAIN t.jobs |->
     IF i \in ToNotify(t) THEN [t.jobs[i] EXCEPT !.notified = TRUE] ELSE t.jobs[i]]]

-----------------------------------------------------------------------------

(* What holds of a table between calls, as predicates of its value: the    *)
(* specifications that have a table state them as invariants.              *)

(* t is a JobTable with processes of Pid and command lines of Command. *)
IsJobTable(t, Pid, Command) ==
  /\ t = [jobs |-> t.jobs, current |-> t.current, previous |-> t.previous,
          pid_to_job |-> t.pid_to_job, waited_pids |-> t.waited_pids,
          completion_order |-> t.completion_order,
          next_completion_order |-> t.next_completion_order, pushes |-> t.pushes]
  /\ t.jobs = [i \in DOMAIN t.jobs |-> t.jobs[i]]
  /\ IsFiniteSet(DOMAIN t.jobs) /\ DOMAIN t.jobs \subseteq Nat \ {NoJob}
  /\ \A i \in DOMAIN t.jobs : t.jobs[i] \in Job(Pid, Command)
  /\ t.current \in Nat /\ t.previous \in Nat
  /\ DOMAIN t.pid_to_job \subseteq Pid
  /\ t.waited_pids \subseteq Pid
  /\ t.next_completion_order \in Nat /\ t.pushes \in Nat

(* No two jobs were appended by the same push. *)
PushesDistinct(t) ==
  \A i, j \in DOMAIN t.jobs :
    /\ t.jobs[i].at < t.pushes
    /\ t.jobs[i].at = t.jobs[j].at => i = j

PidIndex(t) ==
  /\ \A p \in DOMAIN t.pid_to_job :
       t.pid_to_job[p] \in DOMAIN t.jobs /\ p \in Pids(t.jobs[t.pid_to_job[p]])
  /\ \A i \in DOMAIN t.jobs : \A p \in Pids(t.jobs[i]) :
       p \in DOMAIN t.pid_to_job /\ t.pid_to_job[p] = i

Markers(t) ==
  /\ t.current # NoJob => t.current \in DOMAIN t.jobs
  /\ t.previous # NoJob => t.previous \in DOMAIN t.jobs /\ t.previous # t.current
  /\ t.current = NoJob => t.previous = NoJob

Live(t) == {i \in DOMAIN t.jobs : t.jobs[i].state # "Done"}

LiveMarked(t) ==
  /\ Live(t) # {} => t.current \in Live(t)
  /\ (\E i \in Live(t) : i # t.current) => t.previous \in Live(t)

StateOfProcesses(job) ==
  /\ (job.state = "Done") <=> AllDone(job)
  /\ job.state = "Running" =>
       \A k \in DOMAIN job.processes : job.processes[k].state # "Stopped"

CompletionNumbers(t) ==
  /\ DOMAIN t.completion_order = {i \in DOMAIN t.jobs : t.jobs[i].state = "Done"}
  /\ \A i, j \in DOMAIN t.completion_order :
       /\ t.completion_order[i] \in 0..(t.next_completion_order - 1)
       /\ t.completion_order[i] = t.completion_order[j] => i = j

=============================================================================
