---------------------------- MODULE JobTableSpec ----------------------------
(***************************************************************************)
(* The job table driven through its public methods, in any order a caller  *)
(* may call them.  A caller learns of a child's death, stop or             *)
(* continuation from waitpid, which reports nothing more of a child once   *)
(* it has reported its death: that is the only order imposed on the calls. *)
(***************************************************************************)
EXTENDS JobTable

CONSTANTS Pid,          \* process ids
          Command,      \* command lines
          Signal,       \* stop signals
          Raw           \* raw statuses a dead child can have

ASSUME RawAssumption == Raw \subseteq RawStatus
ASSUME SignalAssumption == Signal \subseteq Nat

VARIABLE table

InTable == UNION {Pids(table.jobs[i]) : i \in DOMAIN table.jobs}

(* pid has a process in the table and its death has been reported. *)
Reaped(pid) ==
  \E i \in DOMAIN table.jobs : \E k \in DOMAIN table.jobs[i].processes :
    /\ table.jobs[i].processes[k].pid = pid
    /\ table.jobs[i].processes[k].state = "Done"

(* Every process of a new job is a running child no job of the table has.  *)
(* The kernel may recycle the pid of a job that has left the table.        *)
NewProcesses(procs) ==
  /\ procs # <<>>
  /\ \A k \in DOMAIN procs :
       /\ procs[k].pid \notin InTable
       /\ procs[k].state = "Running"
       /\ \A m \in DOMAIN procs : procs[m].pid = procs[k].pid => m = k

TypeOK == IsJobTable(table, Pid, Command) /\ PushesDistinct(table)

-----------------------------------------------------------------------------

Init == table = new

Add(procs, c, jc) ==
  /\ NewProcesses(procs)
  /\ table' = add(table, procs[1].pid, c, jc, procs)

MarkDead(pid, raw) == ~Reaped(pid) /\ table' = mark_dead(table, pid, raw)
MarkStopped(pid, sig) == ~Reaped(pid) /\ table' = mark_stopped(table, pid, sig)
MarkRunning(pid) == ~Reaped(pid) /\ table' = mark_running(table, pid)
MarkJobRunning(id) == table' = mark_job_running(table, id)
MarkPidWaited(pid) == table' = mark_pid_waited(table, pid)
Remove(id) == table' = remove(table, id)
PurgeDone == table' = purge_done(table)
PendingNotifications == table' = pending_notifications(table)

Next ==
  \/ \E procs \in Seq(Process(Pid)), c \in Command, jc \in BOOLEAN : Add(procs, c, jc)
  \/ \E pid \in Pid, raw \in Raw : MarkDead(pid, raw)
  \/ \E pid \in Pid, sig \in Signal : MarkStopped(pid, sig)
  \/ \E pid \in Pid : MarkRunning(pid)
  \/ \E id \in Nat : MarkJobRunning(id)
  \/ \E pid \in Pid : MarkPidWaited(pid)
  \/ \E id \in Nat : Remove(id)
  \/ PurgeDone
  \/ PendingNotifications

Spec == Init /\ [][Next]_table

-----------------------------------------------------------------------------

(* The two indexes agree: pid_to_job sends a pid to a job that has it, and *)
(* every pid of every job is in pid_to_job.  mark_dead, mark_stopped and   *)
(* mark_running return at once for a pid that is not, so a job it misses   *)
(* would never be seen to finish (jobs.rs:327).                            *)
PidIndexCoherent == PidIndex(table)

(* The current and previous markers name jobs of the table, and two        *)
(* different ones: fg and bg unwrap table.get of what lookup returns       *)
(* (fg.rs:57, bg.rs:56).                                                   *)
MarkersValid == Markers(table)

(* While a job is still alive the current job is an alive one, and the     *)
(* previous job too when there are two: reset_current_previous runs on     *)
(* every path on which a marked job dies or leaves.                        *)
MarkersPreferLive == LiveMarked(table)

(* The state of a job agrees with its processes': Done exactly when all    *)
(* are Done, Running only when none is Stopped (so one is Running).        *)
StateMatchesProcesses == \A i \in DOMAIN table.jobs : StateOfProcesses(table.jobs[i])

(* completion_order numbers exactly the Done jobs, differently, below the  *)
(* next number: wait -n takes the Done job with the least number, and      *)
(* min_by_key puts a job without one first (wait.rs:448).                  *)
CompletionOrdered == CompletionNumbers(table)

(* A job is flagged WAITED_FOR only when each of its pids is in            *)
(* waited_pids: recycling a pid clears its mark (jobs.rs:196) and must not *)
(* clear one a flagged job relies on.                                      *)
WaitedForCoherent ==
  \A i \in DOMAIN table.jobs : table.jobs[i].waited_for => Pids(table.jobs[i]) \subseteq table.waited_pids

(* A finished job stays finished, with the status it finished with, until  *)
(* it leaves the table.                                                    *)
DoneIsFinal ==
  \A i \in DOMAIN table.jobs \cap DOMAIN table'.jobs :
    table.jobs[i].state = "Done" =>
      table'.jobs[i].state = "Done" /\ table'.jobs[i].exit_status = table.jobs[i].exit_status

(* No call replaces a job by another under the same id: an id is handed    *)
(* out again only after its job has left (allocate_id).                    *)
IdsNotClobbered ==
  \A i \in DOMAIN table.jobs \cap DOMAIN table'.jobs :
    table'.jobs[i].at = table.jobs[i].at /\ Pids(table'.jobs[i]) = Pids(table.jobs[i])

(* After any sequence of calls the indexes and the markers of the table    *)
(* are sound.                                                              *)
TableCoherent == TypeOK /\ PidIndexCoherent /\ MarkersValid

(* What is recorded of a job in several places agrees: its state and its   *)
(* processes', its state and its completion number, its flag and the       *)
(* waited pids.                                                            *)
JobRecordsAgree == StateMatchesProcesses /\ CompletionOrdered /\ WaitedForCoherent

(* While an id is in the table it names one job, which does not come back  *)
(* to life: allocate_id, mark_running and mark_job_running in any order.   *)
JobsKeepIdentity == [][DoneIsFinal /\ IdsNotClobbered]_table

=============================================================================
