----------------------------- MODULE JobControl -----------------------------
(***************************************************************************)
(* Job control in an interactive shell: the job table, the kernel's view   *)
(* of the shell's children, and the shell's loop of prompt, notification   *)
(* and command, with the builtins that launch, wait for, resume, signal    *)
(* and forget jobs.  The shell is one thread; a child changes state at any *)
(* moment, so every waitpid is a step of its own and the children move     *)
(* between any two.                                                        *)
(*                                                                         *)
(* Every job has one process: the three callers of JobTable::add pass one. *)
(***************************************************************************)
EXTENDS JobTable

CONSTANTS Pid,          \* process ids
          Command,      \* command lines
          Raw,          \* raw statuses a child can exit with by itself
          checkjobs,    \* the shell option
          Commands,     \* bound: the commands the user types
          MaxForks,     \* bound: how many children are ever forked
          MaxStops      \* bound: how many times a child is ever stopped

AllCommands == {"background", "foreground", "wait", "wait_for", "wait_any", "wait_any_of",
                "fg", "bg", "kill_CONT", "kill", "disown", "disown_h", "jobs", "exit"}

ASSUME ConstantsAssumption ==
  /\ Raw \subseteq RawStatus /\ Commands \subseteq AllCommands
  /\ checkjobs \in BOOLEAN /\ MaxForks \in Nat /\ MaxStops \in Nat

SIGTSTP == 20
SIGKILL == 9

VARIABLES
  table,      \* the shell's JobTable
  child,      \* the kernel's record of the child with each pid
  sigchld,    \* a SIGCHLD is counted and not taken yet
  pc,         \* where the shell is
  op,         \* the command it runs, with the command's local variables
  warned,     \* the option __exit_job_warning
  answered,   \* history: the jobs wait -n has returned, by push number
  late,       \* history: children stopped after exit looked at them
  forks, stops

vars == <<table, child, sigchld, pc, op, warned, answered, late, forks, stops>>
history == <<answered, late>>
bounds == <<forks, stops>>

-----------------------------------------------------------------------------
(* The kernel.  A child has one slot for a stop or a continuation nobody   *)
(* has waited for yet; a later change overwrites it, and death empties it. *)
(* `status' is what the child died with, kept after it is reaped.          *)

Child == [run : {"none", "running", "stopped", "zombie"},
          report : {"none", "stopped", "continued"}, status : RawStatus]

Born == [run |-> "running", report |-> "none", status |-> Exited(0)]

Deliver(c, sig) ==
  CASE sig = "CONT" /\ c.run = "stopped" -> [c EXCEPT !.run = "running", !.report = "continued"]
    [] sig = "STOP" /\ c.run = "running" -> [c EXCEPT !.run = "stopped", !.report = "stopped"]
    [] sig = "KILL" /\ c.run \in {"running", "stopped"} ->
         [run |-> "zombie", report |-> "none", status |-> Signaled(SIGKILL)]
    [] OTHER -> c

(* kill(-p, sig): a change of state raises SIGCHLD in the shell. *)
killpg(p, sig) ==
  /\ child' = [child EXCEPT ![p] = Deliver(@, sig)]
  /\ sigchld' = (sigchld \/ child' # child)
  /\ stops' = IF sig = "STOP" /\ child' # child THEN stops + 1 ELSE stops

(* What waitpid(p, flags) can report of p: at most one thing. *)
Reports(p, flags) ==
  CASE child[p].run = "zombie" -> {"dead"}
    [] child[p].report = "stopped" /\ "WUNTRACED" \in flags -> {"stopped"}
    [] child[p].report = "continued" /\ "WCONTINUED" \in flags -> {"continued"}
    [] OTHER -> {}

IsChild(p) == child[p].run # "none"

NoSuchChild_retried(p) == FALSE

(* waitpid(p) fails with ECHILD, which ends the loop of the caller; EINTR, *)
(* the one other error, only repeats the call.                             *)
NoSuchChild(p) == ~IsChild(p)

(* waitpid reports it: a dead child is gone, a live one's slot is empty. *)
Consume(p, what) ==
  child' = [child EXCEPT ![p].run = IF what = "dead" THEN "none" ELSE @, ![p].report = "none"]

InTable(p) == p \in DOMAIN table.pid_to_job

(* fork returns a pid no child has.  Pids are assumed not to come round    *)
(* again while the table still lists the job of the old process.           *)
Fork(p) ==
  /\ forks < MaxForks /\ ~IsChild(p) /\ ~InTable(p)
  /\ child' = [child EXCEPT ![p] = Born]
  /\ forks' = forks + 1

-----------------------------------------------------------------------------

Current == [kind |-> "current"]
JobSpecs == {Current, [kind |-> "previous"]} \cup [kind : {"id"}, id : 1..MaxForks]
PidSpecs == [kind : {"pid"}, pid : Pid]

Idle == [cmd |-> "none", force |-> FALSE, targets |-> <<>>, any |-> {},
         waited |-> {}, status |-> NoStatus, id |-> NoJob]

TypeOK ==
  /\ IsJobTable(table, Pid, Command) /\ PushesDistinct(table)
  /\ child \in [Pid -> Child]
  /\ sigchld \in BOOLEAN /\ warned \in BOOLEAN
  /\ pc \in {"prompt", "prompt_reap", "notify", "read", "start", "start_reap", "run",
             "cmd_reap", "resume", "foreground", "waitpids", "waitany", "fgwait", "exited"}
  /\ op = [cmd |-> op.cmd, force |-> op.force, targets |-> op.targets,
           any |-> op.any, waited |-> op.waited, status |-> op.status, id |-> op.id]
  /\ op.targets \in Seq(Pid) /\ op.any \subseteq Pid /\ op.waited \subseteq Pid /\ op.status \in Int
  /\ op.id \in Nat
  /\ late \subseteq Pid /\ forks \in Nat /\ stops \in Nat

Init ==
  /\ table = new
  /\ child = [p \in Pid |-> [Born EXCEPT !.run = "none"]]
  /\ sigchld = FALSE /\ pc = "prompt" /\ op = Idle /\ warned = FALSE
  /\ answered = {} /\ late = {} /\ forks = 0 /\ stops = 0

(* The command is over: the reader loop comes round to the prompt. *)
Return == pc' = "prompt" /\ op' = Idle

-----------------------------------------------------------------------------
(* A child exits, or someone outside the shell signals it. *)

ChildExits(p, raw) ==
  /\ child[p].run = "running" /\ pc # "exited"
  /\ child' = [child EXCEPT ![p] = [run |-> "zombie", report |-> "none", status |-> raw]]
  /\ sigchld' = TRUE
  /\ UNCHANGED <<table, pc, op, warned, history, bounds>>

ChildSignaled(p, sig) ==
  /\ pc # "exited" /\ Deliver(child[p], sig) # child[p]
  /\ sig = "STOP" => stops < MaxStops
  /\ killpg(p, sig)
  /\ late' = IF sig = "STOP" /\ pc = "resume" /\ op.cmd = "exit" THEN late \cup {p} ELSE late
  /\ UNCHANGED <<table, pc, op, warned, answered, forks>>

-----------------------------------------------------------------------------
(* run_pending_traps: before the prompt and before the command is run the  *)
(* shell takes a counted SIGCHLD and reaps.                                *)

run_pending_traps_no_reap(at, reap, next) ==
  /\ pc = at /\ pc' = next
  /\ sigchld' = FALSE
  /\ UNCHANGED <<table, child, op, warned, history, bounds>>

run_pending_traps(at, reap, next) ==
  /\ pc = at
  /\ pc' = IF sigchld THEN reap ELSE next
  /\ sigchld' = FALSE
  /\ UNCHANGED <<table, child, op, warned, history, bounds>>

PromptTraps == run_pending_traps("prompt", "prompt_reap", "notify")
StartTraps == run_pending_traps("start", "start_reap", "run")

Record_keeps_stopped(t, p, what) ==
  CASE what = "dead" -> mark_dead(t, p, child[p].status)
    [] what = "stopped" -> mark_stopped(t, p, SIGTSTP)
    [] what = "continued" -> t

(* What reap_all makes of one report. *)
Record(t, p, what) ==
  CASE what = "dead" -> mark_dead(t, p, child[p].status)
    [] what = "stopped" -> mark_stopped(t, p, SIGTSTP)
    [] what = "continued" -> mark_running(t, p)

ReapFlags == {"WUNTRACED", "WCONTINUED"}
Reaping == pc \in {"prompt_reap", "start_reap", "cmd_reap"}

(* reap_all: waitpid(-1) reports some child, or finds nothing to report. *)
ReapOne ==
  /\ Reaping
  /\ \E p \in Pid : \E what \in Reports(p, ReapFlags) :
       table' = Record(table, p, what) /\ Consume(p, what)
  /\ UNCHANGED <<sigchld, pc, op, warned, history, bounds>>

ReapEnd ==
  /\ Reaping
  /\ \A p \in Pid : Reports(p, ReapFlags) = {}
  /\ pc' = CASE pc = "prompt_reap" -> "notify"
             [] pc = "start_reap" -> "run"
             [] pc = "cmd_reap" -> "resume"
  /\ late' = {}
  /\ UNCHANGED <<table, child, sigchld, op, warned, answered, bounds>>

(* notify_completed_jobs, with SIGCHLD blocked: the notices, then the      *)
(* jobs that are Done and notified leave.                                  *)
notify_completed_jobs ==
  /\ pc = "notify" /\ pc' = "read"
  /\ table' = purge_done(pending_notifications(table))
  /\ UNCHANGED <<child, sigchld, op, warned, history, bounds>>

(* A line is read: a command starts, or the line is blank and the shell    *)
(* prompts again.  Which command it is, with which arguments, is chosen    *)
(* below where the shell first acts on it.                                 *)
ReadCommand ==
  /\ pc = "read" /\ pc' \in {"start", "prompt"}
  /\ UNCHANGED <<table, child, sigchld, op, warned, history, bounds>>

(* Any command but exit, logout and jobs withdraws the warning exit gave. *)
Run(cmd) ==
  /\ pc = "run" /\ cmd \in Commands
  /\ warned' = (warned /\ cmd \in {"exit", "jobs"})

(* The builtin reaps before it looks at the table (reap_jobs). *)
ReapFirst(cmd) ==
  /\ pc' = "cmd_reap" /\ op' = [Idle EXCEPT !.cmd = cmd]
  /\ UNCHANGED <<table, child, sigchld, history, bounds>>

Resume(cmd) == pc = "resume" /\ op.cmd = cmd

-----------------------------------------------------------------------------
(* Launching: `command &', and an external command in the foreground.      *)

ProcessOf(p, state, raw) == <<[pid |-> p, status_raw |-> raw, state |-> state]>>

spawn_background ==
  /\ Run("background")
  /\ \E p \in Pid, c \in Command :
       Fork(p) /\ table' = add(table, p, c, TRUE, ProcessOf(p, "Running", Exited(0)))
  /\ Return
  /\ UNCHANGED <<sigchld, history, stops>>

ForegroundFork ==
  /\ Run("foreground")
  /\ \E p \in Pid : Fork(p) /\ op' = [Idle EXCEPT !.targets = <<p>>]
  /\ pc' = "foreground"
  /\ UNCHANGED <<table, sigchld, history, stops>>

(* wait_for_pid_status: a foreground command that stops becomes a job. *)
ForegroundWait ==
  LET p == op.targets[1]
  IN  /\ pc = "foreground"
      /\ \E what \in Reports(p, {"WUNTRACED"}) :
           /\ Consume(p, what)
           /\ IF what = "dead" THEN table' = table
              ELSE \E c \in Command :
                     table' = mark_stopped(
                       add(table, p, c, TRUE, ProcessOf(p, "Stopped", StoppedBy(SIGTSTP))),
                       p, SIGTSTP)
      /\ Return
      /\ UNCHANGED <<sigchld, warned, history, bounds>>

-----------------------------------------------------------------------------
(* The wait builtin. *)

(* The one way to list ids as the Vec does. *)
ListOrder(ids) ==
  {s \in [1..Cardinality(ids) -> ids] :
     \A i, j \in DOMAIN s : i < j => table.jobs[s[i]].at < table.jobs[s[j]].at}

(* The pids of the live processes of live jobs, in list order (a set of    *)
(* one sequence).                                                          *)
all_waitable_job_pids ==
  {[k \in DOMAIN s |-> table.jobs[s[k]].pgid] :
     s \in ListOrder({i \in Live(table) : ~AllDone(table.jobs[i])})}

(* mark_pid_waited of each pid of pids. *)
MarkWaited(t, pids) ==
  [t EXCEPT !.waited_pids = @ \cup pids,
            !.jobs = [i \in DOMAIN t.jobs |->
              IF Pids(t.jobs[i]) \cap pids # {} /\ Pids(t.jobs[i]) \subseteq t.waited_pids \cup pids
                THEN [t.jobs[i] EXCEPT !.waited_for = TRUE]
                ELSE t.jobs[i]]]

DoneIds(t) == {i \in DOMAIN t.jobs : t.jobs[i].state = "Done"}

mark_all_completed_jobs_waited(t) ==
  MarkWaited(t, UNION {Pids(t.jobs[i]) : i \in DoneIds(t)})

purge_waited_done_keeps_markers(t) ==
  Forget(t, {i \in DoneIds(t) : t.jobs[i].waited_for})

purge_waited_done(t) ==
  LET ids == {i \in DoneIds(t) : t.jobs[i].waited_for}
  IN  IF ids = {} THEN t ELSE reset_current_previous(Forget(t, ids))

CompletionOrder(t, i) == IF i \in DOMAIN t.completion_order THEN t.completion_order[i] ELSE -1

(* The finished jobs wait -n may take, and (a set of one) the one it       *)
(* takes: the first to have finished, the first of the list on a tie.      *)
Takeable(t, allowed) ==
  {i \in DoneIds(t) : ~t.jobs[i].waited_for /\ Pids(t.jobs[i]) \cap allowed # {}}

Taken(t, allowed) ==
  {i \in Takeable(t, allowed) : \A j \in Takeable(t, allowed) :
     \/ CompletionOrder(t, i) < CompletionOrder(t, j)
     \/ CompletionOrder(t, i) = CompletionOrder(t, j) /\ t.jobs[i].at <= t.jobs[j].at}

take_completed_job_keeps(t, i) == t

take_completed_job(t, i) == MarkWaited(t, Pids(t.jobs[i]))

(* wait -n returns job i of table t: it is marked waited for and purged. *)
Answer(t, i) ==
  /\ table' = purge_waited_done(take_completed_job(t, i))
  /\ answered' = answered \cup {t.jobs[i].at}
  /\ Return

(* wait with nothing to wait for, or no such job: it only purges. *)
WaitNothing(t) == table' = purge_waited_done(t) /\ Return /\ UNCHANGED answered

(* resolve_target_pids: a pid is taken as it is, a job stands for its      *)
(* processes.                                                              *)
resolve_target_pids(spec) ==
  LET id == lookup(table, spec)
  IN  IF spec.kind = "pid" THEN <<spec.pid>>
      ELSE IF id = NoJob THEN <<>> ELSE <<table.jobs[id].pgid>>

(* The loop of wait_for_pids, or of wait_for_any_target, is entered. *)
WaitForPids(targets, cmd, force) ==
  /\ pc' = "waitpids"
  /\ op' = [Idle EXCEPT !.cmd = cmd, !.targets = targets, !.force = force]
  /\ UNCHANGED <<table, answered>>

WaitForAny(pids) ==
  /\ pc' = "waitany" /\ op' = [Idle EXCEPT !.cmd = "wait_any", !.any = pids]
  /\ UNCHANGED <<table, answered>>

(* wait, and wait with a pid or a job as its operand. *)
wait_all(force) ==
  /\ Run("wait")
  /\ \E pids \in all_waitable_job_pids :
       IF pids = <<>> THEN WaitNothing(mark_all_completed_jobs_waited(table))
                      ELSE WaitForPids(pids, "wait", force)
  /\ UNCHANGED <<child, sigchld, late, bounds>>

wait_for(spec) ==
  LET pids == resolve_target_pids(spec)
  IN  /\ Run("wait_for")
      /\ IF pids = <<>> THEN WaitNothing(table) ELSE WaitForPids(pids, "wait_for", FALSE)
      /\ UNCHANGED <<child, sigchld, late, bounds>>

(* completed_pid_status: p is known to be dead and was not waited for. *)
Completed(p) ==
  /\ p \notin table.waited_pids /\ InTable(p)
  /\ AllDone(table.jobs[table.pid_to_job[p]])

WaitFlags == IF op.force THEN {} ELSE {"WUNTRACED"}

(* wait_for_pids, one pid: its status is known, or waitpid reports it, or  *)
(* there is no such child.  While none holds the shell polls.              *)
wait_for_pids_step ==
  LET p == Head(op.targets)
      Advance(waited, status) ==
        op' = [op EXCEPT !.targets = Tail(@), !.waited = waited, !.status = status]
  IN  /\ pc = "waitpids" /\ op.targets # <<>>
      /\ \/ /\ Completed(p)
            /\ Advance(op.waited \cup {p},
                       decode_status(LastProcess(table.jobs[table.pid_to_job[p]]).status_raw))
            /\ UNCHANGED <<table, child>>
         \/ /\ ~Completed(p) /\ NoSuchChild(p)
            /\ Advance(op.waited, op.status)
            /\ UNCHANGED <<table, child>>
         \/ /\ ~Completed(p)
            /\ \E what \in Reports(p, WaitFlags) :
                 /\ table' = Record(table, p, what) /\ Consume(p, what)
                 /\ Advance(op.waited \cup {p},
                            decode_status(IF what = "dead" THEN child[p].status
                                                           ELSE StoppedBy(SIGTSTP)))
      /\ UNCHANGED <<sigchld, pc, warned, history, bounds>>

(* The end of the loop: the pids are marked waited for; a plain wait whose *)
(* last status is not a signal's marks every finished job too.             *)
WaitEnd ==
  LET t == MarkWaited(table, op.waited)
  IN  /\ pc = "waitpids" /\ op.targets = <<>>
      /\ table' = purge_waited_done(
           IF op.cmd = "wait" /\ op.status <= 128 THEN mark_all_completed_jobs_waited(t) ELSE t)
      /\ Return
      /\ UNCHANGED <<child, sigchld, warned, history, bounds>>

(* A trapped signal ends the wait while the shell polls: nothing is marked. *)
WaitTrapped ==
  LET p == Head(op.targets)
  IN  /\ pc = "waitpids" /\ op.targets # <<>>
      /\ ~Completed(p) /\ IsChild(p) /\ Reports(p, WaitFlags) = {}
      /\ WaitNothing(table)
      /\ UNCHANGED <<child, sigchld, warned, late, bounds>>

(* wait -n: a finished job nobody has waited for, the first to finish; or  *)
(* the first of the targets that waitpid(-1) reports dead.                 *)
WaitAny(cmd, allowed, pids) ==
  /\ Run(cmd)
  /\ IF Takeable(table, allowed) # {} THEN \E i \in Taken(table, allowed) : Answer(table, i)
     ELSE IF pids = {} THEN WaitNothing(table)
     ELSE WaitForAny(pids)
  /\ UNCHANGED <<child, sigchld, late, bounds>>

PidsIn(targets) == {targets[k] : k \in DOMAIN targets}

wait_any == \E pids \in all_waitable_job_pids : WaitAny("wait_any", Pid, PidsIn(pids))

wait_any_of(spec) ==
  LET pids == PidsIn(resolve_target_pids(spec))
  IN  WaitAny("wait_any_of", pids, pids)

wait_for_any_target_step ==
  /\ pc = "waitany"
  /\ \E p \in Pid : \E what \in Reports(p, WaitFlags) :
       LET t == Record(table, p, what)
           left == IF what = "dead" THEN op.any \ {p} ELSE op.any
       IN  /\ Consume(p, what)
           /\ IF Takeable(t, op.any) # {} THEN \E i \in Taken(t, op.any) : Answer(t, i)
              ELSE IF left = {} THEN WaitNothing(t)
              ELSE /\ table' = t /\ op' = [op EXCEPT !.any = left]
                   /\ UNCHANGED <<pc, answered>>
  /\ UNCHANGED <<sigchld, warned, late, bounds>>

WaitAnyNoChild ==
  /\ pc = "waitany" /\ \A p \in Pid : NoSuchChild(p)
  /\ WaitNothing(table)
  /\ UNCHANGED <<child, sigchld, warned, late, bounds>>

-----------------------------------------------------------------------------
(* fg and bg: SIGCONT to the job's process group; the job is Running,      *)
(* whatever it was, and its stopped processes with it.                     *)

SetRunning(t, id) == SetJob(t, id, [Continued(t.jobs[id]) EXCEPT !.state = "Running"])

fg == Run("fg") /\ ReapFirst("fg")

fg_resume(spec) ==
  LET id == lookup(table, spec)
  IN  /\ Resume("fg")
      /\ IF id = NoJob \/ ~table.jobs[id].jobcontrol
           THEN Return /\ UNCHANGED <<table, child, sigchld, stops>>
           ELSE /\ killpg(table.jobs[id].pgid, "CONT")
                /\ table' = SetRunning(table, id)
                /\ pc' = "fgwait" /\ op' = [op EXCEPT !.id = id]
      /\ UNCHANGED <<warned, history, forks>>

purge_done_job(t, id) == IF t.jobs[id].state = "Done" THEN remove(t, id) ELSE t

(* waitpid(-pgid, WUNTRACED) until the job stops, finishes or has no child. *)
fg_wait ==
  LET p == table.jobs[op.id].pgid
      Seen(t) == table' = purge_done_job(t, op.id) /\ Return
  IN  /\ pc = "fgwait"
      /\ \/ \E what \in Reports(p, {"WUNTRACED"}) :
              Seen(Record(table, p, what)) /\ Consume(p, what)
         \/ NoSuchChild(p) /\ Seen(table) /\ UNCHANGED child
      /\ UNCHANGED <<sigchld, warned, history, bounds>>

bg == Run("bg") /\ ReapFirst("bg")

bg_resume(spec) ==
  LET id == lookup(table, spec)
  IN  /\ Resume("bg")
      /\ IF id = NoJob \/ table.jobs[id].state = "Running"
           THEN UNCHANGED <<table, child, sigchld, stops>>
           ELSE killpg(table.jobs[id].pgid, "CONT") /\ table' = SetRunning(table, id)
      /\ Return
      /\ UNCHANGED <<warned, history, forks>>

-----------------------------------------------------------------------------
(* kill %job.  The job is looked up before the reaping that SIGCONT calls  *)
(* for; killpg fails when the job has no child left, a zombie included.    *)

kill_SIGCONT(spec) ==
  LET id == lookup(table, spec)
  IN  /\ Run("kill_CONT")
      /\ IF id = NoJob THEN Return
                       ELSE pc' = "cmd_reap" /\ op' = [Idle EXCEPT !.cmd = "kill", !.id = id]
      /\ UNCHANGED <<table, child, sigchld, history, bounds>>

kill_resume ==
  LET p == table.jobs[op.id].pgid
  IN  /\ Resume("kill")
      /\ killpg(p, "CONT")
      /\ table' = IF IsChild(p) THEN mark_job_running(table, op.id) ELSE table
      /\ Return
      /\ UNCHANGED <<warned, history, forks>>

kill(spec, sig) ==
  LET id == lookup(table, spec)
  IN  /\ Run("kill")
      /\ sig = "STOP" => stops < MaxStops
      /\ IF id = NoJob THEN UNCHANGED <<child, sigchld, stops>>
                       ELSE killpg(table.jobs[id].pgid, sig)
      /\ Return
      /\ UNCHANGED <<table, history, forks>>

-----------------------------------------------------------------------------

(* disown: remove of each job of ids, or their NOHUP flag with -h. *)
disown(ids) ==
  /\ Run("disown")
  /\ table' = IF ids = {} THEN table ELSE reset_current_previous(Forget(table, ids))
  /\ Return
  /\ UNCHANGED <<child, sigchld, history, bounds>>

disown_h(ids) ==
  /\ Run("disown_h")
  /\ table' = [table EXCEPT !.jobs = [i \in DOMAIN table.jobs |->
                 [table.jobs[i] EXCEPT !.nohup = @ \/ i \in ids]]]
  /\ Return
  /\ UNCHANGED <<child, sigchld, history, bounds>>

Disown ==
  \/ \E spec \in JobSpecs : disown({lookup(table, spec)} \ {NoJob})
  \/ \E spec \in JobSpecs : disown_h({lookup(table, spec)} \ {NoJob})
  \/ disown(DOMAIN table.jobs)
  \/ disown({i \in DOMAIN table.jobs : table.jobs[i].state = "Running"})

(* jobs only lists the table. *)
jobs == Run("jobs") /\ ReapFirst("jobs")

jobs_list ==
  /\ Resume("jobs")
  /\ Return
  /\ UNCHANGED <<table, child, sigchld, warned, history, bounds>>

-----------------------------------------------------------------------------
(* exit: the first one warns of stopped jobs, and of running ones with     *)
(* checkjobs; one after a warning leaves without looking.                  *)

AnyJob(state) == \E i \in DOMAIN table.jobs : table.jobs[i].state = state
ExitBlocked == AnyJob("Stopped") \/ (checkjobs /\ AnyJob("Running"))

exit_first ==
  /\ Resume("exit")
  /\ IF ExitBlocked THEN warned' = TRUE /\ Return
                    ELSE pc' = "exited" /\ UNCHANGED <<op, warned>>
  /\ UNCHANGED <<table, child, sigchld, history, bounds>>

exit_again ==
  /\ Run("exit") /\ warned
  /\ pc' = "exited"
  /\ UNCHANGED <<table, child, sigchld, op, history, bounds>>

exit_without_reaping ==
  /\ Run("exit") /\ ~warned
  /\ pc' = "resume" /\ op' = [Idle EXCEPT !.cmd = "exit"]
  /\ UNCHANGED <<table, child, sigchld, history, bounds>>

exit == Run("exit") /\ ~warned /\ ReapFirst("exit")

(* The shell is gone; nothing happens to it any more. *)
Exited_shell == pc = "exited" /\ UNCHANGED vars

-----------------------------------------------------------------------------

Kernel ==
  \/ \E p \in Pid, raw \in Raw : ChildExits(p, raw)
  \/ \E p \in Pid, sig \in {"CONT", "STOP", "KILL"} : ChildSignaled(p, sig)

Shell ==
  \/ PromptTraps \/ StartTraps \/ ReapOne \/ ReapEnd
  \/ notify_completed_jobs \/ ReadCommand
  \/ spawn_background \/ ForegroundFork \/ ForegroundWait
  \/ \E force \in BOOLEAN : wait_all(force)
  \/ \E spec \in JobSpecs \cup PidSpecs : wait_for(spec)
  \/ wait_for_pids_step \/ WaitEnd \/ WaitTrapped
  \/ wait_any \/ \E spec \in JobSpecs \cup PidSpecs : wait_any_of(spec)
  \/ wait_for_any_target_step \/ WaitAnyNoChild
  \/ fg \/ \E spec \in JobSpecs : fg_resume(spec)
  \/ fg_wait
  \/ bg \/ \E spec \in JobSpecs : bg_resume(spec)
  \/ \E spec \in JobSpecs : kill_SIGCONT(spec)
  \/ kill_resume
  \/ \E spec \in JobSpecs, sig \in {"STOP", "KILL"} : kill(spec, sig)
  \/ Disown \/ jobs \/ jobs_list
  \/ exit \/ exit_first \/ exit_again

(* The shell can go on by itself: it is not gone, and not polling for a    *)
(* child that has nothing to report.  (A trap that ends a wait comes from  *)
(* outside and is nothing to count on.)                                    *)
ShellReady ==
  CASE pc = "exited" -> FALSE
    [] pc = "foreground" -> Reports(op.targets[1], {"WUNTRACED"}) # {}
    [] pc = "waitpids" /\ op.targets # <<>> ->
         LET p == Head(op.targets)
         IN  Completed(p) \/ NoSuchChild(p) \/ Reports(p, WaitFlags) # {}
    [] pc = "waitany" -> (\E p \in Pid : Reports(p, WaitFlags) # {}) \/ \A p \in Pid : NoSuchChild(p)
    [] pc = "fgwait" ->
         LET p == table.jobs[op.id].pgid
         IN  NoSuchChild(p) \/ Reports(p, {"WUNTRACED"}) # {}
    [] OTHER -> TRUE

(* thread::sleep between two polls of wait. *)
Poll == pc \in {"waitpids", "waitany"} /\ ~ShellReady /\ UNCHANGED vars

Next == Kernel \/ Shell \/ Poll \/ Exited_shell

Spec == Init /\ [][Next]_vars

(* Weak fairness of the shell's steps, with ShellReady for their ENABLED:  *)
(* a shell that can go on does, and lines keep coming at the prompt.  A    *)
(* running child exits in the end, and a stopped one is continued by       *)
(* someone: assumptions about the jobs, without which the shell may        *)
(* rightly wait for ever.                                                  *)
Fairness ==
  /\ []<>~ShellReady \/ []<><<~Kernel>>_vars
  /\ \A p \in Pid : WF_vars(\E raw \in Raw : ChildExits(p, raw)) /\ WF_vars(ChildSignaled(p, "CONT"))

FairSpec == Spec /\ Fairness

-----------------------------------------------------------------------------

(* The pid index and the two markers stay sound under everything the       *)
(* builtins do to the table, list_mut in fg and bg included.               *)
TableSound == PidIndex(table) /\ Markers(table)

ProcessState(p) == table.jobs[table.pid_to_job[p]].processes[1]

(* The table knows of a child what the kernel has reported: its process is *)
(* Done exactly when the child has been reaped, with the status it died    *)
(* with, and a stop or a continuation that is no longer waiting to be      *)
(* reported is recorded.  waitpid is called in reap_all, wait, fg and      *)
(* execute_external_parent, and whatever it returns is lost to the others. *)
TableTracksKernel ==
  \A p \in DOMAIN table.pid_to_job :
    LET proc == ProcessState(p)
    IN  /\ proc.state = "Done" <=> ~IsChild(p)
        /\ proc.state = "Done" => proc.status_raw = child[p].status
        /\ child[p].run = "stopped" /\ child[p].report = "none" => proc.state = "Stopped"
        /\ child[p].run = "running" /\ child[p].report = "none" => proc.state = "Running"

(* A job wait -n has returned is never found in the table again, so no     *)
(* completion is returned twice (take_completed_job marks, run purges).    *)
AnsweredOnce == \A i \in DOMAIN table.jobs : table.jobs[i].at \notin answered

(* exit leaves without a warning only when every listed child that is      *)
(* stopped was stopped after exit had reaped (warn_about_jobs).            *)
ExitSawStops ==
  pc = "exited" /\ ~warned =>
    \A p \in DOMAIN table.pid_to_job : child[p].run = "stopped" => p \in late

(* No child stays a zombie: whatever the user runs, the shell comes by     *)
(* run_pending_traps or a waitpid that reaps it, unless it exits first.    *)
ZombiesReaped ==
  \A p \in Pid : child[p].run = "zombie" ~> child[p].run # "zombie" \/ pc = "exited"

(* wait, wait -n, fg and a foreground command always come back to the      *)
(* prompt: none polls for a child that another waitpid has reaped.         *)
CommandsReturn ==
  pc \in {"waitpids", "waitany", "fgwait", "foreground"} ~> pc = "prompt"

(* Once notify_completed_jobs has drained the finished jobs, a job whose   *)
(* processes are all dead is in the table only because fg or bg, which do  *)
(* not look at its processes, marked it running after they died.           *)
FinishedJobsLeave ==
  pc = "read" => \A i \in DOMAIN table.jobs : AllDone(table.jobs[i]) => table.jobs[i].state = "Running"

(* The table and the kernel agree on every child, whoever called waitpid,  *)
(* and jobs that have finished leave the table.                            *)
TableFollowsKernel == TypeOK /\ TableTracksKernel /\ FinishedJobsLeave

=============================================================================
