------------------------- MODULE JobControl_proofs -------------------------
(***************************************************************************)
(* The job table stays sound under everything the shell does with it, for  *)
(* any set of pids, any commands and any bounds.  The argument: every      *)
(* action changes the table by operators that keep its shape               *)
(* (JobTable_proofs); the two that need more are the ones that add a job,  *)
(* whose pid must be in no job yet, and the ones that use a pid kept       *)
(* across steps.                                                           *)
(***************************************************************************)
EXTENDS JobControl, JobTable_proofs

TableShape == Shape(table, Pid, Command)

(* The pid of a foreground command is in no job while the shell waits for  *)
(* it, and fg's job stays in the table while fg waits.                     *)
LocalsSound ==
  /\ op = [cmd |-> op.cmd, force |-> op.force, targets |-> op.targets, any |-> op.any,
           waited |-> op.waited, status |-> op.status, id |-> op.id]
  /\ op.targets \in Seq(Pid) /\ op.any \subseteq Pid /\ op.waited \subseteq Pid
  /\ pc = "foreground" => /\ op.targets # <<>>
                          /\ op.targets[1] \notin DOMAIN table.pid_to_job
  /\ pc = "fgwait" => op.id \in DOMAIN table.jobs

IInv == TableShape /\ child \in [Pid -> Child] /\ LocalsSound

LEMMA FlaggedJob ==
  ASSUME NEW job \in Job(Pid, Command)
  PROVE  LET f == [job EXCEPT !.waited_for = TRUE]
         IN  f \in Job(Pid, Command) /\ f.at = job.at /\ Pids(f) = Pids(job)
<1> DEFINE f == [job EXCEPT !.waited_for = TRUE]
<1>1. f \in Job(Pid, Command) /\ f.at = job.at /\ f.processes = job.processes
  BY Zenon DEF Job
<1> QED
  BY <1>1 DEF Pids

(* MarkWaited sets waited marks and flags only. *)
LEMMA MarkWaitedShape ==
  ASSUME NEW t, Shape(t, Pid, Command), NEW pids, pids \subseteq Pid
  PROVE  /\ Shape(MarkWaited(t, pids), Pid, Command)
         /\ DOMAIN MarkWaited(t, pids).jobs = DOMAIN t.jobs
<1> DEFINE flag(i) == Pids(t.jobs[i]) \cap pids # {} /\ Pids(t.jobs[i]) \subseteq t.waited_pids \cup pids
           js == [i \in DOMAIN t.jobs |->
                     IF flag(i) THEN [t.jobs[i] EXCEPT !.waited_for = TRUE] ELSE t.jobs[i]]
           w == t.waited_pids \cup pids
           u == MarkWaited(t, pids)
<1>1. u = [t EXCEPT !.waited_pids = w, !.jobs = js]
  BY DEF MarkWaited
<1>2. \A i \in DOMAIN t.jobs : /\ js[i] \in Job(Pid, Command)
                               /\ js[i].at = t.jobs[i].at
                               /\ Pids(js[i]) = Pids(t.jobs[i])
  <2> SUFFICES ASSUME NEW i \in DOMAIN t.jobs
               PROVE  /\ js[i] \in Job(Pid, Command)
                      /\ js[i].at = t.jobs[i].at
                      /\ Pids(js[i]) = Pids(t.jobs[i])
    BY Zenon
  <2>1. t.jobs[i] \in Job(Pid, Command)
    BY DEF Shape, IsJobTable
  <2>2. js[i] = t.jobs[i] \/ js[i] = [t.jobs[i] EXCEPT !.waited_for = TRUE]
    OBVIOUS
  <2>3. LET f == [t.jobs[i] EXCEPT !.waited_for = TRUE]
        IN  f \in Job(Pid, Command) /\ f.at = t.jobs[i].at /\ Pids(f) = Pids(t.jobs[i])
    BY <2>1, FlaggedJob
  <2> HIDE DEF js
  <2> QED
    BY Zenon, <2>1, <2>2, <2>3
<1>3. js = [i \in DOMAIN js |-> js[i]] /\ DOMAIN js = DOMAIN t.jobs
  OBVIOUS
<1>4. w \subseteq Pid
  BY DEF Shape, IsJobTable
<1> HIDE DEF js, w, u
<1>5. u = [jobs |-> js, current |-> t.current, previous |-> t.previous,
           pid_to_job |-> t.pid_to_job, waited_pids |-> w,
           completion_order |-> t.completion_order,
           next_completion_order |-> t.next_completion_order, pushes |-> t.pushes]
  BY Zenon, <1>1 DEF Shape, IsJobTable
<1>6. /\ u.jobs = js /\ u.current = t.current /\ u.previous = t.previous
      /\ u.pid_to_job = t.pid_to_job /\ u.waited_pids = w
      /\ u.completion_order = t.completion_order
      /\ u.next_completion_order = t.next_completion_order /\ u.pushes = t.pushes
  BY <1>5
<1>7. IsJobTable(u, Pid, Command)
  BY <1>2, <1>3, <1>4, <1>5, <1>6 DEF Shape, IsJobTable
<1>8. PushesDistinct(u) /\ PidIndex(u) /\ Markers(u)
  BY SMTT(30), <1>2, <1>3, <1>6, <1>7, UpdateKeepsShape
<1> QED
  BY <1>3, <1>6, <1>7, <1>8 DEF Shape, u

(* Every job's pids are pids. *)
LEMMA PidsOfJobs ==
  ASSUME NEW t, Shape(t, Pid, Command), NEW i \in DOMAIN t.jobs
  PROVE  Pids(t.jobs[i]) \subseteq Pid /\ t.jobs[i].pgid \in Pid
<1>1. t.jobs[i] \in Job(Pid, Command)
  BY DEF Shape, IsJobTable
<1>2. \A k \in DOMAIN t.jobs[i].processes : t.jobs[i].processes[k] \in Process(Pid)
  BY <1>1 DEF Job
<1> QED
  BY <1>1, <1>2 DEF Job, Process, Pids

(* Dropping a set of jobs and choosing the markers again. *)
LEMMA ForgetResetShape ==
  ASSUME NEW t, Shape(t, Pid, Command), NEW ids, ids \subseteq DOMAIN t.jobs
  PROVE  Shape(reset_current_previous(Forget(t, ids)), Pid, Command)
<1> DEFINE f == Forget(t, ids)
<1>1. IsJobTable(f, Pid, Command) /\ PushesDistinct(f) /\ PidIndex(f)
  BY ForgetShape
<1> HIDE DEF f
<1>2. Shape(reset_current_previous(f), Pid, Command)
  BY <1>1, ResetShape
<1> QED
  BY <1>2 DEF f

LEMMA PurgeWaitedDoneShape ==
  ASSUME NEW t, Shape(t, Pid, Command)
  PROVE  Shape(purge_waited_done(t), Pid, Command)
<1> DEFINE ids == {i \in DoneIds(t) : t.jobs[i].waited_for}
<1>1. ids \subseteq DOMAIN t.jobs
  BY DEF DoneIds
<1>2. Shape(reset_current_previous(Forget(t, ids)), Pid, Command)
  BY <1>1, ForgetResetShape
<1> QED
  BY <1>2 DEF purge_waited_done

LEMMA MarkAllCompletedShape ==
  ASSUME NEW t, Shape(t, Pid, Command)
  PROVE  Shape(mark_all_completed_jobs_waited(t), Pid, Command)
<1> DEFINE pids == UNION {Pids(t.jobs[i]) : i \in DoneIds(t)}
<1>1. pids \subseteq Pid
  BY PidsOfJobs DEF DoneIds
<1> QED
  BY <1>1, MarkWaitedShape DEF mark_all_completed_jobs_waited

(* fg and bg put Running on the job and its stopped processes. *)
LEMMA SetRunningShape ==
  ASSUME NEW t, Shape(t, Pid, Command), NEW id \in DOMAIN t.jobs
  PROVE  /\ Shape(SetRunning(t, id), Pid, Command)
         /\ DOMAIN SetRunning(t, id).jobs = DOMAIN t.jobs
<1> DEFINE c == Continued(t.jobs[id])
           job == [c EXCEPT !.state = "Running"]
<1>1. t.jobs[id] \in Job(Pid, Command)
  BY DEF Shape, IsJobTable
<1>2. c \in Job(Pid, Command) /\ c.at = t.jobs[id].at /\ Pids(c) = Pids(t.jobs[id])
  BY <1>1, ContinuedJob
<1> HIDE DEF c
<1>3. job \in Job(Pid, Command) /\ job.at = c.at /\ job.processes = c.processes
  BY <1>2 DEF Job, JobState
<1>4. Pids(job) = Pids(c)
  BY <1>3 DEF Pids
<1>5. SetRunning(t, id) = SetJob(t, id, job)
  BY DEF SetRunning, c
<1> HIDE DEF job
<1>6. /\ Shape(SetJob(t, id, job), Pid, Command)
      /\ SetJob(t, id, job).jobs = [t.jobs EXCEPT ![id] = job]
  BY <1>2, <1>3, <1>4, SetJobShape
<1>7. DOMAIN [t.jobs EXCEPT ![id] = job] = DOMAIN t.jobs
  OBVIOUS
<1> QED
  BY <1>5, <1>6, <1>7

(* lookup finds a job of the table or nothing. *)
LEMMA LookupFinds ==
  ASSUME NEW t, Shape(t, Pid, Command), NEW spec \in JobSpecs
  PROVE  lookup(t, spec) = NoJob \/ lookup(t, spec) \in DOMAIN t.jobs
<1>1. CASE spec = Current
  BY <1>1 DEF lookup, Current, Shape, Markers
<1>2. CASE spec = [kind |-> "previous"]
  BY <1>2 DEF lookup, Shape, Markers
<1>3. CASE spec \in [kind : {"id"}, id : 1..MaxForks]
  BY <1>3 DEF lookup
<1> QED
  BY <1>1, <1>2, <1>3 DEF JobSpecs

(* What a waitpid reports is recorded with a status of the child. *)
LEMMA RecordShape ==
  ASSUME TableShape, child \in [Pid -> Child], NEW p \in Pid,
         NEW what \in {"dead", "stopped", "continued"}
  PROVE  Shape(Record(table, p, what), Pid, Command)
<1>1. child[p].status \in RawStatus
  BY DEF Child
<1>2. SIGTSTP \in Nat
  BY DEF SIGTSTP
<1>3. CASE what = "dead"
  BY <1>1, <1>3, MarkDeadShape DEF Record, TableShape
<1>4. CASE what = "stopped"
  BY <1>2, <1>4, MarkStoppedShape DEF Record, TableShape
<1>5. CASE what = "continued"
  BY <1>5, MarkRunningShape DEF Record, TableShape
<1> QED
  BY <1>3, <1>4, <1>5

LEMMA ReportsType ==
  ASSUME NEW p, NEW flags
  PROVE  Reports(p, flags) \subseteq {"dead", "stopped", "continued"}
BY DEF Reports

(* The kernel's steps keep the children's records. *)
LEMMA ConsumeType ==
  ASSUME child \in [Pid -> Child], NEW p \in Pid, NEW what, Consume(p, what)
  PROVE  child' \in [Pid -> Child]
<1> DEFINE r == IF what = "dead" THEN "none" ELSE child[p].run
           c1 == [child EXCEPT ![p].run = r]
<1>1. child' = [c1 EXCEPT ![p].report = "none"]
  BY DEF Consume
<1>2. child[p] \in Child /\ r \in {"none", "running", "stopped", "zombie"}
  BY DEF Child
<1> HIDE DEF r
<1>3. c1 \in [Pid -> Child]
  BY <1>2 DEF Child
<1> HIDE DEF c1
<1> QED
  BY <1>1, <1>3 DEF Child

LEMMA DeliverType ==
  ASSUME NEW c \in Child, NEW sig
  PROVE  Deliver(c, sig) \in Child
BY Zenon DEF Deliver, Child, RawStatus, Signaled, SIGKILL

LEMMA KillType ==
  ASSUME child \in [Pid -> Child], NEW p, NEW sig, killpg(p, sig)
  PROVE  child' \in [Pid -> Child]
BY Zenon, DeliverType DEF killpg

LEMMA BornType == Born \in Child
BY DEF Born, Child, RawStatus, Exited

-----------------------------------------------------------------------------

(* Back at the prompt the locals are reset; while the shell is neither     *)
(* waiting for a foreground command nor in fg they only have a type.       *)
LEMMA ReturnLocals == Return => LocalsSound'
BY DEF Return, Idle, LocalsSound

LEMMA SameLocals ==
  ASSUME LocalsSound, op' = op, pc' \notin {"foreground", "fgwait"}
  PROVE  LocalsSound'
BY DEF LocalsSound

(* A command's locals, set from nothing. *)
LEMMA CommandLocals ==
  ASSUME NEW cmd, NEW id, op' = [Idle EXCEPT !.cmd = cmd, !.id = id],
         pc' \notin {"foreground", "fgwait"}
  PROVE  LocalsSound'
<1>1. op' = [cmd |-> cmd, force |-> FALSE, targets |-> <<>>, any |-> {},
             waited |-> {}, status |-> NoStatus, id |-> id]
  BY Zenon DEF Idle
<1>2. op'.targets \in Seq(Pid) /\ op'.any \subseteq Pid /\ op'.waited \subseteq Pid
  <2>1. op'.targets = <<>> /\ op'.any = {} /\ op'.waited = {}
    BY ONLY <1>1
  <2>2. <<>> \in Seq(Pid)
    OBVIOUS
  <2> QED
    BY ONLY <2>1, <2>2
<1>3. op' = [cmd |-> op'.cmd, force |-> op'.force, targets |-> op'.targets, any |-> op'.any,
             waited |-> op'.waited, status |-> op'.status, id |-> op'.id]
  BY Zenon, <1>1
<1>4. pc' # "foreground" /\ pc' # "fgwait"
  OBVIOUS
<1> QED
  BY ONLY <1>2, <1>3, <1>4 DEF LocalsSound

(* The children, moving by themselves. *)
LEMMA KernelStep == IInv /\ Kernel => IInv'
<1> SUFFICES ASSUME IInv, Kernel PROVE IInv'
  OBVIOUS
<1>1. ASSUME NEW p \in Pid, NEW raw \in Raw, ChildExits(p, raw) PROVE IInv'
  <2>1. child' \in [Pid -> Child]
    <3>1. [run |-> "zombie", report |-> "none", status |-> raw] \in Child
      BY ConstantsAssumption DEF Child
    <3> QED
      BY <1>1, <3>1 DEF ChildExits, IInv
  <2> QED
    BY <1>1, <2>1 DEF ChildExits, IInv, TableShape, LocalsSound
<1>2. ASSUME NEW p \in Pid, NEW sig, ChildSignaled(p, sig) PROVE IInv'
  <2>1. child' \in [Pid -> Child]
    BY <1>2, KillType DEF ChildSignaled, IInv
  <2> QED
    BY <1>2, <2>1 DEF ChildSignaled, IInv, TableShape, LocalsSound
<1> QED
  BY <1>1, <1>2 DEF Kernel

(* The prompt: traps, reaping, notices, reading. *)
LEMMA PromptStep ==
  ASSUME IInv,
         PromptTraps \/ StartTraps \/ ReapOne \/ ReapEnd \/ notify_completed_jobs \/ ReadCommand
  PROVE  IInv'
<1>1. CASE PromptTraps \/ StartTraps
  BY <1>1 DEF PromptTraps, StartTraps, run_pending_traps, IInv, TableShape, LocalsSound
<1>2. CASE ReapOne
  <2>1. PICK p \in Pid : \E what \in Reports(p, ReapFlags) :
          table' = Record(table, p, what) /\ Consume(p, what)
    BY <1>2 DEF ReapOne
  <2>b. PICK what \in Reports(p, ReapFlags) :
          table' = Record(table, p, what) /\ Consume(p, what)
    BY <2>1
  <2>2. TableShape'
    BY SMTT(30), <2>b, RecordShape, ReportsType DEF IInv, TableShape
  <2>3. child' \in [Pid -> Child]
    BY <2>b, ConsumeType DEF IInv
  <2>4. LocalsSound'
    BY <1>2, SameLocals DEF ReapOne, Reaping, IInv
  <2> QED
    BY SMTT(30), <2>2, <2>3, <2>4 DEF IInv
<1>3. CASE ReapEnd
  <2>1. pc' \in {"notify", "run", "resume"}
    BY <1>3 DEF ReapEnd, Reaping
  <2> QED
    BY Zenon, <1>3, <2>1, SameLocals DEF ReapEnd, IInv, TableShape
<1>4. CASE notify_completed_jobs
  <2>1. Shape(pending_notifications(table), Pid, Command)
    BY PendingNotificationsFields DEF IInv, TableShape
  <2>2. Shape(purge_done(pending_notifications(table)), Pid, Command)
    BY <2>1, PurgeDoneShape
  <2> QED
    BY <1>4, <2>2, SameLocals DEF notify_completed_jobs, IInv, TableShape
<1>5. CASE ReadCommand
  BY <1>5, SameLocals DEF ReadCommand, IInv, TableShape
<1> QED
  BY SMTT(30), <1>1, <1>2, <1>3, <1>4, <1>5

(* Launching: the pid fork returns is in no job, and none gets it while    *)
(* the shell waits for the foreground command.                             *)
LEMMA LaunchStep ==
  ASSUME IInv, spawn_background \/ ForegroundFork \/ ForegroundWait
  PROVE  IInv'
<1>1. ASSUME NEW p \in Pid, NEW state \in JobState, NEW raw \in RawStatus
      PROVE  ProcessOf(p, state, raw) \in Seq(Process(Pid)) /\ ProcessOf(p, state, raw) # <<>>
             /\ DOMAIN ProcessOf(p, state, raw) = {1} /\ ProcessOf(p, state, raw)[1].pid = p
  BY DEF ProcessOf, Process
<1>2. ASSUME NEW p \in Pid, NEW c \in Command, NEW state \in JobState, NEW raw \in RawStatus,
             p \notin DOMAIN table.pid_to_job
      PROVE  Shape(add(table, p, c, TRUE, ProcessOf(p, state, raw)), Pid, Command)
  <2> DEFINE procs == ProcessOf(p, state, raw)
  <2>1. procs \in Seq(Process(Pid)) /\ procs # <<>>
        /\ \A k \in DOMAIN procs : procs[k].pid \notin DOMAIN table.pid_to_job
    BY <1>1, <1>2
  <2> HIDE DEF procs
  <2>2. Shape(add(table, p, c, TRUE, procs), Pid, Command)
    BY Zenon, <2>1, AddShape DEF IInv, TableShape
  <2> QED
    BY Zenon, <2>2 DEF procs
<1>3. CASE spawn_background
  <2>1. PICK p \in Pid, c \in Command :
          Fork(p) /\ table' = add(table, p, c, TRUE, ProcessOf(p, "Running", Exited(0)))
    BY Zenon, <1>3 DEF spawn_background
  <2>2. Exited(0) \in RawStatus /\ "Running" \in JobState
    BY DEF Exited, RawStatus, JobState
  <2>3. TableShape'
    BY Zenon, <1>2, <2>1, <2>2 DEF Fork, InTable, TableShape
  <2>4. child' \in [Pid -> Child]
    BY <2>1, BornType DEF Fork, IInv
  <2> QED
    BY <1>3, <2>3, <2>4, ReturnLocals DEF spawn_background, IInv
<1>4. CASE ForegroundFork
  <2>1. PICK p \in Pid : Fork(p) /\ op' = [Idle EXCEPT !.targets = <<p>>]
    BY <1>4 DEF ForegroundFork
  <2>2. child' \in [Pid -> Child]
    BY <2>1, BornType DEF Fork, IInv
  <2>3. op' = [cmd |-> "none", force |-> FALSE, targets |-> <<p>>, any |-> {},
               waited |-> {}, status |-> NoStatus, id |-> NoJob]
    BY Zenon, <2>1 DEF Idle
  <2>4. pc' = "foreground" /\ table' = table
    BY <1>4 DEF ForegroundFork
  <2>5. /\ op'.targets \in Seq(Pid) /\ op'.targets # <<>> /\ op'.targets[1] = p
        /\ op'.any \subseteq Pid /\ op'.waited \subseteq Pid
    BY <2>3
  <2>6. op' = [cmd |-> op'.cmd, force |-> op'.force, targets |-> op'.targets, any |-> op'.any,
               waited |-> op'.waited, status |-> op'.status, id |-> op'.id]
    BY <2>3
  <2>7. p \notin DOMAIN table'.pid_to_job
    BY <2>1, <2>4 DEF Fork, InTable
  <2>8. LocalsSound'
    BY ONLY SMTT(30), <2>4, <2>5, <2>6, <2>7 DEF LocalsSound
  <2> QED
    BY <2>2, <2>4, <2>8 DEF IInv, TableShape
<1>5. CASE ForegroundWait
  <2> DEFINE p == op.targets[1]
  <2>1. p \in Pid /\ p \notin DOMAIN table.pid_to_job
    BY SMTT(30), <1>5 DEF ForegroundWait, IInv, LocalsSound
  <2> HIDE DEF p
  <2>2. PICK what \in Reports(p, {"WUNTRACED"}) :
          /\ Consume(p, what)
          /\ \/ table' = table
             \/ \E c \in Command : table' = mark_stopped(
                  add(table, p, c, TRUE, ProcessOf(p, "Stopped", StoppedBy(SIGTSTP))), p, SIGTSTP)
    BY Zenon, <1>5 DEF ForegroundWait, p
  <2>3. StoppedBy(SIGTSTP) \in RawStatus /\ "Stopped" \in JobState /\ SIGTSTP \in Nat
    BY DEF StoppedBy, RawStatus, JobState, SIGTSTP
  <2>4. TableShape'
    <3>1. CASE table' = table
      BY <3>1 DEF IInv, TableShape
    <3>2. ASSUME NEW c \in Command, table' = mark_stopped(
                   add(table, p, c, TRUE, ProcessOf(p, "Stopped", StoppedBy(SIGTSTP))), p, SIGTSTP)
          PROVE  TableShape'
      <4> DEFINE a == add(table, p, c, TRUE, ProcessOf(p, "Stopped", StoppedBy(SIGTSTP)))
      <4>1. Shape(a, Pid, Command)
        BY Zenon, <1>2, <2>1, <2>3
      <4> HIDE DEF a
      <4>2. Shape(mark_stopped(a, p, SIGTSTP), Pid, Command)
        BY <4>1, <2>3, MarkStoppedShape
      <4> QED
        BY Zenon, <3>2, <4>2 DEF TableShape, a
    <3> QED
      BY Zenon, <2>2, <3>1, <3>2
  <2>5. child' \in [Pid -> Child]
    BY SMTT(30), <2>1, <2>2, ConsumeType DEF IInv
  <2> QED
    BY SMTT(30), <1>5, <2>4, <2>5, ReturnLocals DEF ForegroundWait, IInv
<1> QED
  BY <1>3, <1>4, <1>5

-----------------------------------------------------------------------------

(* A command's locals, set to values of their types. *)
LEMMA NewLocals ==
  ASSUME NEW cmd, NEW force, NEW targets \in Seq(Pid), NEW any, any \subseteq Pid,
         NEW waited, waited \subseteq Pid, NEW status, NEW id,
         op' = [cmd |-> cmd, force |-> force, targets |-> targets, any |-> any,
                waited |-> waited, status |-> status, id |-> id],
         pc' \notin {"foreground", "fgwait"}
  PROVE  LocalsSound'
<1>1. /\ op'.targets = targets /\ op'.any = any /\ op'.waited = waited
      /\ op' = [cmd |-> op'.cmd, force |-> op'.force, targets |-> op'.targets, any |-> op'.any,
                waited |-> op'.waited, status |-> op'.status, id |-> op'.id]
  OBVIOUS
<1>2. pc' # "foreground" /\ pc' # "fgwait"
  OBVIOUS
<1>3. op'.targets \in Seq(Pid) /\ op'.any \subseteq Pid /\ op'.waited \subseteq Pid
  BY <1>1
<1> QED
  BY ONLY SMTT(30), <1>1, <1>2, <1>3 DEF LocalsSound

(* A job leads a process group of one of its pids. *)
LEMMA AllWaitableType ==
  ASSUME TableShape, NEW pids \in all_waitable_job_pids
  PROVE  pids \in Seq(Pid)
<1> DEFINE ids == {i \in Live(table) : ~AllDone(table.jobs[i])}
<1>1. PICK s \in ListOrder(ids) : pids = [k \in DOMAIN s |-> table.jobs[s[k]].pgid]
  BY DEF all_waitable_job_pids
<1>2. ids \subseteq DOMAIN table.jobs
  BY DEF Live
<1>3. IsFiniteSet(ids)
  BY <1>2, FS_Subset DEF TableShape, Shape, IsJobTable
<1> HIDE DEF ids
<1>4. Cardinality(ids) \in Nat
  BY <1>3, FS_CardinalityType
<1>5. s \in [1..Cardinality(ids) -> ids]
  BY <1>1 DEF ListOrder
<1>6. \A k \in 1..Cardinality(ids) : table.jobs[s[k]].pgid \in Pid
  BY SMTT(30), <1>2, <1>5, PidsOfJobs DEF TableShape
<1>7. pids \in [1..Cardinality(ids) -> Pid]
  BY <1>1, <1>5, <1>6
<1> QED
  BY <1>4, <1>7

LEMMA ResolveType ==
  ASSUME TableShape, NEW spec \in JobSpecs \cup PidSpecs
  PROVE  resolve_target_pids(spec) \in Seq(Pid)
<1>1. CASE spec \in PidSpecs
  BY <1>1 DEF PidSpecs, resolve_target_pids
<1>2. CASE spec \in JobSpecs
  <2>1. lookup(table, spec) = NoJob \/ lookup(table, spec) \in DOMAIN table.jobs
    BY <1>2, LookupFinds DEF TableShape
  <2>2. spec.kind # "pid"
    BY <1>2 DEF JobSpecs, Current
  <2>3. CASE lookup(table, spec) = NoJob
    BY <2>2, <2>3 DEF resolve_target_pids
  <2>4. CASE lookup(table, spec) # NoJob
    BY <2>1, <2>2, <2>4, PidsOfJobs DEF resolve_target_pids, TableShape
  <2> QED
    BY <2>3, <2>4
<1> QED
  BY <1>1, <1>2

LEMMA PidsInType ==
  ASSUME NEW pids \in Seq(Pid)
  PROVE  PidsIn(pids) \subseteq Pid
BY DEF PidsIn

(* How the wait builtin leaves, and how it enters its loops. *)
LEMMA WaitNothingStep ==
  ASSUME NEW t, Shape(t, Pid, Command), WaitNothing(t)
  PROVE  TableShape' /\ LocalsSound'
BY PurgeWaitedDoneShape, ReturnLocals DEF WaitNothing, TableShape

LEMMA AnswerStep ==
  ASSUME NEW t, Shape(t, Pid, Command), NEW i \in DOMAIN t.jobs, Answer(t, i)
  PROVE  TableShape' /\ LocalsSound'
<1>1. Pids(t.jobs[i]) \subseteq Pid
  BY PidsOfJobs
<1>2. Shape(take_completed_job(t, i), Pid, Command)
  BY SMTT(30), <1>1, MarkWaitedShape DEF take_completed_job
<1> QED
  BY <1>2, PurgeWaitedDoneShape, ReturnLocals DEF Answer, TableShape

LEMMA WaitForPidsStep ==
  ASSUME TableShape, NEW targets \in Seq(Pid), NEW cmd, NEW force, WaitForPids(targets, cmd, force)
  PROVE  TableShape' /\ LocalsSound'
<1>1. op' = [cmd |-> cmd, force |-> force, targets |-> targets, any |-> {},
             waited |-> {}, status |-> NoStatus, id |-> NoJob]
  BY Zenon DEF WaitForPids, Idle
<1>2. pc' = "waitpids" /\ table' = table
  BY DEF WaitForPids
<1>3. {} \subseteq Pid
  OBVIOUS
<1> QED
  BY SMTT(30), <1>1, <1>2, <1>3, NewLocals DEF TableShape

LEMMA WaitForAnyStep ==
  ASSUME TableShape, NEW pids, pids \subseteq Pid, WaitForAny(pids)
  PROVE  TableShape' /\ LocalsSound'
<1>1. op' = [cmd |-> "wait_any", force |-> FALSE, targets |-> <<>>, any |-> pids,
             waited |-> {}, status |-> NoStatus, id |-> NoJob]
  BY Zenon DEF WaitForAny, Idle
<1>2. pc' = "waitany" /\ table' = table
  BY DEF WaitForAny
<1>3. {} \subseteq Pid /\ <<>> \in Seq(Pid)
  OBVIOUS
<1> QED
  BY Zenon, <1>1, <1>2, <1>3, NewLocals DEF TableShape

(* The wait builtin, up to its loops. *)
LEMMA WaitBegins ==
  ASSUME IInv,
         \/ \E force \in BOOLEAN : wait_all(force)
         \/ \E spec \in JobSpecs \cup PidSpecs : wait_for(spec)
         \/ wait_any
         \/ \E spec \in JobSpecs \cup PidSpecs : wait_any_of(spec)
  PROVE  IInv'
<1>1. TableShape /\ Shape(table, Pid, Command) /\ LocalsSound
  BY DEF IInv, TableShape
<1>2. ASSUME NEW force \in BOOLEAN, wait_all(force) PROVE IInv'
  <2>1. PICK pids \in all_waitable_job_pids :
          \/ WaitNothing(mark_all_completed_jobs_waited(table))
          \/ WaitForPids(pids, "wait", force)
    BY <1>2 DEF wait_all
  <2>2. pids \in Seq(Pid)
    BY <1>1, AllWaitableType
  <2>3. Shape(mark_all_completed_jobs_waited(table), Pid, Command)
    BY <1>1, MarkAllCompletedShape
  <2>4. TableShape' /\ LocalsSound'
    BY SMTT(30), <1>1, <2>1, <2>2, <2>3, WaitNothingStep, WaitForPidsStep
  <2> QED
    BY <1>2, <2>4 DEF wait_all, IInv
<1>3. ASSUME NEW spec \in JobSpecs \cup PidSpecs, wait_for(spec) PROVE IInv'
  <2> DEFINE pids == resolve_target_pids(spec)
  <2>1. WaitNothing(table) \/ WaitForPids(pids, "wait_for", FALSE)
    BY Zenon, <1>3 DEF wait_for
  <2>2. pids \in Seq(Pid)
    BY <1>1, ResolveType
  <2> HIDE DEF pids
  <2>3. TableShape' /\ LocalsSound'
    BY Zenon, <1>1, <2>1, <2>2, WaitNothingStep, WaitForPidsStep
  <2> QED
    BY <1>3, <2>3 DEF wait_for, IInv
<1>4. ASSUME NEW cmd, NEW allowed, NEW pids, pids \subseteq Pid, WaitAny(cmd, allowed, pids)
      PROVE  IInv'
  <2>1. \/ \E i \in Taken(table, allowed) : Answer(table, i)
        \/ WaitNothing(table)
        \/ WaitForAny(pids)
    BY <1>4 DEF WaitAny
  <2>2. Taken(table, allowed) \subseteq DOMAIN table.jobs
    BY DEF Taken, Takeable, DoneIds
  <2>3. TableShape' /\ LocalsSound'
    BY SMTT(30), <1>1, <1>4, <2>1, <2>2, AnswerStep, WaitNothingStep, WaitForAnyStep
  <2> QED
    BY <1>4, <2>3 DEF WaitAny, IInv
<1>5. CASE wait_any
  BY SMTT(30), <1>1, <1>4, <1>5, AllWaitableType, PidsInType DEF wait_any
<1>6. ASSUME NEW spec \in JobSpecs \cup PidSpecs, wait_any_of(spec) PROVE IInv'
  <2> DEFINE pids == PidsIn(resolve_target_pids(spec))
  <2>1. pids \subseteq Pid /\ WaitAny("wait_any_of", pids, pids)
    BY SMTT(30), <1>1, <1>6, ResolveType, PidsInType DEF wait_any_of
  <2> HIDE DEF pids
  <2> QED
    BY <1>4, <2>1
<1> QED
  BY <1>2, <1>3, <1>5, <1>6

(* The loops of the wait builtin. *)
LEMMA WaitLoops ==
  ASSUME IInv,
         wait_for_pids_step \/ WaitEnd \/ WaitTrapped \/ wait_for_any_target_step \/ WaitAnyNoChild
  PROVE  IInv'
<1>1. TableShape /\ Shape(table, Pid, Command) /\ LocalsSound /\ child \in [Pid -> Child]
  BY DEF IInv, TableShape
<1>2. /\ op.targets \in Seq(Pid) /\ op.any \subseteq Pid /\ op.waited \subseteq Pid
      /\ op = [cmd |-> op.cmd, force |-> op.force, targets |-> op.targets, any |-> op.any,
               waited |-> op.waited, status |-> op.status, id |-> op.id]
  BY <1>1 DEF LocalsSound
<1>3. CASE wait_for_pids_step
  <2> DEFINE p == Head(op.targets)
  <2>1. op.targets # <<>> /\ pc' = pc /\ pc = "waitpids"
    BY Zenon, <1>3 DEF wait_for_pids_step
  <2>2. p \in Pid /\ Tail(op.targets) \in Seq(Pid)
    BY SMTT(30), <1>2, <2>1
  <2>3. \E waited, status :
          /\ waited \in {op.waited, op.waited \cup {p}}
          /\ op' = [op EXCEPT !.targets = Tail(@), !.waited = waited, !.status = status]
    <3> DEFINE known == decode_status(LastProcess(table.jobs[table.pid_to_job[p]]).status_raw)
               Advance(waited, status) ==
                 op' = [op EXCEPT !.targets = Tail(@), !.waited = waited, !.status = status]
    <3>1. \/ Advance(op.waited \cup {p}, known)
          \/ Advance(op.waited, op.status)
          \/ \E what \in Reports(p, WaitFlags) :
               Advance(op.waited \cup {p},
                       decode_status(IF what = "dead" THEN child[p].status ELSE StoppedBy(SIGTSTP)))
      BY Zenon, <1>3 DEF wait_for_pids_step
    <3> HIDE DEF known, p, Advance
    <3>2. \E waited, status : waited \in {op.waited, op.waited \cup {p}} /\ Advance(waited, status)
      <4> DEFINE Out == {op.waited, op.waited \cup {p}}
                 dead(what) == IF what = "dead" THEN child[p].status ELSE StoppedBy(SIGTSTP)
      <4>1. op.waited \in Out /\ op.waited \cup {p} \in Out
        OBVIOUS
      <4>2. CASE Advance(op.waited \cup {p}, known)
        BY <4>1, <4>2
      <4>3. CASE Advance(op.waited, op.status)
        BY <4>1, <4>3
      <4>4. ASSUME NEW what \in Reports(p, WaitFlags),
                   Advance(op.waited \cup {p}, decode_status(dead(what)))
            PROVE  \E waited, status : waited \in Out /\ Advance(waited, status)
        <5> HIDE DEF Out, dead
        <5> QED
          BY SMTT(30), <4>1, <4>4
      <4> QED
        BY <3>1, <4>2, <4>3, <4>4
    <3> QED
      BY ZenonT(40), <3>2 DEF Advance
  <2>4. \/ table' = table /\ child' = child
        \/ \E what \in Reports(p, WaitFlags) : table' = Record(table, p, what) /\ Consume(p, what)
    BY ZenonT(40), <1>3 DEF wait_for_pids_step
  <2> HIDE DEF p
  <2>5. PICK waited, status :
          /\ waited \subseteq Pid
          /\ op' = [op EXCEPT !.targets = Tail(@), !.waited = waited, !.status = status]
    BY Zenon, <1>2, <2>2, <2>3
  <2>6. op' = [cmd |-> op.cmd, force |-> op.force, targets |-> Tail(op.targets), any |-> op.any,
               waited |-> waited, status |-> status, id |-> op.id]
    BY Zenon, <1>2, <2>5
  <2>7. LocalsSound'
    BY Zenon, <1>2, <2>1, <2>2, <2>5, <2>6, NewLocals
  <2>8. TableShape'
    BY SMTT(30), <1>1, <2>2, <2>4, RecordShape, ReportsType DEF TableShape
  <2>9. child' \in [Pid -> Child]
    BY <1>1, <2>2, <2>4, ConsumeType
  <2> QED
    BY SMTT(30), <2>7, <2>8, <2>9 DEF IInv
<1>4. CASE WaitEnd
  <2> DEFINE t == MarkWaited(table, op.waited)
             u == IF op.cmd = "wait" /\ op.status <= 128 THEN mark_all_completed_jobs_waited(t) ELSE t
  <2>1. Shape(t, Pid, Command)
    BY <1>1, <1>2, MarkWaitedShape
  <2>2. table' = purge_waited_done(u) /\ Return /\ child' = child
    BY <1>4 DEF WaitEnd
  <2> HIDE DEF t
  <2>3. Shape(u, Pid, Command)
    BY <2>1, MarkAllCompletedShape
  <2> HIDE DEF u
  <2> QED
    BY SMTT(30), <1>1, <2>2, <2>3, PurgeWaitedDoneShape, ReturnLocals DEF IInv, TableShape
<1>5. CASE WaitTrapped
  BY <1>1, <1>5, WaitNothingStep DEF WaitTrapped, IInv
<1>6. CASE wait_for_any_target_step
  <2>1. PICK p \in Pid : \E what \in Reports(p, WaitFlags) :
          LET t == Record(table, p, what)
          IN  /\ Consume(p, what)
              /\ \/ \E i \in Taken(t, op.any) : Answer(t, i)
                 \/ WaitNothing(t)
                 \/ /\ table' = t /\ pc' = pc
                    /\ op' = [op EXCEPT !.any = op.any \ {p}] \/ op' = [op EXCEPT !.any = op.any]
    BY <1>6 DEF wait_for_any_target_step
  <2>2. PICK what \in Reports(p, WaitFlags) :
          LET t == Record(table, p, what)
          IN  /\ Consume(p, what)
              /\ \/ \E i \in Taken(t, op.any) : Answer(t, i)
                 \/ WaitNothing(t)
                 \/ /\ table' = t /\ pc' = pc
                    /\ op' = [op EXCEPT !.any = op.any \ {p}] \/ op' = [op EXCEPT !.any = op.any]
    BY <2>1
  <2> DEFINE t == Record(table, p, what)
  <2>3. Shape(t, Pid, Command)
    BY SMTT(30), <1>1, RecordShape, ReportsType
  <2>4. child' \in [Pid -> Child]
    BY SMTT(30), <1>1, <2>2, ConsumeType
  <2>5. \/ \E i \in Taken(t, op.any) : Answer(t, i)
        \/ WaitNothing(t)
        \/ /\ table' = t /\ pc' = pc
           /\ \E left : left \subseteq op.any /\ op' = [op EXCEPT !.any = left]
    BY SMTT(30), <2>2
  <2>6. Taken(t, op.any) \subseteq DOMAIN t.jobs
    BY DEF Taken, Takeable, DoneIds
  <2> HIDE DEF t
  <2>7. CASE (\E i \in Taken(t, op.any) : Answer(t, i)) \/ WaitNothing(t)
    BY SMTT(30), <2>3, <2>4, <2>6, <2>7, AnswerStep, WaitNothingStep DEF IInv
  <2>8. CASE /\ table' = t /\ pc' = pc
             /\ \E left : left \subseteq op.any /\ op' = [op EXCEPT !.any = left]
    <3>1. PICK left : left \subseteq op.any /\ op' = [op EXCEPT !.any = left]
      BY Zenon, <2>8
    <3>2. op' = [cmd |-> op.cmd, force |-> op.force, targets |-> op.targets, any |-> left,
                 waited |-> op.waited, status |-> op.status, id |-> op.id]
      BY <1>2, <3>1
    <3>3. pc' = "waitany" /\ left \subseteq Pid
      BY <1>2, <1>6, <2>8, <3>1 DEF wait_for_any_target_step
    <3>4. LocalsSound'
      BY SMTT(30), <1>2, <3>2, <3>3, NewLocals
    <3> QED
      BY SMTT(30), <2>3, <2>4, <2>8, <3>4 DEF IInv, TableShape
  <2> QED
    BY <2>5, <2>7, <2>8
<1>7. CASE WaitAnyNoChild
  BY SMTT(30), <1>1, <1>7, WaitNothingStep DEF WaitAnyNoChild, IInv
<1> QED
  BY SMTT(30), <1>3, <1>4, <1>5, <1>6, <1>7

-----------------------------------------------------------------------------

(* purge_done_job drops the job, if it is Done. *)
LEMMA PurgeDoneJobShape ==
  ASSUME NEW t, Shape(t, Pid, Command), NEW id
  PROVE  Shape(purge_done_job(t, id), Pid, Command)
BY RemoveShape DEF purge_done_job

(* A builtin that reaps first keeps only its name. *)
LEMMA ReapFirstStep ==
  ASSUME IInv, NEW cmd, ReapFirst(cmd)
  PROVE  IInv'
<1>1. op' = [cmd |-> cmd, force |-> FALSE, targets |-> <<>>, any |-> {},
             waited |-> {}, status |-> NoStatus, id |-> NoJob]
  BY Zenon DEF ReapFirst, Idle
<1>2. pc' = "cmd_reap" /\ table' = table /\ child' = child
  BY DEF ReapFirst
<1>3. {} \subseteq Pid /\ <<>> \in Seq(Pid)
  OBVIOUS
<1>4. LocalsSound'
  BY Zenon, <1>1, <1>2, <1>3, NewLocals
<1> QED
  BY <1>2, <1>4 DEF IInv, TableShape

(* fg and bg set Running on a job lookup found; fg keeps its id while it   *)
(* waits, and nothing removes the job meanwhile.                           *)
LEMMA ResumeStep ==
  ASSUME IInv,
         \/ fg \/ \E spec \in JobSpecs : fg_resume(spec)
         \/ fg_wait
         \/ bg \/ \E spec \in JobSpecs : bg_resume(spec)
  PROVE  IInv'
<1>1. TableShape /\ Shape(table, Pid, Command) /\ LocalsSound /\ child \in [Pid -> Child]
  BY DEF IInv, TableShape
<1>2. CASE fg \/ bg
  BY <1>2, ReapFirstStep DEF fg, bg
<1>3. ASSUME NEW spec \in JobSpecs, fg_resume(spec) PROVE IInv'
  <2> DEFINE id == lookup(table, spec)
  <2>1. id = NoJob \/ id \in DOMAIN table.jobs
    BY SMTT(30), <1>1, <1>3, LookupFinds
  <2>2. \/ Return /\ table' = table /\ child' = child
        \/ /\ id # NoJob /\ killpg(table.jobs[id].pgid, "CONT") /\ table' = SetRunning(table, id)
           /\ pc' = "fgwait" /\ op' = [op EXCEPT !.id = id]
    BY <1>3 DEF fg_resume
  <2> HIDE DEF id
  <2>3. CASE Return /\ table' = table /\ child' = child
    BY SMTT(30), <1>1, <2>3, ReturnLocals DEF IInv, TableShape
  <2>4. CASE /\ id # NoJob /\ killpg(table.jobs[id].pgid, "CONT") /\ table' = SetRunning(table, id)
             /\ pc' = "fgwait" /\ op' = [op EXCEPT !.id = id]
    <3>1. Shape(table', Pid, Command) /\ DOMAIN table'.jobs = DOMAIN table.jobs
      BY SMTT(30), <1>1, <2>1, <2>4, SetRunningShape
    <3>2. child' \in [Pid -> Child]
      BY SMTT(30), <1>1, <2>4, KillType
    <3>3. op' = [cmd |-> op.cmd, force |-> op.force, targets |-> op.targets, any |-> op.any,
                 waited |-> op.waited, status |-> op.status, id |-> id]
      BY SMTT(30), <1>1, <2>4 DEF LocalsSound
    <3>4. /\ op' = [cmd |-> op'.cmd, force |-> op'.force, targets |-> op'.targets, any |-> op'.any,
                    waited |-> op'.waited, status |-> op'.status, id |-> op'.id]
          /\ op'.targets = op.targets /\ op'.any = op.any /\ op'.waited = op.waited /\ op'.id = id
      BY SMTT(30), <3>3
    <3>5. op.targets \in Seq(Pid) /\ op.any \subseteq Pid /\ op.waited \subseteq Pid
      BY <1>1 DEF LocalsSound
    <3>6. op'.id \in DOMAIN table'.jobs /\ pc' = "fgwait"
      BY SMTT(30), <2>1, <2>4, <3>1, <3>4
    <3>7. op'.targets \in Seq(Pid) /\ op'.any \subseteq Pid /\ op'.waited \subseteq Pid
      BY SMTT(30), <3>4, <3>5
    <3>8. LocalsSound'
      BY ONLY SMTT(30), <3>4, <3>6, <3>7 DEF LocalsSound
    <3> QED
      BY SMTT(30), <3>1, <3>2, <3>8 DEF IInv, TableShape
  <2> QED
    BY SMTT(30), <2>2, <2>3, <2>4
<1>4. CASE fg_wait
  <2> DEFINE p == table.jobs[op.id].pgid
  <2>1. p \in Pid
    BY SMTT(30), <1>1, <1>4, PidsOfJobs DEF fg_wait, LocalsSound
  <2>2. \/ \E what \in Reports(p, {"WUNTRACED"}) :
             table' = purge_done_job(Record(table, p, what), op.id) /\ Consume(p, what)
        \/ table' = purge_done_job(table, op.id) /\ child' = child
    BY ZenonT(40), <1>4 DEF fg_wait
  <2>3. Return
    BY <1>4 DEF fg_wait
  <2> HIDE DEF p
  <2>4. TableShape'
    <3>1. ASSUME NEW what \in Reports(p, {"WUNTRACED"}),
                 table' = purge_done_job(Record(table, p, what), op.id)
          PROVE  TableShape'
      <4>1. Shape(Record(table, p, what), Pid, Command)
        BY SMTT(30), <1>1, <2>1, RecordShape, ReportsType
      <4> QED
        BY SMTT(30), <3>1, <4>1, PurgeDoneJobShape DEF TableShape
    <3>2. CASE table' = purge_done_job(table, op.id)
      BY SMTT(30), <1>1, <3>2, PurgeDoneJobShape DEF TableShape
    <3> QED
      BY SMTT(30), <2>2, <3>1, <3>2
  <2>5. child' \in [Pid -> Child]
    BY SMTT(30), <1>1, <2>1, <2>2, ConsumeType
  <2> QED
    BY SMTT(30), <2>3, <2>4, <2>5, ReturnLocals DEF IInv
<1>5. ASSUME NEW spec \in JobSpecs, bg_resume(spec) PROVE IInv'
  <2> DEFINE id == lookup(table, spec)
  <2>1. id = NoJob \/ id \in DOMAIN table.jobs
    BY SMTT(30), <1>1, <1>5, LookupFinds
  <2>2. /\ Return
        /\ \/ table' = table /\ child' = child
           \/ /\ id # NoJob
              /\ killpg(table.jobs[id].pgid, "CONT") /\ table' = SetRunning(table, id)
    BY SMTT(30), <1>5 DEF bg_resume
  <2> HIDE DEF id
  <2>3. TableShape'
    BY SMTT(30), <1>1, <2>1, <2>2, SetRunningShape DEF TableShape
  <2>4. child' \in [Pid -> Child]
    BY SMTT(30), <1>1, <2>2, KillType
  <2> QED
    BY SMTT(30), <2>2, <2>3, <2>4, ReturnLocals DEF IInv
<1> QED
  BY <1>2, <1>3, <1>4, <1>5

LEMMA KillStep ==
  ASSUME IInv,
         \/ \E spec \in JobSpecs : kill_SIGCONT(spec)
         \/ kill_resume
         \/ \E spec \in JobSpecs, sig \in {"STOP", "KILL"} : kill(spec, sig)
  PROVE  IInv'
<1>1. TableShape /\ Shape(table, Pid, Command) /\ LocalsSound /\ child \in [Pid -> Child]
  BY SMTT(30) DEF IInv, TableShape
<1>2. ASSUME NEW spec, kill_SIGCONT(spec) PROVE IInv'
  <2>1. /\ table' = table /\ child' = child
        /\ \/ Return
           \/ pc' = "cmd_reap" /\ \E id : op' = [Idle EXCEPT !.cmd = "kill", !.id = id]
    BY ZenonT(40), <1>2 DEF kill_SIGCONT
  <2>2. LocalsSound'
    BY Zenon, <2>1, ReturnLocals, CommandLocals
  <2> QED
    BY ZenonT(40), <1>1, <2>1, <2>2 DEF IInv, TableShape
<1>3. CASE kill_resume
  <2>1. Shape(mark_job_running(table, op.id), Pid, Command)
    BY SMTT(30), <1>1, MarkJobRunningShape
  <2>2. TableShape' /\ Return
    BY SMTT(30), <1>1, <1>3, <2>1 DEF kill_resume, TableShape
  <2>3. child' \in [Pid -> Child]
    BY SMTT(30), <1>1, <1>3, KillType DEF kill_resume
  <2> QED
    BY SMTT(30), <2>2, <2>3, ReturnLocals DEF IInv
<1>4. ASSUME NEW spec, NEW sig, kill(spec, sig) PROVE IInv'
  <2>1. table' = table /\ Return
    BY SMTT(30), <1>4 DEF kill
  <2>2. child' \in [Pid -> Child]
    BY SMTT(30), <1>1, <1>4, KillType DEF kill
  <2> QED
    BY SMTT(30), <1>1, <2>1, <2>2, ReturnLocals DEF IInv, TableShape
<1> QED
  BY SMTT(30), <1>2, <1>3, <1>4

(* disown -h sets NOHUP flags only. *)
LEMMA NohupShape ==
  ASSUME TableShape, NEW ids,
         NEW u, u = [table EXCEPT !.jobs = [i \in DOMAIN table.jobs |->
                       [table.jobs[i] EXCEPT !.nohup = @ \/ i \in ids]]]
  PROVE  Shape(u, Pid, Command)
<1> DEFINE js == [i \in DOMAIN table.jobs |-> [table.jobs[i] EXCEPT !.nohup = @ \/ i \in ids]]
<1>1. Shape(table, Pid, Command) /\ IsJobTable(table, Pid, Command)
  BY DEF TableShape, Shape
<1>2. ASSUME NEW i \in DOMAIN table.jobs
      PROVE  /\ js[i] \in Job(Pid, Command) /\ js[i].at = table.jobs[i].at
             /\ Pids(js[i]) = Pids(table.jobs[i])
  <2> DEFINE job == table.jobs[i]
             new_nohup == job.nohup \/ i \in ids
  <2>1. job \in Job(Pid, Command)
    BY <1>1 DEF IsJobTable
  <2>2. js[i] = [job EXCEPT !.nohup = new_nohup]
    OBVIOUS
  <2>3. new_nohup \in BOOLEAN
    OBVIOUS
  <2> HIDE DEF job, js, new_nohup
  <2>4. js[i] \in Job(Pid, Command) /\ js[i].at = job.at /\ js[i].processes = job.processes
    BY SMTT(30), <2>1, <2>2, <2>3 DEF Job
  <2> QED
    BY <2>4 DEF Pids, job
<1>3. js = [i \in DOMAIN js |-> js[i]] /\ DOMAIN js = DOMAIN table.jobs
  OBVIOUS
<1> HIDE DEF js
<1>4. u = [jobs |-> js, current |-> table.current, previous |-> table.previous,
           pid_to_job |-> table.pid_to_job, waited_pids |-> table.waited_pids,
           completion_order |-> table.completion_order,
           next_completion_order |-> table.next_completion_order, pushes |-> table.pushes]
  BY Zenon, <1>1 DEF IsJobTable, js
<1>5. /\ u.jobs = js /\ u.current = table.current /\ u.previous = table.previous
      /\ u.pid_to_job = table.pid_to_job /\ u.waited_pids = table.waited_pids
      /\ u.completion_order = table.completion_order
      /\ u.next_completion_order = table.next_completion_order /\ u.pushes = table.pushes
  BY <1>4
<1>6. IsJobTable(u, Pid, Command)
  BY Zenon, <1>1, <1>2, <1>3, <1>4, <1>5 DEF IsJobTable
<1>7. PushesDistinct(u) /\ PidIndex(u) /\ Markers(u)
  BY Zenon, <1>1, <1>2, <1>3, <1>5, <1>6, UpdateKeepsShape
<1> QED
  BY <1>6, <1>7 DEF Shape

LEMMA DisownStep == IInv /\ Disown => IInv'
<1> SUFFICES ASSUME IInv, Disown PROVE IInv'
  OBVIOUS
<1>1. TableShape /\ Shape(table, Pid, Command) /\ child \in [Pid -> Child]
  BY DEF IInv, TableShape
<1>2. ASSUME NEW ids, ids \subseteq DOMAIN table.jobs, disown(ids) PROVE IInv'
  BY <1>1, <1>2, ForgetResetShape, ReturnLocals DEF disown, IInv, TableShape
<1>3. ASSUME NEW ids, disown_h(ids) PROVE IInv'
  BY Zenon, <1>1, <1>3, NohupShape, ReturnLocals DEF disown_h, IInv, TableShape
<1>4. \A spec \in JobSpecs : {lookup(table, spec)} \ {NoJob} \subseteq DOMAIN table.jobs
  BY <1>1, LookupFinds
<1>5. {i \in DOMAIN table.jobs : table.jobs[i].state = "Running"} \subseteq DOMAIN table.jobs
  OBVIOUS
<1> QED
  BY Zenon, <1>2, <1>3, <1>4, <1>5 DEF Disown

LEMMA ExitStep ==
  ASSUME IInv, jobs \/ jobs_list \/ exit \/ exit_first \/ exit_again
  PROVE  IInv'
<1>1. CASE jobs \/ exit
  BY SMTT(30), <1>1, ReapFirstStep DEF jobs, exit
<1>2. CASE jobs_list
  BY SMTT(30), <1>2, ReturnLocals DEF jobs_list, IInv, TableShape
<1>3. CASE exit_first
  BY SMTT(30), <1>3, ReturnLocals, SameLocals DEF exit_first, IInv, TableShape
<1>4. CASE exit_again
  BY SMTT(30), <1>4, SameLocals DEF exit_again, IInv, TableShape
<1> QED
  BY <1>1, <1>2, <1>3, <1>4

(* No step breaks the invariant. *)
LEMMA NextStep == IInv /\ [Next]_vars => IInv'
<1> SUFFICES ASSUME IInv, [Next]_vars PROVE IInv'
  BY SMTT(30)
<1>1. CASE UNCHANGED vars
  BY <1>1 DEF vars, IInv, TableShape, LocalsSound
<1>2. CASE Kernel
  BY SMTT(30), <1>2, KernelStep
<1>3. CASE Shell
  BY SMTT(30), <1>3, PromptStep, LaunchStep, WaitBegins, WaitLoops, ResumeStep, KillStep, DisownStep, ExitStep
     DEF Shell
<1>4. CASE Poll \/ Exited_shell
  BY SMTT(30), <1>1, <1>4 DEF Poll, Exited_shell
<1> QED
  BY SMTT(30), <1>1, <1>2, <1>3, <1>4 DEF Next

LEMMA InitSound == Init => IInv
<1> SUFFICES ASSUME Init PROVE IInv
  OBVIOUS
<1>1. TableShape
  BY NewShape DEF Init, TableShape
<1>2. child \in [Pid -> Child]
  <2>1. [Born EXCEPT !.run = "none"] \in Child
    BY DEF Born, Child, RawStatus, Exited
  <2> QED
    BY <2>1 DEF Init
<1>3. <<>> \in Seq(Pid)
  OBVIOUS
<1>4. LocalsSound
  BY <1>3 DEF Init, Idle, LocalsSound
<1> QED
  BY SMTT(30), <1>1, <1>2, <1>4 DEF IInv

LEMMA Invariance == Spec => []IInv
BY InitSound, NextStep, PTL DEF Spec

(* The pid index and the markers stay sound whatever the user runs and     *)
(* whatever the children do, in any order: fg and bg writing through       *)
(* list_mut, wait, disown and kill removing and marking, and every waitpid *)
(* recording what it reports.                                              *)
THEOREM TableStaysSound == Spec => []TableSound
<1>1. IInv => TableSound
  BY DEF IInv, TableShape, Shape, TableSound
<1> QED
  BY <1>1, Invariance, PTL

=============================================================================
