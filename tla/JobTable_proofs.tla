-------------------------- MODULE JobTable_proofs --------------------------
(***************************************************************************)
(* Lemmas about the operators of JobTable: what each method returns and    *)
(* which of the predicates on tables it preserves, for every table.        *)
(***************************************************************************)
EXTENDS JobTable, FiniteSetTheorems, WellFoundedInduction, TLAPS

(* A nonempty set of numbers has a least one. *)
LEMMA LeastNat ==
  ASSUME NEW S, S \subseteq Nat, S # {}
  PROVE  \E m \in S : \A n \in S : m <= n
<1>1. PICK m \in S : \A n \in S : ~(<<n, m>> \in OpToRel(<, Nat))
  BY Zenon, NatLessThanWellFounded, WFMin
<1>2. \A n \in S : ~(n < m)
  BY <1>1, Zenon DEF OpToRel
<1> QED
  BY <1>2

(* allocate_id finds an id: the loop in jobs.rs:144 stops, at a positive   *)
(* id that no job of the table has.                                        *)
LEMMA AllocateIdFresh ==
  ASSUME NEW t, IsFiniteSet(DOMAIN t.jobs)
  PROVE  allocate_id(t) \in Nat \ {NoJob} /\ allocate_id(t) \notin DOMAIN t.jobs
<1> DEFINE D == DOMAIN t.jobs
           free == {n \in Nat : n # 0 /\ n \notin D}
<1>1. Cardinality(D) \in Nat
  BY FS_CardinalityType
<1>2. free # {}
  <2> SUFFICES ASSUME free = {} PROVE FALSE
    OBVIOUS
  <2>1. 1..(Cardinality(D) + 1) \in SUBSET D
    BY <1>1
  <2>2. Cardinality(1..(Cardinality(D) + 1)) <= Cardinality(D)
    BY <2>1, FS_Subset
  <2> QED
    BY <2>2, <1>1, FS_Interval
<1>3. PICK n \in free : \A m \in free : n <= m
  BY Zenon, <1>2, LeastNat
<1>4. \A m \in 1..(n - 1) : m \in D
  BY <1>3
<1>5. n - 1 <= Cardinality(D)
  <2>1. 1..(n - 1) \in SUBSET D
    BY <1>4
  <2>2. Cardinality(1..(n - 1)) <= Cardinality(D)
    BY <2>1, FS_Subset
  <2> QED
    BY <2>2, <1>1, <1>3, FS_Interval
<1>6. n \in 1..(Cardinality(D) + 1)
  BY <1>1, <1>3, <1>5
<1> QED
  BY <1>1, <1>3, <1>4, <1>6 DEF allocate_id, NoJob

(* LastOf picks an element of a nonempty set of jobs: the sort key         *)
(* (stopped, index) of jobs.rs:170 has a greatest value.                   *)
LEMMA LastOfMember ==
  ASSUME NEW jobs, NEW bound \in Nat, NEW ids, ids # {},
         \A i \in ids : jobs[i].at \in Nat /\ jobs[i].at < bound,
         \A i, j \in ids : jobs[i].at = jobs[j].at => i = j
  PROVE  LastOf(jobs, ids) \in ids
<1> DEFINE rank(i) == (IF jobs[i].state = "Stopped" THEN 0 ELSE bound) + bound - jobs[i].at
           ranks == {rank(i) : i \in ids}
<1>1. \A i \in ids : rank(i) \in Nat
  OBVIOUS
<1>2. PICK m \in ranks : \A n \in ranks : m <= n
  <2>1. ranks \subseteq Nat /\ ranks # {}
    BY <1>1
  <2> HIDE DEF ranks
  <2> QED
    BY <2>1, LeastNat
<1>3. PICK i \in ids : m = rank(i)
  BY <1>2
<1>4. \A j \in ids \ {i} : Before(jobs[j], jobs[i])
  <2> TAKE j \in ids \ {i}
  <2>1. rank(i) <= rank(j)
    BY <1>2, <1>3
  <2>2. jobs[i].at # jobs[j].at
    OBVIOUS
  <2> QED
    BY <2>1, <2>2 DEF Before
<1>5. \E k \in ids : \A j \in ids \ {k} : Before(jobs[j], jobs[k])
  BY <1>4
<1> QED
  BY <1>5 DEF LastOf

-----------------------------------------------------------------------------

(* reset_current_previous changes the markers only, and chooses them from  *)
(* the jobs of the table: two different ones when both are set.            *)
LEMMA ResetMarkers ==
  ASSUME NEW t, NEW Pid, NEW Command,
         IsJobTable(t, Pid, Command), PushesDistinct(t)
  PROVE  LET r == reset_current_previous(t)
         IN  /\ r = [t EXCEPT !.current = r.current, !.previous = r.previous]
             /\ r.current \in Nat /\ r.previous \in Nat
             /\ Markers(r) /\ LiveMarked(r)
<1> DEFINE r == reset_current_previous(t)
           pool == Candidates(t.jobs)
           top == LastOf(t.jobs, pool)
           second == LastOf(t.jobs, pool \ {top})
<1>1. pool \subseteq DOMAIN t.jobs
  BY DEF Candidates
<1>2. \A i \in DOMAIN t.jobs : t.jobs[i].at \in Nat /\ t.jobs[i].at < t.pushes
  BY DEF IsJobTable, PushesDistinct, Job
<1>3. \A i, j \in DOMAIN t.jobs : t.jobs[i].at = t.jobs[j].at => i = j
  BY DEF PushesDistinct
<1>4. t.pushes \in Nat /\ NoJob \notin DOMAIN t.jobs /\ DOMAIN t.jobs \subseteq Nat
  BY DEF IsJobTable
<1>5. IF pool = {} THEN top = NoJob ELSE top \in pool
  <2>1. CASE pool = {}
    BY <2>1 DEF LastOf
  <2>2. CASE pool # {}
    BY <1>1, <1>2, <1>3, <1>4, <2>2, LastOfMember
  <2> QED
    BY <2>1, <2>2
<1>6. IF pool \ {top} = {} THEN second = NoJob ELSE second \in pool \ {top}
  <2>1. CASE pool \ {top} = {}
    BY <2>1 DEF LastOf
  <2>2. CASE pool \ {top} # {}
    BY SMTT(30), <1>1, <1>2, <1>3, <1>4, <2>2, LastOfMember
  <2> QED
    BY <2>1, <2>2
<1>7. r = [t EXCEPT !.current = top, !.previous = second]
  BY DEF reset_current_previous
<1>8. r.current = top /\ r.previous = second /\ r.jobs = t.jobs
  <2> HIDE DEF top, second, r
  <2> QED
    BY <1>7 DEF IsJobTable
<1>9. Live(t) # {} => pool = Live(t)
  BY DEF Candidates, Live
<1>10. Live(r) = Live(t)
  BY <1>8 DEF Live
<1> HIDE DEF top, second, r, pool
<1>11. top \in Nat /\ second \in Nat
  BY <1>1, <1>4, <1>5, <1>6 DEF NoJob
<1>12. Markers(r)
  BY <1>1, <1>4, <1>5, <1>6, <1>8 DEF Markers
<1>13. LiveMarked(r)
  BY <1>5, <1>6, <1>8, <1>9, <1>10 DEF LiveMarked
<1> QED
  BY <1>7, <1>8, <1>11, <1>12, <1>13 DEF r

-----------------------------------------------------------------------------

(* The shape of a table: its type, and the agreement of its indexes and    *)
(* markers with its jobs.  Every method keeps it, whatever the states of   *)
(* the jobs are.                                                           *)
Shape(t, Pid, Command) ==
  /\ IsJobTable(t, Pid, Command) /\ PushesDistinct(t)
  /\ PidIndex(t) /\ Markers(t)

(* The empty table of JobTable::new. *)
LEMMA NewShape ==
  ASSUME NEW Pid, NEW Command
  PROVE  Shape(new, Pid, Command)
<1>1. /\ new.jobs = <<>> /\ new.current = 0 /\ new.previous = 0 /\ new.pid_to_job = <<>>
      /\ new.waited_pids = {} /\ new.completion_order = <<>>
      /\ new.next_completion_order = 0 /\ new.pushes = 0
  BY DEF new, NoJob
<1>2. DOMAIN new.jobs = {} /\ DOMAIN new.pid_to_job = {}
  BY <1>1
<1>3. IsFiniteSet(DOMAIN new.jobs)
  BY <1>2, FS_EmptySet
<1>4. new.jobs = [i \in DOMAIN new.jobs |-> new.jobs[i]]
  BY <1>1, <1>2
<1>5. new = [jobs |-> new.jobs, current |-> new.current, previous |-> new.previous,
             pid_to_job |-> new.pid_to_job, waited_pids |-> new.waited_pids,
             completion_order |-> new.completion_order,
             next_completion_order |-> new.next_completion_order, pushes |-> new.pushes]
  BY DEF new
<1>6. IsJobTable(new, Pid, Command)
  BY <1>1, <1>2, <1>3, <1>4, <1>5 DEF IsJobTable
<1>7. PushesDistinct(new) /\ PidIndex(new) /\ Markers(new)
  BY <1>1, <1>2 DEF PushesDistinct, PidIndex, Markers, NoJob
<1> QED
  BY <1>6, <1>7 DEF Shape

(* A process update keeps the pids of its job. *)
LEMMA SamePids ==
  ASSUME NEW job, NEW other, DOMAIN other.processes = DOMAIN job.processes,
         \A k \in DOMAIN job.processes : other.processes[k].pid = job.processes[k].pid
  PROVE  Pids(other) = Pids(job)
BY DEF Pids

(* A job whose processes are replaced one by one by processes with the     *)
(* same pids has the type, the push and the pids of the job it comes from. *)
LEMMA UpdatedJob ==
  ASSUME NEW Pid, NEW Command, NEW job \in Job(Pid, Command), NEW procs,
         procs = [k \in DOMAIN procs |-> procs[k]],
         DOMAIN procs = DOMAIN job.processes,
         \A k \in DOMAIN job.processes : job.processes[k] \in Process(Pid) =>
           procs[k] \in Process(Pid) /\ procs[k].pid = job.processes[k].pid,
         NEW new_job, new_job = [job EXCEPT !.processes = procs]
  PROVE  /\ new_job \in Job(Pid, Command)
         /\ new_job.at = job.at /\ new_job.state = job.state
         /\ new_job.exit_status = job.exit_status /\ new_job.waited_for = job.waited_for
         /\ new_job.processes = procs
         /\ Pids(new_job) = Pids(job)
<1>1. job.processes \in Seq(Process(Pid)) /\ job.processes # <<>>
  BY DEF Job
<1>2. PICK n \in Nat : DOMAIN job.processes = 1..n /\ n # 0
  BY <1>1
<1>3. \A k \in 1..n : job.processes[k] \in Process(Pid)
  BY <1>1, <1>2
<1>4. \A k \in 1..n : procs[k] \in Process(Pid) /\ procs[k].pid = job.processes[k].pid
  BY <1>2, <1>3
<1>5. procs \in Seq(Process(Pid)) /\ procs # <<>>
  BY <1>2, <1>4
<1>6. /\ new_job \in Job(Pid, Command)
      /\ new_job.at = job.at /\ new_job.state = job.state /\ new_job.processes = procs
      /\ new_job.exit_status = job.exit_status /\ new_job.waited_for = job.waited_for
  BY SMTT(30), <1>5 DEF Job
<1>7. Pids(new_job) = Pids(job)
  BY ZenonT(40), <1>2, <1>4, <1>6, SamePids
<1> QED
  BY <1>6, <1>7

(* WithProcess keeps the type, the push and the pids of the job... *)
LEMMA WithProcessJob ==
  ASSUME NEW Pid, NEW Command, NEW job \in Job(Pid, Command),
         NEW pid, NEW state \in JobState, NEW raw \in RawStatus
  PROVE  /\ WithProcess(job, pid, state, raw) \in Job(Pid, Command)
         /\ WithProcess(job, pid, state, raw).at = job.at
         /\ WithProcess(job, pid, state, raw).state = job.state
         /\ WithProcess(job, pid, state, raw).exit_status = job.exit_status
         /\ WithProcess(job, pid, state, raw).waited_for = job.waited_for
         /\ Pids(WithProcess(job, pid, state, raw)) = Pids(job)
<1> DEFINE procs == [i \in DOMAIN job.processes |->
                       IF job.processes[i].pid = pid
                         THEN [pid |-> pid, status_raw |-> raw, state |-> state]
                         ELSE job.processes[i]]
           new_job == WithProcess(job, pid, state, raw)
<1>1. procs = [k \in DOMAIN procs |-> procs[k]] /\ DOMAIN procs = DOMAIN job.processes
  OBVIOUS
<1>2. \A k \in DOMAIN job.processes : job.processes[k] \in Process(Pid) =>
        procs[k] \in Process(Pid) /\ procs[k].pid = job.processes[k].pid
  BY DEF Process
<1>3. new_job = [job EXCEPT !.processes = procs]
  BY DEF WithProcess
<1> HIDE DEF procs, new_job
<1>4. /\ new_job \in Job(Pid, Command)
      /\ new_job.at = job.at /\ new_job.state = job.state
      /\ new_job.exit_status = job.exit_status /\ new_job.waited_for = job.waited_for
      /\ Pids(new_job) = Pids(job)
  BY <1>1, <1>2, <1>3, UpdatedJob
<1> QED
  BY <1>4 DEF new_job

(* ... and changes the state of the processes of pid only. *)
LEMMA WithProcessStates ==
  ASSUME NEW Pid, NEW Command, NEW job \in Job(Pid, Command),
         NEW pid, NEW state, NEW raw
  PROVE  /\ DOMAIN WithProcess(job, pid, state, raw).processes = DOMAIN job.processes
         /\ \A k \in DOMAIN job.processes :
              WithProcess(job, pid, state, raw).processes[k].state =
                IF job.processes[k].pid = pid THEN state ELSE job.processes[k].state
BY DEF WithProcess, Job

(* Continued keeps the type, the push and the pids of the job... *)
LEMMA ContinuedJob ==
  ASSUME NEW Pid, NEW Command, NEW job \in Job(Pid, Command)
  PROVE  /\ Continued(job) \in Job(Pid, Command)
         /\ Continued(job).at = job.at /\ Continued(job).state = job.state
         /\ Continued(job).exit_status = job.exit_status
         /\ Continued(job).waited_for = job.waited_for
         /\ Pids(Continued(job)) = Pids(job)
<1> DEFINE procs == [i \in DOMAIN job.processes |->
                       IF job.processes[i].state = "Stopped"
                         THEN [job.processes[i] EXCEPT !.state = "Running"]
                         ELSE job.processes[i]]
           new_job == Continued(job)
<1>1. procs = [k \in DOMAIN procs |-> procs[k]] /\ DOMAIN procs = DOMAIN job.processes
  OBVIOUS
<1>2. \A k \in DOMAIN job.processes : job.processes[k] \in Process(Pid) =>
        procs[k] \in Process(Pid) /\ procs[k].pid = job.processes[k].pid
  BY DEF Process, JobState
<1>3. new_job = [job EXCEPT !.processes = procs]
  BY DEF Continued
<1> HIDE DEF procs, new_job
<1>4. /\ new_job \in Job(Pid, Command)
      /\ new_job.at = job.at /\ new_job.state = job.state
      /\ new_job.exit_status = job.exit_status /\ new_job.waited_for = job.waited_for
      /\ Pids(new_job) = Pids(job)
  BY <1>1, <1>2, <1>3, UpdatedJob
<1> QED
  BY <1>4 DEF new_job

(* ... makes the Stopped processes Running, and changes no other. *)
LEMMA ContinuedStates ==
  ASSUME NEW Pid, NEW Command, NEW job \in Job(Pid, Command)
  PROVE  /\ DOMAIN Continued(job).processes = DOMAIN job.processes
         /\ \A k \in DOMAIN job.processes :
              Continued(job).processes[k].state =
                IF job.processes[k].state = "Stopped" THEN "Running"
                ELSE job.processes[k].state
<1> DEFINE procs == [i \in DOMAIN job.processes |->
                       IF job.processes[i].state = "Stopped"
                         THEN [job.processes[i] EXCEPT !.state = "Running"]
                         ELSE job.processes[i]]
<1>1. \A k \in DOMAIN job.processes : job.processes[k] \in Process(Pid)
  <2>1. job.processes \in Seq(Process(Pid))
    BY DEF Job
  <2> QED
    BY <2>1
<1>2. \A k \in DOMAIN job.processes :
        procs[k].state = IF job.processes[k].state = "Stopped" THEN "Running"
                         ELSE job.processes[k].state
  BY <1>1 DEF Process
<1>3. DOMAIN procs = DOMAIN job.processes
  OBVIOUS
<1>4. Continued(job) = [job EXCEPT !.processes = procs]
  BY DEF Continued
<1> HIDE DEF procs
<1>5. Continued(job).processes = procs
  BY <1>4 DEF Job
<1> QED
  BY <1>2, <1>3, <1>5

(* Replacing a job by one with the same pids, appended by the same push,   *)
(* and any change of the waited pids or the completion numbers, keeps the  *)
(* shape.                                                                  *)
LEMMA UpdateKeepsShape ==
  ASSUME NEW Pid, NEW Command, NEW t, Shape(t, Pid, Command),
         NEW u, IsJobTable(u, Pid, Command),
         DOMAIN u.jobs = DOMAIN t.jobs,
         \A i \in DOMAIN t.jobs : u.jobs[i].at = t.jobs[i].at /\ Pids(u.jobs[i]) = Pids(t.jobs[i]),
         u.pushes = t.pushes, u.pid_to_job = t.pid_to_job
  PROVE  /\ PushesDistinct(u) /\ PidIndex(u)
         /\ u.current = t.current /\ u.previous = t.previous => Markers(u)
BY DEF Shape, PushesDistinct, PidIndex, Markers

(* reset_current_previous turns a table whose markers may be stale into    *)
(* one of the right shape.                                                 *)
LEMMA ResetShape ==
  ASSUME NEW Pid, NEW Command, NEW t,
         IsJobTable(t, Pid, Command), PushesDistinct(t), PidIndex(t)
  PROVE  /\ Shape(reset_current_previous(t), Pid, Command)
         /\ LiveMarked(reset_current_previous(t))
<1> DEFINE r == reset_current_previous(t)
<1>1. r = [t EXCEPT !.current = r.current, !.previous = r.previous]
      /\ r.current \in Nat /\ r.previous \in Nat
      /\ Markers(r) /\ LiveMarked(r)
  BY Zenon, ResetMarkers
<1> HIDE DEF r
<1>2. r = [jobs |-> t.jobs, current |-> r.current, previous |-> r.previous,
           pid_to_job |-> t.pid_to_job, waited_pids |-> t.waited_pids,
           completion_order |-> t.completion_order,
           next_completion_order |-> t.next_completion_order, pushes |-> t.pushes]
  BY Zenon, <1>1 DEF IsJobTable
<1>3. IsJobTable(r, Pid, Command)
  BY <1>1, <1>2 DEF IsJobTable
<1>4. PushesDistinct(r) /\ PidIndex(r)
  BY <1>2 DEF PushesDistinct, PidIndex
<1> QED
  BY <1>1, <1>3, <1>4 DEF Shape, r

-----------------------------------------------------------------------------
(* One lemma per method: it keeps the shape of the table. *)

(* add gives the new job an id and pids of its own, so the old entries of  *)
(* both indexes stay right; the new job becomes current, the old current   *)
(* job previous.                                                           *)
LEMMA AddFields ==
  ASSUME NEW Pid, NEW Command, NEW t, Shape(t, Pid, Command),
         NEW pgid \in Pid, NEW c \in Command, NEW jc \in BOOLEAN,
         NEW procs \in Seq(Process(Pid)), procs # <<>>,
         \A k \in DOMAIN procs : procs[k].pid \notin DOMAIN t.pid_to_job
  PROVE  LET id == allocate_id(t)
             u == add(t, pgid, c, jc, procs)
         IN  /\ Shape(u, Pid, Command)
             /\ id \notin DOMAIN t.jobs /\ DOMAIN u.jobs = DOMAIN t.jobs \cup {id}
             /\ \A i \in DOMAIN t.jobs : u.jobs[i] = t.jobs[i]
             /\ u.jobs[id].state = "Running" /\ u.jobs[id].processes = procs
             /\ ~u.jobs[id].waited_for
             /\ u.current = id /\ u.previous = t.current
             /\ u.waited_pids = t.waited_pids \ {procs[k].pid : k \in DOMAIN procs}
             /\ u.completion_order = t.completion_order
             /\ u.next_completion_order = t.next_completion_order
<1> DEFINE id == allocate_id(t)
           job == [pgid |-> pgid, command_line |-> c, state |-> "Running",
                   processes |-> procs, notified |-> FALSE,
                   exit_status |-> NoStatus, waited_for |-> FALSE, nohup |-> FALSE,
                   jobcontrol |-> jc, at |-> t.pushes]
           jobs == Insert(t.jobs, {id}, job)
           index == Insert(t.pid_to_job, Pids(job), id)
           u == add(t, pgid, c, jc, procs)
<1>1. id \in Nat \ {NoJob} /\ id \notin DOMAIN t.jobs
  BY AllocateIdFresh DEF Shape, IsJobTable
<1> HIDE DEF id
<1>2. job \in Job(Pid, Command)
  BY DEF Job, JobState, NoStatus, Shape, IsJobTable
<1>3. Pids(job) = {procs[k].pid : k \in DOMAIN procs}
  BY DEF Pids
<1>4. Pids(job) \subseteq Pid
  <2>1. \A k \in DOMAIN procs : procs[k] \in Process(Pid)
    OBVIOUS
  <2>2. \A k \in DOMAIN procs : procs[k].pid \in Pid
    BY <2>1 DEF Process
  <2> HIDE DEF job
  <2> QED
    BY <1>3, <2>2
<1>5. \A p \in Pids(job) : p \notin DOMAIN t.pid_to_job
  BY <1>3
<1>6. job.at = t.pushes /\ job.state = "Running" /\ job.processes = procs /\ ~job.waited_for
  OBVIOUS
<1>7. u = [jobs |-> jobs, current |-> id, previous |-> t.current,
           pid_to_job |-> index, waited_pids |-> t.waited_pids \ Pids(job),
           completion_order |-> t.completion_order,
           next_completion_order |-> t.next_completion_order, pushes |-> t.pushes + 1]
  <2>1. u = [t EXCEPT !.jobs = jobs, !.waited_pids = t.waited_pids \ Pids(job),
                      !.pid_to_job = index, !.previous = t.current,
                      !.current = id, !.pushes = t.pushes + 1]
    BY DEF add, id
  <2> HIDE DEF job, jobs, index, u
  <2> QED
    BY Zenon, <2>1 DEF Shape, IsJobTable
<1> HIDE DEF job, u
<1>8. /\ jobs = [i \in DOMAIN jobs |-> jobs[i]]
      /\ DOMAIN jobs = DOMAIN t.jobs \cup {id}
      /\ jobs[id] = job
      /\ \A i \in DOMAIN t.jobs : jobs[i] = t.jobs[i]
  BY <1>1 DEF Insert
<1>9. /\ DOMAIN index = DOMAIN t.pid_to_job \cup Pids(job)
      /\ \A p \in Pids(job) : index[p] = id
      /\ \A p \in DOMAIN t.pid_to_job : index[p] = t.pid_to_job[p]
  BY <1>5 DEF Insert
<1> HIDE DEF jobs, index
<1>10. IsFiniteSet(DOMAIN jobs)
  BY <1>8, FS_AddElement DEF Shape, IsJobTable
<1>11. IsJobTable(u, Pid, Command)
  BY <1>1, <1>2, <1>4, <1>7, <1>8, <1>9, <1>10 DEF Shape, IsJobTable
<1>12. PushesDistinct(u)
  <2>1. \A i \in DOMAIN t.jobs : t.jobs[i].at \in Nat /\ t.jobs[i].at < t.pushes
    BY DEF Shape, PushesDistinct, IsJobTable, Job
  <2>2. t.pushes \in Nat
    BY DEF Shape, IsJobTable
  <2> QED
    BY <1>6, <1>7, <1>8, <2>1, <2>2 DEF Shape, PushesDistinct
<1>13. PidIndex(u)
  BY <1>1, <1>7, <1>8, <1>9 DEF Shape, PidIndex
<1>14. Markers(u)
  BY <1>1, <1>7, <1>8 DEF Shape, Markers
<1>15. Shape(u, Pid, Command)
  BY <1>11, <1>12, <1>13, <1>14 DEF Shape
<1>16. /\ u.jobs = jobs /\ u.current = id /\ u.previous = t.current
       /\ u.waited_pids = t.waited_pids \ Pids(job)
       /\ u.completion_order = t.completion_order
       /\ u.next_completion_order = t.next_completion_order
  BY <1>7
<1> QED
  BY <1>1, <1>3, <1>6, <1>8, <1>15, <1>16 DEF u, id

LEMMA AddShape ==
  ASSUME NEW Pid, NEW Command, NEW t, Shape(t, Pid, Command),
         NEW pgid \in Pid, NEW c \in Command, NEW jc \in BOOLEAN,
         NEW procs \in Seq(Process(Pid)), procs # <<>>,
         \A k \in DOMAIN procs : procs[k].pid \notin DOMAIN t.pid_to_job
  PROVE  Shape(add(t, pgid, c, jc, procs), Pid, Command)
BY AddFields

(* Forgetting a set of jobs removes exactly the index entries of their     *)
(* pids: no pid is shared with a job that stays.  The markers may be       *)
(* stale, which is why remove and purge_done reset them.                   *)
LEMMA ForgetShape ==
  ASSUME NEW Pid, NEW Command, NEW t, Shape(t, Pid, Command),
         NEW ids, ids \subseteq DOMAIN t.jobs
  PROVE  LET u == Forget(t, ids)
         IN  /\ IsJobTable(u, Pid, Command) /\ PushesDistinct(u) /\ PidIndex(u)
             /\ DOMAIN u.jobs = DOMAIN t.jobs \ ids
             /\ \A i \in DOMAIN u.jobs : u.jobs[i] = t.jobs[i]
             /\ \A p : p \in u.waited_pids <=>
                        p \in t.waited_pids /\ \A i \in ids : p \notin Pids(t.jobs[i])
             /\ u.completion_order = Without(t.completion_order, ids)
             /\ u.next_completion_order = t.next_completion_order
<1> DEFINE gone == UNION {Pids(t.jobs[i]) : i \in ids}
           jobs == Without(t.jobs, ids)
           index == Without(t.pid_to_job, gone)
           u == Forget(t, ids)
<1>1. u = [jobs |-> jobs, current |-> t.current, previous |-> t.previous,
           pid_to_job |-> index, waited_pids |-> t.waited_pids \ gone,
           completion_order |-> Without(t.completion_order, ids),
           next_completion_order |-> t.next_completion_order, pushes |-> t.pushes]
  <2>1. u = [t EXCEPT !.jobs = jobs, !.pid_to_job = index,
                      !.waited_pids = t.waited_pids \ gone,
                      !.completion_order = Without(t.completion_order, ids)]
    BY DEF Forget
  <2> HIDE DEF jobs, index, gone, u
  <2> QED
    BY Zenon, <2>1 DEF Shape, IsJobTable
<1>2. /\ jobs = [i \in DOMAIN jobs |-> jobs[i]]
      /\ DOMAIN jobs = DOMAIN t.jobs \ ids
      /\ \A i \in DOMAIN jobs : jobs[i] = t.jobs[i]
  BY DEF Without
<1>3. /\ DOMAIN index = DOMAIN t.pid_to_job \ gone
      /\ \A p \in DOMAIN index : index[p] = t.pid_to_job[p]
  BY DEF Without
<1>4. \A p : p \in gone <=> \E i \in ids : p \in Pids(t.jobs[i])
  OBVIOUS
<1> HIDE DEF u, jobs, index, gone
<1>5. IsFiniteSet(DOMAIN jobs)
  <2>1. IsFiniteSet(DOMAIN t.jobs) /\ DOMAIN jobs \in SUBSET DOMAIN t.jobs
    BY <1>2 DEF Shape, IsJobTable
  <2> QED
    BY <2>1, FS_Subset
<1>6. IsJobTable(u, Pid, Command)
  BY <1>1, <1>2, <1>3, <1>5 DEF Shape, IsJobTable
<1>7. PushesDistinct(u)
  BY <1>1, <1>2 DEF Shape, PushesDistinct
<1>8. PidIndex(u)
  BY <1>1, <1>2, <1>3, <1>4 DEF Shape, PidIndex
<1>9. /\ u.jobs = jobs /\ u.waited_pids = t.waited_pids \ gone
      /\ u.completion_order = Without(t.completion_order, ids)
      /\ u.next_completion_order = t.next_completion_order
  BY <1>1
<1> QED
  BY <1>2, <1>4, <1>6, <1>7, <1>8, <1>9 DEF u

(* remove and purge_done keep the shape. *)
LEMMA RemoveShape ==
  ASSUME NEW Pid, NEW Command, NEW t, Shape(t, Pid, Command), NEW id
  PROVE  Shape(remove(t, id), Pid, Command)
<1> DEFINE ids == {id} \cap DOMAIN t.jobs
           f == Forget(t, ids)
<1>1. IsJobTable(f, Pid, Command) /\ PushesDistinct(f) /\ PidIndex(f)
  BY ForgetShape
<1> HIDE DEF f
<1>2. Shape(reset_current_previous(f), Pid, Command)
  BY <1>1, ResetShape
<1> QED
  BY <1>2 DEF remove, f

LEMMA PurgeDoneShape ==
  ASSUME NEW Pid, NEW Command, NEW t, Shape(t, Pid, Command)
  PROVE  Shape(purge_done(t), Pid, Command)
<1> DEFINE f == Forget(t, Purgeable(t))
<1>1. IsJobTable(f, Pid, Command) /\ PushesDistinct(f) /\ PidIndex(f)
  BY ForgetShape DEF Purgeable
<1> HIDE DEF f
<1>2. Shape(reset_current_previous(f), Pid, Command)
  BY <1>1, ResetShape
<1> QED
  BY <1>2 DEF purge_done, f

(* The table t with other jobs, waited pids and completion numbers. *)
Rebuilt(t, jobs, w, order, n) ==
  [jobs |-> jobs, current |-> t.current, previous |-> t.previous,
   pid_to_job |-> t.pid_to_job, waited_pids |-> w,
   completion_order |-> order, next_completion_order |-> n, pushes |-> t.pushes]

(* Replacing one job by one with the same pids and push, together with any *)
(* waited pids and completion numbers, keeps the shape.                    *)
LEMMA ReplaceJobShape ==
  ASSUME NEW Pid, NEW Command, NEW t, Shape(t, Pid, Command),
         NEW id \in DOMAIN t.jobs, NEW job \in Job(Pid, Command),
         job.at = t.jobs[id].at, Pids(job) = Pids(t.jobs[id]),
         NEW w, w \subseteq Pid, NEW order, NEW n \in Nat,
         NEW u, u = Rebuilt(t, [t.jobs EXCEPT ![id] = job], w, order, n)
  PROVE  /\ Shape(u, Pid, Command)
         /\ u.jobs = [t.jobs EXCEPT ![id] = job]
         /\ u.current = t.current /\ u.previous = t.previous
         /\ u.completion_order = order /\ u.next_completion_order = n
         /\ u.waited_pids = w
<1> DEFINE jobs == [t.jobs EXCEPT ![id] = job]
<1>1. /\ jobs = [i \in DOMAIN jobs |-> jobs[i]]
      /\ DOMAIN jobs = DOMAIN t.jobs
      /\ jobs[id] = job
      /\ \A i \in DOMAIN t.jobs \ {id} : jobs[i] = t.jobs[i]
  OBVIOUS
<1> HIDE DEF jobs
<1>3. u = [jobs |-> jobs, current |-> t.current, previous |-> t.previous,
           pid_to_job |-> t.pid_to_job, waited_pids |-> w,
           completion_order |-> order,
           next_completion_order |-> n, pushes |-> t.pushes]
  BY DEF Rebuilt, jobs
<1>4. IsJobTable(u, Pid, Command)
  <2>1. \A i \in DOMAIN jobs : jobs[i] \in Job(Pid, Command)
    BY <1>1 DEF Shape, IsJobTable
  <2>2. /\ IsFiniteSet(DOMAIN jobs) /\ DOMAIN jobs \subseteq Nat \ {NoJob}
        /\ t.current \in Nat /\ t.previous \in Nat
        /\ DOMAIN t.pid_to_job \subseteq Pid /\ t.pushes \in Nat
    BY <1>1 DEF Shape, IsJobTable
  <2>3. /\ u.jobs = jobs /\ u.current = t.current /\ u.previous = t.previous
        /\ u.pid_to_job = t.pid_to_job /\ u.waited_pids = w /\ u.completion_order = order
        /\ u.next_completion_order = n /\ u.pushes = t.pushes
    BY <1>3
  <2> QED
    BY <1>1, <1>3, <2>1, <2>2, <2>3 DEF IsJobTable
<1>5. \A i \in DOMAIN t.jobs : u.jobs[i].at = t.jobs[i].at /\ Pids(u.jobs[i]) = Pids(t.jobs[i])
  BY <1>1, <1>3
<1>6. PushesDistinct(u) /\ PidIndex(u) /\ Markers(u)
  BY <1>1, <1>3, <1>4, <1>5, UpdateKeepsShape
<1> QED
  BY <1>3, <1>4, <1>6 DEF Shape, jobs

(* The assignment to one job of the table. *)
LEMMA SetJobShape ==
  ASSUME NEW Pid, NEW Command, NEW t, Shape(t, Pid, Command),
         NEW id \in DOMAIN t.jobs, NEW job \in Job(Pid, Command),
         job.at = t.jobs[id].at, Pids(job) = Pids(t.jobs[id])
  PROVE  /\ Shape(SetJob(t, id, job), Pid, Command)
         /\ SetJob(t, id, job).jobs = [t.jobs EXCEPT ![id] = job]
         /\ SetJob(t, id, job).current = t.current
         /\ SetJob(t, id, job).previous = t.previous
         /\ SetJob(t, id, job).completion_order = t.completion_order
         /\ SetJob(t, id, job).next_completion_order = t.next_completion_order
         /\ SetJob(t, id, job).waited_pids = t.waited_pids
<1> DEFINE u == SetJob(t, id, job)
<1>1. u = Rebuilt(t, [t.jobs EXCEPT ![id] = job], t.waited_pids,
                  t.completion_order, t.next_completion_order)
  BY DEF SetJob, Rebuilt, Shape, IsJobTable
<1>2. t.next_completion_order \in Nat /\ t.waited_pids \subseteq Pid
  BY DEF Shape, IsJobTable
<1> HIDE DEF u
<1>3. /\ Shape(u, Pid, Command)
      /\ u.jobs = [t.jobs EXCEPT ![id] = job]
      /\ u.current = t.current /\ u.previous = t.previous
      /\ u.completion_order = t.completion_order
      /\ u.next_completion_order = t.next_completion_order
      /\ u.waited_pids = t.waited_pids
  BY <1>1, <1>2, ReplaceJobShape
<1> QED
  BY <1>3 DEF u

(* mark_pid_waited adds a waited pid, and flags the job all of whose pids  *)
(* are waited for then.                                                    *)
LEMMA MarkPidWaitedFields ==
  ASSUME NEW Pid, NEW Command, NEW t, Shape(t, Pid, Command), NEW pid \in Pid
  PROVE  LET u == mark_pid_waited(t, pid)
         IN  /\ Shape(u, Pid, Command)
             /\ DOMAIN u.jobs = DOMAIN t.jobs
             /\ u.waited_pids = t.waited_pids \cup {pid}
             /\ \A i \in DOMAIN t.jobs :
                  /\ u.jobs[i].state = t.jobs[i].state
                  /\ u.jobs[i].processes = t.jobs[i].processes
                  /\ u.jobs[i].at = t.jobs[i].at
                  /\ u.jobs[i].exit_status = t.jobs[i].exit_status
                  /\ u.jobs[i].waited_for =>
                       t.jobs[i].waited_for \/ Pids(t.jobs[i]) \subseteq u.waited_pids
             /\ u.current = t.current /\ u.previous = t.previous
             /\ u.completion_order = t.completion_order
             /\ u.next_completion_order = t.next_completion_order
<1> DEFINE id == t.pid_to_job[pid]
           w == t.waited_pids \cup {pid}
           wt == [t EXCEPT !.waited_pids = w]
           job == [t.jobs[id] EXCEPT !.waited_for = TRUE]
<1>1. w \subseteq Pid
  BY DEF Shape, IsJobTable
<1>2. wt = [jobs |-> t.jobs, current |-> t.current, previous |-> t.previous,
            pid_to_job |-> t.pid_to_job, waited_pids |-> w,
            completion_order |-> t.completion_order,
            next_completion_order |-> t.next_completion_order, pushes |-> t.pushes]
  BY DEF Shape, IsJobTable
<1>3. /\ Shape(wt, Pid, Command) /\ wt.jobs = t.jobs /\ wt.waited_pids = w
      /\ wt.current = t.current /\ wt.previous = t.previous
      /\ wt.completion_order = t.completion_order
      /\ wt.next_completion_order = t.next_completion_order
  <2> HIDE DEF wt, w
  <2>1. IsJobTable(wt, Pid, Command)
    BY <1>1, <1>2 DEF Shape, IsJobTable
  <2>2. PushesDistinct(wt) /\ PidIndex(wt) /\ Markers(wt)
    BY <1>2 DEF Shape, PushesDistinct, PidIndex, Markers
  <2> QED
    BY <1>2, <2>1, <2>2 DEF Shape
<1>4. mark_pid_waited(t, pid) =
        IF pid \in DOMAIN t.pid_to_job /\ Pids(t.jobs[id]) \subseteq wt.waited_pids
          THEN SetJob(wt, id, job) ELSE wt
  BY DEF mark_pid_waited
<1>5. ASSUME pid \in DOMAIN t.pid_to_job
      PROVE  LET s == SetJob(wt, id, job)
             IN  /\ Shape(s, Pid, Command) /\ s.waited_pids = w
                 /\ id \in DOMAIN t.jobs /\ s.jobs = [t.jobs EXCEPT ![id] = job]
                 /\ job.state = t.jobs[id].state /\ job.processes = t.jobs[id].processes
                 /\ job.at = t.jobs[id].at /\ job.exit_status = t.jobs[id].exit_status
                 /\ s.current = t.current /\ s.previous = t.previous
                 /\ s.completion_order = t.completion_order
                 /\ s.next_completion_order = t.next_completion_order
  <2>1. id \in DOMAIN t.jobs /\ t.jobs[id] \in Job(Pid, Command)
    BY <1>5 DEF Shape, PidIndex, IsJobTable
  <2>2. /\ job \in Job(Pid, Command) /\ job.at = t.jobs[id].at
        /\ job.processes = t.jobs[id].processes /\ job.state = t.jobs[id].state
        /\ job.exit_status = t.jobs[id].exit_status
    BY Zenon, <2>1 DEF Job
  <2>3. Pids(job) = Pids(t.jobs[id])
    BY <2>2 DEF Pids
  <2> HIDE DEF wt, job, id, w
  <2> QED
    BY <1>3, <2>1, <2>2, <2>3, SetJobShape
<1> HIDE DEF wt, job, id
<1>6. CASE pid \in DOMAIN t.pid_to_job /\ Pids(t.jobs[id]) \subseteq wt.waited_pids
  <2> DEFINE s == SetJob(wt, id, job)
  <2>1. mark_pid_waited(t, pid) = s
    BY <1>4, <1>6
  <2>2. /\ Shape(s, Pid, Command) /\ s.waited_pids = w
        /\ id \in DOMAIN t.jobs /\ s.jobs = [t.jobs EXCEPT ![id] = job]
        /\ job.state = t.jobs[id].state /\ job.processes = t.jobs[id].processes
        /\ job.at = t.jobs[id].at /\ job.exit_status = t.jobs[id].exit_status
        /\ s.current = t.current /\ s.previous = t.previous
        /\ s.completion_order = t.completion_order
        /\ s.next_completion_order = t.next_completion_order
    BY <1>5, <1>6
  <2>3. Pids(t.jobs[id]) \subseteq s.waited_pids
    BY SMTT(30), <1>3, <1>6, <2>2
  <2> HIDE DEF s
  <2> QED
    BY <2>1, <2>2, <2>3
<1>7. CASE ~(pid \in DOMAIN t.pid_to_job /\ Pids(t.jobs[id]) \subseteq wt.waited_pids)
  BY <1>3, <1>4, <1>7
<1> QED
  BY <1>6, <1>7

LEMMA MarkPidWaitedShape ==
  ASSUME NEW Pid, NEW Command, NEW t, Shape(t, Pid, Command), NEW pid \in Pid
  PROVE  Shape(mark_pid_waited(t, pid), Pid, Command)
BY MarkPidWaitedFields

(* A job whose last process died takes a status of the right type. *)
LEMMA FinishedJob ==
  ASSUME NEW Pid, NEW Command, NEW job \in Job(Pid, Command)
  PROVE  /\ Finished(job) \in Job(Pid, Command)
         /\ Finished(job).at = job.at /\ Finished(job).processes = job.processes
         /\ Finished(job).state = "Done" /\ Finished(job).waited_for = job.waited_for
<1>1. job.processes \in Seq(Process(Pid)) /\ job.processes # <<>>
  BY DEF Job
<1>2. LastProcess(job) \in Process(Pid)
  BY <1>1 DEF LastProcess
<1>3. decode_status(LastProcess(job).status_raw) \in Int
  <2> DEFINE raw == LastProcess(job).status_raw
  <2>1. raw.arg \in Nat
    BY <1>2 DEF Process, RawStatus
  <2> HIDE DEF raw
  <2>2. decode_status(raw) \in Int
    BY <2>1 DEF decode_status
  <2> QED
    BY <2>2 DEF raw
<1> QED
  BY Zenon, <1>3 DEF Finished, Job, JobState

(* Completing a job sets it Done and numbers it with the next number. *)
LEMMA CompleteShape ==
  ASSUME NEW Pid, NEW Command, NEW t, Shape(t, Pid, Command),
         NEW id \in DOMAIN t.jobs, NEW job \in Job(Pid, Command),
         job.at = t.jobs[id].at, Pids(job) = Pids(t.jobs[id])
  PROVE  /\ Shape(Complete(t, id, job), Pid, Command)
         /\ Complete(t, id, job).jobs = [t.jobs EXCEPT ![id] = Finished(job)]
         /\ Complete(t, id, job).current = t.current
         /\ Complete(t, id, job).previous = t.previous
         /\ Complete(t, id, job).completion_order =
              Insert(t.completion_order, {id}, t.next_completion_order)
         /\ Complete(t, id, job).next_completion_order = t.next_completion_order + 1
         /\ Complete(t, id, job).waited_pids = t.waited_pids
<1> DEFINE fin == Finished(job)
           order == Insert(t.completion_order, {id}, t.next_completion_order)
           n == t.next_completion_order + 1
           s == SetJob(t, id, fin)
           u == Complete(t, id, job)
<1>1. fin \in Job(Pid, Command) /\ fin.at = t.jobs[id].at /\ Pids(fin) = Pids(t.jobs[id])
  <2>1. fin \in Job(Pid, Command) /\ fin.at = job.at /\ fin.processes = job.processes
    BY FinishedJob
  <2> HIDE DEF fin
  <2>2. Pids(fin) = Pids(job)
    BY <2>1 DEF Pids
  <2> QED
    BY <2>1, <2>2
<1>2. s = [jobs |-> [t.jobs EXCEPT ![id] = fin],
           current |-> t.current, previous |-> t.previous,
           pid_to_job |-> t.pid_to_job, waited_pids |-> t.waited_pids,
           completion_order |-> t.completion_order,
           next_completion_order |-> t.next_completion_order, pushes |-> t.pushes]
  <2> HIDE DEF fin
  <2> QED
    BY DEF SetJob, Shape, IsJobTable
<1>3. u = [s EXCEPT !.completion_order = Insert(s.completion_order, {id}, t.next_completion_order),
                    !.next_completion_order = s.next_completion_order + 1]
  BY DEF Complete
<1> HIDE DEF s, u, fin
<1>4. s.completion_order = t.completion_order /\ s.next_completion_order = t.next_completion_order
  BY <1>2
<1>5. u = [s EXCEPT !.completion_order = order,
                    !.next_completion_order = t.next_completion_order + 1]
  BY <1>3, <1>4
<1> HIDE DEF order
<1>6. u = [jobs |-> [t.jobs EXCEPT ![id] = fin],
           current |-> t.current, previous |-> t.previous,
           pid_to_job |-> t.pid_to_job, waited_pids |-> t.waited_pids,
           completion_order |-> order,
           next_completion_order |-> t.next_completion_order + 1, pushes |-> t.pushes]
  BY Zenon, <1>2, <1>5
<1>7. n \in Nat /\ t.waited_pids \subseteq Pid
  BY DEF Shape, IsJobTable
<1> HIDE DEF n
<1>8. u = Rebuilt(t, [t.jobs EXCEPT ![id] = fin], t.waited_pids, order, n)
  BY <1>6 DEF n, Rebuilt
<1>9. /\ Shape(u, Pid, Command)
      /\ u.jobs = [t.jobs EXCEPT ![id] = fin]
      /\ u.current = t.current /\ u.previous = t.previous
      /\ u.completion_order = order
      /\ u.next_completion_order = n /\ u.waited_pids = t.waited_pids
  BY <1>1, <1>7, <1>8, ReplaceJobShape
<1> QED
  BY <1>9 DEF u, fin, order, n

(* mark_dead keeps the shape; it resets the markers when a marked job      *)
(* completes.                                                              *)
LEMMA MarkDeadShape ==
  ASSUME NEW Pid, NEW Command, NEW t, Shape(t, Pid, Command),
         NEW pid, NEW raw \in RawStatus
  PROVE  Shape(mark_dead(t, pid, raw), Pid, Command)
<1> DEFINE id == t.pid_to_job[pid]
           job == WithProcess(t.jobs[id], pid, "Done", raw)
           d == Complete(t, id, job)
<1>1. CASE pid \notin DOMAIN t.pid_to_job
  BY <1>1 DEF mark_dead
<1>2. CASE pid \in DOMAIN t.pid_to_job
  <2>1. id \in DOMAIN t.jobs /\ t.jobs[id] \in Job(Pid, Command)
    BY <1>2 DEF Shape, PidIndex, IsJobTable
  <2>2. job \in Job(Pid, Command) /\ job.at = t.jobs[id].at /\ Pids(job) = Pids(t.jobs[id])
    <3>1. "Done" \in JobState
      BY DEF JobState
    <3> HIDE DEF id
    <3> QED
      BY <2>1, <3>1, WithProcessJob
  <2>3. mark_dead(t, pid, raw) =
          IF ~Completes(job) THEN SetJob(t, id, job)
          ELSE IF Marked(t, id) THEN reset_current_previous(d)
          ELSE d
    BY <1>2 DEF mark_dead
  <2> HIDE DEF job, id
  <2>4. Shape(SetJob(t, id, job), Pid, Command)
    BY Zenon, <2>1, <2>2, SetJobShape
  <2>5. Shape(d, Pid, Command)
    BY Zenon, <2>1, <2>2, CompleteShape
  <2> HIDE DEF d
  <2>6. Shape(reset_current_previous(d), Pid, Command)
    BY <2>5, ResetShape DEF Shape
  <2> QED
    BY <2>3, <2>4, <2>5, <2>6
<1> QED
  BY <1>1, <1>2

(* mark_stopped stops the job and makes it current. *)
LEMMA MarkStoppedFields ==
  ASSUME NEW Pid, NEW Command, NEW t, Shape(t, Pid, Command),
         NEW pid \in DOMAIN t.pid_to_job, NEW sig \in Nat
  PROVE  LET id == t.pid_to_job[pid]
             u == mark_stopped(t, pid, sig)
         IN  /\ Shape(u, Pid, Command)
             /\ u.jobs = [t.jobs EXCEPT ![id] = StoppedJob(t.jobs[id], pid, sig)]
             /\ u.current = id
             /\ u.previous = IF t.current # id THEN t.current ELSE t.previous
             /\ u.completion_order = t.completion_order
             /\ u.next_completion_order = t.next_completion_order
             /\ u.waited_pids = t.waited_pids
<1> DEFINE id == t.pid_to_job[pid]
           old == t.jobs[id]
           job == StoppedJob(old, pid, sig)
           s == SetJob(t, id, job)
           u == mark_stopped(t, pid, sig)
           prev == IF t.current # id THEN t.current ELSE t.previous
<1>1. id \in DOMAIN t.jobs /\ old \in Job(Pid, Command) /\ id \in Nat \ {NoJob}
  BY DEF Shape, PidIndex, IsJobTable
<1>2. "Stopped" \in JobState /\ StoppedBy(sig) \in RawStatus
  BY DEF JobState, RawStatus, StoppedBy
<1>3. job \in Job(Pid, Command) /\ job.at = old.at /\ Pids(job) = Pids(old)
  <2> DEFINE wp == WithProcess(old, pid, "Stopped", StoppedBy(sig))
  <2> HIDE DEF old
  <2>1. wp \in Job(Pid, Command) /\ wp.at = old.at /\ Pids(wp) = Pids(old)
    BY <1>1, <1>2, WithProcessJob
  <2>2. job = [wp EXCEPT !.state = "Stopped"]
    BY DEF StoppedJob
  <2> HIDE DEF wp, job
  <2>3. job \in Job(Pid, Command) /\ job.at = wp.at /\ job.processes = wp.processes
    BY <1>2, <2>1, <2>2 DEF Job
  <2>4. Pids(job) = Pids(wp)
    BY <2>3 DEF Pids
  <2> QED
    BY <2>1, <2>3, <2>4
<1>4. u = [s EXCEPT !.previous = IF t.current # id THEN t.current ELSE s.previous,
                    !.current = id]
  BY DEF mark_stopped
<1> HIDE DEF job, id
<1>5. /\ Shape(s, Pid, Command) /\ s.jobs = [t.jobs EXCEPT ![id] = job]
      /\ s.current = t.current /\ s.previous = t.previous
      /\ s.completion_order = t.completion_order
      /\ s.next_completion_order = t.next_completion_order
      /\ s.waited_pids = t.waited_pids
  BY <1>1, <1>3, SetJobShape DEF old
<1> HIDE DEF s, u, prev, old
<1>6. u = [s EXCEPT !.previous = prev, !.current = id]
  BY <1>4, <1>5 DEF prev
<1>7. u = [jobs |-> s.jobs, current |-> id, previous |-> prev,
           pid_to_job |-> s.pid_to_job, waited_pids |-> s.waited_pids,
           completion_order |-> s.completion_order,
           next_completion_order |-> s.next_completion_order, pushes |-> s.pushes]
  BY Zenon, <1>5, <1>6 DEF Shape, IsJobTable
<1>8. id \in DOMAIN s.jobs
  BY <1>1, <1>5
<1>9. prev \in Nat /\ (prev # NoJob => prev \in DOMAIN s.jobs /\ prev # id)
  <2>1. /\ s.current \in Nat /\ s.previous \in Nat /\ Markers(s)
    BY <1>5 DEF Shape, IsJobTable
  <2> QED
    BY <1>5, <2>1 DEF Markers, prev
<1>10. IsJobTable(u, Pid, Command)
  BY <1>1, <1>5, <1>7, <1>9 DEF Shape, IsJobTable
<1>11. PushesDistinct(u) /\ PidIndex(u)
  BY <1>5, <1>7 DEF Shape, PushesDistinct, PidIndex
<1>12. Markers(u)
  BY <1>1, <1>7, <1>8, <1>9 DEF Markers
<1>13. Shape(u, Pid, Command)
  BY <1>10, <1>11, <1>12 DEF Shape
<1> QED
  BY <1>5, <1>7, <1>13 DEF u, id, job, prev, old

LEMMA MarkStoppedShape ==
  ASSUME NEW Pid, NEW Command, NEW t, Shape(t, Pid, Command), NEW pid, NEW sig \in Nat
  PROVE  Shape(mark_stopped(t, pid, sig), Pid, Command)
<1>1. CASE pid \in DOMAIN t.pid_to_job
  BY Zenon, <1>1, MarkStoppedFields
<1>2. CASE pid \notin DOMAIN t.pid_to_job
  BY <1>2 DEF mark_stopped
<1> QED
  BY <1>1, <1>2

(* The job mark_job_running leaves under its id. *)
Resumed(job) ==
  IF AnyRunning(Continued(job))
    THEN [Continued(job) EXCEPT !.state = "Running", !.notified = FALSE]
    ELSE Continued(job)

LEMMA ResumedJob ==
  ASSUME NEW Pid, NEW Command, NEW job \in Job(Pid, Command)
  PROVE  /\ Resumed(job) \in Job(Pid, Command)
         /\ Resumed(job).at = job.at /\ Pids(Resumed(job)) = Pids(job)
         /\ Resumed(job).exit_status = job.exit_status
         /\ Resumed(job).waited_for = job.waited_for
         /\ Resumed(job).processes = Continued(job).processes
         /\ Resumed(job).state = IF AnyRunning(Continued(job)) THEN "Running" ELSE job.state
<1> DEFINE c == Continued(job)
           r == [c EXCEPT !.state = "Running", !.notified = FALSE]
<1>1. /\ c \in Job(Pid, Command) /\ c.at = job.at /\ Pids(c) = Pids(job)
      /\ c.state = job.state /\ c.exit_status = job.exit_status
      /\ c.waited_for = job.waited_for
  BY ContinuedJob
<1>2. Resumed(job) = IF AnyRunning(c) THEN r ELSE c
  BY DEF Resumed
<1> HIDE DEF c
<1>3. /\ r \in Job(Pid, Command) /\ r.at = c.at /\ r.processes = c.processes
      /\ r.state = "Running" /\ r.exit_status = c.exit_status
      /\ r.waited_for = c.waited_for
  BY Zenon, <1>1 DEF Job, JobState
<1> HIDE DEF r
<1>4. Pids(r) = Pids(c)
  BY <1>3 DEF Pids
<1>5. CASE AnyRunning(c)
  BY <1>1, <1>2, <1>3, <1>4, <1>5 DEF c
<1>6. CASE ~AnyRunning(c)
  BY <1>1, <1>2, <1>6 DEF c
<1> QED
  BY <1>5, <1>6

LEMMA MarkJobRunningFields ==
  ASSUME NEW Pid, NEW Command, NEW t, Shape(t, Pid, Command), NEW id \in DOMAIN t.jobs
  PROVE  /\ Shape(mark_job_running(t, id), Pid, Command)
         /\ mark_job_running(t, id).jobs = [t.jobs EXCEPT ![id] = Resumed(t.jobs[id])]
         /\ mark_job_running(t, id).current = t.current
         /\ mark_job_running(t, id).previous = t.previous
         /\ mark_job_running(t, id).completion_order = t.completion_order
         /\ mark_job_running(t, id).next_completion_order = t.next_completion_order
         /\ mark_job_running(t, id).waited_pids = t.waited_pids
<1> DEFINE job == Resumed(t.jobs[id])
<1>1. t.jobs[id] \in Job(Pid, Command)
  BY DEF Shape, IsJobTable
<1>2. job \in Job(Pid, Command) /\ job.at = t.jobs[id].at /\ Pids(job) = Pids(t.jobs[id])
  BY <1>1, ResumedJob
<1>3. mark_job_running(t, id) = SetJob(t, id, job)
  BY DEF mark_job_running, Resumed
<1> HIDE DEF job
<1>4. /\ Shape(SetJob(t, id, job), Pid, Command)
      /\ SetJob(t, id, job).jobs = [t.jobs EXCEPT ![id] = job]
      /\ SetJob(t, id, job).current = t.current
      /\ SetJob(t, id, job).previous = t.previous
      /\ SetJob(t, id, job).completion_order = t.completion_order
      /\ SetJob(t, id, job).next_completion_order = t.next_completion_order
      /\ SetJob(t, id, job).waited_pids = t.waited_pids
  BY <1>2, SetJobShape
<1> QED
  BY <1>3, <1>4 DEF job

LEMMA MarkJobRunningShape ==
  ASSUME NEW Pid, NEW Command, NEW t, Shape(t, Pid, Command), NEW id
  PROVE  Shape(mark_job_running(t, id), Pid, Command)
<1>1. CASE id \in DOMAIN t.jobs
  BY Zenon, <1>1, MarkJobRunningFields
<1>2. CASE id \notin DOMAIN t.jobs
  BY <1>2 DEF mark_job_running
<1> QED
  BY <1>1, <1>2

LEMMA MarkRunningShape ==
  ASSUME NEW Pid, NEW Command, NEW t, Shape(t, Pid, Command), NEW pid
  PROVE  Shape(mark_running(t, pid), Pid, Command)
BY MarkJobRunningShape DEF mark_running

(* pending_notifications sets notified flags and nothing else. *)
LEMMA PendingNotificationsFields ==
  ASSUME NEW Pid, NEW Command, NEW t, Shape(t, Pid, Command)
  PROVE  LET u == pending_notifications(t)
         IN  /\ Shape(u, Pid, Command)
             /\ DOMAIN u.jobs = DOMAIN t.jobs
             /\ \A i \in DOMAIN t.jobs :
                  /\ u.jobs[i].state = t.jobs[i].state
                  /\ u.jobs[i].processes = t.jobs[i].processes
                  /\ u.jobs[i].at = t.jobs[i].at
                  /\ u.jobs[i].exit_status = t.jobs[i].exit_status
                  /\ u.jobs[i].waited_for = t.jobs[i].waited_for
             /\ u.current = t.current /\ u.previous = t.previous
             /\ u.completion_order = t.completion_order
             /\ u.next_completion_order = t.next_completion_order
             /\ u.waited_pids = t.waited_pids
<1> DEFINE jobs == [i \in DOMAIN t.jobs |->
                      IF i \in ToNotify(t) THEN [t.jobs[i] EXCEPT !.notified = TRUE] ELSE t.jobs[i]]
           u == pending_notifications(t)
<1>1. \A i \in DOMAIN t.jobs : t.jobs[i] \in Job(Pid, Command)
  BY DEF Shape, IsJobTable
<1>2. \A i \in DOMAIN t.jobs :
        /\ jobs[i] \in Job(Pid, Command)
        /\ jobs[i].at = t.jobs[i].at /\ jobs[i].state = t.jobs[i].state
        /\ jobs[i].processes = t.jobs[i].processes
        /\ jobs[i].exit_status = t.jobs[i].exit_status
        /\ jobs[i].waited_for = t.jobs[i].waited_for
  BY Zenon, <1>1 DEF Job
<1>3. DOMAIN jobs = DOMAIN t.jobs /\ jobs = [i \in DOMAIN jobs |-> jobs[i]]
  OBVIOUS
<1>4. u = [t EXCEPT !.jobs = jobs]
  BY DEF pending_notifications
<1> HIDE DEF jobs, u
<1>5. u = Rebuilt(t, jobs, t.waited_pids, t.completion_order, t.next_completion_order)
  BY <1>4 DEF Rebuilt, Shape, IsJobTable
<1>6. /\ u.jobs = jobs /\ u.current = t.current /\ u.previous = t.previous
      /\ u.pid_to_job = t.pid_to_job /\ u.waited_pids = t.waited_pids
      /\ u.completion_order = t.completion_order
      /\ u.next_completion_order = t.next_completion_order /\ u.pushes = t.pushes
  BY <1>5 DEF Rebuilt
<1>7. IsJobTable(u, Pid, Command)
  BY <1>2, <1>3, <1>5, <1>6 DEF Shape, IsJobTable, Rebuilt
<1>8. \A i \in DOMAIN t.jobs : u.jobs[i].at = t.jobs[i].at /\ Pids(u.jobs[i]) = Pids(t.jobs[i])
  BY <1>2, <1>6 DEF Pids
<1>9. PushesDistinct(u) /\ PidIndex(u) /\ Markers(u)
  BY <1>3, <1>6, <1>7, <1>8, UpdateKeepsShape
<1>10. Shape(u, Pid, Command)
  BY SMTT(30), <1>7, <1>9 DEF Shape
<1> QED
  BY <1>2, <1>3, <1>6, <1>10 DEF u

-----------------------------------------------------------------------------
(* What is recorded of a job in several places agrees.  Unlike the shape   *)
(* this depends on the states of the jobs: a call about a process whose    *)
(* death is already recorded would break it.                               *)

WaitedFor(t) ==
  \A i \in DOMAIN t.jobs : t.jobs[i].waited_for => Pids(t.jobs[i]) \subseteq t.waited_pids

Records(t) ==
  /\ \A i \in DOMAIN t.jobs : StateOfProcesses(t.jobs[i])
  /\ CompletionNumbers(t)
  /\ WaitedFor(t)

(* The jobs that are in both tables are the same, and the finished ones    *)
(* have kept their status.                                                 *)
Kept(t, u) ==
  \A i \in DOMAIN t.jobs \cap DOMAIN u.jobs :
    /\ u.jobs[i].at = t.jobs[i].at /\ Pids(u.jobs[i]) = Pids(t.jobs[i])
    /\ t.jobs[i].state = "Done" =>
         u.jobs[i].state = "Done" /\ u.jobs[i].exit_status = t.jobs[i].exit_status

(* pid has a process in t that is not Done. *)
NotReaped(t, pid) ==
  \A i \in DOMAIN t.jobs : \A k \in DOMAIN t.jobs[i].processes :
    t.jobs[i].processes[k].pid = pid => t.jobs[i].processes[k].state # "Done"

(* The job of a process that is not Done is not Done. *)
LEMMA IndexedIsLive ==
  ASSUME NEW Pid, NEW Command, NEW t, Shape(t, Pid, Command), Records(t),
         NEW pid \in DOMAIN t.pid_to_job, NotReaped(t, pid)
  PROVE  LET job == t.jobs[t.pid_to_job[pid]]
         IN  /\ t.pid_to_job[pid] \in DOMAIN t.jobs /\ job \in Job(Pid, Command)
             /\ \E k \in DOMAIN job.processes : job.processes[k].pid = pid
             /\ job.state # "Done"
<1> DEFINE id == t.pid_to_job[pid]
           job == t.jobs[id]
<1>1. id \in DOMAIN t.jobs /\ pid \in Pids(job) /\ job \in Job(Pid, Command)
  BY SMTT(30) DEF Shape, PidIndex, IsJobTable
<1>2. PICK k \in DOMAIN job.processes : job.processes[k].pid = pid
  BY SMTT(30), <1>1 DEF Pids
<1>3. job.processes[k].state # "Done"
  BY SMTT(30), <1>1, <1>2 DEF NotReaped
<1>4. ~AllDone(job)
  BY <1>3 DEF AllDone
<1> QED
  BY <1>1, <1>2, <1>4 DEF Records, StateOfProcesses

(* Replacing a job by one that is Done exactly when it was keeps the       *)
(* records and the live jobs.                                              *)
LEMMA ReplaceRecords ==
  ASSUME NEW t, Records(t), NEW id \in DOMAIN t.jobs, NEW job,
         StateOfProcesses(job), (job.state = "Done") <=> (t.jobs[id].state = "Done"),
         job.at = t.jobs[id].at, Pids(job) = Pids(t.jobs[id]),
         job.waited_for = t.jobs[id].waited_for,
         t.jobs[id].state = "Done" => job.exit_status = t.jobs[id].exit_status,
         NEW u, u.jobs = [t.jobs EXCEPT ![id] = job], u.waited_pids = t.waited_pids,
         u.completion_order = t.completion_order,
         u.next_completion_order = t.next_completion_order
  PROVE  Records(u) /\ Kept(t, u) /\ Live(u) = Live(t)
<1>1. /\ DOMAIN u.jobs = DOMAIN t.jobs /\ u.jobs[id] = job
      /\ \A i \in DOMAIN t.jobs \ {id} : u.jobs[i] = t.jobs[i]
  OBVIOUS
<1>2. \A i \in DOMAIN u.jobs : StateOfProcesses(u.jobs[i])
  BY <1>1 DEF Records
<1>3. \A i \in DOMAIN t.jobs : (u.jobs[i].state = "Done") <=> (t.jobs[i].state = "Done")
  BY <1>1
<1>4. CompletionNumbers(u)
  BY <1>1, <1>3 DEF Records, CompletionNumbers
<1>5. WaitedFor(u)
  BY <1>1 DEF Records, WaitedFor
<1>6. Live(u) = Live(t)
  BY <1>1, <1>3 DEF Live
<1>7. Kept(t, u)
  BY <1>1 DEF Kept
<1> QED
  BY SMTT(30), <1>2, <1>4, <1>5, <1>6, <1>7 DEF Records

(* The records and the identity of jobs do not depend on the markers. *)
LEMMA ResetRecords ==
  ASSUME NEW Pid, NEW Command, NEW t, Records(t),
         IsJobTable(t, Pid, Command), PushesDistinct(t), PidIndex(t)
  PROVE  /\ Records(reset_current_previous(t)) /\ LiveMarked(reset_current_previous(t))
         /\ reset_current_previous(t).jobs = t.jobs
<1> DEFINE r == reset_current_previous(t)
<1>1. r = [t EXCEPT !.current = r.current, !.previous = r.previous] /\ LiveMarked(r)
  BY Zenon, ResetMarkers
<1> HIDE DEF r
<1>2. /\ r.jobs = t.jobs /\ r.waited_pids = t.waited_pids
      /\ r.completion_order = t.completion_order
      /\ r.next_completion_order = t.next_completion_order
  BY Zenon, <1>1 DEF IsJobTable
<1>3. Records(r)
  BY <1>2 DEF Records, CompletionNumbers, WaitedFor
<1> QED
  BY SMTT(30), <1>1, <1>2, <1>3 DEF r

(* Forgetting jobs keeps the records of the others: no pid of theirs loses *)
(* its waited mark, no completion number of theirs is dropped.             *)
LEMMA ForgetRecords ==
  ASSUME NEW Pid, NEW Command, NEW t, Shape(t, Pid, Command), Records(t),
         NEW ids, ids \subseteq DOMAIN t.jobs
  PROVE  LET u == reset_current_previous(Forget(t, ids))
         IN  Records(u) /\ LiveMarked(u) /\ Kept(t, u)
<1> DEFINE f == Forget(t, ids)
           u == reset_current_previous(f)
<1>1. /\ IsJobTable(f, Pid, Command) /\ PushesDistinct(f) /\ PidIndex(f)
      /\ DOMAIN f.jobs = DOMAIN t.jobs \ ids
      /\ \A i \in DOMAIN f.jobs : f.jobs[i] = t.jobs[i]
      /\ \A p : p \in f.waited_pids <=>
                 p \in t.waited_pids /\ \A i \in ids : p \notin Pids(t.jobs[i])
      /\ f.completion_order = Without(t.completion_order, ids)
      /\ f.next_completion_order = t.next_completion_order
  BY ForgetShape
<1> HIDE DEF f
<1>2. /\ DOMAIN f.completion_order = DOMAIN t.completion_order \ ids
      /\ \A i \in DOMAIN f.completion_order : f.completion_order[i] = t.completion_order[i]
  BY SMTT(30), <1>1 DEF Without
<1>3. CompletionNumbers(f)
  BY SMTT(30), <1>1, <1>2 DEF Records, CompletionNumbers
<1>4. \A i, j \in DOMAIN t.jobs : i # j => Pids(t.jobs[i]) \cap Pids(t.jobs[j]) = {}
  BY DEF Shape, PidIndex
<1>5. WaitedFor(f)
  BY SMTT(30), <1>1, <1>4 DEF Records, WaitedFor
<1>6. Records(f)
  BY SMTT(30), <1>1, <1>3, <1>5 DEF Records
<1>7. Records(u) /\ LiveMarked(u) /\ u.jobs = f.jobs
  BY SMTT(30), <1>1, <1>6, ResetRecords
<1> HIDE DEF u
<1>8. Kept(t, u)
  BY <1>1, <1>7 DEF Kept
<1> QED
  BY <1>7, <1>8 DEF u, f

LEMMA RemoveRecords ==
  ASSUME NEW Pid, NEW Command, NEW t, Shape(t, Pid, Command), Records(t), NEW id
  PROVE  Records(remove(t, id)) /\ LiveMarked(remove(t, id)) /\ Kept(t, remove(t, id))
BY ForgetRecords DEF remove

LEMMA PurgeDoneRecords ==
  ASSUME NEW Pid, NEW Command, NEW t, Shape(t, Pid, Command), Records(t), LiveMarked(t)
  PROVE  Records(purge_done(t)) /\ LiveMarked(purge_done(t)) /\ Kept(t, purge_done(t))
<1>1. Kept(t, t)
  BY DEF Kept
<1>2. Purgeable(t) \subseteq DOMAIN t.jobs
  BY SMTT(30) DEF Purgeable
<1> QED
  BY <1>1, <1>2, ForgetRecords DEF purge_done

(* A new job is Running, unnumbered and not waited for; the waited marks   *)
(* its pids may have had belong to no other job.                           *)
LEMMA AddRecords ==
  ASSUME NEW Pid, NEW Command, NEW t, Shape(t, Pid, Command), Records(t), LiveMarked(t),
         NEW pgid \in Pid, NEW c \in Command, NEW jc \in BOOLEAN,
         NEW procs \in Seq(Process(Pid)), procs # <<>>,
         \A k \in DOMAIN procs : procs[k].pid \notin DOMAIN t.pid_to_job,
         \A k \in DOMAIN procs : procs[k].state = "Running"
  PROVE  LET u == add(t, pgid, c, jc, procs)
         IN  Records(u) /\ LiveMarked(u) /\ Kept(t, u)
<1> DEFINE id == allocate_id(t)
           u == add(t, pgid, c, jc, procs)
<1>1. /\ id \notin DOMAIN t.jobs /\ DOMAIN u.jobs = DOMAIN t.jobs \cup {id}
      /\ \A i \in DOMAIN t.jobs : u.jobs[i] = t.jobs[i]
      /\ u.jobs[id].state = "Running" /\ u.jobs[id].processes = procs
      /\ ~u.jobs[id].waited_for
      /\ u.current = id /\ u.previous = t.current
      /\ u.waited_pids = t.waited_pids \ {procs[k].pid : k \in DOMAIN procs}
      /\ u.completion_order = t.completion_order
      /\ u.next_completion_order = t.next_completion_order
  BY SMTT(30), AddFields
<1> HIDE DEF id, u
<1>2. StateOfProcesses(u.jobs[id])
  <2>1. 1 \in DOMAIN procs
    OBVIOUS
  <2> QED
    BY SMTT(30), <1>1, <2>1 DEF StateOfProcesses, AllDone
<1>3. \A i \in DOMAIN u.jobs : StateOfProcesses(u.jobs[i])
  BY SMTT(30), <1>1, <1>2 DEF Records
<1>4. CompletionNumbers(u)
  BY <1>1 DEF Records, CompletionNumbers
<1>5. WaitedFor(u)
  <2> SUFFICES ASSUME NEW i \in DOMAIN t.jobs, t.jobs[i].waited_for, NEW p \in Pids(t.jobs[i])
               PROVE  p \in u.waited_pids
    BY SMTT(30), <1>1 DEF WaitedFor
  <2>1. p \in t.waited_pids
    BY DEF Records, WaitedFor
  <2>2. p \in DOMAIN t.pid_to_job
    BY DEF Shape, PidIndex
  <2> QED
    BY SMTT(30), <1>1, <2>1, <2>2
<1>6. Live(u) = Live(t) \cup {id}
  BY SMTT(30), <1>1 DEF Live
<1>7. LiveMarked(u)
  BY <1>1, <1>6 DEF LiveMarked
<1>8. Kept(t, u)
  BY <1>1 DEF Kept
<1> QED
  BY SMTT(30), <1>3, <1>4, <1>5, <1>7, <1>8 DEF Records, u

(* The job of a process that dies without completing it. *)
LEMMA StillAlive ==
  ASSUME NEW Pid, NEW Command, NEW job \in Job(Pid, Command), NEW pid, NEW raw \in RawStatus,
         StateOfProcesses(job), job.state # "Done",
         ~Completes(WithProcess(job, pid, "Done", raw))
  PROVE  StateOfProcesses(WithProcess(job, pid, "Done", raw))
<1> DEFINE new_job == WithProcess(job, pid, "Done", raw)
<1>1. /\ DOMAIN new_job.processes = DOMAIN job.processes
      /\ \A k \in DOMAIN job.processes :
           new_job.processes[k].state =
             IF job.processes[k].pid = pid THEN "Done" ELSE job.processes[k].state
  BY WithProcessStates
<1>2. new_job.state = job.state
  BY WithProcessJob DEF JobState
<1> HIDE DEF new_job
<1>3. ~AllDone(new_job)
  BY <1>2 DEF Completes, new_job
<1>4. StateOfProcesses(new_job)
  BY SMTT(30), <1>1, <1>2, <1>3 DEF StateOfProcesses
<1> QED
  BY <1>4 DEF new_job

(* Completing a live job: it takes the next number, and the live jobs are  *)
(* the others.                                                             *)
LEMMA CompleteRecords ==
  ASSUME NEW Pid, NEW Command, NEW t, Shape(t, Pid, Command), Records(t),
         NEW id \in DOMAIN t.jobs, t.jobs[id].state # "Done",
         NEW job \in Job(Pid, Command), AllDone(job),
         job.at = t.jobs[id].at, Pids(job) = Pids(t.jobs[id]),
         job.waited_for = t.jobs[id].waited_for
  PROVE  LET u == Complete(t, id, job)
         IN  /\ Records(u) /\ Kept(t, u) /\ Live(u) = Live(t) \ {id}
             /\ Shape(u, Pid, Command) /\ u.current = t.current /\ u.previous = t.previous
<1> DEFINE u == Complete(t, id, job)
           fin == Finished(job)
<1>0. /\ Shape(u, Pid, Command)
      /\ u.jobs = [t.jobs EXCEPT ![id] = fin]
      /\ u.current = t.current
      /\ u.previous = t.previous
      /\ u.completion_order = Insert(t.completion_order, {id}, t.next_completion_order)
      /\ u.next_completion_order = t.next_completion_order + 1
      /\ u.waited_pids = t.waited_pids
  BY CompleteShape, SMTT(40)
<1>1. /\ u.jobs = [t.jobs EXCEPT ![id] = fin]
      /\ u.completion_order = Insert(t.completion_order, {id}, t.next_completion_order)
      /\ u.next_completion_order = t.next_completion_order + 1
      /\ u.waited_pids = t.waited_pids
  BY SMTT(30), <1>0
<1>2. /\ fin.at = job.at /\ fin.processes = job.processes /\ fin.state = "Done"
      /\ fin.waited_for = job.waited_for
  BY FinishedJob
<1> HIDE DEF u, fin
<1>3. /\ DOMAIN u.jobs = DOMAIN t.jobs /\ u.jobs[id] = fin
      /\ \A i \in DOMAIN t.jobs \ {id} : u.jobs[i] = t.jobs[i]
  BY SMTT(30), <1>1
<1>4. StateOfProcesses(fin) /\ Pids(fin) = Pids(job)
  BY SMTT(30), <1>2 DEF StateOfProcesses, AllDone, Pids
<1>5. \A i \in DOMAIN u.jobs : StateOfProcesses(u.jobs[i])
  BY SMTT(30), <1>3, <1>4 DEF Records
<1>6. CompletionNumbers(u)
  <2>1. /\ DOMAIN u.completion_order = DOMAIN t.completion_order \cup {id}
        /\ u.completion_order[id] = t.next_completion_order
        /\ \A i \in DOMAIN t.completion_order \ {id} :
             u.completion_order[i] = t.completion_order[i]
    BY <1>1 DEF Insert
  <2>2. id \notin DOMAIN t.completion_order
    BY DEF Records, CompletionNumbers
  <2>3. \A i \in DOMAIN t.completion_order :
          t.completion_order[i] \in 0..(t.next_completion_order - 1)
    BY DEF Records, CompletionNumbers
  <2>4. t.next_completion_order \in Nat
    BY SMTT(30) DEF Shape, IsJobTable
  <2>5. DOMAIN u.completion_order = {i \in DOMAIN u.jobs : u.jobs[i].state = "Done"}
    BY SMTT(30), <1>2, <1>3, <2>1 DEF Records, CompletionNumbers
  <2>6. \A i, j \in DOMAIN t.completion_order :
          t.completion_order[i] = t.completion_order[j] => i = j
    BY SMTT(30) DEF Records, CompletionNumbers
  <2>7. \A i \in DOMAIN t.completion_order :
          /\ u.completion_order[i] = t.completion_order[i]
          /\ u.completion_order[i] \in 0..(u.next_completion_order - 1)
          /\ u.completion_order[i] # u.completion_order[id]
    BY SMTT(30), <1>1, <2>1, <2>2, <2>3, <2>4
  <2>8. u.completion_order[id] \in 0..(u.next_completion_order - 1)
    BY <1>1, <2>1, <2>4
  <2>9. \A i, j \in DOMAIN u.completion_order :
          u.completion_order[i] = u.completion_order[j] => i = j
    BY SMTT(30), <2>1, <2>6, <2>7
  <2> QED
    BY SMTT(30), <2>1, <2>5, <2>7, <2>8, <2>9 DEF CompletionNumbers
<1>7. WaitedFor(u)
  BY SMTT(30), <1>1, <1>2, <1>3, <1>4 DEF Records, WaitedFor
<1>8. Live(u) = Live(t) \ {id}
  BY SMTT(30), <1>2, <1>3 DEF Live
<1>9. Kept(t, u)
  BY SMTT(30), <1>2, <1>3, <1>4 DEF Kept
<1> QED
  BY SMTT(30), <1>0, <1>5, <1>6, <1>7, <1>8, <1>9 DEF Records, u

(* mark_dead of a process not known to be dead. *)
LEMMA MarkDeadRecords ==
  ASSUME NEW Pid, NEW Command, NEW t, Shape(t, Pid, Command), Records(t), LiveMarked(t),
         NEW pid, NEW raw \in RawStatus, NotReaped(t, pid)
  PROVE  LET u == mark_dead(t, pid, raw)
         IN  Records(u) /\ LiveMarked(u) /\ Kept(t, u)
<1> DEFINE id == t.pid_to_job[pid]
           old == t.jobs[id]
           job == WithProcess(old, pid, "Done", raw)
           s == SetJob(t, id, job)
           d == Complete(t, id, job)
<1>1. CASE pid \notin DOMAIN t.pid_to_job
  BY Zenon, <1>1 DEF mark_dead, Kept
<1>2. CASE pid \in DOMAIN t.pid_to_job
  <2>1. id \in DOMAIN t.jobs /\ old \in Job(Pid, Command) /\ old.state # "Done"
    BY SMTT(30), <1>2, IndexedIsLive
  <2>2. mark_dead(t, pid, raw) =
          IF ~Completes(job) THEN s ELSE IF Marked(t, id) THEN reset_current_previous(d) ELSE d
    BY <1>2 DEF mark_dead
  <2>3. StateOfProcesses(old)
    BY <2>1 DEF Records
  <2> HIDE DEF id, old
  <2>4. /\ job \in Job(Pid, Command) /\ job.at = old.at /\ job.state = old.state
        /\ Pids(job) = Pids(old) /\ job.waited_for = old.waited_for
    BY <2>1, WithProcessJob DEF JobState
  <2>5. CASE ~Completes(job)
    <3>1. StateOfProcesses(job)
      BY SMTT(30), <2>1, <2>3, <2>5, StillAlive
    <3> HIDE DEF job
    <3>2. /\ s.jobs = [t.jobs EXCEPT ![id] = job] /\ s.waited_pids = t.waited_pids
          /\ s.completion_order = t.completion_order
          /\ s.next_completion_order = t.next_completion_order
          /\ s.current = t.current /\ s.previous = t.previous
      BY SMTT(30), <2>1, <2>4, SetJobShape DEF old
    <3> HIDE DEF s
    <3>3. Records(s) /\ Kept(t, s) /\ Live(s) = Live(t)
      BY SMTT(30), <2>1, <2>4, <3>1, <3>2, ReplaceRecords DEF old
    <3>4. LiveMarked(s)
      BY <3>2, <3>3 DEF LiveMarked
    <3> QED
      BY <2>2, <2>5, <3>3, <3>4
  <2>6. CASE Completes(job)
    <3>1. AllDone(job)
      BY SMTT(30), <2>6 DEF Completes
    <3> HIDE DEF job
    <3>2. /\ Records(d) /\ Kept(t, d) /\ Live(d) = Live(t) \ {id}
          /\ Shape(d, Pid, Command) /\ d.current = t.current /\ d.previous = t.previous
      BY SMTT(30), <2>1, <2>4, <3>1, CompleteRecords DEF old
    <3> HIDE DEF d
    <3>4. CASE Marked(t, id)
      <4> DEFINE r == reset_current_previous(d)
      <4>1. Records(r) /\ LiveMarked(r) /\ r.jobs = d.jobs
        BY SMTT(30), <3>2, ResetRecords DEF Shape
      <4> HIDE DEF r
      <4>2. Kept(t, r)
        BY <3>2, <4>1 DEF Kept
      <4> QED
        BY SMTT(30), <2>2, <2>6, <3>4, <4>1, <4>2 DEF r
    <3>5. CASE ~Marked(t, id)
      <4>1. LiveMarked(d)
        BY SMTT(30), <3>2, <3>5 DEF LiveMarked, Marked
      <4> QED
        BY SMTT(30), <2>2, <2>6, <3>2, <3>5, <4>1
    <3> QED
      BY <3>4, <3>5
  <2> QED
    BY SMTT(30), <2>5, <2>6
<1> QED
  BY SMTT(30), <1>1, <1>2

(* mark_stopped of a process not known to be dead: its job was live and is *)
(* live, and becomes current.                                              *)
LEMMA MarkStoppedRecords ==
  ASSUME NEW Pid, NEW Command, NEW t, Shape(t, Pid, Command), Records(t), LiveMarked(t),
         NEW pid, NEW sig \in Nat, NotReaped(t, pid)
  PROVE  LET u == mark_stopped(t, pid, sig)
         IN  Records(u) /\ LiveMarked(u) /\ Kept(t, u)
<1> DEFINE id == t.pid_to_job[pid]
           old == t.jobs[id]
           wp == WithProcess(old, pid, "Stopped", StoppedBy(sig))
           job == StoppedJob(old, pid, sig)
           u == mark_stopped(t, pid, sig)
<1>1. CASE pid \notin DOMAIN t.pid_to_job
  BY <1>1 DEF mark_stopped, Kept
<1>2. CASE pid \in DOMAIN t.pid_to_job
  <2>1. id \in DOMAIN t.jobs /\ old \in Job(Pid, Command) /\ old.state # "Done"
    BY SMTT(30), <1>2, IndexedIsLive
  <2>2. PICK k \in DOMAIN old.processes : old.processes[k].pid = pid
    BY SMTT(30), <1>2, IndexedIsLive
  <2>3. /\ u.jobs = [t.jobs EXCEPT ![id] = job]
        /\ u.current = id /\ u.previous = IF t.current # id THEN t.current ELSE t.previous
        /\ u.completion_order = t.completion_order
        /\ u.next_completion_order = t.next_completion_order
        /\ u.waited_pids = t.waited_pids
    BY <1>2, MarkStoppedFields
  <2> HIDE DEF id, old, u
  <2>4. "Stopped" \in JobState /\ StoppedBy(sig) \in RawStatus
    BY DEF JobState, RawStatus, StoppedBy
  <2>5. /\ wp \in Job(Pid, Command) /\ wp.at = old.at /\ Pids(wp) = Pids(old)
        /\ wp.waited_for = old.waited_for
    BY SMTT(30), <2>1, <2>4, WithProcessJob
  <2>6. k \in DOMAIN wp.processes /\ wp.processes[k].state = "Stopped"
    BY <2>1, <2>2, WithProcessStates
  <2>7. job = [wp EXCEPT !.state = "Stopped"]
    BY DEF StoppedJob
  <2> HIDE DEF wp, job
  <2>8. /\ job.at = wp.at /\ job.processes = wp.processes /\ job.state = "Stopped"
        /\ job.waited_for = wp.waited_for
    BY <2>5, <2>7 DEF Job
  <2>9. StateOfProcesses(job) /\ Pids(job) = Pids(wp)
    BY SMTT(30), <2>6, <2>8 DEF StateOfProcesses, AllDone, Pids
  <2>10. Records(u) /\ Kept(t, u) /\ Live(u) = Live(t)
    BY SMTT(30), <2>1, <2>3, <2>5, <2>8, <2>9, ReplaceRecords DEF old
  <2>11. id \in Live(t)
    BY <2>1 DEF Live, old
  <2>12. LiveMarked(u)
    BY <2>3, <2>10, <2>11 DEF LiveMarked
  <2> QED
    BY SMTT(30), <2>10, <2>12 DEF u
<1> QED
  BY <1>1, <1>2

(* A resumed job is Running with no Stopped process, or as Done as before. *)
LEMMA ResumedRecords ==
  ASSUME NEW Pid, NEW Command, NEW job \in Job(Pid, Command), StateOfProcesses(job)
  PROVE  /\ StateOfProcesses(Resumed(job))
         /\ (Resumed(job).state = "Done") <=> (job.state = "Done")
<1> DEFINE c == Continued(job)
           r == Resumed(job)
<1>1. /\ DOMAIN c.processes = DOMAIN job.processes
      /\ \A k \in DOMAIN job.processes :
           c.processes[k].state = IF job.processes[k].state = "Stopped" THEN "Running"
                                  ELSE job.processes[k].state
  BY ContinuedStates
<1>2. r.processes = c.processes /\ r.state = IF AnyRunning(c) THEN "Running" ELSE job.state
  BY ResumedJob
<1>3. \A k \in DOMAIN job.processes : job.processes[k].state \in JobState
  <2>1. job.processes \in Seq(Process(Pid))
    BY DEF Job
  <2>2. \A k \in DOMAIN job.processes : job.processes[k] \in Process(Pid)
    BY <2>1
  <2> QED
    BY <2>2 DEF Process
<1> HIDE DEF c, r
<1>4. CASE AnyRunning(c)
  <2>1. PICK k \in DOMAIN c.processes : c.processes[k].state = "Running"
    BY <1>4 DEF AnyRunning
  <2>2. job.processes[k].state # "Done"
    BY <1>1, <2>1
  <2>3. ~AllDone(job) /\ ~AllDone(c)
    BY <1>1, <2>1, <2>2 DEF AllDone
  <2>4. r.state = "Running" /\ ~AllDone(r) /\ job.state # "Done"
    BY <1>2, <1>4, <2>3 DEF AllDone, StateOfProcesses
  <2> QED
    BY <1>1, <1>2, <2>4 DEF StateOfProcesses, r
<1>5. CASE ~AnyRunning(c)
  <2>1. \A k \in DOMAIN job.processes : job.processes[k].state = "Done"
    BY <1>1, <1>3, <1>5 DEF AnyRunning, JobState
  <2>2. job.state = "Done"
    BY <2>1 DEF StateOfProcesses, AllDone
  <2>3. r.state = "Done" /\ AllDone(r)
    BY SMTT(30), <1>1, <1>2, <1>5, <2>1, <2>2 DEF AllDone
  <2> QED
    BY <2>2, <2>3 DEF StateOfProcesses, r
<1> QED
  BY <1>4, <1>5

LEMMA MarkJobRunningRecords ==
  ASSUME NEW Pid, NEW Command, NEW t, Shape(t, Pid, Command), Records(t), LiveMarked(t), NEW id
  PROVE  LET u == mark_job_running(t, id)
         IN  Records(u) /\ LiveMarked(u) /\ Kept(t, u)
<1> DEFINE old == t.jobs[id]
           job == Resumed(old)
           u == mark_job_running(t, id)
<1>1. CASE id \notin DOMAIN t.jobs
  BY <1>1 DEF mark_job_running, Kept
<1>2. CASE id \in DOMAIN t.jobs
  <2>1. old \in Job(Pid, Command) /\ StateOfProcesses(old)
    BY <1>2 DEF Shape, IsJobTable, Records
  <2>2. /\ u.jobs = [t.jobs EXCEPT ![id] = job] /\ u.waited_pids = t.waited_pids
        /\ u.current = t.current /\ u.previous = t.previous
        /\ u.completion_order = t.completion_order
        /\ u.next_completion_order = t.next_completion_order
    BY SMTT(30), <1>2, MarkJobRunningFields
  <2> HIDE DEF old, u
  <2>3. /\ job.at = old.at /\ Pids(job) = Pids(old) /\ job.exit_status = old.exit_status
        /\ job.waited_for = old.waited_for
    BY <2>1, ResumedJob
  <2>4. StateOfProcesses(job) /\ ((job.state = "Done") <=> (old.state = "Done"))
    BY SMTT(30), <2>1, ResumedRecords
  <2> HIDE DEF job
  <2>5. Records(u) /\ Kept(t, u) /\ Live(u) = Live(t)
    BY SMTT(30), <1>2, <2>2, <2>3, <2>4, ReplaceRecords DEF old
  <2>6. LiveMarked(u)
    BY <2>2, <2>5 DEF LiveMarked
  <2> QED
    BY <2>5, <2>6 DEF u
<1> QED
  BY <1>1, <1>2

LEMMA MarkRunningRecords ==
  ASSUME NEW Pid, NEW Command, NEW t, Shape(t, Pid, Command), Records(t), LiveMarked(t), NEW pid
  PROVE  LET u == mark_running(t, pid)
         IN  Records(u) /\ LiveMarked(u) /\ Kept(t, u)
<1>1. Kept(t, t)
  BY DEF Kept
<1> QED
  BY <1>1, MarkJobRunningRecords DEF mark_running

(* Flags of jobs and marks of pids are set together. *)
LEMMA MarkPidWaitedRecords ==
  ASSUME NEW Pid, NEW Command, NEW t, Shape(t, Pid, Command), Records(t), LiveMarked(t),
         NEW pid \in Pid
  PROVE  LET u == mark_pid_waited(t, pid)
         IN  Records(u) /\ LiveMarked(u) /\ Kept(t, u)
<1> DEFINE u == mark_pid_waited(t, pid)
<1>1. /\ DOMAIN u.jobs = DOMAIN t.jobs
      /\ u.waited_pids = t.waited_pids \cup {pid}
      /\ \A i \in DOMAIN t.jobs :
           /\ u.jobs[i].state = t.jobs[i].state /\ u.jobs[i].processes = t.jobs[i].processes
           /\ u.jobs[i].at = t.jobs[i].at /\ u.jobs[i].exit_status = t.jobs[i].exit_status
           /\ u.jobs[i].waited_for =>
                t.jobs[i].waited_for \/ Pids(t.jobs[i]) \subseteq u.waited_pids
      /\ u.current = t.current /\ u.previous = t.previous
      /\ u.completion_order = t.completion_order
      /\ u.next_completion_order = t.next_completion_order
  BY SMTT(30), MarkPidWaitedFields
<1> HIDE DEF u
<1>2. \A i \in DOMAIN t.jobs : Pids(u.jobs[i]) = Pids(t.jobs[i])
  BY SMTT(30), <1>1 DEF Pids
<1>3. \A i \in DOMAIN u.jobs : StateOfProcesses(u.jobs[i])
  BY SMTT(30), <1>1 DEF Records, StateOfProcesses, AllDone
<1>4. CompletionNumbers(u)
  BY SMTT(30), <1>1 DEF Records, CompletionNumbers
<1>5. WaitedFor(u)
  BY SMTT(30), <1>1, <1>2 DEF Records, WaitedFor
<1>6. LiveMarked(u)
  <2>1. Live(u) = Live(t)
    BY SMTT(30), <1>1 DEF Live
  <2> QED
    BY SMTT(30), <1>1, <2>1 DEF LiveMarked
<1>7. Kept(t, u)
  BY <1>1, <1>2 DEF Kept
<1> QED
  BY SMTT(30), <1>3, <1>4, <1>5, <1>6, <1>7 DEF Records, u

LEMMA PendingNotificationsRecords ==
  ASSUME NEW Pid, NEW Command, NEW t, Shape(t, Pid, Command), Records(t), LiveMarked(t)
  PROVE  LET u == pending_notifications(t)
         IN  Records(u) /\ LiveMarked(u) /\ Kept(t, u)
<1> DEFINE u == pending_notifications(t)
<1>1. /\ Shape(u, Pid, Command)
      /\ DOMAIN u.jobs = DOMAIN t.jobs
      /\ \A i \in DOMAIN t.jobs :
           /\ u.jobs[i].state = t.jobs[i].state
           /\ u.jobs[i].processes = t.jobs[i].processes
           /\ u.jobs[i].at = t.jobs[i].at
           /\ u.jobs[i].exit_status = t.jobs[i].exit_status
           /\ u.jobs[i].waited_for = t.jobs[i].waited_for
      /\ u.current = t.current /\ u.previous = t.previous
      /\ u.completion_order = t.completion_order
      /\ u.next_completion_order = t.next_completion_order
      /\ u.waited_pids = t.waited_pids
  BY PendingNotificationsFields, SMT
<1> HIDE DEF u
<1>2. \A i \in DOMAIN t.jobs : Pids(u.jobs[i]) = Pids(t.jobs[i])
  BY SMTT(30), <1>1 DEF Pids
<1>3. \A i \in DOMAIN u.jobs : StateOfProcesses(u.jobs[i])
  BY SMTT(30), <1>1 DEF Records, StateOfProcesses, AllDone
<1>4. CompletionNumbers(u)
  BY SMTT(30), <1>1 DEF Records, CompletionNumbers
<1>5. WaitedFor(u)
  BY SMTT(30), <1>1, <1>2 DEF Records, WaitedFor
<1>6. LiveMarked(u)
  <2>1. Live(u) = Live(t)
    BY SMTT(30), <1>1 DEF Live
  <2> QED
    BY SMTT(30), <1>1, <2>1 DEF LiveMarked
<1>7. Kept(t, u)
  BY SMTT(30), <1>1, <1>2 DEF Kept
<1> QED
  BY SMTT(30), <1>3, <1>4, <1>5, <1>6, <1>7 DEF Records, u

LEMMA NewRecords == Records(new) /\ LiveMarked(new)
<1>1. new.jobs = <<>> /\ new.completion_order = <<>>
  BY DEF new
<1>2. DOMAIN new.jobs = {} /\ DOMAIN new.completion_order = {}
  BY <1>1
<1> QED
  BY <1>2 DEF Records, CompletionNumbers, WaitedFor, LiveMarked, Live

=============================================================================
