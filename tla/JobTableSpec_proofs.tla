------------------------ MODULE JobTableSpec_proofs ------------------------
(***************************************************************************)
(* The invariants of JobTableSpec for every set of pids, command lines,    *)
(* signals and statuses, any number of jobs and any number of processes in *)
(* each.                                                                   *)
(***************************************************************************)
EXTENDS JobTableSpec, JobTable_proofs

ShapeInv == Shape(table, Pid, Command)

(* Every call keeps the shape of the table. *)
LEMMA NextShape == ShapeInv /\ [Next]_table => ShapeInv'
<1> SUFFICES ASSUME ShapeInv, [Next]_table PROVE ShapeInv'
  OBVIOUS
<1> USE DEF ShapeInv
<1>1. ASSUME NEW procs \in Seq(Process(Pid)), NEW c \in Command, NEW jc \in BOOLEAN,
             Add(procs, c, jc)
      PROVE  ShapeInv'
  <2>1. procs # <<>>
    BY <1>1 DEF Add, NewProcesses
  <2>2. procs[1].pid \in Pid
    <3>1. procs[1] \in Process(Pid)
      BY <2>1
    <3> QED
      BY <3>1 DEF Process
  <2>3. \A k \in DOMAIN procs : procs[k].pid \notin DOMAIN table.pid_to_job
    BY <1>1 DEF Add, NewProcesses, InTable, Shape, PidIndex
  <2> QED
    BY <1>1, <2>1, <2>2, <2>3, AddShape DEF Add
<1>2. ASSUME NEW pid \in Pid, NEW raw \in Raw, MarkDead(pid, raw) PROVE ShapeInv'
  BY <1>2, MarkDeadShape, RawAssumption DEF MarkDead
<1>3. ASSUME NEW pid \in Pid, NEW sig \in Signal, MarkStopped(pid, sig) PROVE ShapeInv'
  BY <1>3, MarkStoppedShape, SignalAssumption DEF MarkStopped
<1>4. ASSUME NEW pid \in Pid, MarkRunning(pid) PROVE ShapeInv'
  BY <1>4, MarkRunningShape DEF MarkRunning
<1>5. ASSUME NEW id \in Nat, MarkJobRunning(id) PROVE ShapeInv'
  BY <1>5, MarkJobRunningShape DEF MarkJobRunning
<1>6. ASSUME NEW pid \in Pid, MarkPidWaited(pid) PROVE ShapeInv'
  BY <1>6, MarkPidWaitedShape DEF MarkPidWaited
<1>7. ASSUME NEW id \in Nat, Remove(id) PROVE ShapeInv'
  BY <1>7, RemoveShape DEF Remove
<1>8. CASE PurgeDone
  BY <1>8, PurgeDoneShape DEF PurgeDone
<1>9. CASE PendingNotifications
  BY <1>9, PendingNotificationsFields DEF PendingNotifications
<1>10. CASE UNCHANGED table
  BY <1>10
<1> QED
  BY <1>1, <1>2, <1>3, <1>4, <1>5, <1>6, <1>7, <1>8, <1>9, <1>10 DEF Next

LEMMA ShapeInvariant == Spec => []ShapeInv
<1>1. Init => ShapeInv
  BY NewShape DEF Init, ShapeInv
<1> QED
  BY <1>1, NextShape, PTL DEF Spec

(* The table stays a table: every field has its type and no two jobs are   *)
(* appended by the same push.                                              *)
THEOREM TypeCorrect == Spec => []TypeOK
<1>1. ShapeInv => TypeOK
  BY DEF ShapeInv, Shape, TypeOK
<1> QED
  BY <1>1, ShapeInvariant, PTL

(* pid_to_job and the jobs' processes agree after any sequence of calls,   *)
(* so no death, stop or continuation of a job's process is ever dropped by *)
(* the early return of mark_dead, mark_stopped and mark_running.           *)
THEOREM PidIndexSound == Spec => []PidIndexCoherent
<1>1. ShapeInv => PidIndexCoherent
  BY DEF ShapeInv, Shape, PidIndexCoherent
<1> QED
  BY <1>1, ShapeInvariant, PTL

(* The markers name two different jobs of the table, after any sequence of *)
(* calls.                                                                  *)
THEOREM MarkersSound == Spec => []MarkersValid
<1>1. ShapeInv => MarkersValid
  BY DEF ShapeInv, Shape, MarkersValid
<1> QED
  BY <1>1, ShapeInvariant, PTL

(* Type, index and markers together: what a caller of the table may count  *)
(* on after any sequence of calls.                                         *)
THEOREM TableStaysCoherent == Spec => []TableCoherent
<1>1. TypeOK /\ PidIndexCoherent /\ MarkersValid => TableCoherent
  BY DEF TableCoherent
<1> QED
  BY <1>1, TypeCorrect, PidIndexSound, MarkersSound, PTL

-----------------------------------------------------------------------------

IInv == ShapeInv /\ Records(table) /\ LiveMarked(table)

(* Every call keeps the records, lets a marker follow a live job, and      *)
(* leaves the identity of jobs alone.                                      *)
LEMMA NextRecords ==
  ASSUME IInv, [Next]_table
  PROVE  Records(table)' /\ LiveMarked(table)' /\ Kept(table, table')
<1> USE DEF IInv, ShapeInv
<1> DEFINE Goal == Records(table)' /\ LiveMarked(table)' /\ Kept(table, table')
<1>0. ASSUME NEW pid, ~Reaped(pid) PROVE NotReaped(table, pid)
  BY <1>0 DEF Reaped, NotReaped
<1>1. ASSUME NEW procs \in Seq(Process(Pid)), NEW c \in Command, NEW jc \in BOOLEAN,
             Add(procs, c, jc)
      PROVE  Goal
  <2>1. procs # <<>>
    BY <1>1 DEF Add, NewProcesses
  <2>2. procs[1].pid \in Pid
    <3>1. procs[1] \in Process(Pid)
      BY <2>1
    <3> QED
      BY <3>1 DEF Process
  <2>3. \A k \in DOMAIN procs : procs[k].pid \notin DOMAIN table.pid_to_job
    BY <1>1 DEF Add, NewProcesses, InTable, Shape, PidIndex
  <2>4. \A k \in DOMAIN procs : procs[k].state = "Running"
    BY <1>1 DEF Add, NewProcesses
  <2> QED
    BY <1>1, <2>1, <2>2, <2>3, <2>4, AddRecords DEF Add
<1>2. ASSUME NEW pid \in Pid, NEW raw \in Raw, MarkDead(pid, raw) PROVE Goal
  BY <1>0, <1>2, MarkDeadRecords, RawAssumption DEF MarkDead
<1>3. ASSUME NEW pid \in Pid, NEW sig \in Signal, MarkStopped(pid, sig) PROVE Goal
  BY <1>0, <1>3, MarkStoppedRecords, SignalAssumption DEF MarkStopped
<1>4. ASSUME NEW pid \in Pid, MarkRunning(pid) PROVE Goal
  BY <1>4, MarkRunningRecords DEF MarkRunning
<1>5. ASSUME NEW id \in Nat, MarkJobRunning(id) PROVE Goal
  BY <1>5, MarkJobRunningRecords DEF MarkJobRunning
<1>6. ASSUME NEW pid \in Pid, MarkPidWaited(pid) PROVE Goal
  BY <1>6, MarkPidWaitedRecords DEF MarkPidWaited
<1>7. ASSUME NEW id \in Nat, Remove(id) PROVE Goal
  BY <1>7, RemoveRecords DEF Remove
<1>8. CASE PurgeDone
  BY <1>8, PurgeDoneRecords DEF PurgeDone
<1>9. CASE PendingNotifications
  BY <1>9, PendingNotificationsRecords DEF PendingNotifications
<1>10. CASE UNCHANGED table
  BY <1>10 DEF Kept
<1> QED
  BY <1>1, <1>2, <1>3, <1>4, <1>5, <1>6, <1>7, <1>8, <1>9, <1>10 DEF Next

LEMMA IInvariant == Spec => []IInv
<1>1. Init => IInv
  BY NewShape, NewRecords DEF Init, IInv, ShapeInv
<1>2. IInv /\ [Next]_table => IInv'
  BY NextShape, NextRecords DEF IInv
<1> QED
  BY <1>1, <1>2, PTL DEF Spec

(* While a job is alive the current marker is on a live job, and the       *)
(* previous one too when there are two: no call lets a marked job die or   *)
(* leave without reset_current_previous, for any number of jobs.           *)
THEOREM MarkersStayLive == Spec => []MarkersPreferLive
<1>1. IInv => MarkersPreferLive
  BY DEF IInv, MarkersPreferLive
<1> QED
  BY <1>1, IInvariant, PTL

(* A job's state agrees with its processes, completion_order with the      *)
(* states, WAITED_FOR with waited_pids, after any sequence of calls that   *)
(* reports no death twice: wait -n always finds the job that finished      *)
(* first.                                                                  *)
THEOREM RecordsStayAgreed == Spec => []JobRecordsAgree
<1>1. IInv => JobRecordsAgree
  BY DEF IInv, Records, WaitedFor, JobRecordsAgree, StateMatchesProcesses, CompletionOrdered,
         WaitedForCoherent
<1> QED
  BY <1>1, IInvariant, PTL

(* An id names one job while it is in the table, and a finished job keeps  *)
(* its state and status: what a caller of wait or jobs has looked up is    *)
(* still the same job at its next call.                                    *)
THEOREM IdentityKept == Spec => JobsKeepIdentity
<1>1. IInv /\ [Next]_table => [DoneIsFinal /\ IdsNotClobbered]_table
  BY NextRecords DEF Kept, DoneIsFinal, IdsNotClobbered
<1> QED
  BY <1>1, IInvariant, PTL DEF Spec, JobsKeepIdentity

=============================================================================
