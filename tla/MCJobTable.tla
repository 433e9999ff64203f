----------------------------- MODULE MCJobTable -----------------------------
(* JobTableSpec on a few pids, with jobs of one or two processes. *)
EXTENDS JobTableSpec, TLC

CONSTANT MaxAdds      \* how many jobs are ever added

MCRaw == {Exited(0), Signaled(9)}
MCSignal == {20}

Fresh(pid) == [pid |-> pid, status_raw |-> Exited(0), state |-> "Running"]

MCAdd ==
  /\ table.pushes < MaxAdds
  /\ \E c \in Command :
       \/ \E p \in Pid : Add(<<Fresh(p)>>, c, TRUE)
       \/ \E p, q \in Pid : Add(<<Fresh(p), Fresh(q)>>, c, TRUE)

MCNext ==
  \/ MCAdd
  \/ \E pid \in Pid, raw \in Raw : MarkDead(pid, raw)
  \/ \E pid \in Pid, sig \in Signal : MarkStopped(pid, sig)
  \/ \E pid \in Pid : MarkRunning(pid)
  \/ \E id \in DOMAIN table.jobs : MarkJobRunning(id)
  \/ \E pid \in Pid : MarkPidWaited(pid)
  \/ \E id \in DOMAIN table.jobs : Remove(id)
  \/ PurgeDone
  \/ PendingNotifications

MCSpec == Init /\ [][MCNext]_table

MCSymmetry == Permutations(Pid)

=============================================================================
