---------------------------- MODULE MCJobControl ----------------------------
(* JobControl with two or three pids, forked a bounded number of times. *)
EXTENDS JobControl, TLC

MCRaw == {Exited(3)}

MCLiveCommands == {"background", "foreground", "wait", "wait_for", "wait_any", "fg", "bg", "exit"}

MCSymmetry == Permutations(Pid)

=============================================================================
