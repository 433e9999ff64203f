------------------------------ MODULE Signals ------------------------------
(***************************************************************************)
(* Signals of the shell itself: the handler that only counts              *)
(* (shell/src/signals.rs), the safe points of the reader loop that turn    *)
(* counts into trap bodies and flags into jumps (shell/src/traps.rs,       *)
(* reader_loop/mod.rs), the ones of the executor (exec/src/trap.rs), and   *)
(* the builtins trap, wait and kill.  SIGCHLD is in JobControl.            *)
(*                                                                         *)
(* The shell has one thread: a handler runs to its end between two of its  *)
(* steps.                                                                  *)
(***************************************************************************)
EXTENDS Integers, Sequences, FiniteSets, FiniteSetsExt

CONSTANTS
  Sig,          \* the signals that arrive, as numbers
  MaxSignals,   \* signals in all
  MaxCommands   \* commands in all, those of trap bodies included

ASSUME SigAssumption ==
  /\ Sig \subseteq 1..63 /\ IsFiniteSet(Sig)
  /\ MaxSignals \in Nat /\ MaxCommands \in Nat

SIGHUP == 1
SIGINT == 2
SIGQUIT == 3
SIGALRM == 14
SIGTERM == 15
Terminating == {SIGTERM, SIGHUP, SIGQUIT}
EXIT == 0       \* the EXIT trap: as a signal, and in running_trap_sig
NoTrap == -1    \* running_trap_sig is None
NoSig == 0      \* TERM_RECEIVED when nothing was received
Rounds == 4     \* of the shell's run_pending_traps

VARIABLES
  counts,        \* PENDING_COUNTS
  CATCH_FLAG, SIGINT_RECEIVED, TERM_RECEIVED, ALARM_FIRED,
  timer,         \* alarm(2) is armed
  disposition,   \* signal -> "default", "ignore", or "count": the handler
  trap_actions,  \* signal or EXIT -> "none", "ignore", or "command"
  setting,       \* <<signal, action>> of a trap builtin between its two steps
  running,       \* running_trap_sig
  frames,        \* the dispatches of traps under way, innermost last
  exiting,       \* the executor unwinds to the top with Unwind::Exit
  pc,            \* where the reader loop is
  start,         \* what is fixed at the start
  used           \* signals and commands so far

flags == <<CATCH_FLAG, SIGINT_RECEIVED, TERM_RECEIVED, ALARM_FIRED>>
vars == <<counts, flags, timer, disposition, trap_actions, setting, running, frames, exiting,
          pc, start, used>>

-----------------------------------------------------------------------------
(* Dispositions. *)

(* What install_default_handlers installs and clearing a trap restores. *)
Baseline(sig) ==
  IF sig \in start.ignored THEN "ignore"
  ELSE IF sig = SIGALRM \/ (start.interactive /\ sig \in Terminating \cup {SIGINT}) THEN "count"
  ELSE "default"

(* Mutant: clearing a trap always restores SIG_DFL. *)
configure_to_default(sig, action) ==
  IF sig \in start.ignored \/ action = "ignore" THEN "ignore"
  ELSE IF action = "command" THEN "count" ELSE "default"

configure_trap_signal(sig, action) ==
  IF sig \in start.ignored \/ action = "ignore" THEN "ignore"
  ELSE IF action = "command" THEN "count" ELSE Baseline(sig)

(* A signal ignored at the start stays ignored, trap or no trap. *)
trap_action(sig) ==
  IF trap_actions[sig] = "none" /\ sig \in start.ignored THEN "ignore" ELSE trap_actions[sig]

Init ==
  /\ start \in [interactive : BOOLEAN, tmout : BOOLEAN, ignored : {{}, {SIGHUP} \cap Sig}]
  /\ counts = [s \in Sig |-> 0]
  /\ CATCH_FLAG = FALSE /\ SIGINT_RECEIVED = FALSE /\ TERM_RECEIVED = NoSig /\ ALARM_FIRED = FALSE
  /\ timer = FALSE
  /\ disposition = [s \in Sig |-> Baseline(s)]
  /\ trap_actions = [s \in Sig \cup {EXIT} |-> "none"]
  /\ setting = <<>> /\ running = NoTrap /\ frames = <<>> /\ exiting = FALSE
  /\ pc = "top" /\ used = [signals |-> 0, commands |-> 0]

-----------------------------------------------------------------------------
(* The kernel. *)

generic_counter_handler(sig) ==
  /\ counts' = [counts EXCEPT ![sig] = @ + 1]
  /\ CATCH_FLAG' = TRUE
  /\ SIGINT_RECEIVED' = (SIGINT_RECEIVED \/ sig = SIGINT)
  /\ ALARM_FIRED' = (ALARM_FIRED \/ sig = SIGALRM)
  /\ TERM_RECEIVED' = IF sig \in Terminating THEN sig ELSE TERM_RECEIVED

Deliver(sig) ==
  /\ \/ disposition[sig] = "count" /\ generic_counter_handler(sig) /\ UNCHANGED pc
     \/ disposition[sig] = "ignore" /\ UNCHANGED <<counts, flags, pc>>
     \/ disposition[sig] = "default" /\ pc' = "killed" /\ UNCHANGED <<counts, flags>>
  /\ UNCHANGED <<disposition, trap_actions, setting, running, frames, exiting, start>>

Alive == pc \notin {"gone", "killed"}

Arrive(sig) ==
  /\ Alive /\ used.signals < MaxSignals
  /\ used' = [used EXCEPT !.signals = @ + 1]
  /\ Deliver(sig) /\ UNCHANGED timer

AlarmExpires ==
  /\ Alive /\ timer /\ SIGALRM \in Sig /\ timer' = FALSE
  /\ Deliver(SIGALRM) /\ UNCHANGED used

-----------------------------------------------------------------------------
(* The reader loop, up to the line.  The steps of a dispatch come first. *)

Reader == frames = <<>> /\ setting = <<>>

(* check_signals: at the top of the loop, and in read_command, where       *)
(* Discard ends a script.                                                  *)
check_signals(here, next) ==
  /\ Reader /\ pc = here
  /\ \/ ALARM_FIRED /\ ALARM_FIRED' = FALSE /\ pc' = "exit" /\ UNCHANGED <<TERM_RECEIVED, SIGINT_RECEIVED>>
     \/ /\ ~ALARM_FIRED /\ TERM_RECEIVED # NoSig
        /\ TERM_RECEIVED' = NoSig /\ pc' = "exit" /\ UNCHANGED <<ALARM_FIRED, SIGINT_RECEIVED>>
     \/ /\ ~ALARM_FIRED /\ TERM_RECEIVED = NoSig /\ SIGINT_RECEIVED
        /\ SIGINT_RECEIVED' = FALSE
        /\ pc' = IF here = "check" /\ ~start.interactive THEN "exit" ELSE "top"
        /\ UNCHANGED <<ALARM_FIRED, TERM_RECEIVED>>
     \/ /\ ~ALARM_FIRED /\ TERM_RECEIVED = NoSig /\ ~SIGINT_RECEIVED
        /\ pc' = next /\ UNCHANGED <<ALARM_FIRED, TERM_RECEIVED, SIGINT_RECEIVED>>
  /\ UNCHANGED <<counts, CATCH_FLAG, timer, disposition, trap_actions, setting, running, frames,
                 exiting, start, used>>

Tmout == start.interactive /\ start.tmout

(* read_command arms the timer of TMOUT. *)
arm_alarm ==
  /\ Reader /\ pc = "read" /\ pc' = "check"
  /\ timer' = (timer \/ Tmout) /\ ALARM_FIRED' = (ALARM_FIRED /\ ~Tmout)
  /\ UNCHANGED <<counts, CATCH_FLAG, SIGINT_RECEIVED, TERM_RECEIVED, disposition, trap_actions,
                 setting, running, frames, exiting, start, used>>

-----------------------------------------------------------------------------
(* Dispatch of traps.  A frame is one call of run_pending_traps of the      *)
(* shell or of the executor, of run_pending_wait_trap, of run_signal_trap    *)
(* ("kill") or of run_exit_trap: the signals it has yet to look at, the one  *)
(* it took with the bodies it still has to run, and how far it is.           *)

Frame(by, todo) ==
  [by |-> by, todo |-> todo, round |-> 0, sig |-> NoSig, count |-> 0, stage |-> "scan",
   saved |-> NoTrap, ran |-> FALSE]

OneBody(by, sig) == [Frame(by, {}) EXCEPT !.sig = sig, !.count = 1, !.stage = "ready"]

(* The stack below its innermost call. *)
Outer(stack) == SubSeq(stack, 1, Len(stack) - 1)

Push(frame) == frames' = Append(frames, frame)
Update(frame) == frames' = Outer(frames) \o <<frame>>
Pop == frames' = Outer(frames)
Top == frames[Len(frames)]

(* The re-entry guard of all dispatches but the one of wait. *)
MayDispatch == running = NoTrap

(* run_pending_traps of the shell: parse_command, and after a command. *)
run_pending_traps(here, next) ==
  /\ Reader /\ pc = here /\ pc' = next
  /\ IF MayDispatch /\ CATCH_FLAG
     THEN CATCH_FLAG' = FALSE /\ Push(Frame("shell", {}))
     ELSE UNCHANGED <<CATCH_FLAG, frames>>
  /\ UNCHANGED <<counts, SIGINT_RECEIVED, TERM_RECEIVED, ALARM_FIRED, timer, disposition,
                 trap_actions, setting, running, exiting, start, used>>

(* run_pending_traps of the executor: before and after a command. *)
exec_run_pending_traps(here, next) ==
  /\ Reader /\ pc = here /\ pc' = next
  /\ IF MayDispatch THEN Push(Frame("exec", Sig)) ELSE UNCHANGED frames
  /\ UNCHANGED <<counts, flags, timer, disposition, trap_actions, setting, running, exiting,
                 start, used>>

InDispatch(stage) == frames # <<>> /\ setting = <<>> /\ Top.stage = stage

(* pending_signal_take of the next signal. *)
Take ==
  /\ InDispatch("scan") /\ Top.todo # {}
  /\ LET sig == Min(Top.todo)
         rest == [Top EXCEPT !.todo = @ \ {sig}]
     IN /\ counts' = [counts EXCEPT ![sig] = 0]
        /\ Update(IF counts[sig] = 0 THEN rest
                  ELSE [rest EXCEPT !.sig = sig, !.count = counts[sig], !.stage = "taken"])
  /\ UNCHANGED <<flags, timer, disposition, trap_actions, setting, running, exiting, pc, start, used>>

acknowledge_trapped_signal(sig) ==
  /\ SIGINT_RECEIVED' = (SIGINT_RECEIVED /\ sig # SIGINT)
  /\ ALARM_FIRED' = (ALARM_FIRED /\ sig # SIGALRM)
  /\ TERM_RECEIVED' = IF TERM_RECEIVED = sig THEN NoSig ELSE TERM_RECEIVED
  /\ UNCHANGED CATCH_FLAG

(* The dispatches that acknowledge: the one of wait does not. *)
Acknowledges(by, action) == (by = "shell" /\ action # "none") \/ (by = "exec" /\ action = "command")

(* handle_signal: the shell runs the body once, the executor and wait once  *)
(* per arrival; wait then returns 128 + sig.                                *)
handle_signal ==
  /\ InDispatch("taken")
  /\ LET action == trap_action(Top.sig) IN
     /\ IF Acknowledges(Top.by, action) THEN acknowledge_trapped_signal(Top.sig) ELSE UNCHANGED flags
     /\ Update(IF action = "command"
               THEN [Top EXCEPT !.stage = "ready", !.count = IF Top.by = "shell" THEN 1 ELSE @,
                                !.todo = IF Top.by = "wait" THEN {} ELSE @]
               ELSE [Top EXCEPT !.stage = "scan", !.sig = NoSig, !.count = 0])
  /\ UNCHANGED <<counts, timer, disposition, trap_actions, setting, running, exiting, pc, start, used>>

run_trap_body ==
  /\ InDispatch("ready")
  /\ running' = Top.sig
  /\ Update([Top EXCEPT !.stage = "body", !.saved = running])
  /\ UNCHANGED <<counts, flags, timer, disposition, trap_actions, setting, exiting, pc, start, used>>

(* Mutant: the end of a body always clears running_trap_sig. *)
RunningCleared(frame) == NoTrap

(* running_trap_sig when a body ends. *)
RunningAfter(frame) == IF frame.by = "shell" THEN NoTrap ELSE frame.saved

(* The shell drops the result of a body, and an exit in it. *)
BodyEnds ==
  /\ InDispatch("body")
  /\ running' = RunningAfter(Top)
  /\ exiting' = (exiting /\ Top.by # "shell")
  /\ Update(IF Top.count > 1
            THEN [Top EXCEPT !.count = @ - 1, !.stage = "ready", !.saved = NoTrap, !.ran = TRUE]
            ELSE [Top EXCEPT !.count = 0, !.sig = NoSig, !.stage = "scan", !.saved = NoTrap, !.ran = TRUE])
  /\ UNCHANGED <<counts, flags, timer, disposition, trap_actions, setting, pc, start, used>>

Scanned == InDispatch("scan") /\ Top.todo = {}

pending_signals_snapshot == {s \in Sig : counts[s] > 0}

(* A round of the shell's run_pending_traps. *)
MoreRounds(frame) == frame.round < Rounds

NextRound ==
  /\ Scanned /\ Top.by = "shell" /\ MoreRounds(Top) /\ pending_signals_snapshot # {}
  /\ Update([Top EXCEPT !.round = @ + 1, !.todo = pending_signals_snapshot])
  /\ UNCHANGED <<counts, flags, timer, disposition, trap_actions, setting, running, exiting, pc,
                 start, used>>

(* wait polls again while its child runs. *)
PollAgain ==
  /\ Scanned /\ Top.by = "wait" /\ ~Top.ran
  /\ Update([Top EXCEPT !.todo = Sig])
  /\ UNCHANGED <<counts, flags, timer, disposition, trap_actions, setting, running, exiting, pc,
                 start, used>>

(* Mutant: the shell clears the flag when it has drained the counters, not   *)
(* before.                                                                   *)
FlagClearedLast(frame) == CATCH_FLAG /\ frame.by # "shell"

(* A signal that arrived during the dispatch left the flag set. *)
FlagAfter(frame) == CATCH_FLAG

(* The shell's last look at the counters; a signal may still arrive before it returns. *)
LastRound ==
  /\ Scanned /\ Top.by = "shell" /\ (~MoreRounds(Top) \/ pending_signals_snapshot = {})
  /\ Update([Top EXCEPT !.stage = "over"])
  /\ UNCHANGED <<counts, flags, timer, disposition, trap_actions, setting, running, exiting, pc,
                 start, used>>

Return ==
  /\ InDispatch("over") \/ (Scanned /\ Top.by # "shell")
  /\ Pop /\ CATCH_FLAG' = FlagAfter(Top)
  /\ UNCHANGED <<counts, SIGINT_RECEIVED, TERM_RECEIVED, ALARM_FIRED, timer, disposition,
                 trap_actions, setting, running, exiting, pc, start, used>>

-----------------------------------------------------------------------------
(* Lines and commands. *)

(* The rest of read_command: a read is restarted after a signal, so only    *)
(* input ends it; then the timer is disarmed.                               *)
Line(input) ==
  /\ Reader /\ pc = "line"
  /\ pc' = CASE input = "command" -> "execute"
             [] input = "empty" -> "top"
             [] input = "discard" -> IF start.interactive THEN "top" ELSE "exit"
             [] input = "eof" -> "exit"
  /\ timer' = (timer /\ ~Tmout) /\ ALARM_FIRED' = (ALARM_FIRED /\ ~Tmout)
  /\ UNCHANGED <<counts, CATCH_FLAG, SIGINT_RECEIVED, TERM_RECEIVED, disposition, trap_actions,
                 setting, running, frames, exiting, start, used>>

(* The executor is about to run a simple command: of the line, or of a trap body. *)
AtCommand ==
  /\ setting = <<>> /\ ~exiting
  /\ IF frames = <<>> THEN pc = "command" ELSE Top.stage = "body"

Spend == used.commands < MaxCommands /\ used' = [used EXCEPT !.commands = @ + 1]
Ran == pc' = IF frames = <<>> THEN "ran" ELSE pc

(* A command of the line that leaves traps alone, or none: a trap of the    *)
(* dispatch before it asked for exit.                                       *)
PlainCommand ==
  /\ Reader /\ pc = "command" /\ pc' = IF exiting THEN "after" ELSE "ran"
  /\ UNCHANGED <<counts, flags, timer, disposition, trap_actions, setting, running, frames,
                 exiting, start, used>>

ExitCommand ==
  /\ AtCommand /\ Spend /\ Ran /\ exiting' = TRUE
  /\ UNCHANGED <<counts, flags, timer, disposition, trap_actions, setting, running, frames, start>>

(* The trap builtin tells the kernel first ... *)
trap_set_action(sig, action) ==
  /\ AtCommand /\ Spend /\ Ran
  /\ IF sig \in start.ignored
     THEN trap_actions' = [trap_actions EXCEPT ![sig] = "ignore"] /\ UNCHANGED <<disposition, setting>>
     ELSE /\ setting' = <<sig, action>> /\ UNCHANGED trap_actions
          /\ disposition' = IF sig = EXIT THEN disposition
                            ELSE [disposition EXCEPT ![sig] = configure_trap_signal(sig, action)]
  /\ UNCHANGED <<counts, flags, timer, running, frames, exiting, start>>

(* ... and then records the action. *)
TrapRecorded ==
  /\ Alive /\ setting # <<>>
  /\ trap_actions' = [trap_actions EXCEPT ![setting[1]] = setting[2]]
  /\ setting' = <<>>
  /\ UNCHANGED <<counts, flags, timer, disposition, running, frames, exiting, pc, start, used>>

(* wait on a running child: run_pending_wait_trap has no re-entry guard. *)
WaitCommand ==
  /\ AtCommand /\ Spend /\ Ran
  /\ Push(Frame("wait", Sig))
  /\ UNCHANGED <<counts, flags, timer, disposition, trap_actions, setting, running, exiting, start>>

(* kill -sig $$ runs a trap without a signal; an untrapped signal is sent,  *)
(* and then the executor dispatches.                                        *)
KillTrapped(sig) ==
  /\ AtCommand /\ Spend /\ Ran /\ trap_action(sig) # "none"
  /\ IF MayDispatch /\ trap_action(sig) = "command" THEN Push(OneBody("kill", sig)) ELSE UNCHANGED frames
  /\ UNCHANGED <<counts, flags, timer, disposition, trap_actions, setting, running, exiting, start>>

KillSelf(sig) ==
  /\ AtCommand /\ Spend /\ trap_action(sig) = "none"
  /\ \/ /\ disposition[sig] = "count" /\ generic_counter_handler(sig) /\ Ran
        /\ IF MayDispatch THEN Push(Frame("exec", Sig)) ELSE UNCHANGED frames
     \/ disposition[sig] = "default" /\ pc' = "killed" /\ UNCHANGED <<counts, flags, frames>>
  /\ UNCHANGED <<timer, disposition, trap_actions, setting, running, exiting, start>>

(* execute_with_state returns: Unwind::Exit becomes eof_reached. *)
Executed ==
  /\ Reader /\ pc = "after" /\ pc' = (IF exiting THEN "last" ELSE "next") /\ exiting' = FALSE
  /\ UNCHANGED <<counts, flags, timer, disposition, trap_actions, setting, running, frames, start,
                 used>>

(* exit_shell fires the EXIT trap. *)
exit_shell ==
  /\ Reader /\ pc = "exit" /\ pc' = "leaving"
  /\ IF trap_actions[EXIT] = "command"
     THEN trap_actions' = [trap_actions EXCEPT ![EXIT] = "none"] /\ Push(OneBody("exit", EXIT))
     ELSE UNCHANGED <<trap_actions, frames>>
  /\ UNCHANGED <<counts, flags, timer, disposition, setting, running, exiting, start, used>>

Gone ==
  /\ Reader /\ pc = "leaving" /\ pc' = "gone"
  /\ UNCHANGED <<counts, flags, timer, disposition, trap_actions, setting, running, frames,
                 exiting, start, used>>

-----------------------------------------------------------------------------
Dispatching == Take \/ handle_signal \/ run_trap_body \/ BodyEnds \/ NextRound \/ LastRound \/ PollAgain \/ Return

Command ==
  \/ ExitCommand
  \/ WaitCommand
  \/ \E s \in Sig \cup {EXIT}, a \in {"none", "ignore", "command"} : trap_set_action(s, a)
  \/ \E s \in Sig : KillTrapped(s)
  \/ \E s \in Sig : KillSelf(s)

Shell ==
  /\ Alive
  /\ \/ check_signals("top", "read")
     \/ arm_alarm
     \/ check_signals("check", "parse")
     \/ run_pending_traps("parse", "line")
     \/ \E i \in {"command", "empty", "discard", "eof"} : Line(i)
     \/ exec_run_pending_traps("execute", "command")
     \/ PlainCommand
     \/ Command
     \/ TrapRecorded
     \/ exec_run_pending_traps("ran", "after")
     \/ Executed
     \/ run_pending_traps("next", "top")
     \/ run_pending_traps("last", "exit")
     \/ exit_shell
     \/ Gone
     \/ Dispatching

Kernel == (\E s \in Sig : Arrive(s)) \/ AlarmExpires

Next == Shell \/ Kernel

Spec == Init /\ [][Next]_vars

(* The shell runs, and the child a wait waits for ends.                     *)
WaitReturns == Alive /\ Return /\ Top.by = "wait"
FairSpec == Spec /\ WF_vars(Shell) /\ SF_vars(WaitReturns)

-----------------------------------------------------------------------------
(* Properties. *)

FrameType ==
  [by : {"shell", "exec", "wait", "kill", "exit"}, todo : SUBSET Sig, round : 0..Rounds,
   sig : Sig \cup {NoSig}, count : Nat,
   stage : {"scan", "taken", "ready", "body", "over"}, saved : Sig \cup {EXIT, NoTrap}, ran : BOOLEAN]

(* The variables have their types; TERM_RECEIVED holds only a terminating signal. *)
TypeOK ==
  /\ counts \in [Sig -> Nat]
  /\ <<CATCH_FLAG, SIGINT_RECEIVED, ALARM_FIRED, timer, exiting>> \in
       BOOLEAN \X BOOLEAN \X BOOLEAN \X BOOLEAN \X BOOLEAN
  /\ TERM_RECEIVED \in (Terminating \cap Sig) \cup {NoSig}
  /\ disposition \in [Sig -> {"default", "ignore", "count"}]
  /\ trap_actions \in [Sig \cup {EXIT} -> {"none", "ignore", "command"}]
  /\ running \in Sig \cup {EXIT, NoTrap}
  /\ \A i \in DOMAIN frames : frames[i] \in FrameType

(* No lost wakeup: while a counter is pending the fast-path flag is set, or  *)
(* the shell's run_pending_traps is at work on the counters.  The executor   *)
(* drains them without the flag, wait leaves some behind, and signals arrive *)
(* while a dispatch runs.                                                    *)
PendingIsFlagged ==
  Alive /\ pending_signals_snapshot # {} =>
    CATCH_FLAG \/ \E i \in DOMAIN frames : frames[i].by = "shell"

(* "Recursive run_pending_traps calls bail out": of two trap bodies under    *)
(* way the inner one was started by wait.                                    *)
BodiesDoNotNest ==
  \A i, j \in DOMAIN frames :
    i < j /\ frames[i].stage = "body" /\ frames[j].stage = "body" => frames[j].by = "wait"

(* running_trap_sig names the innermost trap body under way, also after one  *)
(* that wait started inside another has ended.                               *)
RunningIsInnermost ==
  LET bodies == {i \in DOMAIN frames : frames[i].stage = "body"}
  IN running = IF bodies = {} THEN NoTrap ELSE frames[Max(bodies)].sig

(* The kernel's disposition follows the trap table: a trapped signal is      *)
(* counted, an ignored one, or one ignored at the start, is ignored, and     *)
(* after any sequence of traps an interactive shell still observes INT,      *)
(* TERM, HUP and QUIT, and every shell ALRM.                                 *)
DispositionFollowsTrap ==
  setting = <<>> => \A s \in Sig :
    disposition[s] = IF s \in start.ignored \/ trap_actions[s] = "ignore" THEN "ignore"
                     ELSE IF \/ trap_actions[s] = "command"
                             \/ s = SIGALRM \/ (start.interactive /\ s \in {1, 2, 3, 15})
                          THEN "count"
                     ELSE "default"

Leaving == pc \in {"exit", "leaving", "gone", "killed"}

(* Every counter is drained: a pending signal does not wait for ever at a    *)
(* shell that keeps reading lines, even empty ones.                          *)
PendingDrained == \A s \in Sig : counts[s] > 0 ~> counts[s] = 0 \/ Leaving

(* signals.rs, TERM_RECEIVED: "Non-zero means a fatal signal was received".  *)
(* A script counts a terminating signal only while it is trapped, any other  *)
(* kills it: so it does not exit on one whose trap it has already run.       *)
AnsweredIsNotFatal ==
  [][~start.interactive /\ TERM_RECEIVED # NoSig /\ pc \in {"top", "check"} /\ pc' = "exit" =>
       trap_action(TERM_RECEIVED) # "command" \/ counts[TERM_RECEIVED] > 0]_vars

(* running_trap_sig, which guards the dispatchers against each other, is     *)
(* right: bodies nest only through wait and it names the innermost.          *)
TrapsNested == TypeOK /\ BodiesDoNotNest /\ RunningIsInnermost

=============================================================================
