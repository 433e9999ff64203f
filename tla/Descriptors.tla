---------------------------- MODULE Descriptors ----------------------------
(***************************************************************************)
(* The shell's own file descriptors: redirections of builtins, groups and  *)
(* functions, which are undone when the command ends (RedirGuard), and of  *)
(* exec, which stay; {var} redirections; process substitutions; and        *)
(* coprocesses (exec/src/redirect.rs, coproc.rs, runner.rs, lib.rs).       *)
(*                                                                         *)
(* A descriptor is a number, an open file description a number too: what   *)
(* two descriptors that are dups of each other share.  Descriptors below   *)
(* Limit (RLIMIT_NOFILE) can be opened.                                    *)
(***************************************************************************)
EXTENDS Integers, Sequences, FiniteSets

CONSTANTS
  User,          \* the descriptors redirections open, move and close
  Source,        \* the descriptors they duplicate
  Inherited,     \* the descriptors open at the start
  Limit,
  CoprocName,    \* names of coprocesses; COPROC is the default one
  MaxDepth,      \* nesting of redirected commands
  MaxSteps,      \* redirections and coprocesses in all
  MaxCoprocs

ASSUME LimitsAssumption ==
  /\ Limit \in Nat /\ MaxDepth \in Nat /\ MaxSteps \in Nat /\ MaxCoprocs \in Nat
  /\ User \subseteq Source /\ Source \subseteq 0..(Limit - 1) /\ Inherited \subseteq 0..(Limit - 1)

NoFd == -1
HighFd == 10
GUARD_SAVE_FD_BASE == 50
COPROC_READ_FD == 63
COPROC_WRITE_FD == 60
ProcSubstFd == 63

VARIABLES
  fds,        \* open descriptor -> open file description
  files,      \* the number of descriptions made so far
  stack,      \* the redirected commands being run, innermost last
  pc,         \* "body": inside the innermost one, "apply", "drop", or "persist"
  proc_subst, \* the descriptors of process substitutions
  var,        \* the value of the variable of {var} redirections
  coproc,     \* coprocess name -> its array
  opts,       \* are the variables readonly; the option varredir_close
  given,      \* history: the descriptors {var} redirections have made
  left        \* bounds: redirections and coprocesses left

vars == <<fds, files, stack, pc, proc_subst, var, coproc, opts, given, left>>

-----------------------------------------------------------------------------
(* The system calls, on a descriptor table f. *)

(* The lowest descriptor not below n that is free. *)
Lowest(f, n) ==
  LET free == (n..(n + Cardinality(DOMAIN f))) \ DOMAIN f
  IN  CHOOSE k \in free : \A j \in free : k <= j

Put(f, fd, file) == [x \in DOMAIN f \cup {fd} |-> IF x = fd THEN file ELSE f[x]]

Close(f, closed) == [x \in DOMAIN f \ closed |-> f[x]]

(* fcntl(fd, F_DUPFD, n): the new descriptor, or NoFd with EBADF or EMFILE. *)
DupFd(f, fd, n) == IF fd \in DOMAIN f /\ Lowest(f, n) < Limit THEN Lowest(f, n) ELSE NoFd

CanDup2(f, source, target) == source \in DOMAIN f /\ target < Limit

(* The descriptors that pipe(2) returns, read end first; none with EMFILE. *)
PipeFds(f) ==
  LET r == Lowest(f, 0)
      w == Lowest(Put(f, r, 0), 0)
  IN  IF w < Limit THEN <<r, w>> ELSE <<>>

-----------------------------------------------------------------------------
(* A redirection works on m: the descriptors, the guard of its command     *)
(* (saved_fd, assigned_var_fds) and the variables it may set.  `moved' is  *)
(* history: what the command has closed for good.                          *)

Failed(m) == [m EXCEPT !.ok = FALSE]

(* Saving in a fixed slot: nested guards collide. *)
save_in_slot(m, target, avoid) ==
  LET fd == IF target \in DOMAIN m.fds THEN GUARD_SAVE_FD_BASE ELSE NoFd
  IN  [m EXCEPT !.saved_fd = Append(@, <<target, fd>>),
                !.fds = IF fd = NoFd THEN @ ELSE Put(@, fd, @[target])]

save_fd_avoiding(m, target, avoid) ==
  LET first == DupFd(m.fds, target, GUARD_SAVE_FD_BASE)
      saved == IF first = NoFd THEN DupFd(m.fds, target, HighFd) ELSE first
      fd == IF saved \in avoid THEN DupFd(m.fds, target, saved + 1) ELSE saved
  IN  [m EXCEPT !.saved_fd = Append(@, <<target, fd>>),
                !.fds = IF fd = NoFd THEN @ ELSE Put(@, fd, @[target])]

save_fd(m, target) == save_fd_avoiding(m, target, {})

(* An open that succeeds; the description is new. *)
Opened(m) == [m EXCEPT !.fds = Put(@, Lowest(@, 0), m.files), !.files = @ + 1]

dup2_close(m, source, target) ==
  IF CanDup2(m.fds, source, target)
    THEN [m EXCEPT !.fds = Close(Put(@, target, @[source]), {source} \ {target})]
    ELSE Failed([m EXCEPT !.fds = Close(@, {source})])

(* COPROC forgets a descriptor that a redirection has moved away. *)
mark_coproc_fd_moved(m, source) ==
  [m EXCEPT !.coproc = [n \in CoprocName |->
     IF n = "COPROC"
       THEN [m.coproc[n] EXCEPT !.read = IF @ = source THEN NoFd ELSE @,
                                !.write = IF @ = source THEN NoFd ELSE @]
       ELSE m.coproc[n]]]

(* The source of a move is closed, and not saved. *)
CloseSource(m, source) ==
  mark_coproc_fd_moved([m EXCEPT !.fds = Close(@, {source}), !.moved = @ \cup {source}], source)

(* Open and Heredoc: the file has descriptor fd; then the target is saved  *)
(* and replaced.                                                           *)
Install(m, fd, target) == dup2_close(save_fd(m, target), fd, target)

(* A process substitution opened on its own descriptor is left open. *)
Keep(m, fd) == [m EXCEPT !.proc_subst = [i \in DOMAIN @ |-> IF @[i] = fd THEN NoFd ELSE @[i]]]

DupTo(m, source, target) ==
  LET s == save_fd_avoiding(m, target, {source})
  IN  IF CanDup2(s.fds, source, target)
        THEN [s EXCEPT !.fds = Put(@, target, @[source])]
        ELSE Failed(s)

ErrAndOut(m, fd) ==
  LET s == save_fd(save_fd(m, 1), 2)
      r == dup2_close(s, fd, 1)
  IN  IF r.ok THEN [r EXCEPT !.fds = Put(@, 2, @[1])] ELSE r

(* {var}: the descriptor moves above HighFd and its number is assigned. *)
AssignHigh(m, fd, temporary) ==
  LET high == DupFd(m.fds, fd, HighFd)
      dup == IF high = NoFd THEN m.fds ELSE Put(m.fds, high, m.fds[fd])
      r == [m EXCEPT !.fds = IF temporary THEN Close(dup, {fd}) ELSE dup]
  IN  IF high = NoFd THEN Failed(r)
      ELSE IF opts.readonly THEN Failed([r EXCEPT !.fds = Close(@, {high})])
      ELSE [r EXCEPT !.var = high, !.given = @ \cup {high},
                     !.assigned = IF opts.varredir_close THEN @ \cup {high} ELSE @]

-----------------------------------------------------------------------------
(* A redirection: its instruction, the descriptor or {var} it is for, and  *)
(* the word after the operator.  InputDirection, OutputDirection,          *)
(* OutputForce, AppendingTo and InputOutput are "open"; here-documents and *)
(* here-strings are "heredoc".                                             *)

Var == NoFd
Redirector == User \cup {Var}
Dash == [kind |-> "-"]
Text == [kind |-> "text"]

(* Which plan a redirection calls for; "error" for an ambiguous one. *)
build_plans(instr, redirector, word) ==
  LET IsVar == redirector = Var
      target == IF ~IsVar THEN redirector ELSE IF instr = "dup_input" THEN 0 ELSE 1
      Plan(kind) == [kind |-> kind, target |-> target, source |-> NoFd, close |-> FALSE]
      From(kind, close) == [kind |-> kind, target |-> target, source |-> word.fd, close |-> close]
      Closing == IF IsVar THEN Plan("CloseVar") ELSE Plan("Close")
      Copying(close) == IF IsVar THEN From("AssignFd", close)
                        ELSE IF close THEN From("Move", TRUE) ELSE From("Dup", FALSE)
  IN  CASE instr = "open" -> IF IsVar THEN Plan("AssignVar") ELSE Plan("Open")
        [] instr = "heredoc" -> IF IsVar THEN Plan("AssignHeredoc") ELSE Plan("Heredoc")
        [] instr = "err_and_out" -> Plan("OpenErrAndOut")
        [] word = Dash -> Closing
        [] instr \in {"dup_input", "dup_output"} /\ word.kind = "fd" -> Copying(FALSE)
        [] instr \in {"dup_input", "dup_output"} /\ word.kind = "fd-" -> Copying(TRUE)
        [] instr = "move" /\ word.kind \in {"fd", "fd-"} -> Copying(TRUE)
        [] instr = "dup_output" /\ word = Text /\ target = 1 -> Plan("OpenErrAndOut")
        [] OTHER -> Plan("error")

(* The plan carried out.  path is the descriptor of the process            *)
(* substitution that is opened, if it is one.                              *)
execute_plan(m, plan, path) ==
  LET fd == Lowest(m.fds, 0)
      o == Opened(m)
      CanOpen == fd < Limit
      Pipe == PipeFds(m.fds) # <<>>
  IN  CASE plan.kind = "error" -> Failed(m)
        [] plan.kind = "Open" ->
             IF ~CanOpen THEN Failed(m)
             ELSE LET r == Install(o, fd, plan.target)
                  IN  IF r.ok /\ path = plan.target THEN Keep(r, path) ELSE r
        [] plan.kind = "Dup" ->
             IF plan.source = plan.target THEN m ELSE DupTo(m, plan.source, plan.target)
        [] plan.kind = "Move" ->
             IF plan.source = plan.target THEN m
             ELSE LET r == DupTo(m, plan.source, plan.target)
                  IN  IF r.ok THEN CloseSource(r, plan.source) ELSE r
        [] plan.kind = "Close" ->
             LET s == save_fd(m, plan.target)
             IN  [s EXCEPT !.fds = Close(@, {plan.target})]
        [] plan.kind = "OpenErrAndOut" -> IF CanOpen THEN ErrAndOut(o, fd) ELSE Failed(m)
        [] plan.kind = "Heredoc" -> IF Pipe THEN Install(o, fd, plan.target) ELSE Failed(m)
        [] plan.kind = "AssignVar" -> IF CanOpen THEN AssignHigh(o, fd, TRUE) ELSE Failed(m)
        [] plan.kind = "AssignFd" ->
             LET r == AssignHigh(m, plan.source, FALSE)
             IN  IF r.ok /\ plan.close THEN CloseSource(r, plan.source) ELSE r
        [] plan.kind = "CloseVar" ->
             IF m.var = NoFd THEN Failed(m) ELSE CloseSource(m, m.var)
        [] plan.kind = "AssignHeredoc" -> IF Pipe THEN AssignHigh(o, fd, TRUE) ELSE Failed(m)

(* <(command) or >(command): the shell's end of the pipe moves out of the  *)
(* way, to ProcSubstFd or above.                                           *)
move_proc_subst_parent_fd(f, fd) ==
  IF fd >= ProcSubstFd \/ DupFd(f, fd, ProcSubstFd) = NoFd THEN fd ELSE DupFd(f, fd, ProcSubstFd)

spawn_proc_subst(m, end) ==
  LET pipe == PipeFds(m.fds)
      open == Put(m.fds, pipe[end], m.files)
      fd == move_proc_subst_parent_fd(open, pipe[end])
  IN  IF pipe = <<>> THEN Failed(m)
      ELSE [m EXCEPT !.fds = Put(Close(open, {pipe[end]}), fd, m.files),
                     !.files = @ + 1, !.proc_subst = Append(@, fd)]

-----------------------------------------------------------------------------
(* The commands.  A frame is a redirected command being run: its guard,    *)
(* the length proc_subst had when it began, and history: the descriptors   *)
(* it began with, the ones it has closed for good, the ones it redirects.  *)

Top == stack[Len(stack)]
SetTop(frame) == [stack EXCEPT ![Len(stack)] = frame]
Pop == SubSeq(stack, 1, Len(stack) - 1)
Targets(saved) == {saved[i][1] : i \in DOMAIN saved}

NoCoproc == [read |-> NoFd, write |-> NoFd]

Init ==
  /\ fds = [fd \in Inherited |-> fd] /\ files = 100
  /\ stack = <<>> /\ pc = "body" /\ proc_subst = <<>>
  /\ var = NoFd /\ given = {}
  /\ coproc = [n \in CoprocName |-> NoCoproc]
  /\ opts \in [readonly : BOOLEAN, varredir_close : BOOLEAN] /\ ~(opts.readonly /\ opts.varredir_close)
  /\ left = [steps |-> MaxSteps, coprocs |-> MaxCoprocs]

(* execute_command_inner, or a builtin or a function with redirections,    *)
(* and exec without a command.                                             *)
Begin(kind) ==
  /\ pc = "body" /\ Len(stack) < MaxDepth /\ left.steps > 0
  /\ stack' = Append(stack, [kind |-> kind, saved_fd |-> <<>>, assigned |-> {},
                             mark |-> Len(proc_subst), before |-> fds, moved |-> {},
                             targets |-> {}])
  /\ pc' = "apply"
  /\ UNCHANGED <<fds, files, proc_subst, var, coproc, opts, given, left>>

(* One turn of the loop of apply_redirects_to_parent.  end is 1 for        *)
(* <(command), 2 for >(command), 0 for another word; opens is whether      *)
(* open(2) succeeds.  An error drops the guard.                            *)
Redirected(instr, redirector, word, end, opens) ==
  LET m0 == [fds |-> fds, files |-> files, saved_fd |-> Top.saved_fd, assigned |-> Top.assigned,
             moved |-> Top.moved, proc_subst |-> proc_subst, var |-> var, coproc |-> coproc,
             given |-> given, ok |-> TRUE]
      m == IF end = 0 THEN m0 ELSE spawn_proc_subst(m0, end)
      path == IF end = 0 THEN NoFd ELSE m.proc_subst[Len(m.proc_subst)]
  IN  IF m.ok /\ opens THEN execute_plan(m, build_plans(instr, redirector, word), path)
      ELSE Failed(m)

Redirect(instr, redirector, word, end, opens) ==
  /\ pc = "apply" /\ left.steps > 0
  /\ \E m \in {Redirected(instr, redirector, word, end, opens)} :
      /\ fds' = m.fds /\ files' = m.files /\ proc_subst' = m.proc_subst
      /\ var' = m.var /\ coproc' = m.coproc /\ given' = m.given
      /\ stack' = SetTop([Top EXCEPT !.saved_fd = m.saved_fd, !.assigned = m.assigned,
                                     !.moved = m.moved, !.targets = @ \cup Targets(m.saved_fd)])
      /\ pc' = IF m.ok THEN "apply" ELSE "drop"
      /\ left' = [left EXCEPT !.steps = @ - 1]
      /\ UNCHANGED opts

(* The redirections that differ in what they do: N<&M is N>&M, and N>&M-   *)
(* is both a duplication of the word M- and a move.                        *)
Plainly(redirector) ==
  [instr : {"open"}, word : {Text}, end : 0..2]
    \cup [instr : {"err_and_out"}, word : {Text}, end : IF redirector = Var THEN 0..2 ELSE {}]
    \cup [instr : {"heredoc"}, word : {Text}, end : {0}]

Copies ==
  [instr : {"dup_output"}, end : {0},
   word : [kind : {"fd"}, fd : Source] \cup [kind : {"fd-"}, fd : User] \cup {Dash, Text}]
    \cup [instr : {"dup_input"}, word : {Text}, end : {0}]
    \cup [instr : {"move"}, word : [kind : {"fd"}, fd : User], end : {0}]

RedirectAny ==
  \E redirector \in Redirector, opens \in BOOLEAN :
    \E r \in Plainly(redirector) \cup (IF opens THEN Copies ELSE {}) :
      Redirect(r.instr, redirector, r.word, r.end, opens)

(* All redirections are done: the command runs, or exec keeps them. *)
Applied ==
  /\ pc = "apply"
  /\ pc' = IF Top.kind = "exec" THEN "persist" ELSE "body"
  /\ UNCHANGED <<fds, files, stack, proc_subst, var, coproc, opts, given, left>>

(* The redirected command is over; its guard is dropped. *)
Finish ==
  /\ pc = "body" /\ stack # <<>>
  /\ pc' = "drop"
  /\ UNCHANGED <<fds, files, stack, proc_subst, var, coproc, opts, given, left>>

(* RedirGuard::drop, one saved descriptor, the last one first. *)
Restore(f, target, saved) ==
  IF saved = NoFd THEN Close(f, {target})
  ELSE Close(IF CanDup2(f, saved, target) THEN Put(f, target, f[saved]) ELSE f, {saved})

(* Without the rev(): the first one first. *)
DropFirst ==
  /\ pc = "drop" /\ Top.saved_fd # <<>>
  /\ LET entry == Top.saved_fd[1]
     IN  /\ fds' = Restore(fds, entry[1], entry[2])
         /\ stack' = SetTop([Top EXCEPT !.saved_fd = Tail(@)])
  /\ UNCHANGED <<files, pc, proc_subst, var, coproc, opts, given, left>>

DropOne ==
  /\ pc = "drop" /\ Top.saved_fd # <<>>
  /\ LET n == Len(Top.saved_fd)
         entry == Top.saved_fd[n]
     IN  /\ fds' = Restore(fds, entry[1], entry[2])
         /\ stack' = SetTop([Top EXCEPT !.saved_fd = SubSeq(@, 1, n - 1)])
  /\ UNCHANGED <<files, pc, proc_subst, var, coproc, opts, given, left>>

(* close_proc_subst_since. *)
HandlesSince(mark) == {proc_subst[i] : i \in (mark + 1)..Len(proc_subst)}

Return(closed) ==
  /\ fds' = Close(fds, closed \cup HandlesSince(Top.mark))
  /\ proc_subst' = SubSeq(proc_subst, 1, Top.mark)
  /\ stack' = Pop /\ pc' = "body"
  /\ UNCHANGED <<files, var, coproc, opts, given, left>>

(* The end of drop, and of the command. *)
DropEnd == pc = "drop" /\ Top.saved_fd = <<>> /\ Return(Top.assigned)

(* RedirGuard::persist. *)
persist == pc = "persist" /\ Return({Top.saved_fd[i][2] : i \in DOMAIN Top.saved_fd})

(* coproc: two pipes; the shell's ends go to fixed descriptors.  forks is  *)
(* whether fork(2) succeeds.  A readonly array is not assigned, and        *)
(* queue_coproc_cleanup only queues a cleanup.                             *)
move_fd_to(f, source, target) ==
  IF source # target /\ CanDup2(f, source, target)
    THEN Close(Put(f, target, f[source]), {source}) ELSE f

MovedTo(f, source, target) == IF CanDup2(f, source, target) THEN target ELSE source

start_coproc(name, forks) ==
  LET to == PipeFds(fds)
      f1 == Put(Put(fds, to[1], files), to[2], files)
      from == PipeFds(f1)
      f2 == Close(Put(Put(f1, from[1], files + 1), from[2], files + 1), {to[1], from[2]})
      read == MovedTo(f2, from[1], COPROC_READ_FD)
      f3 == move_fd_to(f2, from[1], COPROC_READ_FD)
      write == MovedTo(f3, to[2], COPROC_WRITE_FD)
  IN  /\ pc = "body" /\ left.coprocs > 0 /\ left.steps > 0
      /\ left' = [left EXCEPT !.coprocs = @ - 1, !.steps = @ - 1]
      /\ IF to = <<>> \/ from = <<>> \/ ~forks THEN UNCHANGED <<fds, files, coproc>>
         ELSE /\ fds' = move_fd_to(f3, to[2], COPROC_WRITE_FD) /\ files' = files + 2
              /\ coproc' = IF opts.readonly THEN coproc
                           ELSE [coproc EXCEPT ![name] = [read |-> read, write |-> write]]
      /\ UNCHANGED <<stack, pc, proc_subst, var, opts, given>>

Next ==
  \/ \E kind \in {"group", "exec"} : Begin(kind)
  \/ RedirectAny \/ Applied \/ Finish \/ DropOne \/ DropEnd \/ persist
  \/ \E name \in CoprocName, forks \in BOOLEAN : start_coproc(name, forks)

Spec == Init /\ [][Next]_vars

-----------------------------------------------------------------------------

(* The type invariant; {var} never gets a descriptor below HighFd. *)
TypeOK ==
  /\ DOMAIN fds \subseteq 0..(Limit - 1) /\ \A fd \in DOMAIN fds : fds[fd] \in 0..(files - 1)
  /\ pc \in {"body", "apply", "drop", "persist"} /\ pc # "body" => stack # <<>>
  /\ var \in {NoFd} \cup (HighFd..(Limit - 1))
  /\ \A i \in DOMAIN stack : stack[i].kind \in {"group", "exec"}

SavedIn(frame) == {frame.saved_fd[i][2] : i \in DOMAIN frame.saved_fd} \ {NoFd}
Saved == UNION {SavedIn(stack[i]) : i \in DOMAIN stack}
Coprocs == UNION {{coproc[n].read, coproc[n].write} : n \in CoprocName}
Handles == {proc_subst[i] : i \in DOMAIN proc_subst}

(* What RedirGuard is for: when a redirected command ends, or one of its   *)
(* redirections fails, every descriptor it redirected that was open before *)
(* is the same open file again.  (The source of a move is closed for good, *)
(* in the command that moves it.)                                          *)
GuardRestores ==
  pc = "drop" /\ pc' = "body" =>
    \A fd \in (Top.targets \cap DOMAIN Top.before) \ Top.moved :
      fd \in DOMAIN fds' /\ fds'[fd] = Top.before[fd]

(* exec without a command: what it redirected stays redirected when its    *)
(* guard and its process substitutions are disposed of.  (For descriptors  *)
(* the user names below those of process substitutions: one that replaces  *)
(* the handle of an earlier substitution is closed with it.)               *)
ExecPersists ==
  pc = "persist" =>
    \A fd \in Top.targets :
      /\ fd \in DOMAIN fds <=> fd \in DOMAIN fds'
      /\ fd \in DOMAIN fds => fds'[fd] = fds[fd]

(* Nothing leaks: a descriptor above the ones the user names is held by a  *)
(* guard that will close it, is a process substitution's or a              *)
(* coprocess's, or was given to a variable.  (A coprocess whose array is   *)
(* readonly keeps its two descriptors, though nothing names them.)         *)
NothingLeaks ==
  \A fd \in DOMAIN fds :
    fd >= HighFd =>
      \/ fd \in Saved \cup Handles \cup Coprocs \cup given \cup Inherited
      \/ opts.readonly /\ left.coprocs < MaxCoprocs /\ fd \in {COPROC_READ_FD, COPROC_WRITE_FD}

(* Two guards never hold the same descriptor, and every one they hold is   *)
(* open: nothing the commands inside do closes or reuses it.               *)
SavedAreOpen ==
  /\ Saved \subseteq DOMAIN fds
  /\ \A i, j \in DOMAIN stack : i # j => SavedIn(stack[i]) \cap SavedIn(stack[j]) = {}

(* A redirection lasts exactly as long as it should: RedirGuard takes back *)
(* those of a command, whichever of them failed, and none of exec's.       *)
RedirectionsScoped == [][GuardRestores /\ ExecPersists]_vars

(* Every high descriptor has one owner, and what a guard owns is open.     *)
DescriptorsOwned == TypeOK /\ NothingLeaks /\ SavedAreOpen

=============================================================================
