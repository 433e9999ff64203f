------------------------------ MODULE Executor ------------------------------
(***************************************************************************)
(* The executor of crates/exec: commands run on a stack of frames, one per *)
(* call of execute_command_inner, and share one ExecContext, whose field   *)
(* `pending` holds the unwinding in progress.  break, continue, return,    *)
(* exit and errors set it, loops, functions, sourced files and newlines    *)
(* take it, and ERR, DEBUG, RETURN, EXIT and signal traps run commands in  *)
(* the middle.  The program is chosen as it runs: every step that executes *)
(* a command picks one, so that all programs within the bounds are met.    *)
(* posix, extdebug and the interactive options are off.                    *)
(***************************************************************************)
EXTENDS Integers, Sequences, FiniteSets

CONSTANTS
  Scenarios,    \* the programs looked at: options, traps, the commands a program
                \* and a trap body may contain, as <<kind, argument>>, and how
                \* many commands other than `:' are executed in all
  MaxDepth,     \* frames above which only simple commands are executed
  MaxItems,     \* words of a for loop
  MaxSignals,   \* trapped signals that arrive
  FuncNest      \* FUNCNEST, 0 for no limit

ASSUME BoundsAssumption ==
  /\ {MaxDepth, MaxItems, MaxSignals, FuncNest} \subseteq Nat
  /\ \A s \in Scenarios :
       /\ s.opt \in [errexit: BOOLEAN, functrace: BOOLEAN, errtrace: BOOLEAN,
                     lastpipe: BOOLEAN, pipefail: BOOLEAN, invert: BOOLEAN]
       /\ s.size \in Nat

VARIABLES
  stack,    \* the frames of the running commands, the innermost last
  ctx,      \* ExecContext and the trap state of the environment
  ret,      \* the status the command that finished last returned
  budget,   \* commands still to be chosen
  signals,  \* trapped signals still to arrive
  opt,      \* shell options, and whether the program may contain !
  program,  \* the commands of the program and of the trap bodies
  traps,    \* the traps other than EXIT that have a command action
  ghost     \* what the properties remember of the run

vars == <<stack, ctx, ret, budget, signals, opt, program, traps, ghost>>

-----------------------------------------------------------------------------
(* Unwinding and frames                                                    *)

Unwind(u, n) == [u |-> u, n |-> n]
None == Unwind("none", 0)

Colon == <<"cmd", 0>>
LoopKinds == {"while", "until", "for", "arithfor", "select"}
ListKinds == {"semi", "newline", "amp"}
CompoundKinds == LoopKinds \cup ListKinds
                 \cup {"and", "or", "pipe", "group", "subshell", "if", "case"}
CallKinds == {"call", "source", "eval"}
\* The commands dispatch runs inside with_abort_line_boundary.
Boundary == LoopKinds \cup {"group", "if", "case"}

\* suppress_own_err_trap is `body'; st is the local `status'; n is the number a
\* simple command has, or the items left; saved is what a frame restores.
Frame(c, inv, body) == [k |-> c[1], n |-> c[2], inv |-> inv, body |-> body,
                        pc |-> "enter", st |-> 0, saved |-> <<>>]

Top == stack[Len(stack)]
Rest == SubSeq(stack, 1, Len(stack) - 1)
At(pc) == stack # <<>> /\ Top.pc = pc
AtKind(K, pc) == At(pc) /\ Top.k \in K

To(pc) == [Top EXCEPT !.pc = pc]
ToWith(pc, st) == [Top EXCEPT !.pc = pc, !.st = st]

Step(f, c) ==
  /\ stack' = Append(Rest, f) /\ ctx' = c
  /\ UNCHANGED <<ret, budget, signals, opt, program, traps>>

\* What may be executed here: connections of && || | and ! hold no lists.
Choices(f) ==
  IF budget = 0 THEN {Colon}
  ELSE IF f.k = "trap" THEN program.body
  ELSE {c \in program.commands : /\ c[1] \in CompoundKinds \cup CallKinds => Len(stack) < MaxDepth
                         /\ f.k \in {"and", "or", "pipe"} => c[1] \notin ListKinds}

(* execute_command_inner called by the top frame, which goes on as f, in   *)
(* the context c: nothing runs, and the last status is returned, while an  *)
(* unwinding is pending.                                                   *)
ExecuteAs(f, c, body) ==
  /\ ctx' = c
  /\ UNCHANGED <<signals, opt, program, traps>>
  /\ \/ /\ c.pending # None
        /\ stack' = Append(Rest, f) /\ ret' = c.last
        /\ UNCHANGED budget
     \/ /\ c.pending = None
        /\ \E cmd \in Choices(f), inv \in BOOLEAN :
             /\ inv => opt.invert /\ cmd # Colon /\ cmd[1] \notin ListKinds
             /\ stack' = Append(Append(Rest, f), Frame(cmd, inv, body))
             /\ budget' = IF cmd = Colon THEN budget ELSE budget - 1
        /\ UNCHANGED ret

Execute(f, c) == ExecuteAs(f, c, FALSE)

-----------------------------------------------------------------------------
(* Traps.  A trap body is a frame of kind "trap": run_trap_body saves the  *)
(* status and the running trap and restores them.  With an unwinding       *)
(* pending its commands return at once, so the body has no effect.         *)

MayRun(t, c) ==
  /\ t \in traps
  /\ c.pending = None
  /\ CASE t = "DEBUG"  -> c.running # "DEBUG"
       [] t = "RETURN" -> c.running \notin {"RETURN", "DEBUG"}
       [] OTHER        -> c.running = "none"     \* ERR and signals

DebugInScope(c) ==
  /\ ~c.supDebug
  /\ \/ c.func = 0 /\ c.src = 0
     \/ opt.functrace
     \/ c.scopes # <<>> /\ c.scopes[Len(c.scopes)]

ErrInScope(f, c) ==
  /\ ~c.supErr /\ ~f.inv /\ c.sup = 0
  /\ c.func = 0 \/ opt.errtrace

(* run_trap_body for t in front of what the top frame does next as f.  The *)
(* body sees the status st; the caller restores its own status whatever    *)
(* the body does if `always'.                                              *)
TrapFrame(t, c, always, pending) ==
  [Frame(<<"trap", 0>>, FALSE, FALSE) EXCEPT
     !.pc = "body",
     !.saved = [t |-> t, last |-> c.last, running |-> c.running, base |-> c.base,
                always |-> always, pending |-> pending]]

RunTrap(t, f, c, st, always) ==
  /\ stack' = Append(Append(Rest, f), TrapFrame(t, c, always, c.pending))
  /\ ctx' = [c EXCEPT !.running = t, !.base = c.func, !.last = st, !.pending = None,
                      !.exitTrap = @ /\ t # "EXIT"]
  /\ UNCHANGED <<ret, budget, opt, program, traps>>

\* A trap that runs if it may; otherwise the frame just goes on.
TrapOr(t, allowed, f, c, st, always) ==
  IF allowed /\ MayRun(t, c)
  THEN RunTrap(t, f, c, st, always) /\ UNCHANGED signals
  ELSE Step(f, c)

TrapBody ==
  /\ AtKind({"trap"}, "body")
  /\ Execute(To("ran"), ctx)
  /\ UNCHANGED ghost

(* The end of run_trap_body, and of run_exit_trap for EXIT: a `return' in  *)
(* a trap run outside functions only sets the status; an exit in the EXIT  *)
(* trap replaces the status the shell exits with.                          *)
TrapDone ==
  LET s == Top.saved
      returned == ctx.pending.u = "return" /\ ctx.base = 0 /\ ctx.func = 0
      p == IF returned THEN None ELSE ctx.pending
  IN
  /\ AtKind({"trap"}, "ran")
  /\ stack' = Rest
  /\ ctx' = [ctx EXCEPT
       !.last = IF returned /\ ~s.always THEN ctx.pending.n ELSE s.last,
       !.pending = IF s.t = "EXIT" /\ p.u # "exit" THEN s.pending ELSE p,
       !.running = s.running, !.base = s.base]
  /\ UNCHANGED <<ret, budget, signals, opt, program, traps, ghost>>

(* run_pending_traps: a signal that has arrived is taken; if an unwinding  *)
(* is pending its body does not run and the arrival is used up.            *)
TakeSignal ==
  /\ stack # <<>> /\ Top.pc \in {"enter", "exec", "left"}
  /\ Top.k \notin CompoundKinds \/ Top.pc # "exec"
  /\ signals > 0 /\ ctx.running = "none" /\ "SIG" \in traps
  /\ signals' = signals - 1
  /\ IF ctx.pending = None
     THEN RunTrap("SIG", Top, ctx, ctx.last, FALSE)
     ELSE UNCHANGED <<stack, ctx, ret, budget, opt, program, traps>>
  /\ UNCHANGED ghost

-----------------------------------------------------------------------------
(* execute_command_inner around dispatch                                   *)

\* The loops that count in loop_depth, and the places where errexit is off.
InLoop(f) == f.k \in LoopKinds /\ f.pc \in {"cond", "tested", "item", "body", "step", "stepped"}
InTest(f) ==
  \/ f.k \in {"and", "or"} /\ f.pc = "first"
  \/ f.k \in {"if", "while", "until"} /\ f.pc = "tested"
Inverting(f) == f.inv /\ f.pc \notin {"enter", "left"}

Enter ==
  /\ At("enter")
  /\ UNCHANGED ghost
  /\ IF ctx.pending # None
     THEN /\ stack' = Rest /\ ret' = ctx.last
          /\ UNCHANGED <<ctx, budget, signals, opt, program, traps>>
     ELSE Step(To("run"), [ctx EXCEPT !.sup = @ + (IF Top.inv THEN 1 ELSE 0)])

(* The redirections of a compound command fail: the ERR trap runs for      *)
(* these commands and dispatch does not happen.                            *)
RedirectionFails ==
  /\ AtKind(LoopKinds \cup {"case", "group", "subshell"}, "run")
  /\ TrapOr("ERR", TRUE, ToWith("raw", 1), [ctx EXCEPT !.last = 1], 1, FALSE)
  /\ UNCHANGED ghost

FinishKeepsBoundary(st, c) == Step(ToWith("raw", st), c)

\* dispatch returns: the line boundary of a compound command is left.
Finish(st, c) ==
  Step(ToWith("raw", st),
       [c EXCEPT !.abort = IF Top.k \in Boundary THEN @ - 1 ELSE @])

maybe_run_err_trap(f, c) ==
  /\ f.k \in LoopKinds \cup {"subshell", "case", "group", "pipe"}
  /\ ~f.body /\ ErrInScope(f, c)

Leave ==
  LET st == IF Top.inv /\ ctx.pending.u # "abort"
            THEN (IF Top.st = 0 THEN 1 ELSE 0) ELSE Top.st
      c  == [ctx EXCEPT !.sup = @ - (IF Top.inv THEN 1 ELSE 0), !.last = st]
  IN
  /\ At("raw")
  /\ TrapOr("ERR", st # 0 /\ maybe_run_err_trap(Top, c), ToWith("left", st), c, st, FALSE)
  /\ UNCHANGED ghost

maybe_errexit_outside_functions(f, c) ==
  /\ c.sup = 0 /\ c.pending = None /\ opt.errexit /\ ~f.inv /\ c.func = 0
  /\ f.k \notin {"if", "while", "until", "and", "or"} \cup ListKinds
  /\ c.last # 0

maybe_errexit(f, c) ==
  /\ c.sup = 0 /\ c.pending = None /\ opt.errexit /\ ~f.inv
  /\ f.k \notin {"if", "while", "until", "and", "or"} \cup ListKinds
  /\ c.last # 0

\* A failure no enclosing construct examines, by the frames and not the counter.
Unexamined(f) ==
  /\ f.st # 0 /\ ~f.inv /\ f.k \notin CompoundKinds
  /\ \A i \in 1..Len(stack) - 1 : ~InTest(stack[i]) /\ ~Inverting(stack[i])

Return ==
  /\ At("left")
  /\ stack' = Rest /\ ret' = Top.st
  /\ ctx' = IF maybe_errexit(Top, ctx)
            THEN [ctx EXCEPT !.pending = Unwind("exit", ctx.last)] ELSE ctx
  /\ ghost' = [ghost EXCEPT !.guilty = @ \/ (/\ opt.errexit /\ ctx.pending = None
                                             /\ ctx.last # 0 /\ Unexamined(Top))]
  /\ UNCHANGED <<budget, signals, opt, program, traps>>

-----------------------------------------------------------------------------
(* Simple commands                                                         *)

\* The DEBUG trap comes before every simple command.
SimpleDebug ==
  /\ At("run") /\ Top.k \notin CompoundKinds \cup {"trap"}
  /\ TrapOr("DEBUG", DebugInScope(ctx), To("exec"), ctx, ctx.last, FALSE)
  /\ UNCHANGED ghost

\* Assignments are expanded and made even if the DEBUG trap began an unwinding.
\* An expansion error, or a readonly name, abandons the line.
AssignmentOnly ==
  /\ AtKind({"assign", "badassign"}, "exec")
  /\ Step(ToWith("errtrap", Top.n),
          IF Top.k = "badassign" THEN [ctx EXCEPT !.pending = Unwind("abort", 1)] ELSE ctx)
  /\ UNCHANGED ghost

\* An expansion error in the command word: the ERR trap, then the unwinding.
BadWord ==
  /\ AtKind({"badword"}, "exec")
  /\ TrapOr("ERR", ErrInScope(Top, ctx), ToWith("worderr", 1), ctx, 1, TRUE)
  /\ UNCHANGED ghost

BadWordUnwinds ==
  /\ At("worderr")
  /\ \E u \in {"exit", "abort"} : Step(To("raw"), [ctx EXCEPT !.pending = Unwind(u, 1)])
  /\ UNCHANGED ghost

\* The check of `pending' before the command is looked up.
Abandon ==
  /\ At("exec") /\ Top.k \notin {"assign", "badassign", "badword"}
  /\ ctx.pending # None
  /\ Step(ToWith("raw", ctx.last), ctx)
  /\ UNCHANGED ghost

Ready(K) == AtKind(K, "exec") /\ ctx.pending = None

Simple ==
  /\ Ready({"cmd"})
  /\ Step(ToWith("errtrap", Top.n), ctx)
  /\ UNCHANGED ghost

\* The loop frame n levels up.
LoopAt(n) ==
  CHOOSE i \in 1..Len(stack) :
    InLoop(stack[i]) /\ Cardinality({j \in i..Len(stack) : InLoop(stack[j])}) = n

Min(a, b) == IF a < b THEN a ELSE b

(* break n and continue n: outside loops they do nothing; a count out of   *)
(* range breaks one loop, for continue too; a large one is capped.         *)
BreakOrContinue ==
  LET n == Min(Top.n, ctx.loop)
      r == IF Top.n = 0 THEN Unwind("break", 1) ELSE Unwind(Top.k, n)
  IN
  /\ Ready({"break", "continue"})
  /\ IF ctx.loop = 0
     THEN Step(ToWith("errtrap", 0), ctx) /\ UNCHANGED ghost
     ELSE /\ Step(ToWith("errtrap", IF Top.n = 0 THEN 1 ELSE 0), [ctx EXCEPT !.pending = r])
          /\ ghost' = [ghost EXCEPT !.target = LoopAt(r.n),
                                    !.stray = ctx.running = "DEBUG"]

\* The innermost function or sourced file.
InCall(f) == f.k = "call" /\ f.pc \in {"callbody", "called", "callexit", "callpop"}
InSource(f) == f.k = "source" /\ f.pc = "sourced"
CallOrSource ==
  CHOOSE i \in 1..Len(stack) :
    /\ InCall(stack[i]) \/ InSource(stack[i])
    /\ \A j \in i + 1..Len(stack) : ~InCall(stack[j]) /\ ~InSource(stack[j])

ReturnBuiltin ==
  /\ Ready({"return"})
  /\ IF ctx.func = 0 /\ ctx.src = 0
     THEN Step(ToWith("errtrap", 2), ctx)
          /\ UNCHANGED ghost
     ELSE /\ Step(ToWith("errtrap", Top.n),
                  [ctx EXCEPT !.pending = Unwind("return", Top.n), !.retTrap = ctx.last])
          /\ ghost' = [ghost EXCEPT !.target = CallOrSource,
                                    !.stray = stack[CallOrSource].pc = "callexit"]

ExitBuiltin ==
  /\ Ready({"exit"})
  /\ Step(ToWith("errtrap", Top.n), [ctx EXCEPT !.pending = Unwind("exit", Top.n)])
  /\ UNCHANGED ghost

\* `trap ... EXIT': in a subshell the new trap is its own.
TrapBuiltin ==
  /\ Ready({"trapexit"})
  /\ Step(ToWith("errtrap", 0), [ctx EXCEPT !.exitTrap = TRUE, !.exitSup = FALSE])
  /\ ghost' = [ghost EXCEPT !.exits = 0, !.armed = TRUE]

\* run_err_trap_with_status at the end of a simple command.
SimpleErr ==
  /\ At("errtrap")
  /\ TrapOr("ERR", Top.st # 0 /\ ErrInScope(Top, ctx), To("raw"), ctx, Top.st, TRUE)
  /\ UNCHANGED ghost

-----------------------------------------------------------------------------
(* Functions, sourced files, eval                                          *)

\* function::call up to its DEBUG trap; FUNCNEST refuses the call.
Call ==
  LET traced == opt.functrace
      c == [ctx EXCEPT !.func = @ + 1, !.scopes = Append(@, traced)]
  IN
  /\ Ready({"call"})
  /\ IF FuncNest > 0 /\ ctx.func >= FuncNest
     THEN Step(ToWith("errtrap", 1), ctx)
     ELSE TrapOr("DEBUG", traced, To("callbody"), c, c.last, FALSE)
  /\ UNCHANGED ghost

\* The redirections of the call may fail; the body does not run its own ERR trap.
CallBody ==
  /\ At("callbody")
  /\ \/ ExecuteAs(To("called"), [ctx EXCEPT !.abort = @ + 1], TRUE)
     \/ /\ stack' = Append(Rest, To("called")) /\ ret' = 1
        /\ ctx' = [ctx EXCEPT !.abort = @ + 1]
        /\ UNCHANGED <<budget, signals, opt, program, traps>>
  /\ UNCHANGED ghost

\* A pending Return becomes the status; the RETURN trap sees the status before it.
Called ==
  LET returns == ctx.pending.u = "return"
      c == [ctx EXCEPT !.abort = @ - 1, !.pending = IF returns THEN None ELSE @]
      st == IF returns THEN ctx.pending.n ELSE ret
  IN
  /\ At("called")
  /\ TrapOr("RETURN", opt.functrace, ToWith("callexit", st), c,
            IF returns THEN ctx.retTrap ELSE c.last, TRUE)
  /\ UNCHANGED ghost

ExitTrapInherited(c) == c.exitTrap

\* run_exit_trap while the function's variables are still in scope.
ExitTrapDue(c) == c.exitTrap /\ ~c.exitSup

CallExit ==
  /\ At("callexit")
  /\ IF ctx.pending.u = "exit" /\ ExitTrapDue(ctx)
     THEN /\ RunTrap("EXIT", To("callpop"), ctx, ctx.last, TRUE)
          /\ ghost' = [ghost EXCEPT !.exits = @ + 1]
          /\ UNCHANGED signals
     ELSE Step(To("callpop"), ctx) /\ UNCHANGED ghost

CallPop ==
  /\ At("callpop")
  /\ Step(To("errtrap"),
          [ctx EXCEPT !.func = @ - 1, !.scopes = SubSeq(@, 1, Len(@) - 1)])
  /\ UNCHANGED ghost

\* run_source_inner, for `source' and for `eval'.
Source ==
  LET f == [To("sourced") EXCEPT !.saved = ctx.abort]
      c == [ctx EXCEPT !.abort = 0]
  IN
  /\ Ready({"source", "eval"})
  /\ \/ IF Top.k = "eval" THEN Execute(f, c)
        ELSE Execute(f, [c EXCEPT !.src = @ + 1, !.scopes = Append(@, opt.functrace)])
     \/ Step(ToWith("errtrap", 2), ctx)       \* the text does not parse
  /\ UNCHANGED ghost

Sourced ==
  LET file == Top.k = "source"
      p == ctx.pending
      takes == p.u = "abort" \/ (p.u = "return" /\ file)
      c == [ctx EXCEPT !.abort = Top.saved,
                       !.src = IF file THEN @ - 1 ELSE @,
                       !.scopes = IF file THEN SubSeq(@, 1, Len(@) - 1) ELSE @,
                       !.pending = IF takes THEN None ELSE @]
      st == IF p.u = "return" THEN p.n ELSE ret
      trap == file /\ p.u \notin {"return", "abort"} /\ (c.func = 0 \/ opt.functrace)
  IN
  /\ At("sourced")
  /\ TrapOr("RETURN", trap, [ToWith("srcdone", st) EXCEPT !.saved = c.supDebug],
            [c EXCEPT !.supDebug = @ \/ (trap /\ ~opt.functrace)], c.last, FALSE)
  /\ UNCHANGED ghost

SourceDone ==
  /\ At("srcdone")
  /\ Step([To("errtrap") EXCEPT !.saved = <<>>], [ctx EXCEPT !.supDebug = Top.saved])
  /\ UNCHANGED ghost

-----------------------------------------------------------------------------
(* Connections                                                             *)

AndOr ==
  /\ AtKind({"and", "or"}, "run")
  /\ Execute(To("first"), [ctx EXCEPT !.sup = @ + 1])
  /\ UNCHANGED ghost

AndOrSecond ==
  LET c == [ctx EXCEPT !.sup = @ - 1] IN
  /\ AtKind({"and", "or"}, "first")
  /\ IF c.pending = None /\ ((Top.k = "and") <=> (ret = 0))
     THEN Execute(To("last"), c)
     ELSE Finish(ret, c)
  /\ UNCHANGED ghost

List ==
  /\ AtKind({"semi", "newline"}, "run")
  /\ Execute(To("first"), ctx)
  /\ UNCHANGED ghost

\* Only a newline outside every compound command takes an AbortLine.
ListSecond ==
  LET taken == Top.k = "newline" /\ ctx.pending.u = "abort" /\ ctx.abort = 0 IN
  /\ AtKind({"semi", "newline"}, "first")
  /\ IF taken THEN Execute(To("last"), [ctx EXCEPT !.pending = None, !.last = ctx.pending.n])
     ELSE IF ctx.pending # None THEN Finish(ctx.last, ctx)
     ELSE Execute(To("last"), ctx)
  /\ UNCHANGED ghost

\* spawn_background forks the first command, which changes nothing here.
Background ==
  /\ AtKind({"amp"}, "run")
  /\ Execute(To("last"), ctx)
  /\ UNCHANGED ghost

\* The command a construct ends with gives its status.
LastOf ==
  /\ AtKind({"and", "or", "group", "if"} \cup ListKinds, "last")
  /\ Finish(ret, ctx)
  /\ UNCHANGED ghost

(* A pipeline of two: the DEBUG trap in the parent, the stages forked; the *)
(* last one runs here with lastpipe.  pipe() or fork() may fail.           *)
PipeDebugInScope(c) ==
  /\ ~c.supDebug /\ "DEBUG" \in traps
  /\ (c.func = 0 /\ c.src = 0) \/ (c.scopes # <<>> /\ c.scopes[Len(c.scopes)])

PipeDebug ==
  /\ AtKind({"pipe"}, "run")
  /\ TrapOr("DEBUG", PipeDebugInScope(ctx), To("fork"), ctx, ctx.last, FALSE)
  /\ UNCHANGED ghost

PipeStatus(first, second) ==
  IF opt.pipefail /\ second = 0 THEN first ELSE second

PipeFork ==
  /\ AtKind({"pipe"}, "fork")
  /\ \/ Finish(1, ctx)
     \/ /\ ~opt.lastpipe
        /\ \E a \in {0, 1}, b \in {0, 1} : Finish(PipeStatus(a, b), ctx)
     \/ /\ opt.lastpipe
        /\ Execute([To("last") EXCEPT !.saved = ctx.supDebug],
                   [ctx EXCEPT !.supDebug = @ \/ PipeDebugInScope(ctx)])
  /\ UNCHANGED ghost

PipeLast ==
  /\ AtKind({"pipe"}, "last")
  /\ \E a \in {0, 1} :
       Step([ToWith("raw", PipeStatus(a, ret)) EXCEPT !.saved = <<>>],
            [ctx EXCEPT !.supDebug = Top.saved])
  /\ UNCHANGED ghost

-----------------------------------------------------------------------------
(* Compound commands                                                       *)

InBoundary == [ctx EXCEPT !.abort = @ + 1]

Group ==
  /\ AtKind({"group"}, "run")
  /\ Execute(To("last"), InBoundary)
  /\ UNCHANGED ghost

If ==
  /\ AtKind({"if"}, "run")
  /\ Execute(To("tested"), [InBoundary EXCEPT !.sup = @ + 1])
  /\ UNCHANGED ghost

IfBranch ==
  LET c == [ctx EXCEPT !.sup = @ - 1] IN
  /\ AtKind({"if"}, "tested")
  /\ \/ c.pending # None /\ Finish(ret, c)
     \/ c.pending = None /\ Execute(To("last"), c)
     \/ c.pending = None /\ ret # 0 /\ Finish(0, c)      \* no else
  /\ UNCHANGED ghost

LoopTakes(p) == p.u \in {"break", "continue"}
Unwound(p) == IF LoopTakes(p) THEN (IF p.n = 1 THEN None ELSE Unwind(p.u, p.n - 1)) ELSE p
handle_loop_unwind(p) == p = None \/ p = Unwind("continue", 1)

EndLoop(st, c) == Finish(st, [c EXCEPT !.loop = @ - 1])

\* dispatch runs the DEBUG trap before these loops.
LoopDebug ==
  /\ AtKind({"select", "arithfor"}, "run")
  /\ TrapOr("DEBUG", DebugInScope(ctx), To("start"), ctx, ctx.last, FALSE)
  /\ UNCHANGED ghost

\* The top of each loop, after what precedes its first round.
StartLoop ==
  LET c == [InBoundary EXCEPT !.loop = @ + 1] IN
  /\ AtKind({"while", "until", "for"}, "run") \/ AtKind({"select", "arithfor"}, "start")
  /\ CASE Top.k \in {"while", "until"} -> Step(To("cond"), c)
       [] Top.k = "select"            -> \/ Finish(1, InBoundary)       \* not a name
                                         \/ Step(To("item"), c)
       [] Top.k = "for"               -> \/ Finish(1, InBoundary)
                                         \/ EndLoop(1, [c EXCEPT !.pending = Unwind("exit", 1)])
                                         \/ \E n \in 0..MaxItems : Step([To("item") EXCEPT !.n = n], c)
       [] OTHER                       -> \/ Finish(1, InBoundary)       \* init fails
                                         \/ Step(To("cond"), c)
  /\ UNCHANGED ghost

While ==
  /\ AtKind({"while", "until"}, "cond")
  /\ Execute(To("tested"), [ctx EXCEPT !.sup = @ + 1])
  /\ UNCHANGED ghost

WhileTested ==
  LET p == ctx.pending
      c == [ctx EXCEPT !.sup = @ - 1, !.pending = Unwound(p)]
      proceed == p = None \/ (p = Unwind("continue", 1) /\ Top.k = "until")
  IN
  /\ AtKind({"while", "until"}, "tested")
  /\ IF p = Unwind("continue", 1) /\ Top.k = "while" THEN Step(To("cond"), c)
     ELSE IF proceed /\ ((Top.k = "while") <=> (ret = 0)) THEN Execute(To("body"), c)
     ELSE EndLoop(Top.st, c)
  /\ UNCHANGED ghost

\* for runs the DEBUG trap before each item; the assignment may fail.
ForItem ==
  /\ AtKind({"for"}, "item")
  /\ IF Top.n = 0 THEN EndLoop(Top.st, ctx)
     ELSE TrapOr("DEBUG", DebugInScope(ctx), [To("step") EXCEPT !.n = @ - 1], ctx, ctx.last, FALSE)
  /\ UNCHANGED ghost

ForAssign ==
  /\ AtKind({"for"}, "step")
  /\ \/ EndLoop(Top.st, ctx)
     \/ Execute(To("body"), ctx)
  /\ UNCHANGED ghost

\* select reads a line: end of file or a failed assignment ends the loop.
SelectItem ==
  /\ AtKind({"select"}, "item")
  /\ \/ EndLoop(Top.st, ctx)
     \/ Execute(To("body"), ctx)
  /\ UNCHANGED ghost

\* The test and the step of an arithmetic for come after a DEBUG trap.  The test
\* ends the loop without taking what the trap has requested.
ArithDebug ==
  /\ AtKind({"arithfor"}, "cond")
  /\ TrapOr("DEBUG", DebugInScope(ctx), To("tested"), ctx, ctx.last, FALSE)
  /\ UNCHANGED ghost

ArithTest ==
  /\ AtKind({"arithfor"}, "tested")
  /\ \/ EndLoop(Top.st, ctx)
     \/ ctx.pending = None /\ Execute(To("body"), ctx)
  /\ UNCHANGED ghost

\* The end of a round of any loop.
LoopBody ==
  LET c == [ctx EXCEPT !.pending = Unwound(ctx.pending)]
      next == CASE Top.k \in {"while", "until"} -> "cond"
                [] Top.k = "arithfor"           -> "step"
                [] OTHER                        -> "item"
  IN
  /\ AtKind(LoopKinds, "body")
  /\ IF handle_loop_unwind(ctx.pending) THEN Step(ToWith(next, ret), c)
     ELSE EndLoop(ret, c)
  /\ UNCHANGED ghost

ArithStep ==
  /\ AtKind({"arithfor"}, "step")
  /\ TrapOr("DEBUG", DebugInScope(ctx), To("stepped"), ctx, ctx.last, FALSE)
  /\ UNCHANGED ghost

ArithStepped ==
  /\ AtKind({"arithfor"}, "stepped")
  /\ \/ Step(To("cond"), ctx)
     \/ EndLoop(1, ctx)
  /\ UNCHANGED ghost

(* case: ;; ends it, ;& runs the next clause, ;;& tests the next one.      *)
Case ==
  /\ AtKind({"case"}, "run")
  /\ TrapOr("DEBUG", DebugInScope(ctx), To("word"), ctx, ctx.last, FALSE)
  /\ UNCHANGED ghost

CaseWord ==
  /\ AtKind({"case"}, "word")
  /\ \/ Step(To("clause"), InBoundary)
     \/ Finish(1, [InBoundary EXCEPT !.pending = Unwind("exit", 1)])
  /\ UNCHANGED ghost

CaseClause ==
  /\ AtKind({"case"}, "clause")
  /\ \/ Finish(Top.st, ctx)                              \* no pattern matches
     \/ Execute(To("body"), ctx)
  /\ UNCHANGED ghost

CaseAction ==
  /\ AtKind({"case"}, "body")
  /\ \/ Finish(ret, ctx)
     \/ Top.n > 0 /\ Execute([ToWith("body", ret) EXCEPT !.n = @ - 1], ctx)
     \/ Top.n > 0 /\ Step([ToWith("clause", ret) EXCEPT !.n = @ - 1], ctx)
  /\ UNCHANGED ghost

(* A subshell: fork copies the context, and everything the child does to   *)
(* it is gone when it exits.                                               *)
Subshell ==
  /\ AtKind({"subshell"}, "run")
  /\ \/ /\ Execute([To("child") EXCEPT !.saved = [ctx |-> ctx, ghost |-> ghost]],
                   [InBoundary EXCEPT !.exitSup = @ \/ ctx.exitTrap,
                                      !.supErr = @ \/ ~opt.errtrace,
                                      !.supDebug = @ \/ ~opt.functrace])
        /\ ghost' = [ghost EXCEPT !.exits = 0, !.armed = FALSE, !.guilty = FALSE]
     \/ Finish(1, ctx) /\ UNCHANGED ghost                \* fork fails

SubshellDone ==
  LET p == ctx.pending
      st == IF p.u = "exit" THEN p.n ELSE ret
      c == [ctx EXCEPT !.abort = @ - 1, !.pending = None]
  IN
  /\ AtKind({"subshell"}, "child")
  /\ IF ExitTrapDue(c)
     THEN /\ RunTrap("EXIT", ToWith("reap", st), c, c.last, TRUE)
          /\ ghost' = [ghost EXCEPT !.exits = @ + 1]
          /\ UNCHANGED signals
     ELSE Step(ToWith("reap", st), c) /\ UNCHANGED ghost

SubshellReaped ==
  /\ AtKind({"subshell"}, "reap")
  /\ Step([ToWith("raw", IF ctx.pending.u = "exit" THEN ctx.pending.n ELSE Top.st)
             EXCEPT !.saved = <<>>], Top.saved.ctx)
  /\ ghost' = Top.saved.ghost

-----------------------------------------------------------------------------
(* execute_with_state for one input unit, and exit_shell, which runs the   *)
(* EXIT trap if no function has                                            *)

Init ==
  /\ \E s \in Scenarios :
       /\ opt = s.opt /\ traps = s.traps \ {"EXIT"} /\ budget = s.size
       /\ program = [commands |-> s.commands, body |-> s.body]
       /\ ctx = [last |-> 0, pending |-> None, retTrap |-> 0, loop |-> 0, func |-> 0,
                 src |-> 0, sup |-> 0, abort |-> 0, scopes |-> <<>>, base |-> -1,
                 running |-> "none", supErr |-> FALSE, supDebug |-> FALSE,
                 exitTrap |-> "EXIT" \in s.traps, exitSup |-> FALSE]
       /\ ghost = [target |-> 0, stray |-> FALSE, guilty |-> FALSE, exits |-> 0,
                   armed |-> "EXIT" \in s.traps]
  /\ stack = <<[Frame(<<"unit", 0>>, FALSE, FALSE) EXCEPT !.pc = "unit"]>>
  /\ ret = 0 /\ signals = MaxSignals

Unit ==
  /\ At("unit")
  /\ Execute(To("unitdone"), ctx)
  /\ UNCHANGED ghost

UnitDone ==
  LET c == [ctx EXCEPT !.last = IF ctx.pending.u = "exit" THEN ctx.pending.n ELSE ret,
                       !.pending = None]
  IN
  /\ At("unitdone")
  /\ IF ExitTrapDue(c)
     THEN /\ RunTrap("EXIT", To("exit"), c, c.last, TRUE)
          /\ ghost' = [ghost EXCEPT !.exits = @ + 1]
          /\ UNCHANGED signals
     ELSE Step(To("exit"), c) /\ UNCHANGED ghost

Exited == At("exit") /\ UNCHANGED vars

Next ==
  \/ Unit \/ UnitDone \/ Exited
  \/ Enter \/ RedirectionFails \/ Leave \/ Return
  \/ TrapBody \/ TrapDone \/ TakeSignal
  \/ SimpleDebug \/ AssignmentOnly \/ BadWord \/ BadWordUnwinds \/ Abandon
  \/ Simple \/ BreakOrContinue \/ ReturnBuiltin \/ ExitBuiltin \/ TrapBuiltin \/ SimpleErr
  \/ Call \/ CallBody \/ Called \/ CallExit \/ CallPop
  \/ Source \/ Sourced \/ SourceDone
  \/ AndOr \/ AndOrSecond \/ List \/ ListSecond \/ Background \/ LastOf
  \/ PipeDebug \/ PipeFork \/ PipeLast
  \/ Group \/ If \/ IfBranch
  \/ LoopDebug \/ StartLoop \/ While \/ WhileTested \/ ForItem \/ ForAssign \/ SelectItem
  \/ ArithDebug \/ ArithTest \/ LoopBody \/ ArithStep \/ ArithStepped
  \/ Case \/ CaseWord \/ CaseClause \/ CaseAction
  \/ Subshell \/ SubshellDone \/ SubshellReaped

Spec == Init /\ [][Next]_vars

-----------------------------------------------------------------------------
(* Properties                                                              *)

Counted(P(_)) == Cardinality({i \in 1..Len(stack) : P(stack[i])})

TypeOK ==
  /\ stack # <<>> /\ Top.pc \in STRING
  /\ {ctx.loop, ctx.func, ctx.src, ctx.sup, ctx.abort} \subseteq Nat
  /\ ctx.pending.u \in {"none", "break", "continue", "return", "abort", "exit"}
  /\ budget \in Nat /\ signals \in 0..MaxSignals

(* The counters of ExecContext say where the shell is: loop_depth,         *)
(* function_depth, source_depth, errexit_suppressed and debug_trap_scopes  *)
(* count the frames they stand for after every way out of a construct      *)
(* (break, error, return, exit, a trap in the middle).                     *)
CountersMatchFrames ==
  /\ ctx.loop = Counted(InLoop)
  /\ ctx.func = Counted(InCall)
  /\ ctx.src = Counted(InSource)
  /\ ctx.sup = Counted(InTest) + Counted(Inverting)
  /\ Len(ctx.scopes) = ctx.func + ctx.src

(* abort_line_depth counts the compound commands and calls entered since   *)
(* the innermost source or eval, so that an error abandons the whole line  *)
(* of the text that is being run, no less and no more.                     *)
AbortBoundaries ==
  LET inner(i) == \A j \in i..Len(stack) : stack[j].pc # "sourced"
      inside(f) == \/ /\ f.k \in Boundary
                      /\ f.pc \notin {"enter", "run", "start", "word", "raw", "left"}
                   \/ f.pc \in {"called", "child"}
  IN ctx.abort = Cardinality({i \in 1..Len(stack) : inside(stack[i]) /\ inner(i)})

(* A pending break or continue counts loops that are open, and a pending   *)
(* return has a function or file to leave, so that none of them survives   *)
(* the construct it is meant for and swallows the rest of the program.     *)
(* Excepted are break and continue in a DEBUG trap, which for, select and  *)
(* arithmetic for do not all take, and return in a RETURN trap, which the  *)
(* function has already passed.                                            *)
UnwindHasTarget ==
  ~ghost.stray =>
    /\ LoopTakes(ctx.pending) => ctx.pending.n \in 1..ctx.loop
    /\ ctx.pending.u = "return" => ctx.func + ctx.src > 0


(* With errexit, nothing runs in a process after a simple command has      *)
(* failed that no test, && or || list or ! examines, except its EXIT trap: *)
(* the exit crosses every loop, function, file, eval and trap.  (When the  *)
(* failure is in a DEBUG trap the words of the command it precedes are     *)
(* still expanded and its assignments made; the command does not run.)     *)
ErrexitHonoured ==
  [][ ghost.guilty /\ At("exec") /\ Top.k \notin {"assign", "badassign", "badword"}
      /\ Len(stack') >= Len(stack) /\ stack'[Len(stack)].pc \notin {"exec", "raw"}
      => ctx.running = "EXIT" ]_vars

(* The EXIT trap a process has set runs exactly once, whether a function   *)
(* exits, the unit ends or the subshell does, and a subshell never runs    *)
(* the one it inherits.                                                    *)
ExitTrapOnce ==
  /\ ghost.exits <= 1
  /\ ghost.exits = 1 => ghost.armed
  /\ At("exit") /\ ghost.armed => ghost.exits = 1

(* ExecContext and the constructs entered agree whenever a command runs:   *)
(* the counters, the line to abandon and the target of an unwinding.       *)
ContextCoherent == TypeOK /\ CountersMatchFrames /\ AbortBoundaries /\ UnwindHasTarget

=============================================================================
