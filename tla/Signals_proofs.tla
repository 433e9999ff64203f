-------------------------- MODULE Signals_proofs --------------------------
(***************************************************************************)
(* Proofs about Signals: its types, the nesting of trap bodies, the        *)
(* dispositions and the fast-path flag, for every set of signals and any   *)
(* number of them.                                                         *)
(***************************************************************************)
EXTENDS Signals, SequenceTheorems, WellFoundedInduction, TLAPS

Action == {"none", "ignore", "command"}
Trappable == Sig \cup {EXIT}

(* The types of what the other invariants do not look into. *)
FlagTypes ==
  /\ CATCH_FLAG \in BOOLEAN /\ SIGINT_RECEIVED \in BOOLEAN /\ ALARM_FIRED \in BOOLEAN
  /\ timer \in BOOLEAN /\ exiting \in BOOLEAN
  /\ TERM_RECEIVED \in (Terminating \cap Sig) \cup {NoSig}

CountType == counts \in [Sig -> Nat]

TrapTypes ==
  /\ disposition \in [Sig -> {"default", "ignore", "count"}]
  /\ trap_actions \in [Trappable -> Action]
  /\ setting = <<>> \/ setting \in Trappable \X Action
  /\ start \in [interactive : BOOLEAN, tmout : BOOLEAN, ignored : SUBSET Sig]

(* The stack of dispatches: only wait starts one above another, all below  *)
(* the innermost run a body, and a body knows the one below.               *)
Below(i) == IF i = 1 THEN NoTrap ELSE frames[i - 1].sig
Nested ==
  /\ frames \in Seq(FrameType)
  /\ \A i \in DOMAIN frames : frames[i].by # "wait" => i = 1
  /\ \A i \in 1..(Len(frames) - 1) : frames[i].stage = "body"
  /\ \A i \in DOMAIN frames : frames[i].stage = "body" => frames[i].saved = Below(i)
  /\ running = IF frames = <<>> THEN NoTrap
               ELSE IF Top.stage = "body" THEN Top.sig
               ELSE Below(Len(frames))

(* The dispositions, a trap builtin between its two steps included. *)
Followed ==
  /\ setting # <<>> => setting[1] \notin start.ignored
  /\ \A s \in Sig :
       disposition[s] = configure_trap_signal(s,
         IF setting # <<>> /\ setting[1] = s THEN setting[2] ELSE trap_actions[s])

(* Without the flag, what is pending is before the shell's dispatch: it    *)
(* has not looked yet, or all is on its list.                              *)
Flagged ==
  Alive /\ pending_signals_snapshot # {} /\ ~CATCH_FLAG =>
    /\ frames # <<>> /\ frames[1].by = "shell" /\ frames[1].stage # "over"
    /\ frames[1].round = 0 \/ pending_signals_snapshot \subseteq frames[1].todo

IInv == FlagTypes /\ CountType /\ TrapTypes /\ Nested /\ Followed /\ Flagged

-----------------------------------------------------------------------------
(* Sequences and numbers. *)

(* A nonempty set of numbers has a least element, and Min is it. *)
LEMMA MinIsMember ==
  ASSUME NEW S, S \subseteq Nat, S # {}
  PROVE  Min(S) \in S
<1>1. PICK m \in S : \A n \in S : ~(<<n, m>> \in OpToRel(<, Nat))
  BY Zenon, NatLessThanWellFounded, WFMin
<1>2. \A n \in S : ~(n < m)
  BY <1>1, Zenon DEF OpToRel
<1>3. \E x \in S : \A y \in S : x =< y
  BY <1>2
<1> QED
  BY Zenon, <1>3 DEF Min

(* The last element of a sequence dropped. *)
LEMMA DropLast ==
  ASSUME NEW S, NEW s \in Seq(S), s # <<>>
  PROVE  /\ Len(s) \in Nat /\ Len(s) > 0
         /\ Outer(s) \in Seq(S) /\ Len(Outer(s)) = Len(s) - 1
         /\ \A i \in 1..(Len(s) - 1) : Outer(s)[i] = s[i]
<1>1. Len(s) \in Nat /\ Len(s) > 0 /\ \A i \in 1..Len(s) : s[i] \in S
  OBVIOUS
<1>2. 1 \in Int /\ Len(s) - 1 \in Int /\ \A i \in 1..(Len(s) - 1) : s[i] \in S
  BY <1>1
<1>3. /\ Outer(s) \in Seq(S)
      /\ Len(Outer(s)) = IF 1 <= Len(s) - 1 THEN Len(s) - 1 - 1 + 1 ELSE 0
      /\ \A i \in 1..(Len(s) - 1 - 1 + 1) : Outer(s)[i] = s[1 + i - 1]
  BY <1>2, SubSeqProperties DEF Outer
<1>4. Len(s) - 1 - 1 + 1 = Len(s) - 1 /\ \A i \in 1..(Len(s) - 1) : 1 + i - 1 = i
  BY <1>1
<1>5. Len(Outer(s)) = Len(s) - 1
  <2> DEFINE m == Len(s)
             k == Len(Outer(s))
  <2>1. m \in Nat /\ m > 0 /\ k = IF 1 <= m - 1 THEN m - 1 - 1 + 1 ELSE 0
    BY <1>1, <1>3
  <2> HIDE DEF m, k
  <2>2. k = m - 1
    BY <2>1
  <2> QED
    BY <2>2 DEF m, k
<1>6. \A i \in 1..(Len(s) - 1) : Outer(s)[i] = s[i]
  BY <1>3, <1>4, Zenon
<1> QED
  BY <1>1, <1>3, <1>5, <1>6

(* The last element of a sequence replaced. *)
LEMMA UpdateLast ==
  ASSUME NEW S, NEW s \in Seq(S), s # <<>>, NEW f \in S
  PROVE  /\ Outer(s) \o <<f>> \in Seq(S)
         /\ Len(Outer(s) \o <<f>>) = Len(s)
         /\ (Outer(s) \o <<f>>)[Len(s)] = f
         /\ \A i \in 1..(Len(s) - 1) : (Outer(s) \o <<f>>)[i] = s[i]
         /\ Outer(s) \o <<f>> # <<>>
BY DropLast

-----------------------------------------------------------------------------
(* What a step may do to the stack of dispatches and to running_trap_sig. *)

StackSame == UNCHANGED <<frames, running>>

(* A dispatch begins: the first, or one of wait inside a body. *)
Opens(f) ==
  /\ f \in FrameType /\ f.stage # "body"
  /\ frames = <<>> \/ (Top.stage = "body" /\ f.by = "wait")
  /\ frames' = Append(frames, f) /\ running' = running

(* The innermost dispatch goes on, outside a body. *)
Revises(f) ==
  /\ f \in FrameType /\ f.stage # "body" /\ f.by = Top.by
  /\ frames # <<>> /\ Top.stage # "body"
  /\ frames' = Outer(frames) \o <<f>> /\ running' = running

(* It starts a body, or ends one. *)
Enters(f) ==
  /\ f \in FrameType /\ f.stage = "body" /\ f.by = Top.by /\ f.saved = running
  /\ frames # <<>> /\ Top.stage # "body"
  /\ frames' = Outer(frames) \o <<f>> /\ running' = f.sig

Leaves(f) ==
  /\ f \in FrameType /\ f.stage # "body" /\ f.by = Top.by
  /\ frames # <<>> /\ Top.stage = "body"
  /\ frames' = Outer(frames) \o <<f>> /\ running' = RunningAfter(Top)

(* It is over. *)
Closes ==
  /\ frames # <<>> /\ Top.stage # "body"
  /\ frames' = Outer(frames) /\ running' = running

StackStep ==
  StackSame \/ Closes \/ \E f \in FrameType : Opens(f) \/ Revises(f) \/ Enters(f) \/ Leaves(f)

(* Whichever it does, the bodies stay nested. *)
LEMMA StackStepNests ==
  ASSUME Nested, StackStep PROVE Nested'
<1> DEFINE n == Len(frames)
<1>0. frames \in Seq(FrameType) /\ n \in Nat /\ (frames # <<>> => n > 0)
  BY DEF Nested
<1>1. CASE StackSame
  BY <1>1 DEF Nested, StackSame, Below, Top
<1>2. CASE Closes
  <2>1. /\ frames' \in Seq(FrameType) /\ Len(frames') = n - 1
        /\ \A i \in 1..(n - 1) : frames'[i] = frames[i]
    BY <1>0, <1>2, DropLast DEF Closes
  <2>2. \A i \in 1..(n - 1) : frames[i].stage = "body" /\ Below(i)' = Below(i)
    BY <1>0, <2>1 DEF Nested, Below
  <2>3. running' = Below(n)
    BY <1>0, <1>2 DEF Closes, Nested
  <2>4. running' = IF frames' = <<>> THEN NoTrap ELSE frames'[n - 1].sig
    BY <1>0, <1>2, <2>1, <2>3 DEF Below, Closes
  <2> QED
    BY SMTT(30), <1>0, <1>2, <2>1, <2>2, <2>4 DEF Nested, Closes, Top
<1>3. ASSUME NEW f \in FrameType, Opens(f) PROVE Nested'
  <2>1. /\ frames' \in Seq(FrameType) /\ Len(frames') = n + 1 /\ frames'[n + 1] = f
        /\ \A i \in 1..n : frames'[i] = frames[i]
        /\ frames' # <<>>
    BY <1>0, <1>3 DEF Opens
  <2>2. \A i \in 1..n : frames[i].stage = "body" /\ Below(i)' = Below(i)
    BY <1>0, <1>3, <2>1 DEF Nested, Below, Opens, Top
  <2>3. running' = IF frames = <<>> THEN NoTrap ELSE frames[n].sig
    BY <1>3 DEF Nested, Opens, Top
  <2>4. running' = Below(Len(frames))'
    BY <1>0, <2>1, <2>3 DEF Below
  <2>5. f.stage # "body" /\ (f.by # "wait" => n = 0)
    BY <1>0, <1>3 DEF Opens
  <2>6. \A i \in 1..n : frames[i].by # "wait" => i = 1
    BY <1>0 DEF Nested
  <2>7. \A i \in 1..n : frames[i].saved = Below(i)
    BY <1>0, <2>2 DEF Nested
  <2>8. \A i \in 1..(n + 1) : frames'[i].by # "wait" => i = 1
    BY <1>0, <2>1, <2>5, <2>6
  <2>9. \A i \in 1..(n + 1) : frames'[i].stage = "body" => frames'[i].saved = Below(i)'
    BY <1>0, <2>1, <2>2, <2>5, <2>7
  <2> QED
    BY <1>0, <2>1, <2>2, <2>4, <2>5, <2>8, <2>9 DEF Nested, Top
<1>4. ASSUME NEW f \in FrameType, Revises(f) \/ Enters(f) \/ Leaves(f) PROVE Nested'
  <2>0. frames # <<>> /\ f.by = frames[n].by /\ frames' = Outer(frames) \o <<f>>
    BY <1>4 DEF Revises, Enters, Leaves, Top
  <2>1. /\ frames # <<>> /\ n > 0 /\ f.by = frames[n].by
        /\ frames' \in Seq(FrameType) /\ Len(frames') = n /\ frames'[n] = f /\ frames' # <<>>
        /\ \A i \in 1..(n - 1) : frames'[i] = frames[i]
    BY <1>0, <2>0, UpdateLast
  <2>2. \A i \in 1..n : Below(i)' = Below(i)
    BY <1>0, <2>1 DEF Below
  <2>3. \A i \in 1..(n - 1) : frames'[i].stage = "body" /\ frames'[i].saved = Below(i)
    BY <1>0, <2>1 DEF Nested
  <2>4. \A i \in 1..n : frames'[i].by # "wait" => i = 1
    BY <1>0, <2>1 DEF Nested
  <2>5. /\ f.stage = "body" => f.saved = Below(n)
        /\ running' = IF f.stage = "body" THEN f.sig ELSE Below(n)
    <3>1. CASE Revises(f) \/ Enters(f)
      BY <1>0, <2>1, <3>1 DEF Nested, Revises, Enters
    <3>2. CASE Leaves(f)
      <4>1. frames[n].saved = Below(n) /\ (frames[n].by = "shell" => Below(n) = NoTrap)
        BY <1>0, <2>1, <3>2 DEF Nested, Leaves, Top, Below
      <4> QED
        BY <4>1, <3>2 DEF Leaves, RunningAfter, Top
    <3> QED
      BY <1>4, <3>1, <3>2
  <2> QED
    BY SMTT(30), <1>0, <2>1, <2>2, <2>3, <2>4, <2>5 DEF Nested, Top
<1> QED
  BY <1>1, <1>2, <1>3, <1>4 DEF StackStep
-----------------------------------------------------------------------------
(* Every step does one of those things to the stack. *)

LEMMA FrameTypes ==
  /\ \A by \in {"shell", "exec", "wait"}, todo \in SUBSET Sig :
       /\ Frame(by, todo) \in FrameType
       /\ Frame(by, todo).stage = "scan" /\ Frame(by, todo).by = by
  /\ \A by \in {"kill", "exit"}, sig \in Sig \cup {EXIT} :
       /\ OneBody(by, sig) \in FrameType
       /\ OneBody(by, sig).stage = "ready" /\ OneBody(by, sig).by = by
<1>1. ASSUME NEW by \in {"shell", "exec", "wait", "kill", "exit"}, NEW todo \in SUBSET Sig
      PROVE  Frame(by, todo) \in FrameType /\ Frame(by, todo).stage = "scan" /\ Frame(by, todo).by = by
  BY <1>1 DEF Frame, FrameType, Rounds
<1>2. ASSUME NEW by \in {"kill", "exit"}, NEW sig \in Sig \cup {EXIT}
      PROVE  /\ OneBody(by, sig) \in FrameType
             /\ OneBody(by, sig).stage = "ready" /\ OneBody(by, sig).by = by
  <2> DEFINE f == Frame(by, {})
  <2>1. f \in FrameType /\ f.by = by
    BY <1>1
  <2>2. OneBody(by, sig) = [f EXCEPT !.sig = sig, !.count = 1, !.stage = "ready"]
    BY DEF OneBody
  <2>3. sig \in Sig \cup {NoSig}
    BY DEF NoSig, EXIT
  <2> HIDE DEF f
  <2> HIDE DEF FrameType
  <2>4. [f EXCEPT !.sig = sig, !.count = 1, !.stage = "ready"] \in FrameType
    BY Zenon, <2>1, <2>3 DEF FrameType
  <2>5. /\ [f EXCEPT !.sig = sig, !.count = 1, !.stage = "ready"].stage = "ready"
        /\ [f EXCEPT !.sig = sig, !.count = 1, !.stage = "ready"].by = by
    BY <2>1 DEF FrameType
  <2> QED
    BY <2>2, <2>4, <2>5
<1> QED
  BY <1>1, <1>2

LEMMA FrameFields ==
  ASSUME NEW f \in FrameType
  PROVE  /\ f.todo \subseteq Sig /\ f.todo \subseteq Nat
         /\ f.sig \in Sig \cup {EXIT} /\ f.sig # NoTrap
         /\ f.count \in Nat /\ f.round \in 0..4
<1>1. f.todo \subseteq Sig /\ f.sig \in Sig \cup {NoSig} /\ f.count \in Nat /\ f.round \in 0..Rounds
  BY DEF FrameType
<1>2. \A s \in Sig : s \in Nat /\ s # -1
  BY SigAssumption
<1>3. f.todo \subseteq Nat
  BY <1>1, <1>2
<1>4. f.sig \in Sig \cup {EXIT} /\ f.sig # NoTrap
  BY <1>1, <1>2 DEF NoSig, EXIT, NoTrap
<1>5. f.round \in 0..4
  BY <1>1 DEF Rounds
<1> QED
  BY <1>1, <1>3, <1>4, <1>5

(* running_trap_sig is a signal's number while a dispatch is inside a body. *)
LEMMA RunningType ==
  ASSUME Nested
  PROVE  /\ running \in Sig \cup {EXIT, NoTrap}
         /\ frames # <<>> => Top \in FrameType
         /\ frames # <<>> /\ Top.stage = "body" => running # NoTrap
<1>1. frames \in Seq(FrameType) /\ Len(frames) \in Nat
  BY DEF Nested
<1>2. \A i \in 1..Len(frames) :
        frames[i] \in FrameType /\ frames[i].sig \in Sig \cup {EXIT} /\ frames[i].sig # NoTrap
  BY <1>1, FrameFields
<1>3. frames # <<>> => Len(frames) \in 1..Len(frames)
  BY <1>1
<1>4. frames # <<>> => Top = frames[Len(frames)]
  BY DEF Top
<1>5. frames # <<>> => Below(Len(frames)) \in Sig \cup {EXIT, NoTrap}
  <2> SUFFICES ASSUME frames # <<>> PROVE Below(Len(frames)) \in Sig \cup {EXIT, NoTrap}
    OBVIOUS
  <2>1. CASE Len(frames) = 1
    BY <2>1 DEF Below
  <2>2. CASE Len(frames) # 1
    <3>0. \A n \in Nat : n \in 1..n /\ n # 1 => n - 1 \in 1..n
      OBVIOUS
    <3>1. Len(frames) - 1 \in 1..Len(frames)
      BY ZenonT(40), <1>1, <1>3, <2>2, <3>0
    <3>2. frames[Len(frames) - 1].sig \in Sig \cup {EXIT}
      BY <1>2, <3>1
    <3>3. Below(Len(frames)) = frames[Len(frames) - 1].sig
      BY <2>2 DEF Below
    <3> QED
      BY <3>2, <3>3
  <2> QED
    BY <2>1, <2>2
<1>6. /\ running = IF frames = <<>> THEN NoTrap
                   ELSE IF Top.stage = "body" THEN Top.sig
                   ELSE Below(Len(frames))
  BY DEF Nested
<1> QED
  BY <1>2, <1>3, <1>4, <1>5, <1>6

(* A command starts a dispatch that has the re-entry guard only when no      *)
(* dispatch is under way.                                                    *)
LEMMA GuardHolds ==
  ASSUME Nested, AtCommand, MayDispatch PROVE frames = <<>>
BY RunningType DEF AtCommand, MayDispatch

LEMMA DispatchSteps ==
  ASSUME FlagTypes, CountType, Nested, Dispatching PROVE StackStep
<1>0. /\ running \in Sig \cup {EXIT, NoTrap} /\ frames # <<>> /\ Top \in FrameType
  BY RunningType DEF Dispatching, Take, handle_signal, run_trap_body, BodyEnds, NextRound,
     LastRound, PollAgain, Return, Scanned, InDispatch
<1>1. CASE Take
  <2> DEFINE sig == Min(Top.todo)
             rest == [Top EXCEPT !.todo = @ \ {sig}]
             f == IF counts[sig] = 0 THEN rest
                  ELSE [rest EXCEPT !.sig = sig, !.count = counts[sig], !.stage = "taken"]
  <2>1. Top.todo \subseteq Sig /\ Top.todo \subseteq Nat /\ Top.todo # {}
    BY <1>0, <1>1, FrameFields DEF Take
  <2>2. sig \in Sig /\ counts[sig] \in Nat
    BY <2>1, MinIsMember DEF CountType
  <2> HIDE DEF sig
  <2>3. f \in FrameType /\ f.stage # "body" /\ f.by = Top.by
    BY Zenon, <1>0, <1>1, <2>2 DEF FrameType, Take, InDispatch
  <2>4. Top.stage # "body" /\ frames' = Outer(frames) \o <<f>> /\ running' = running
    BY <1>1 DEF Take, InDispatch, Update, sig
  <2> QED
    BY Zenon, <1>0, <2>3, <2>4 DEF Revises, StackStep
<1>2. CASE handle_signal
  <2> DEFINE action == trap_action(Top.sig)
             f == IF action = "command"
                  THEN [Top EXCEPT !.stage = "ready", !.count = IF Top.by = "shell" THEN 1 ELSE @,
                                   !.todo = IF Top.by = "wait" THEN {} ELSE @]
                  ELSE [Top EXCEPT !.stage = "scan", !.sig = NoSig, !.count = 0]
  <2>1. Top.stage # "body" /\ frames' = Outer(frames) \o <<f>> /\ running' = running
    BY <1>2 DEF handle_signal, InDispatch, Update
  <2> HIDE DEF action
  <2>2. f \in FrameType /\ f.stage # "body" /\ f.by = Top.by
    BY Zenon, <1>0, <2>1 DEF FrameType
  <2> QED
    BY Zenon, <1>0, <2>1, <2>2 DEF Revises, StackStep
<1>3. CASE run_trap_body
  <2> DEFINE f == [Top EXCEPT !.stage = "body", !.saved = running]
  <2>1. f \in FrameType /\ f.stage = "body" /\ f.by = Top.by /\ f.saved = running /\ f.sig = Top.sig
    BY Zenon, <1>0 DEF FrameType
  <2>2. Top.stage # "body" /\ frames' = Outer(frames) \o <<f>> /\ running' = Top.sig
    BY <1>3 DEF run_trap_body, InDispatch, Update
  <2> QED
    BY Zenon, <1>0, <2>1, <2>2 DEF Enters, StackStep
<1>4. CASE BodyEnds
  <2> DEFINE f == IF Top.count > 1
                  THEN [Top EXCEPT !.count = @ - 1, !.stage = "ready", !.saved = NoTrap, !.ran = TRUE]
                  ELSE [Top EXCEPT !.count = 0, !.sig = NoSig, !.stage = "scan", !.saved = NoTrap,
                                   !.ran = TRUE]
  <2>0. Top.count \in Nat /\ (Top.count > 1 => Top.count - 1 \in Nat)
    BY <1>0, FrameFields
  <2>1. f \in FrameType /\ f.stage # "body" /\ f.by = Top.by
    BY Zenon, <1>0, <2>0 DEF FrameType
  <2>2. Top.stage = "body" /\ frames' = Outer(frames) \o <<f>> /\ running' = RunningAfter(Top)
    BY <1>4 DEF BodyEnds, InDispatch, Update
  <2> QED
    BY Zenon, <1>0, <2>1, <2>2 DEF Leaves, StackStep
<1>5. CASE NextRound
  <2> DEFINE f == [Top EXCEPT !.round = @ + 1, !.todo = pending_signals_snapshot]
  <2>0. pending_signals_snapshot \subseteq Sig /\ Top.round + 1 \in 0..Rounds /\ Top.stage = "scan"
    BY <1>0, <1>5, FrameFields DEF NextRound, MoreRounds, Scanned, InDispatch,
       pending_signals_snapshot, Rounds
  <2>1. f \in FrameType /\ f.stage # "body" /\ f.by = Top.by
    BY Zenon, <1>0, <2>0 DEF FrameType
  <2>2. Top.stage # "body" /\ frames' = Outer(frames) \o <<f>> /\ running' = running
    BY <1>5 DEF NextRound, Scanned, InDispatch, Update
  <2> QED
    BY Zenon, <1>0, <2>1, <2>2 DEF Revises, StackStep
<1>6. CASE LastRound
  <2> DEFINE f == [Top EXCEPT !.stage = "over"]
  <2>1. f \in FrameType /\ f.stage # "body" /\ f.by = Top.by
    BY <1>0 DEF FrameType
  <2>2. Top.stage # "body" /\ frames' = Outer(frames) \o <<f>> /\ running' = running
    BY <1>6 DEF LastRound, Scanned, InDispatch, Update
  <2> QED
    BY Zenon, <1>0, <2>1, <2>2 DEF Revises, StackStep
<1>7. CASE PollAgain
  <2> DEFINE f == [Top EXCEPT !.todo = Sig]
  <2>1. f \in FrameType /\ f.stage = Top.stage /\ f.by = Top.by
    BY <1>0 DEF FrameType
  <2>2. Top.stage # "body" /\ frames' = Outer(frames) \o <<f>> /\ running' = running
    BY <1>7 DEF PollAgain, Scanned, InDispatch, Update
  <2> QED
    BY Zenon, <1>0, <2>1, <2>2 DEF Revises, StackStep
<1>8. CASE Return
  BY <1>0, <1>8 DEF Return, Scanned, InDispatch, Pop, Closes, StackStep
<1> QED
  BY SMTT(30), <1>1, <1>2, <1>3, <1>4, <1>5, <1>6, <1>7, <1>8 DEF Dispatching

LEMMA CommandSteps ==
  ASSUME Nested, Command PROVE StackStep
<1>1. CASE ExitCommand
  BY <1>1 DEF ExitCommand, StackStep, StackSame
<1>2. CASE WaitCommand
  <2>1. Opens(Frame("wait", Sig))
    BY <1>2, FrameTypes DEF WaitCommand, AtCommand, Push, Opens
  <2> QED
    BY <2>1, FrameTypes DEF StackStep
<1>3. ASSUME NEW s \in Sig \cup {EXIT}, NEW a \in {"none", "ignore", "command"}, trap_set_action(s, a)
      PROVE  StackStep
  BY <1>3 DEF trap_set_action, StackStep, StackSame
<1>4. ASSUME NEW s \in Sig, KillTrapped(s) PROVE StackStep
  <2>1. CASE UNCHANGED frames
    BY <1>4, <2>1 DEF KillTrapped, StackStep, StackSame
  <2>2. CASE MayDispatch /\ Push(OneBody("kill", s))
    <3>1. OneBody("kill", s) \in FrameType /\ OneBody("kill", s).stage = "ready"
      BY FrameTypes
    <3>2. Opens(OneBody("kill", s))
      BY <1>4, <2>2, <3>1, GuardHolds DEF KillTrapped, Push, Opens
    <3> QED
      BY <3>1, <3>2 DEF StackStep
  <2> QED
    BY <1>4, <2>1, <2>2 DEF KillTrapped
<1>5. ASSUME NEW s \in Sig, KillSelf(s) PROVE StackStep
  <2>1. CASE UNCHANGED frames
    BY <1>5, <2>1 DEF KillSelf, StackStep, StackSame
  <2>2. CASE MayDispatch /\ Push(Frame("exec", Sig))
    <3>1. Frame("exec", Sig) \in FrameType /\ Frame("exec", Sig).stage = "scan"
      BY FrameTypes
    <3>2. Opens(Frame("exec", Sig))
      BY <1>5, <2>2, <3>1, GuardHolds DEF KillSelf, Push, Opens
    <3> QED
      BY <3>1, <3>2 DEF StackStep
  <2> QED
    BY <1>5, <2>1, <2>2 DEF KillSelf
<1> QED
  BY <1>1, <1>2, <1>3, <1>4, <1>5 DEF Command

LEMMA NextStack ==
  ASSUME FlagTypes, CountType, Nested, [Next]_vars PROVE StackStep
<1>1. ASSUME NEW h \in {"parse", "next", "last"}, NEW n \in {"line", "top", "exit"},
             run_pending_traps(h, n)
      PROVE  StackStep
  <2>1. CASE UNCHANGED frames
    BY <1>1, <2>1 DEF run_pending_traps, StackStep, StackSame
  <2>2. CASE Push(Frame("shell", {}))
    <3>1. Opens(Frame("shell", {}))
      BY <1>1, <2>2, FrameTypes DEF run_pending_traps, Reader, Push, Opens
    <3> QED
      BY <3>1, FrameTypes DEF StackStep
  <2> QED
    BY <1>1, <2>1, <2>2 DEF run_pending_traps
<1>2. ASSUME NEW h \in {"execute", "ran"}, NEW n \in {"command", "after"},
             exec_run_pending_traps(h, n)
      PROVE  StackStep
  <2>1. CASE UNCHANGED frames
    BY <1>2, <2>1 DEF exec_run_pending_traps, StackStep, StackSame
  <2>2. CASE Push(Frame("exec", Sig))
    <3>1. Opens(Frame("exec", Sig))
      BY <1>2, <2>2, FrameTypes DEF exec_run_pending_traps, Reader, Push, Opens
    <3> QED
      BY <3>1, FrameTypes DEF StackStep
  <2> QED
    BY <1>2, <2>1, <2>2 DEF exec_run_pending_traps
<1>3. CASE exit_shell
  <2>1. CASE UNCHANGED frames
    BY <1>3, <2>1 DEF exit_shell, StackStep, StackSame
  <2>2. CASE Push(OneBody("exit", EXIT))
    <3>1. Opens(OneBody("exit", EXIT))
      BY SMTT(30), <1>3, <2>2, FrameTypes DEF exit_shell, Reader, Push, Opens
    <3> QED
      BY <3>1, FrameTypes DEF StackStep
  <2> QED
    BY <1>3, <2>1, <2>2 DEF exit_shell
<1>4. CASE check_signals("top", "read") \/ check_signals("check", "parse") \/ arm_alarm
  BY <1>4 DEF check_signals, arm_alarm, StackStep, StackSame
<1>5. CASE PlainCommand \/ TrapRecorded \/ Executed \/ Gone
  BY <1>5 DEF PlainCommand, TrapRecorded, Executed, Gone, StackStep, StackSame
<1>6. ASSUME NEW i \in {"command", "empty", "discard", "eof"}, Line(i) PROVE StackStep
  BY <1>6 DEF Line, StackStep, StackSame
<1>7. CASE Kernel
  BY <1>7 DEF Kernel, Arrive, AlarmExpires, Deliver, StackStep, StackSame
<1>8. CASE UNCHANGED vars
  BY <1>8 DEF vars, StackStep, StackSame
<1>9. CASE Shell
  BY SMTT(30), <1>9, <1>1, <1>2, <1>3, <1>4, <1>5, <1>6, CommandSteps, DispatchSteps DEF Shell
<1> QED
  BY <1>7, <1>8, <1>9 DEF Next

-----------------------------------------------------------------------------
(* The dispositions. *)

TrapsSame == UNCHANGED <<disposition, trap_actions, setting, start>>

(* Three steps touch the trap table or the kernel's dispositions. *)
LEMMA TrapSteps ==
  ASSUME [Next]_vars
  PROVE  \/ TrapsSame
         \/ \E s \in Trappable, a \in Action : trap_set_action(s, a)
         \/ TrapRecorded
         \/ exit_shell
<1>1. CASE Dispatching
  BY <1>1 DEF Dispatching, Take, handle_signal, run_trap_body, BodyEnds, NextRound, LastRound,
     PollAgain, Return, TrapsSame
<1>2. CASE Command
  BY <1>2 DEF Command, ExitCommand, WaitCommand, KillTrapped, KillSelf, TrapsSame, Trappable, Action
<1>3. CASE Kernel
  BY <1>3 DEF Kernel, Arrive, AlarmExpires, Deliver, TrapsSame
<1>4. CASE UNCHANGED vars
  BY SMTT(30), <1>4 DEF vars, TrapsSame
<1>5. CASE Shell /\ ~Command /\ ~Dispatching
  BY <1>5 DEF Shell, check_signals, arm_alarm, run_pending_traps, Line, exec_run_pending_traps,
     PlainCommand, Executed, Gone, TrapsSame
<1> QED
  BY SMTT(30), <1>1, <1>2, <1>3, <1>4, <1>5 DEF Next

(* The dispositions follow the table through each of them. *)
LEMMA NextFollowed ==
  ASSUME TrapTypes, Followed, [Next]_vars PROVE TrapTypes' /\ Followed'
<1>1. CASE TrapsSame
  BY <1>1 DEF TrapsSame, TrapTypes, Followed, configure_trap_signal, Baseline
<1>2. ASSUME NEW s \in Trappable, NEW a \in Action, trap_set_action(s, a)
      PROVE  TrapTypes' /\ Followed'
  <2>1. setting = <<>> /\ start' = start
    BY <1>2 DEF trap_set_action, AtCommand
  <2>2. CASE s \in start.ignored
    <3>1. /\ trap_actions' = [trap_actions EXCEPT ![s] = "ignore"]
          /\ disposition' = disposition /\ setting' = setting
      BY <1>2, <2>2 DEF trap_set_action
    <3>2. TrapTypes'
      BY <2>1, <3>1 DEF TrapTypes, Action
    <3>3. \A r \in Sig : r # s => trap_actions'[r] = trap_actions[r]
      BY <3>1 DEF TrapTypes, Trappable
    <3>4. ASSUME NEW r \in Sig
          PROVE  disposition[r] = configure_trap_signal(r, trap_actions'[r])
      <4>1. disposition[r] = configure_trap_signal(r, trap_actions[r])
        BY <2>1 DEF Followed
      <4> QED
        BY <2>2, <3>3, <4>1 DEF configure_trap_signal
    <3> QED
      BY <2>1, <3>1, <3>2, <3>4 DEF Followed, configure_trap_signal, Baseline
  <2>3. CASE s \notin start.ignored
    <3>1. /\ setting' = <<s, a>> /\ trap_actions' = trap_actions
          /\ disposition' = IF s = EXIT THEN disposition
                            ELSE [disposition EXCEPT ![s] = configure_trap_signal(s, a)]
      BY <1>2, <2>3 DEF trap_set_action
    <3>2. configure_trap_signal(s, a) \in {"default", "ignore", "count"}
      BY DEF configure_trap_signal, Baseline
    <3>3. EXIT \notin Sig
      BY SigAssumption DEF EXIT
    <3>4. TrapTypes'
      BY <2>1, <3>1, <3>2, <3>3 DEF TrapTypes, Trappable
    <3>5. ASSUME NEW r \in Sig
          PROVE  disposition'[r] = configure_trap_signal(r, IF r = s THEN a ELSE trap_actions[r])
      BY <2>1, <3>1, <3>3 DEF Followed, TrapTypes, Trappable
    <3> QED
      BY <2>1, <2>3, <3>1, <3>4, <3>5 DEF Followed, configure_trap_signal, Baseline
  <2> QED
    BY <2>2, <2>3
<1>3. CASE TrapRecorded
  <2>1. /\ setting \in Trappable \X Action /\ setting' = <<>> /\ start' = start
        /\ disposition' = disposition
        /\ trap_actions' = [trap_actions EXCEPT ![setting[1]] = setting[2]]
    BY <1>3 DEF TrapRecorded, TrapTypes
  <2>2. TrapTypes'
    BY <2>1 DEF TrapTypes
  <2>3. \A s \in Sig : trap_actions'[s] = IF setting[1] = s THEN setting[2] ELSE trap_actions[s]
    BY <2>1 DEF TrapTypes, Trappable
  <2> QED
    BY <1>3, <2>1, <2>2, <2>3 DEF Followed, TrapRecorded, configure_trap_signal, Baseline
<1>4. CASE exit_shell
  <2>1. /\ setting' = setting /\ start' = start /\ disposition' = disposition
        /\ trap_actions' \in [Trappable -> Action]
        /\ \A s \in Sig : trap_actions'[s] = trap_actions[s]
    <3>1. EXIT \notin Sig
      BY SigAssumption DEF EXIT
    <3> QED
      BY <1>4, <3>1 DEF exit_shell, TrapTypes, Trappable, Action
  <2> QED
    BY <2>1 DEF TrapTypes, Followed, configure_trap_signal, Baseline
<1> QED
  BY <1>1, <1>2, <1>3, <1>4, TrapSteps

-----------------------------------------------------------------------------
(* The counters and the flags. *)

(* What the handler does, and no other step does: a counter grows.          *)
LEMMA HandlerCounts ==
  ASSUME FlagTypes, CountType, NEW sig \in Sig, generic_counter_handler(sig)
  PROVE  /\ CountType' /\ CATCH_FLAG' = TRUE
         /\ SIGINT_RECEIVED' \in BOOLEAN /\ ALARM_FIRED' \in BOOLEAN
         /\ TERM_RECEIVED' \in (Terminating \cap Sig) \cup {NoSig}
BY DEF FlagTypes, CountType, generic_counter_handler

(* Signals that arrive, at the kernel or by kill: the counter and the flag *)
(* go up together.                                                         *)
LEMMA DeliverFlags ==
  ASSUME FlagTypes, CountType, NEW sig \in Sig, Deliver(sig), timer' \in BOOLEAN
  PROVE  /\ FlagTypes' /\ CountType'
         /\ CATCH_FLAG' \/ UNCHANGED <<counts, CATCH_FLAG>>
BY Zenon, HandlerCounts DEF Deliver, FlagTypes, CountType, flags

LEMMA NextFlags ==
  ASSUME FlagTypes, CountType, Nested, [Next]_vars PROVE FlagTypes' /\ CountType'
<1>1. CASE Kernel
  <2>1. ASSUME NEW s \in Sig, Arrive(s) PROVE FlagTypes' /\ CountType'
    BY <2>1, DeliverFlags DEF Arrive, FlagTypes
  <2>2. CASE AlarmExpires
    BY Zenon, <2>2, DeliverFlags DEF AlarmExpires
  <2> QED
    BY <1>1, <2>1, <2>2 DEF Kernel
<1>2. CASE Take
  <2> DEFINE sig == Min(Top.todo)
  <2>1. counts' = [counts EXCEPT ![sig] = 0] /\ UNCHANGED <<flags, timer, exiting>>
    BY <1>2 DEF Take
  <2> HIDE DEF sig
  <2> QED
    BY Zenon, <2>1 DEF flags, FlagTypes, CountType
<1>3. CASE handle_signal
  BY Zenon, <1>3 DEF handle_signal, acknowledge_trapped_signal, flags, FlagTypes, CountType
<1>4. CASE run_trap_body \/ BodyEnds \/ NextRound \/ LastRound \/ PollAgain \/ Return
  BY Zenon, <1>4 DEF run_trap_body, BodyEnds, NextRound, LastRound, PollAgain, Return, FlagAfter, flags,
     FlagTypes, CountType
<1>5. CASE Command
  <2>1. ASSUME NEW s \in Sig, KillSelf(s) PROVE FlagTypes' /\ CountType'
    BY Zenon, <2>1, HandlerCounts DEF KillSelf, flags, FlagTypes, CountType
  <2> QED
    BY Zenon, <1>5, <2>1 DEF Command, ExitCommand, WaitCommand, trap_set_action, KillTrapped, flags,
       FlagTypes, CountType
<1>6. CASE check_signals("top", "read") \/ check_signals("check", "parse") \/ arm_alarm
  BY Zenon, <1>6 DEF check_signals, arm_alarm, FlagTypes, CountType
<1>7. CASE \E i \in {"command", "empty", "discard", "eof"} : Line(i)
  BY <1>7 DEF Line, FlagTypes, CountType
<1>8. CASE PlainCommand \/ TrapRecorded \/ Executed \/ Gone \/ exit_shell
  BY Zenon, <1>8 DEF PlainCommand, TrapRecorded, Executed, Gone, exit_shell, flags, FlagTypes, CountType
<1>9. ASSUME NEW h, NEW n, run_pending_traps(h, n) \/ exec_run_pending_traps(h, n)
      PROVE  FlagTypes' /\ CountType'
  BY Zenon, <1>9 DEF run_pending_traps, exec_run_pending_traps, flags, FlagTypes, CountType
<1>10. CASE UNCHANGED vars
  BY <1>10 DEF vars, flags, FlagTypes, CountType
<1> QED
  BY SMTT(30), <1>1, <1>2, <1>3, <1>4, <1>5, <1>6, <1>7, <1>8, <1>9, <1>10 DEF Next, Shell, Dispatching

-----------------------------------------------------------------------------
(* No lost wakeup. *)

(* The outermost dispatch, when the innermost is replaced or dropped. *)
LEMMA Outermost ==
  ASSUME Nested, frames # <<>>
  PROVE  /\ \A f \in FrameType :
              /\ Outer(frames) \o <<f>> # <<>>
              /\ (Outer(frames) \o <<f>>)[1] = IF Len(frames) = 1 THEN f ELSE frames[1]
         /\ Len(frames) # 1 => Outer(frames) # <<>> /\ Outer(frames)[1] = frames[1]
         /\ Len(frames) = 1 => Top = frames[1]
<1>1. /\ frames \in Seq(FrameType) /\ Len(frames) \in Nat /\ Len(frames) > 0
      /\ Outer(frames) \in Seq(FrameType) /\ Len(Outer(frames)) = Len(frames) - 1
      /\ \A i \in 1..(Len(frames) - 1) : Outer(frames)[i] = frames[i]
  BY DropLast DEF Nested
<1>2. ASSUME NEW f \in FrameType
      PROVE  /\ Outer(frames) \o <<f>> # <<>>
             /\ (Outer(frames) \o <<f>>)[1] = IF Len(frames) = 1 THEN f ELSE frames[1]
  <2>1. /\ Outer(frames) \o <<f>> # <<>>
        /\ (Outer(frames) \o <<f>>)[Len(frames)] = f
        /\ \A i \in 1..(Len(frames) - 1) : (Outer(frames) \o <<f>>)[i] = frames[i]
    BY <1>1, UpdateLast
  <2> QED
    BY <1>1, <2>1
<1>3. Len(frames) # 1 => Outer(frames) # <<>> /\ Outer(frames)[1] = frames[1]
  BY <1>1
<1> QED
  BY <1>2, <1>3 DEF Top

(* A step that leaves the counters, the flag and the outermost dispatch     *)
(* alone, or opens the first one.                                            *)
LEMMA FlaggedKept ==
  ASSUME Flagged, Alive, UNCHANGED <<counts, CATCH_FLAG>>,
         frames # <<>> => frames' # <<>> /\ frames'[1] = frames[1]
  PROVE  Flagged'
BY DEF Flagged, pending_signals_snapshot

(* A step of the innermost dispatch: nothing to show unless it is the        *)
(* outermost too, and the shell's.                                           *)
LEMMA FlaggedUpdate ==
  ASSUME Nested, Flagged, Alive, UNCHANGED CATCH_FLAG, frames # <<>>,
         pending_signals_snapshot' \subseteq pending_signals_snapshot,
         NEW f \in FrameType, frames' = Outer(frames) \o <<f>>, f.by = Top.by,
         /\ Top.by = "shell" /\ Top.stage # "over"
         /\ Top.round = 0 \/ pending_signals_snapshot \subseteq Top.todo
         => \/ pending_signals_snapshot' = {}
            \/ f.stage # "over" /\ (f.round = 0 \/ pending_signals_snapshot' \subseteq f.todo)
  PROVE  Flagged'
<1> SUFFICES ASSUME Alive', pending_signals_snapshot' # {}, ~CATCH_FLAG'
             PROVE  /\ frames' # <<>> /\ frames'[1].by = "shell" /\ frames'[1].stage # "over"
                    /\ frames'[1].round = 0 \/ pending_signals_snapshot' \subseteq frames'[1].todo
  BY DEF Flagged
<1>1. /\ frames[1].by = "shell" /\ frames[1].stage # "over"
      /\ frames[1].round = 0 \/ pending_signals_snapshot \subseteq frames[1].todo
  BY DEF Flagged
<1>2. frames' # <<>> /\ frames'[1] = IF Len(frames) = 1 THEN f ELSE frames[1]
  BY Outermost
<1>3. CASE Len(frames) = 1
  BY SMTT(30), <1>1, <1>2, <1>3, Outermost
<1>4. CASE Len(frames) # 1
  BY <1>1, <1>2, <1>4
<1> QED
  BY <1>3, <1>4

LEMMA DispatchFlagged ==
  ASSUME CountType, Nested, Flagged, Alive, Dispatching PROVE Flagged'
<1>0. frames # <<>> /\ Top \in FrameType
  BY RunningType DEF Dispatching, Take, handle_signal, run_trap_body, BodyEnds, NextRound,
     LastRound, PollAgain, Return, Scanned, InDispatch
<1>1. CASE Take
  <2> DEFINE sig == Min(Top.todo)
             rest == [Top EXCEPT !.todo = @ \ {sig}]
             f == IF counts[sig] = 0 THEN rest
                  ELSE [rest EXCEPT !.sig = sig, !.count = counts[sig], !.stage = "taken"]
  <2>1. Top.todo \subseteq Sig /\ Top.todo \subseteq Nat /\ Top.todo # {}
    BY <1>0, <1>1, FrameFields DEF Take
  <2>2. sig \in Sig /\ counts[sig] \in Nat
    BY <2>1, MinIsMember DEF CountType
  <2>3. /\ frames' = Outer(frames) \o <<f>> /\ CATCH_FLAG' = CATCH_FLAG
        /\ counts' = [counts EXCEPT ![sig] = 0]
    BY <1>1 DEF Take, Update, flags
  <2> HIDE DEF sig
  <2>4. /\ f \in FrameType /\ f.by = Top.by /\ f.round = Top.round /\ f.todo = Top.todo \ {sig}
        /\ f.stage # "over"
    BY Zenon, <1>0, <1>1, <2>2 DEF FrameType, Take, InDispatch
  <2>5. pending_signals_snapshot' = pending_signals_snapshot \ {sig}
    BY SMTT(30), <2>2, <2>3 DEF pending_signals_snapshot, CountType
  <2> HIDE DEF f
  <2> QED
    BY <1>0, <2>3, <2>4, <2>5, FlaggedUpdate
<1>2. CASE handle_signal
  <2> DEFINE action == trap_action(Top.sig)
             f == IF action = "command"
                  THEN [Top EXCEPT !.stage = "ready", !.count = IF Top.by = "shell" THEN 1 ELSE @,
                                   !.todo = IF Top.by = "wait" THEN {} ELSE @]
                  ELSE [Top EXCEPT !.stage = "scan", !.sig = NoSig, !.count = 0]
  <2>1. /\ frames' = Outer(frames) \o <<f>> /\ CATCH_FLAG' = CATCH_FLAG
        /\ pending_signals_snapshot' = pending_signals_snapshot
    BY <1>2 DEF handle_signal, Update, acknowledge_trapped_signal, flags, pending_signals_snapshot
  <2> HIDE DEF action
  <2>2. /\ f \in FrameType /\ f.by = Top.by /\ f.round = Top.round
        /\ f.by = "shell" => f.todo = Top.todo
        /\ f.stage # "over"
    BY Zenon, <1>0 DEF FrameType
  <2> HIDE DEF f
  <2> QED
    BY SMTT(30), <1>0, <2>1, <2>2, FlaggedUpdate
<1>3. CASE run_trap_body
  <2> DEFINE f == [Top EXCEPT !.stage = "body", !.saved = running]
  <2>1. /\ f \in FrameType /\ f.by = Top.by /\ f.round = Top.round /\ f.todo = Top.todo
        /\ f.stage # "over"
    BY Zenon, <1>0, RunningType DEF FrameType
  <2>2. /\ frames' = Outer(frames) \o <<f>> /\ CATCH_FLAG' = CATCH_FLAG
        /\ pending_signals_snapshot' = pending_signals_snapshot
    BY SMTT(30), <1>3 DEF run_trap_body, Update, flags, pending_signals_snapshot
  <2> HIDE DEF f
  <2> QED
    BY <1>0, <2>1, <2>2, FlaggedUpdate
<1>4. CASE BodyEnds
  <2> DEFINE f == IF Top.count > 1
                  THEN [Top EXCEPT !.count = @ - 1, !.stage = "ready", !.saved = NoTrap, !.ran = TRUE]
                  ELSE [Top EXCEPT !.count = 0, !.sig = NoSig, !.stage = "scan", !.saved = NoTrap,
                                   !.ran = TRUE]
  <2>0. Top.count \in Nat /\ (Top.count > 1 => Top.count - 1 \in Nat)
    BY <1>0, FrameFields
  <2>1. /\ f \in FrameType /\ f.by = Top.by /\ f.round = Top.round /\ f.todo = Top.todo
        /\ f.stage # "over"
    BY Zenon, <1>0, <2>0 DEF FrameType
  <2>2. /\ frames' = Outer(frames) \o <<f>> /\ CATCH_FLAG' = CATCH_FLAG
        /\ pending_signals_snapshot' = pending_signals_snapshot
    BY <1>4 DEF BodyEnds, Update, flags, pending_signals_snapshot
  <2> HIDE DEF f
  <2> QED
    BY <1>0, <2>1, <2>2, FlaggedUpdate
<1>5. CASE NextRound
  <2> DEFINE f == [Top EXCEPT !.round = @ + 1, !.todo = pending_signals_snapshot]
  <2>0. pending_signals_snapshot \subseteq Sig /\ Top.round + 1 \in 0..Rounds /\ Top.stage = "scan"
    BY <1>0, <1>5, FrameFields DEF NextRound, MoreRounds, Scanned, InDispatch,
       pending_signals_snapshot, Rounds
  <2>1. /\ f \in FrameType /\ f.by = Top.by /\ f.todo = pending_signals_snapshot
        /\ f.stage # "over"
    BY Zenon, <1>0, <2>0 DEF FrameType
  <2>2. /\ frames' = Outer(frames) \o <<f>> /\ CATCH_FLAG' = CATCH_FLAG
        /\ pending_signals_snapshot' = pending_signals_snapshot
    BY Zenon, <1>5 DEF NextRound, Update, flags, pending_signals_snapshot
  <2> HIDE DEF f
  <2> QED
    BY <1>0, <2>1, <2>2, FlaggedUpdate
<1>6. CASE LastRound
  <2> DEFINE f == [Top EXCEPT !.stage = "over"]
  <2>1. f \in FrameType /\ f.by = Top.by
    BY <1>0 DEF FrameType
  <2>2. /\ frames' = Outer(frames) \o <<f>> /\ CATCH_FLAG' = CATCH_FLAG
        /\ pending_signals_snapshot' = pending_signals_snapshot
    BY <1>6 DEF LastRound, Update, flags, pending_signals_snapshot
  <2>3. Top.todo = {} /\ (Top.round # 0 \/ pending_signals_snapshot = {})
    BY <1>6 DEF LastRound, Scanned, MoreRounds, Rounds
  <2> HIDE DEF f
  <2> QED
    BY <1>0, <2>1, <2>2, <2>3, FlaggedUpdate
<1>7. CASE PollAgain
  <2> DEFINE f == [Top EXCEPT !.todo = Sig]
  <2>1. f \in FrameType /\ f.by = Top.by
    BY <1>0 DEF FrameType
  <2>2. /\ frames' = Outer(frames) \o <<f>> /\ CATCH_FLAG' = CATCH_FLAG /\ Top.by # "shell"
        /\ pending_signals_snapshot' = pending_signals_snapshot
    BY <1>7 DEF PollAgain, Update, flags, pending_signals_snapshot
  <2> HIDE DEF f
  <2> QED
    BY <1>0, <2>1, <2>2, FlaggedUpdate
<1>8. CASE Return
  <2>1. /\ frames' = Outer(frames) /\ CATCH_FLAG' = CATCH_FLAG /\ counts' = counts
        /\ Top.by # "shell" \/ Top.stage = "over"
    BY <1>8 DEF Return, Pop, FlagAfter, InDispatch
  <2>2. CASE Len(frames) # 1
    BY SMTT(30), <1>0, <2>1, <2>2, Outermost, FlaggedKept
  <2>3. CASE Len(frames) = 1
    <3>1. frames[1].by # "shell" \/ frames[1].stage = "over"
      BY <1>0, <2>1, <2>3, Outermost
    <3> QED
      BY <2>1, <3>1 DEF Flagged, pending_signals_snapshot
  <2> QED
    BY <2>2, <2>3
<1> QED
  BY SMTT(30), <1>1, <1>2, <1>3, <1>4, <1>5, <1>6, <1>7, <1>8 DEF Dispatching

LEMMA PushKeepsOutermost ==
  ASSUME Nested, NEW f \in FrameType, Push(f), frames # <<>>
  PROVE  frames' # <<>> /\ frames'[1] = frames[1]
<1>1. frames \in Seq(FrameType) /\ 1 \in 1..Len(frames)
  BY DEF Nested
<1> QED
  BY <1>1, AppendProperties DEF Push

LEMMA NextFlagged ==
  ASSUME FlagTypes, CountType, Nested, Flagged, [Next]_vars PROVE Flagged'
<1>1. CASE Kernel
  <2>1. PICK sig \in Sig : Deliver(sig) /\ Alive /\ timer' \in BOOLEAN
    BY Zenon, <1>1 DEF Kernel, Arrive, AlarmExpires, FlagTypes
  <2>2. CATCH_FLAG' \/ UNCHANGED <<counts, CATCH_FLAG>>
    BY <2>1, DeliverFlags
  <2>3. frames' = frames
    BY <2>1 DEF Deliver
  <2>4. CASE CATCH_FLAG'
    BY <2>4 DEF Flagged
  <2>5. CASE UNCHANGED <<counts, CATCH_FLAG>>
    BY <2>1, <2>3, <2>5, FlaggedKept
  <2> QED
    BY <2>2, <2>4, <2>5
<1>2. CASE Shell
  <2>0. Alive
    BY <1>2 DEF Shell
  <2>1. CASE Dispatching
    BY <2>0, <2>1, DispatchFlagged
  <2>2. ASSUME NEW h, NEW n, run_pending_traps(h, n) PROVE Flagged'
    <3>1. CASE UNCHANGED <<CATCH_FLAG, frames>>
      BY SMTT(30), <2>0, <2>2, <3>1, FlaggedKept DEF run_pending_traps
    <3>2. CASE Push(Frame("shell", {}))
      <4>1. frames' = <<Frame("shell", {})>>
        BY <2>2, <3>2 DEF run_pending_traps, Reader, Push
      <4> QED
        BY <4>1 DEF Flagged, Frame
    <3> QED
      BY <2>2, <3>1, <3>2 DEF run_pending_traps
  <2>3. ASSUME NEW h, NEW n, exec_run_pending_traps(h, n) PROVE Flagged'
    BY <2>0, <2>3, FlaggedKept DEF exec_run_pending_traps, Reader, flags
  <2>4. CASE exit_shell
    BY SMTT(30), <2>0, <2>4, FlaggedKept DEF exit_shell, Reader, flags
  <2>5. CASE check_signals("top", "read") \/ check_signals("check", "parse") \/ arm_alarm
    BY SMTT(30), <2>0, <2>5, FlaggedKept DEF check_signals, arm_alarm
  <2>6. CASE PlainCommand \/ TrapRecorded \/ Executed \/ Gone
    BY <2>0, <2>6, FlaggedKept DEF PlainCommand, TrapRecorded, Executed, Gone, flags
  <2>7. ASSUME NEW i \in {"command", "empty", "discard", "eof"}, Line(i) PROVE Flagged'
    BY <2>0, <2>7, FlaggedKept DEF Line
  <2>8. CASE Command
    <3>1. CASE ExitCommand
      BY <2>0, <3>1, FlaggedKept DEF ExitCommand, flags
    <3>2. CASE WaitCommand
      <4>1. /\ frames # <<>> => frames' # <<>> /\ frames'[1] = frames[1]
            /\ UNCHANGED <<counts, CATCH_FLAG>>
        BY SMTT(30), <3>2, FrameTypes, PushKeepsOutermost DEF WaitCommand, flags
      <4> QED
        BY <2>0, <4>1, FlaggedKept
    <3>3. ASSUME NEW s \in Sig \cup {EXIT}, NEW a \in {"none", "ignore", "command"},
                 trap_set_action(s, a)
          PROVE  Flagged'
      BY <2>0, <3>3, FlaggedKept DEF trap_set_action, flags
    <3>4. ASSUME NEW s \in Sig, KillTrapped(s) PROVE Flagged'
      <4>1. /\ frames # <<>> => frames' # <<>> /\ frames'[1] = frames[1]
            /\ UNCHANGED <<counts, CATCH_FLAG>>
        BY <3>4, FrameTypes, GuardHolds DEF KillTrapped, flags
      <4> QED
        BY SMTT(30), <2>0, <4>1, FlaggedKept
    <3>5. ASSUME NEW s \in Sig, KillSelf(s) PROVE Flagged'
      <4>1. CASE generic_counter_handler(s)
        BY <4>1 DEF generic_counter_handler, Flagged
      <4>2. CASE UNCHANGED <<counts, flags, frames>>
        BY SMTT(30), <2>0, <4>2, FlaggedKept DEF flags
      <4> QED
        BY SMTT(30), <3>5, <4>1, <4>2 DEF KillSelf
    <3> QED
      BY SMTT(30), <2>8, <3>1, <3>2, <3>3, <3>4, <3>5 DEF Command
  <2> QED
    BY SMTT(30), <1>2, <2>1, <2>2, <2>3, <2>4, <2>5, <2>6, <2>7, <2>8 DEF Shell
<1>3. CASE UNCHANGED vars
  BY <1>3 DEF vars, flags, Flagged, Alive, pending_signals_snapshot
<1> QED
  BY <1>1, <1>2, <1>3 DEF Next

-----------------------------------------------------------------------------
(* The invariants. *)

LEMMA InitIInv == Init => IInv
<1> SUFFICES ASSUME Init PROVE IInv
  OBVIOUS
<1>1. FlagTypes /\ CountType
  BY Zenon DEF Init, FlagTypes, CountType
<1>2. TrapTypes
  BY DEF Init, TrapTypes, Baseline, Trappable, Action
<1>3. Nested
  BY DEF Init, Nested, FrameType
<1>4. Followed
  BY DEF Init, Followed, configure_trap_signal, Baseline, EXIT
<1>5. Flagged
  BY DEF Init, Flagged, pending_signals_snapshot
<1> QED
  BY <1>1, <1>2, <1>3, <1>4, <1>5 DEF IInv

LEMMA IInvariant == Spec => []IInv
<1>1. IInv /\ [Next]_vars => IInv'
  BY NextFlags, NextStack, StackStepNests, NextFollowed, NextFlagged DEF IInv
<1> QED
  BY InitIInv, <1>1, PTL DEF Spec

(* running_trap_sig is right after any number of signals, dispatches and    *)
(* waits inside trap bodies: the dispatchers with a re-entry guard start a   *)
(* body only outside every other one, so bodies nest only through wait, and  *)
(* the end of an inner body restores what the outer one had set.             *)
THEOREM TrapsStayNested == Spec => []TrapsNested
<1>1. IInv => TrapsNested
  <2> SUFFICES ASSUME IInv PROVE TrapsNested
    OBVIOUS
  <2>1. /\ frames \in Seq(FrameType) /\ Len(frames) \in Nat /\ DOMAIN frames = 1..Len(frames)
        /\ frames # <<>> => Len(frames) > 0
    BY DEF IInv, Nested
  <2>2. TypeOK
    BY <2>1, RunningType DEF IInv, FlagTypes, CountType, TrapTypes, TypeOK, Trappable, Action
  <2>3. BodiesDoNotNest
    BY <2>1 DEF IInv, Nested, BodiesDoNotNest
  <2>4. RunningIsInnermost
    <3> DEFINE bodies == {i \in DOMAIN frames : frames[i].stage = "body"}
    <3>1. ASSUME NEW m \in bodies, \A i \in bodies : i <= m PROVE Max(bodies) = m
      <4>1. Max(bodies) \in bodies /\ \A i \in bodies : Max(bodies) >= i
        BY SMTT(30), <2>1, <3>1 DEF Max
      <4>2. Max(bodies) \in Int /\ m \in Int
        BY SMTT(30), <2>1, <3>1, <4>1
      <4> QED
        BY SMTT(30), <3>1, <4>1, <4>2
    <3>2. CASE frames = <<>>
      BY SMTT(30), <2>1, <3>2 DEF IInv, Nested, RunningIsInnermost
    <3>3. CASE frames # <<>> /\ Top.stage = "body"
      <4>1. Len(frames) \in bodies /\ \A i \in bodies : i <= Len(frames)
        BY SMTT(30), <2>1, <3>3 DEF Top
      <4>2. Max(bodies) = Len(frames)
        BY <3>1, <4>1
      <4> QED
        BY <3>3, <4>1, <4>2 DEF IInv, Nested, RunningIsInnermost, Top
    <3>4. CASE frames # <<>> /\ Top.stage # "body"
      <4>1. /\ \A i \in 1..(Len(frames) - 1) : i \in bodies
            /\ Len(frames) \notin bodies
            /\ running = Below(Len(frames))
        BY SMTT(30), <2>1, <3>4 DEF IInv, Nested, Top
      <4>2. CASE Len(frames) = 1
        BY SMTT(30), <2>1, <4>1, <4>2 DEF Below, RunningIsInnermost
      <4>3. CASE Len(frames) # 1
        <5>1. Len(frames) - 1 \in bodies /\ \A i \in bodies : i <= Len(frames) - 1
          BY SMTT(30), <2>1, <3>4, <4>1, <4>3
        <5>2. Max(bodies) = Len(frames) - 1
          BY SMTT(30), <3>1, <5>1
        <5> QED
          BY SMTT(30), <4>1, <4>3, <5>1, <5>2 DEF Below, RunningIsInnermost
      <4> QED
        BY SMTT(30), <4>2, <4>3
    <3> QED
      BY SMTT(30), <3>2, <3>3, <3>4
  <2> QED
    BY <2>2, <2>3, <2>4 DEF TrapsNested
<1> QED
  BY <1>1, IInvariant, PTL

(* The kernel's dispositions follow the trap table after any sequence of     *)
(* trap builtins, run at top level or inside trap bodies: trap_set_action's  *)
(* two steps never leave one signal with the disposition of another action.  *)
THEOREM DispositionsFollow == Spec => []DispositionFollowsTrap
<1>1. IInv => DispositionFollowsTrap
  <2> SUFFICES ASSUME IInv, setting = <<>>, NEW s \in Sig
               PROVE  disposition[s] =
                        IF s \in start.ignored \/ trap_actions[s] = "ignore" THEN "ignore"
                        ELSE IF \/ trap_actions[s] = "command"
                                \/ s = SIGALRM \/ (start.interactive /\ s \in {1, 2, 3, 15})
                             THEN "count"
                        ELSE "default"
    BY DEF DispositionFollowsTrap
  <2>1. disposition[s] = configure_trap_signal(s, trap_actions[s])
    BY DEF IInv, Followed
  <2>2. Terminating \cup {SIGINT} = {1, 2, 3, 15}
    BY SMTT(30) DEF Terminating, SIGINT, SIGTERM, SIGHUP, SIGQUIT
  <2> QED
    BY SMTT(30), <2>1, <2>2 DEF configure_trap_signal, Baseline
<1> QED
  BY <1>1, IInvariant, PTL

(* No lost wakeup, for any number of signals at any moments: a pending       *)
(* counter without CATCH_FLAG is one the shell's run_pending_traps, which    *)
(* clears the flag before it looks, has yet to take.                         *)
THEOREM WakeupsKept == Spec => []PendingIsFlagged
<1>1. IInv => PendingIsFlagged
  <2>1. IInv /\ frames # <<>> => 1 \in DOMAIN frames
    BY DEF IInv, Nested
  <2> QED
    BY <2>1 DEF IInv, Flagged, PendingIsFlagged
<1> QED
  BY <1>1, IInvariant, PTL

=============================================================================
