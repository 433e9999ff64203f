----------------------------- MODULE MCExecutor -----------------------------
(* Small instances of Executor: five families of programs.                 *)
EXTENDS Executor

Options(on) ==
  [errexit |-> "errexit" \in on, functrace |-> "functrace" \in on,
   errtrace |-> "errtrace" \in on, lastpipe |-> "lastpipe" \in on,
   pipefail |-> "pipefail" \in on, invert |-> "invert" \in on]

Scenario(on, trapped, compounds, leaves, body, size) ==
  [opt |-> Options(on), traps |-> trapped, size |-> size,
   commands |-> leaves \cup {<<k, 1>> : k \in compounds}, body |-> body]

False == <<"cmd", 1>>
Loops == {<<"break", n>> : n \in 0..2} \cup {<<"continue", n>> : n \in 1..2}

MCScenarios ==
  { \* nested loops
    Scenario({}, {}, {"while", "until", "for", "semi"}, Loops \cup {False}, {}, 5),
    Scenario({}, {}, {"select", "arithfor", "case"}, Loops, {}, 5),
    Scenario({}, {}, {"while", "subshell", "group", "call", "eval"},
             {<<"break", 1>>, <<"break", 2>>, <<"return", 2>>}, {}, 4),
    \* errexit across constructs
    Scenario({"errexit", "invert"}, {}, {"and", "or", "if", "while", "semi"}, {False}, {}, 4),
    Scenario({"errexit", "lastpipe"}, {"EXIT"}, {"call", "source", "pipe", "subshell", "semi"},
             {False, <<"exit", 2>>, <<"trapexit", 0>>}, {Colon, False, <<"exit", 2>>}, 4),
    \* abandoned lines
    Scenario({}, {}, {"newline", "eval", "source", "group", "call", "semi"},
             {<<"badassign", 1>>, <<"badword", 1>>}, {}, 4),
    \* ERR, DEBUG and RETURN traps
    Scenario({"errexit", "errtrace"}, {"ERR", "EXIT"}, {"call", "group", "while"},
             {False, <<"return", 2>>}, {Colon, False, <<"return", 2>>, <<"exit", 2>>}, 4),
    Scenario({"functrace"}, {"DEBUG", "RETURN"}, {"call", "source", "for", "arithfor", "semi"},
             {<<"assign", 0>>, <<"return", 2>>}, {Colon, <<"break", 1>>, <<"return", 2>>}, 3),
    Scenario({"errexit", "lastpipe", "pipefail"}, {"DEBUG"}, {"select", "case", "pipe", "source"},
             {False, <<"badword", 1>>}, {Colon, False}, 3),
    \* a trapped signal
    Scenario({}, {"SIG"}, {"while", "call", "amp", "source"},
             {False, <<"break", 1>>, <<"return", 2>>}, {Colon, <<"break", 1>>, <<"return", 2>>}, 3) }
=============================================================================
