----------------------------- MODULE MCVarScopes -----------------------------
(***************************************************************************)
(* Small scripts for VarScopes: each exercises one group of commands.      *)
(***************************************************************************)
EXTENDS VarScopes

Base == [op |-> "nop", name |-> "x", val |-> "", list |-> FALSE, key |-> "0",
         set |-> {}, clear |-> {}, global |-> FALSE, inherit |-> FALSE]

Op(o) == [Base EXCEPT !.op = o]
OpV(o, v) == [Base EXCEPT !.op = o, !.val = v]
Decl(s, v) == [Base EXCEPT !.op = "declare", !.set = s, !.val = v]
Glob(f) == [f EXCEPT !.global = TRUE]
Inh(f) == [f EXCEPT !.inherit = TRUE]
Lst(f) == [f EXCEPT !.list = TRUE]
On(f, y) == [f EXCEPT !.name = y]
At(f, k) == [f EXCEPT !.key = k]
Off(s) == [Base EXCEPT !.op = "declare", !.clear = s]

CallLine == Op("call")

\* Locals, unset, globals, readonly: one name, three calls deep.
ScalarScript ==
    [lines |-> {CallLine, OpV("assign", "1"), OpV("assign", "2"), Op("local"), OpV("local", "1"),
                Decl({"READONLY"}, ""), Glob(Decl({}, "2")), Inh(Op("local")), Op("unset"),
                Op("readonly"), Glob(Decl({"READONLY"}, "1")), Off({"READONLY"})},
     prefixed |-> {}, temps |-> {}, depth |-> 3, shopt |-> {}]

\* The same names when unset keeps a caller's local, and when local starts from
\* the value outside.
UnsetScript == [ScalarScript EXCEPT !.shopt = {"localvar_unset"}, !.depth = 2]
InheritScript == [ScalarScript EXCEPT !.shopt = {"localvar_inherit"}, !.depth = 2]

\* Export and local options.
ExportScript ==
    [lines |-> {CallLine, OpV("assign", "1"), Op("local"), OpV("local", "2"), Op("export"),
                OpV("export", "2"), Op("export_n"), Op("unset"), Glob(Decl({"EXPORT"}, "1")),
                Decl({"EXPORT"}, "1"), Op("set_o"), Op("local_dash")},
     prefixed |-> {}, temps |-> {}, depth |-> 2, shopt |-> {}]

\* An assignment before a call.
CallScript ==
    [lines |-> {CallLine, OpV("assign", "1"), Op("local"), Op("export"), Op("unset"), Op("readonly")},
     prefixed |-> {CallLine}, temps |-> {<<"x", "2">>}, depth |-> 2, shopt |-> {}]

\* An assignment before a builtin.
TempScript ==
    [lines |-> {CallLine, OpV("assign", "1"), Op("local"), Op("readonly")},
     prefixed |-> {Op("nop"), Op("declare"), Op("local"), Op("export"), Op("readonly"),
                   Decl({"EXPORT"}, ""), OpV("local", "2"), Op("unset")},
     temps |-> {<<"x", "2">>}, depth |-> 2, shopt |-> {}]

\* Namerefs between two names, in one function.
NamerefScript ==
    [lines |-> {CallLine, OpV("assign", "1"), OpV("assign", "x"), Decl({"NAMEREF"}, "y"),
                On(Decl({"NAMEREF"}, "x"), "y"), Decl({"NAMEREF"}, ""), Decl({"NAMEREF"}, "x"),
                On(Op("local"), "y"), Op("unset"), Op("unset_n"), Off({"NAMEREF"}),
                On(Op("readonly"), "y")},
     prefixed |-> {}, temps |-> {}, depth |-> 1, shopt |-> {}]

\* A nameref passed down two calls.
DownScript ==
    [lines |-> {CallLine, OpV("assign", "1"), Decl({"NAMEREF"}, "y"), On(OpV("local", "2"), "y"),
                Op("unset"), Op("readonly")},
     prefixed |-> {}, temps |-> {}, depth |-> 2, shopt |-> {}]

\* Indexed and associative arrays.
ArrayScript ==
    [lines |-> {CallLine, OpV("assign", "1"), At(OpV("elem", "2"), "1"), Lst(OpV("list", "1")),
                Decl({"ARRAY"}, ""), Decl({"ASSOC"}, ""), Lst(Decl({}, "2")), Op("local"), Op("unset"),
                At(Op("unset_elem"), "0"), At(Op("unset_elem"), "1"), Off({"ARRAY"}), Op("readonly"),
                Glob(Lst(Decl({"ARRAY"}, "1")))},
     prefixed |-> {}, temps |-> {}, depth |-> 2, shopt |-> {}]

AllScripts ==
    [scalar |-> ScalarScript, unset |-> UnsetScript, inherit |-> InheritScript, export |-> ExportScript,
     call |-> CallScript, temp |-> TempScript, nameref |-> NamerefScript, down |-> DownScript,
     array |-> ArrayScript]

=============================================================================
