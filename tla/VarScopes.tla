------------------------------ MODULE VarScopes ------------------------------
(***************************************************************************)
(* Variables under function calls: declare, local, export, readonly,       *)
(* unset, assignments, and assignments before a command, which are made,   *)
(* seen by the command and taken back.  The store of Variables keeps one   *)
(* value per name and hides outer ones in scopes; DynamicScope is what     *)
(* scripts rely on, and Deep maps the one to the other.                    *)
(***************************************************************************)
EXTENDS Variables

CONSTANTS Scripts    \* by name, records of the commands (lines), of those that may follow an
                     \* assignment (prefixed), of these assignments (temps, pairs of
                     \* a name and a value) and of the nesting of calls (depth)
                     \* and of the options in force (shopt)

VARIABLES script,     \* the script the shell runs
          E,          \* the store
          calls,      \* one record per active function call
          pend,       \* the command after an assignment, and how far it is
          options,    \* the set options, as one value
          optscopes   \* per call: the options local - saved, or {}

vars == <<script, E, calls, pend, options, optscopes>>

Command == [op : {"assign", "elem", "list", "declare", "local", "local_dash", "export",
                  "export_n", "readonly", "unset", "unset_n", "unset_elem", "set_o", "nop", "call"},
            name : Names, val : Values \cup {""}, list : BOOLEAN, key : Keys,
            set : SUBSET Attrs, clear : SUBSET Attrs, global : BOOLEAN, inherit : BOOLEAN]

Idle == [at |-> "idle"]

InFunction == E.scopes # <<>>

Top == calls[Len(calls)]

\* The names assigned before the command, or before the running function.
current_function_prefix_assignment(x) == calls # <<>> /\ x \in Top.prefix

----------------------------------------------------------------------------
(* declare and local *)

localvar_inherit(F) == "localvar_inherit" \in F.shopt

ArrayAttrs == {"ARRAY", "ASSOC"}

\* A function's variable is made local first; a list starts from the old value
\* but not from its readonly attribute.
Localize(F, f, temp) ==
    LET x == f.name
        compound == f.val # "" /\ f.list
        inherit == \/ f.inherit \/ compound
                   \/ f.val = "" /\ (temp \/ current_function_prefix_assignment(x))
                   \/ localvar_inherit(F) /\ "NAMEREF" \notin f.set
        L == IF inherit THEN make_local_inherit(F, x) ELSE make_local(F, x)
    IN  IF f.global \/ ~InFunction THEN Done(F)
        ELSE IF L.ok /\ compound /\ ~f.inherit /\ ~localvar_inherit(F) /\ "READONLY" \notin f.set
        THEN [SetAttrOff(L, x, "READONLY") EXCEPT !.wiped = {x}]
        ELSE L

\* With -g an operation R works on the global of x.
View(F, f, x) == IF f.global THEN GlobalView(F, x) ELSE F

Apply(F, f, x, R) == IF f.global THEN with_global_var(F, x, R) ELSE R

\* What -g looks at.
declared(F, f) == IF f.global THEN global_saved(F, f.name) ELSE F.vars[f.name]

declared_kind(F, f) ==
    LET c == global_saved(F, f.name)
    IN  IF ~f.global \/ ScopesWith(F, f.name) = {} THEN kind(F, f.name)
        ELSE IF c.nameref # "" THEN "nameref"
        ELSE IF "ASSOC" \in c.attrs \/ c.assoc # {} THEN "assoc"
        ELSE IF "ARRAY" \in c.attrs \/ c.indexed # {} THEN "indexed"
        ELSE IF c.exists \/ F.env[f.name] # "" THEN "scalar" ELSE "unset"

\* An array stays an array of its kind.
ArrayRefused(F, f) ==
    LET c == declared(F, f)
        k == declared_kind(F, f)
    IN  \/ f.clear \cap ArrayAttrs # {} /\ "READONLY" \in c.attrs
        \/ "ARRAY" \in f.clear /\ ("ARRAY" \in c.attrs \/ k = "indexed")
        \/ "ASSOC" \in f.clear /\ ("ASSOC" \in c.attrs \/ k = "assoc")
        \/ "ASSOC" \in f.set /\ k = "indexed"
        \/ "ARRAY" \in f.set /\ k = "assoc"

\* A nameref is no array, refers to a name, and to its own only in a function.
NamerefRefused(F, f, localized) ==
    LET x == f.name
        v == f.val
    IN  /\ "NAMEREF" \in f.set
        /\ \/ declared_kind(F, f) \in {"indexed", "assoc"}
           \/ v # "" /\ v \notin Names
           \/ v = x /\ ~localized
           \/ v = "" /\ get_cow(F, x) \in Numerals
           \/ v = "" /\ is_readonly(F, x)

\* Where -r and +r apply.
readonly_attr_target_name(F, f) == IF "NAMEREF" \in f.set THEN f.name ELSE resolved(F, f.name)

\* Readonly, and a readonly nameref, are not taken away.
ReadonlyRefused(F, f) ==
    LET ro == readonly_attr_target_name(F, f)
    IN  \/ /\ "READONLY" \in f.clear /\ ro \in Names
           /\ IF f.global THEN global_saved(F, ro).readonly ELSE is_readonly(F, ro)
        \/ "NAMEREF" \in f.clear /\ is_readonly(F, f.name) /\ F.vars[f.name].nameref # ""

AttrOn(F, f, x, a) == Apply(F, f, x, SetAttrOn(View(F, f, x), x, a))

AttrOff(F, f, x, a) == Apply(F, f, x, SetAttrOff(View(F, f, x), x, a))

ExportOn(F, f, x) == Apply(F, f, x, export(View(F, f, x), x))

SetIn(F, f, x, a) == IF a \in f.set THEN AttrOn(F, f, x, a) ELSE F

ClearIn(F, f, x, a) == IF a \in f.clear THEN AttrOff(F, f, x, a) ELSE F

ExportIn(F, f, x) == IF "EXPORT" \in f.set THEN ExportOn(F, f, x) ELSE F

\* The attributes are applied one by one, before the value; +n with a value
\* comes after it.
ApplyAttrs(F, f, x, target) ==
    LET toggled(G, a) == ClearIn(SetIn(G, f, target, a), f, target, a)
        exported(G) == ClearIn(ExportIn(SetIn(G, f, target, "EXPORT"), f, target), f, target, "EXPORT")
        referring(G) == IF f.val # "" THEN SetIn(G, f, x, "NAMEREF")
                        ELSE ClearIn(SetIn(G, f, x, "NAMEREF"), f, x, "NAMEREF")
    IN  referring(exported(toggled(toggled(F, "ARRAY"), "ASSOC")))

\* A nameref of this function to a name that is nowhere makes it local here.
prepare_nameref_target_assignment(F, x, t) ==
    IF in_current_scope(F, x) /\ t \in Names /\ ~F.vars[t].exists /\ F.vars[t].indexed = {}
       /\ F.vars[t].assoc = {} /\ F.vars[t].nameref = "" /\ F.env[t] = ""
    THEN make_local(F, t) ELSE F

\* A failed list assignment leaves an empty array, readonly or not.
prepare_empty_compound_target(F, x, f) ==
    LET wanted == attrs(F, x) \cup f.set
        on(H, a) == IF a \in wanted THEN SetAttrOn(H, x, a) ELSE H
        exported(H) == IF "EXPORT" \in wanted THEN export(H, x) ELSE H
        empty == IF "ASSOC" \in f.set \/ kind(F, x) = "assoc"
                 THEN unset_array_elem(set_array_assoc(F, x, "", ""), x, "")
                 ELSE set_array_empty(F, x)
    IN  [on(exported(on(on(on(empty, "ARRAY"), "ASSOC"), "EXPORT")), "NAMEREF")
            EXCEPT !.wiped = @ \cup {x}]

unresolved_nameref(F, x) == "NAMEREF" \in attrs(F, x) /\ F.vars[x].nameref = ""

assign_value(F, x, v) ==
    IF unresolved_nameref(F, x) /\ v \notin Names THEN Fail(F) ELSE assign(F, x, v)

assign_value_global(F, x, v) ==
    IF unresolved_nameref(F, x) /\ v \notin Names THEN Fail(F)
    ELSE with_global_var(F, x, assign(GlobalView(F, x), x, v))

\* name=(value)
ListChecked(F, f) == IF F.ok THEN F ELSE Fail(prepare_empty_compound_target(F, f.name, f))

\* -g: a name in the way that is not set is unset.
Forgotten(F, seen, R) ==
    IF seen \in Names /\ kind(F, seen) = "unset" THEN [unset(R, seen) EXCEPT !.ok = R.ok] ELSE R

DeclareListGlobal(F, f) ==
    LET seen == resolved(F, f.name)
        listed == AssignListGlobal(F, f.name, f.val)
    IN  IF seen = global_target(F, f.name) THEN listed ELSE Forgotten(F, seen, listed)

DeclareList(F, f) ==
    ListChecked(IF f.global THEN DeclareListGlobal(F, f) ELSE AssignList(F, f.name, f.val), f)

\* -n name=value, also with -g
Referring(F, x) == IF F.ok THEN SetAttrOn(F, x, "NAMEREF") ELSE F

DeclareNameref(F, f) ==
    IF is_readonly(F, f.name) THEN Fail(F)
    ELSE Referring(assign_value(SetAttrOff(F, f.name, "NAMEREF"), f.name, f.val), f.name)

\* name=value; an unset nameref that gets something else than a name goes.
ScalarChecked(F, G, f, localized) ==
    IF G.ok \/ ~unresolved_nameref(F, f.name) \/ localized \/ is_readonly(F, f.name) THEN G
    ELSE Fail(Apply(G, f, f.name, unset(View(G, f, f.name), f.name)))

DeclareScalar(F, f, localized) ==
    ScalarChecked(F, IF f.global THEN assign_value_global(F, f.name, f.val)
                     ELSE assign_value(F, f.name, f.val), f, localized)

\* The value of name=value, after the attributes.
DeclareValue(F, f, localized) ==
    IF f.val = "" THEN Apply(F, f, f.name, Touch(View(F, f, f.name), f.name))
    ELSE IF f.list THEN DeclareList(F, f)
    ELSE IF "NAMEREF" \in f.set THEN DeclareNameref(F, f)
    ELSE DeclareScalar(F, f, localized)

\* -r and +r come last, and +n with a value after them.
DeclareReadonly(F, f, ro) ==
    LET marked == ClearIn(SetIn(F, f, ro, "READONLY"), f, ro, "READONLY")
    IN  IF "NAMEREF" \in f.clear /\ f.val # "" THEN SetAttrOff(marked, f.name, "NAMEREF") ELSE marked

\* A nameref to itself that becomes an array is no nameref any more.
LoseSelfReference(F, f) ==
    LET x == f.name
    IN  IF f.set \cap ArrayAttrs # {} /\ "NAMEREF" \in attrs(F, x) /\ resolve_nameref(F, x) = {x}
        THEN AttrOff(F, f, x, "NAMEREF") ELSE F

DeclareMarked(F, f, ro) == IF f.val # "" /\ ~F.ok THEN F ELSE DeclareReadonly(F, f, ro)

Prepared(F, f, target) ==
    IF ~f.global /\ target # f.name THEN prepare_nameref_target_assignment(F, f.name, target) ELSE F

\* The attributes and the value, once nothing refuses them.
DeclareTarget(F, f, target, ro, localized) ==
    IF target \notin Names \/ ro \notin Names THEN Fail(Prepared(F, f, target))
    ELSE DeclareMarked(DeclareValue(ApplyAttrs(Prepared(F, f, target), f, f.name, target), f, localized),
                       f, ro)

DeclareAllowed(F, f, ro, localized) ==
    DeclareTarget(F, f, IF "NAMEREF" \in f.set THEN f.name ELSE resolved(F, f.name), ro, localized)

\* run_declare once the name is local, if it is to be.
DeclareHere(L, f, localized) ==
    IF ~L.ok THEN L
    ELSE IF ArrayRefused(L, f) THEN Fail(L)
    ELSE IF "NAMEREF" \in f.set /\ f.list
    THEN Fail(IF f.global THEN AssignListGlobal(L, f.name, f.val) ELSE AssignList(L, f.name, f.val))
    ELSE IF NamerefRefused(L, f, localized) \/ ReadonlyRefused(L, f) THEN Fail(L)
    ELSE DeclareAllowed(LoseSelfReference(L, f), f, readonly_attr_target_name(L, f), localized)

\* run_declare for one name; temp: it is assigned before this command.
run_declare(F, f0, temp) ==
    LET f == IF f0.set \cap ArrayAttrs # {} THEN [f0 EXCEPT !.set = @ \ {"NAMEREF"}] ELSE f0
    IN  DeclareHere(Localize(F, f, temp), f, ~f.global /\ InFunction)

\* run_local_form: the short way when there are no options to take care of.
LocalIsSimple(F, f, temp) ==
    /\ ~temp /\ ~localvar_inherit(F)
    /\ f.set = {} /\ f.clear = {} /\ ~f.list /\ ~f.global /\ ~f.inherit
    /\ IF f.val = "" THEN ~current_function_prefix_assignment(f.name)
       ELSE attrs(F, f.name) \cap {"ARRAY", "ASSOC", "NAMEREF", "READONLY"} = {}

run_local_simple(F, f) ==
    IF f.val = "" THEN make_local(F, f.name) ELSE make_local_with_value(F, f.name, f.val)

\* declare, and local where it is declare in a function.
run_declare_form(F, f, temp) ==
    IF f.op = "local" /\ ~InFunction THEN Fail(F)
    ELSE IF f.op = "local" /\ LocalIsSimple(F, f, temp) THEN run_local_simple(F, f)
    ELSE run_declare(F, f, temp)

----------------------------------------------------------------------------
(* export, readonly, unset *)

\* The assignments before export are made again and exported, those before
\* readonly made readonly; temp holds <<name, value>>.
ImplicitExport(F, temp) ==
    LET k == The(temp)[1]
    IN  IF temp = {} THEN Done(F)
        ELSE IF is_readonly(F, k) THEN Fail(F)
        ELSE Done(SetAttrOn(export(assign(F, k, The(temp)[2]), k), k, "EXPORT"))

ImplicitReadonly(F, temp) ==
    LET k == The(temp)[1]
    IN  IF temp = {} THEN Done(F) ELSE SetAttrOn(assign(F, k, The(temp)[2]), k, "READONLY")

ExportTarget(G, t) == IF ~G.ok \/ t \notin Names THEN Fail(G) ELSE SetAttrOn(export(G, t), t, "EXPORT")

ExportAssigned(G, x) == ExportTarget(G, resolved(G, x))

run_export(F, f) ==
    IF f.val = "" THEN ExportAssigned(Done(F), f.name)
    ELSE IF is_readonly(F, f.name) THEN Fail(F)
    ELSE ExportAssigned(assign_value(F, f.name, f.val), f.name)

export_named(F, f) == IF F.ok THEN run_export(F, f) ELSE F

run_export_n(F, f) ==
    LET t == resolved(F, f.name)
    IN  IF t \in Names THEN Done(SetAttrOff(F, t, "EXPORT")) ELSE Fail(F)

MarkReadonly(G, t) == IF t \notin Names \/ ~G.ok THEN Fail(G) ELSE SetAttrOn(G, t, "READONLY")

run_readonly(F, f) ==
    MarkReadonly(IF f.val = "" THEN Done(F) ELSE assign_value(F, f.name, f.val), resolved(F, f.name))

\* Mutant: readonly variables can be unset.
run_unset_any(F, f) ==
    LET t == resolved(F, f.name)
    IN  IF t \notin Names THEN Fail(F) ELSE unset(F, t)

run_unset(F, f) ==
    LET t == resolved(F, f.name)
    IN  IF t \notin Names \/ is_readonly(F, t) THEN Fail(F) ELSE unset(F, t)

run_unset_n(F, f) ==
    IF is_readonly(F, f.name) THEN Fail(F)
    ELSE IF "NAMEREF" \in attrs(F, f.name) THEN unset(F, f.name) ELSE Done(F)

\* unset x[k]
unset_array_reference(F, f) ==
    LET t == resolved(F, f.name)
        k == kind(F, t)
    IN  IF t \notin Names \/ is_readonly(F, t) THEN Fail(F)
        ELSE IF k \in {"assoc", "indexed"} THEN Done(unset_array_elem(F, t, f.key))
        ELSE IF k = "scalar" /\ f.key = "0" THEN unset(F, t)
        ELSE IF k = "unset" THEN Done(F) ELSE Fail(F)

\* Names that a call's export noted: their prefix assignment then stays.
NotedOf(F, f, t, temp) ==
    IF ~F.ok THEN {}
    ELSE {kv[1] : kv \in temp} \cup
         (IF run_export(F, f).ok /\ (f.val # "" \/ ~current_function_prefix_assignment(t))
          THEN {t} ELSE {})

NotedAfter(F, f, temp) == NotedOf(F, f, resolved(F, f.name), temp)

note_exported(F, f, temp) ==
    IF f.op # "export" THEN {} ELSE NotedAfter(ImplicitExport(F, temp), f, temp)

\* A builtin; temp: the assignment before it, if any.
dispatch(F, f, temp) ==
    CASE f.op = "assign"   -> assign(F, f.name, f.val)
      [] f.op = "elem"     -> AssignElem(F, f.name, f.key, f.val)
      [] f.op = "list"     -> AssignList(F, f.name, f.val)
      [] f.op \in {"declare", "local"} -> run_declare_form(F, f, f.name \in {kv[1] : kv \in temp})
      [] f.op = "export"   -> export_named(ImplicitExport(F, temp), f)
      [] f.op = "export_n" -> run_export_n(F, f)
      [] f.op = "readonly" -> run_readonly(ImplicitReadonly(F, temp), f)
      [] f.op = "unset"    -> run_unset(F, f)
      [] f.op = "unset_n"  -> run_unset_n(F, f)
      [] f.op = "unset_elem" -> unset_array_reference(F, f)
      [] OTHER             -> F

----------------------------------------------------------------------------
(* Commands and calls *)

Init ==
    /\ script \in DOMAIN Scripts
    /\ E = [vars |-> [x \in Names |-> NoVar], scopes |-> <<>>, env |-> [x \in Names |-> ""],
            shopt |-> Scripts[script].shopt, ok |-> TRUE, wiped |-> {}, dead |-> FALSE]
    /\ calls = <<>>
    /\ pend = Idle
    /\ options = FALSE
    /\ optscopes = <<>>

\* The shell is about to read a command of the running body.
Ready == pend.at = "idle" /\ ~E.dead /\ (calls # <<>> => Top.at = "body")

Exported(S) ==
    IF calls = <<>> THEN calls ELSE [calls EXCEPT ![Len(calls)].exports = @ \cup S]

\* A command with nothing before it.
Run(f) ==
    /\ Ready
    /\ f.op \notin {"call", "nop", "set_o", "local_dash"}
    /\ E' = [dispatch([E EXCEPT !.wiped = {}], f, {}) EXCEPT !.ok = TRUE]
    /\ calls' = Exported(note_exported(E, f, {}))
    /\ UNCHANGED <<script, pend, options, optscopes>>

\* set -o / set +o
SetOption(f) ==
    /\ Ready
    /\ f.op = "set_o"
    /\ options' = ~options
    /\ UNCHANGED <<script, E, calls, pend, optscopes>>

\* local -: the first one of a call saves the options.
make_options_local(f) ==
    /\ Ready
    /\ f.op = "local_dash"
    /\ optscopes # <<>>
    /\ optscopes' = [optscopes EXCEPT ![Len(optscopes)] = IF @ = {} THEN {options} ELSE @]
    /\ UNCHANGED <<script, E, calls, pend, options>>

\* assignment_storage_name
storage(F, k) == IF resolve_nameref(F, k) = {} THEN k ELSE The(resolve_nameref(F, k))

\* restore_assignment_values: Some(v) is set again, None is unset.
RestoreValue(F, k, v) == IF v # "" THEN assign(F, k, v) ELSE unset(F, k)

\* k=v before a command is first made and taken back for the expansions.
ExpandPrefix(k, v, f) ==
    /\ Ready
    /\ f.op = "call" => Len(calls) < Scripts[script].depth
    /\ LET t == storage(E, k)
           F == [E EXCEPT !.wiped = {}]
       IN  /\ t \in Names
           /\ E' = [RestoreValue(assign(F, k, v), t, get_cow(E, t)) EXCEPT !.ok = TRUE]
           /\ pend' = [at |-> "apply", key |-> k, val |-> v, cmd |-> f, before |-> E]
    /\ UNCHANGED <<script, calls, options, optscopes>>

assignment_builtin(f) == f.op \in {"declare", "local", "export", "readonly"}

persist(f) == f.op \in {"export", "readonly"}

\* var_snapshot, {} when there is no such variable.
var_snapshot(F, x) ==
    LET c == F.vars[x]
    IN  IF c.exists \/ c.indexed # {} \/ c.assoc # {} \/ c.nameref # "" THEN c ELSE NoVar

\* snapshot_assignments and apply_builtin_assignments
ApplyTemp ==
    /\ pend.at = "apply" /\ ~E.dead
    /\ pend.cmd.op # "call"
    /\ LET t == storage(E, pend.key)
           F == assign(E, pend.key, pend.val)
           u == storage(F, pend.key)
       IN  /\ t \in Names /\ u \in Names
           /\ E' = [IF assignment_builtin(pend.cmd) THEN SetAttrOn(F, u, "EXPORT") ELSE F EXCEPT !.ok = TRUE]
           /\ pend' = [at |-> "run", name |-> pend.key, key |-> t, val |-> pend.val, cmd |-> pend.cmd,
                       before |-> pend.before, value |-> get_cow(E, t), snapshot |-> var_snapshot(E, t)]
    /\ UNCHANGED <<script, calls, options, optscopes>>

RunTemp ==
    /\ pend.at = "run" /\ ~E.dead
    /\ E' = [dispatch(E, pend.cmd, {<<pend.name, pend.val>>}) EXCEPT !.ok = TRUE]
    /\ calls' = Exported(note_exported(E, pend.cmd, {<<pend.name, pend.val>>}))
    /\ pend' = IF persist(pend.cmd) THEN Idle ELSE [pend EXCEPT !.at = "end"]
    /\ UNCHANGED <<script, options, optscopes>>

\* declare -x and -r keep what they were told to declare.
declare_sets_persistent_attrs(f) == f.op = "declare" /\ f.set \cap {"EXPORT", "READONLY"} # {}

restore_assignments(F) ==
    LET k == pend.key
        f == pend.cmd
    IN  IF f.op \in {"declare", "local"} /\ in_current_scope(F, k)
        THEN set_local_restore_snapshot(F, k, pend.snapshot)
        ELSE IF declare_sets_persistent_attrs(f) /\ attrs(F, k) \cap {"EXPORT", "READONLY"} # {}
        THEN F
        ELSE RestoreValue(F, k, pend.value)

EndTemp ==
    /\ pend.at = "end" /\ ~E.dead
    /\ E' = [restore_assignments(E) EXCEPT !.ok = TRUE]
    /\ pend' = Idle
    /\ UNCHANGED <<script, calls, options, optscopes>>

\* function::call: what the prefix assignment will hide is remembered.
PushCall(record) ==
    /\ E' = push_local_scope([E EXCEPT !.wiped = {}])
    /\ calls' = Append(calls, record)
    /\ optscopes' = Append(optscopes, {})
    /\ pend' = Idle
    /\ UNCHANGED <<script, options>>

Call(f) ==
    /\ Ready
    /\ f.op = "call"
    /\ Len(calls) < Scripts[script].depth
    /\ PushCall([at |-> "body", prefix |-> {}, exports |-> {}])

CallPrefixed ==
    /\ pend.at = "apply" /\ ~E.dead
    /\ pend.cmd.op = "call"
    /\ LET t == storage(E, pend.key)
       IN  /\ t \in Names
           /\ PushCall([at |-> "apply", prefix |-> {t}, exports |-> {}, key |-> pend.key,
                        val |-> pend.val, value |-> get_cow(E, t),
                        exported |-> E.vars[t].exported, ro |-> is_readonly(E, t)])

\* apply_assignments, once the scope of the call exists
apply_assignments ==
    /\ calls # <<>> /\ Top.at = "apply" /\ ~E.dead
    /\ E' = [export(assign(E, Top.key, Top.val), Top.key) EXCEPT !.ok = TRUE]
    /\ calls' = [calls EXCEPT ![Len(calls)].at = "body"]
    /\ UNCHANGED <<script, pend, options, optscopes>>

\* The body ends: local options and local variables go.
Return ==
    /\ Ready
    /\ calls # <<>>
    /\ E' = pop_local_scope([E EXCEPT !.wiped = {}])
    /\ options' = IF optscopes[Len(optscopes)] = {} THEN options ELSE The(optscopes[Len(optscopes)])
    /\ optscopes' = SubSeq(optscopes, 1, Len(optscopes) - 1)
    /\ calls' = IF Top.prefix = {} THEN SubSeq(calls, 1, Len(calls) - 1)
                ELSE [calls EXCEPT ![Len(calls)].at = "restore"]
    /\ UNCHANGED <<script, pend>>

\* Mutant: the name is assigned while it may be readonly.
RestorePrefixedReadonly(F, c, k) ==
    LET H == set_attr(assign(F, k, c.value), k, "READONLY", c.ro)
    IN  IF k \in c.exports THEN F
        ELSE IF c.value = "" THEN unset(F, k)
        ELSE IF c.exported THEN export(H, k)
        ELSE [SetAttrOff(H, k, "EXPORT") EXCEPT !.env[k] = ""]

\* A prefix assignment is taken back, unless the function exported the name.
RestorePrefixed(F, c, k) ==
    LET G == SetAttrOff(F, k, "READONLY")
        H == set_attr(assign(G, k, c.value), k, "READONLY", c.ro)
    IN  IF k \in c.exports THEN F
        ELSE IF c.value = "" THEN unset(G, k)
        ELSE IF c.exported THEN export(H, k)
        ELSE [SetAttrOff(H, k, "EXPORT") EXCEPT !.env[k] = ""]

RestorePrefix ==
    /\ calls # <<>> /\ Top.at = "restore" /\ ~E.dead
    /\ E' = [RestorePrefixed(E, Top, The(Top.prefix)) EXCEPT !.ok = TRUE]
    /\ calls' = SubSeq(calls, 1, Len(calls) - 1)
    /\ UNCHANGED <<script, pend, options, optscopes>>

\* assign calls itself until the stack overflows.
Overflow ==
    /\ E.dead
    /\ UNCHANGED vars

Next ==
    \/ Overflow
    \/ \E f \in Scripts[script].lines : Run(f) \/ SetOption(f) \/ make_options_local(f) \/ Call(f)
    \/ \E f \in Scripts[script].prefixed, kv \in Scripts[script].temps : ExpandPrefix(kv[1], kv[2], f)
    \/ ApplyTemp
    \/ RunTemp
    \/ EndTemp
    \/ CallPrefixed
    \/ apply_assignments
    \/ Return
    \/ RestorePrefix

Spec == Init /\ [][Next]_vars

----------------------------------------------------------------------------
(* Properties *)

\* The binding of x in frame i, wherever a later local has put it.
Binding(i, x) ==
    LET above == {j \in ScopesWith(E, x) : j > i}
    IN  IF above = {} THEN E.vars[x] ELSE E.scopes[Min(above)][x]

Bindings == {Binding(i, x) : i \in 0..Len(E.scopes), x \in Names}

TypeOK ==
    /\ IsStore(E)
    /\ Len(E.scopes) = Cardinality({i \in DOMAIN calls : calls[i].at # "restore"})
    /\ Len(optscopes) = Len(E.scopes)

\* One value per name, saved and put back, implements a stack of frames: a
\* command changes only the bindings it may change, and a return brings back
\* every binding that a local hid.
Deep == INSTANCE DynamicScope WITH
    globals <- [x \in Names |-> Binding(0, x)],
    frames <- [i \in DOMAIN E.scopes |-> [x \in DOMAIN E.scopes[i] |-> Binding(i, x)]]

DeepScope == Deep!Spec

\* The flags of an entry and its attribute set are written apart and agree.
AttributeMirrors ==
    \A c \in Bindings :
        /\ c.exported <=> "EXPORT" \in c.attrs
        /\ c.readonly <=> "READONLY" \in c.attrs

\* The environment a child gets is what the exported variables say, except
\* that an array leaves the value it had as a scalar behind.
EnvironmentMirrors ==
    ~E.dead => \A x \in Names :
        E.vars[x].indexed = {} /\ E.vars[x].assoc = {} => E.env[x] = sync_export_env(E, x).env[x]

\* An entry mirrors element 0 of its array, is not of two kinds at once, and
\* has a target only as a nameref.
KindCoherent ==
    \A c \in Bindings :
        /\ ~({"ARRAY", "ASSOC"} \subseteq c.attrs)
        /\ "ARRAY" \in c.attrs /\ c.indexed # {} =>
               c.has_value = ("0" \in DOMAIN The(c.indexed)) /\ (c.has_value => c.value = The(c.indexed)["0"])
        /\ "ASSOC" \in c.attrs /\ c.assoc # {} =>
               c.has_value = ("0" \in DOMAIN The(c.assoc)) /\ (c.has_value => c.value = The(c.assoc)["0"])
        /\ c.nameref # "" => "NAMEREF" \in c.attrs

Bound(i, x) == i = 0 \/ i \in ScopesWith(E, x)

Elements(c) ==
    IF c.assoc # {} THEN The(c.assoc)
    ELSE IF c.indexed # {} THEN The(c.indexed)
    ELSE IF c.has_value THEN "0" :> c.value ELSE EmptyMap

\* The step takes back what was assigned to x before a call, or before declare
\* or local.
TakesBack(x) ==
    \/ calls # <<>> /\ Top.at = "restore" /\ x \in Top.prefix
    \/ pend.at = "end" /\ pend.key = x /\ pend.cmd.op \in {"declare", "local"}

\* A readonly variable with a value keeps both for as long as its frame lives,
\* in whichever frame it is and whoever assigns, unsets, declares or hides it.
\* A list given to declare is an exception, and so is taking back a temporary
\* assignment to it.
ReadonlyHolds ==
    [][\A x \in Names, i \in 0..Min({Len(E.scopes), Len(E'.scopes)}) :
           /\ Bound(i, x) /\ Binding(i, x).readonly /\ Elements(Binding(i, x)) # EmptyMap
           /\ x \notin E'.wiped /\ ~TakesBack(x)
           => Bound(i, x)' /\ Binding(i, x)'.readonly /\ Elements(Binding(i, x)') = Elements(Binding(i, x))]_vars

\* An assignment before a builtin that does nothing leaves no trace in any
\* frame nor in the environment, if the name had a value.
TempTakenBack ==
    pend.at = "end" /\ pend.cmd.op = "nop" /\ get_cow(pend.before, pend.key) # ""
    => /\ E'.vars = pend.before.vars
       /\ E'.scopes = pend.before.scopes
       /\ E'.env = pend.before.env

\* A call gives back the value, the export flag and the readonly flag of a name
\* assigned before it, whatever the body did with the name.
PrefixRestored ==
    calls # <<>> /\ Top.at = "restore" =>
        LET x == The(Top.prefix)
        IN  Top.value # "" /\ x \notin Top.exports =>
            /\ get_cow(E', x) = Top.value
            /\ E'.vars[x].exported = Top.exported
            /\ is_readonly(E', x) = Top.ro

\* An assignment before a command, builtin or function, is taken back with the
\* command.
AssignmentsTakenBack == [][TempTakenBack /\ PrefixRestored]_vars

\* What the store keeps of a variable in several places agrees: flags and
\* attributes, value and environment, value and element 0.
StoreCoherent == TypeOK /\ AttributeMirrors /\ EnvironmentMirrors /\ KindCoherent

=============================================================================
