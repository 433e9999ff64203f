------------------------------ MODULE Variables ------------------------------
(***************************************************************************)
(* The variable store of shell/src/state and the assignment helpers over   *)
(* it, as operators on a record:                                           *)
(*   vars     what each name holds now (entry, arrays, nameref target)     *)
(*   scopes   for each function call, what its locals hid                  *)
(*   env      the process environment, "" where a name is not in it        *)
(*   shopt    those of localvar_unset and localvar_inherit that are on     *)
(*   ok       FALSE when the last operation refused (AssignError, status)  *)
(*   wiped    names whose readonly attribute a list in declare overrode    *)
(*   dead     the shell's stack overflowed                                 *)
(* Values are names or numerals; integer, case and trace attributes, and   *)
(* the special variables, are left out.                                    *)
(***************************************************************************)
EXTENDS Naturals, Sequences, FiniteSets, FiniteSetsExt, Functions, TLC

CONSTANTS Names,          \* names of variables, strings
          Numerals,       \* values that are not names
          Keys            \* subscripts, "0" among them

ASSUME ValuesAssumption ==
    /\ "0" \in Keys
    /\ "" \notin Names \cup Numerals

Values == Names \cup Numerals

Attrs == {"EXPORT", "READONLY", "ARRAY", "ASSOC", "NAMEREF"}

Maps == UNION {[S -> Values] : S \in SUBSET Keys}

Option(S) == {{}} \cup {{s} : s \in S}

The(o) == CHOOSE a \in o : TRUE

EmptyMap == [k \in {} |-> ""]

\* A SavedVar: the entry with its two arrays and its nameref target.
Cell == [exists : BOOLEAN, value : Values \cup {""}, has_value : BOOLEAN,
         exported : BOOLEAN, readonly : BOOLEAN, attrs : SUBSET Attrs,
         indexed : Option(Maps), assoc : Option(Maps), nameref : Values \cup {""}]

NoVar == [exists |-> FALSE, value |-> "", has_value |-> FALSE, exported |-> FALSE,
          readonly |-> FALSE, attrs |-> {}, indexed |-> {}, assoc |-> {}, nameref |-> ""]

DefaultEntry == [NoVar EXCEPT !.exists = TRUE]

\* The type of a store.
IsStore(E) ==
    /\ E.vars \in [Names -> Cell]
    /\ \A i \in DOMAIN E.scopes : DOMAIN E.scopes[i] \subseteq Names
                               /\ \A x \in DOMAIN E.scopes[i] : E.scopes[i][x] \in Cell
    /\ E.env \in [Names -> Values \cup {""}]
    /\ E.ok \in BOOLEAN /\ E.dead \in BOOLEAN /\ E.wiped \subseteq Names

Fail(E) == [E EXCEPT !.ok = FALSE]

Done(E) == [E EXCEPT !.ok = TRUE]

SetVar(E, x, c) == [E EXCEPT !.vars[x] = c]

attrs(E, x) == E.vars[x].attrs

is_readonly(E, x) == E.vars[x].readonly \/ "READONLY" \in attrs(E, x)

ScopesWith(E, x) == {i \in DOMAIN E.scopes : x \in DOMAIN E.scopes[i]}

in_current_scope(E, x) == Len(E.scopes) \in ScopesWith(E, x)

global_scope_index(E, x) == Min(ScopesWith(E, x))

\* What x is outside all functions.
global_saved(E, x) ==
    IF ScopesWith(E, x) = {} THEN E.vars[x] ELSE E.scopes[global_scope_index(E, x)][x]

\* What a child sees of a variable c whose global is g.
ExportedValue(c, g) ==
    IF c.exists /\ c.exported /\ c.has_value THEN c.value
    ELSE IF c.exists /\ g.exported /\ g.has_value THEN g.value
    ELSE ""

sync_export_env(E, x) == [E EXCEPT !.env[x] = ExportedValue(E.vars[x], global_saved(E, x))]

\* What x refers to, when that is a variable; x itself at the end of a chain.
nameref_target(E, x) == IF E.vars[x].nameref \in Names THEN E.vars[x].nameref ELSE x

\* The end of a chain of namerefs; {} for a cycle.
resolve_nameref(E, x) ==
    LET reached[n \in 0..8] ==      \* NAMEREF_MAX_DEPTH
            IF n = 0 THEN x ELSE nameref_target(E, reached[n - 1])
    IN  {y \in {reached[8]} : nameref_target(E, y) = y}

\* A nameref whose target is not a name of a variable stays itself.
resolved(E, x) ==
    IF "NAMEREF" \in attrs(E, x) /\ resolve_nameref(E, x) # {}
    THEN The(resolve_nameref(E, x)) ELSE x

local_self_nameref(E, x) == E.vars[x].nameref = x /\ ScopesWith(E, x) # {}

kind(E, x) ==
    LET c == E.vars[x]
    IN  CASE c.nameref # "" -> "nameref"
          [] c.nameref = "" /\ "ASSOC" \in c.attrs -> "assoc"
          [] c.nameref = "" /\ "ASSOC" \notin c.attrs /\ "ARRAY" \in c.attrs -> "indexed"
          [] OTHER -> IF c.assoc # {} THEN "assoc"
                      ELSE IF c.indexed # {} THEN "indexed"
                      ELSE IF c.exists \/ E.env[x] # "" THEN "scalar" ELSE "unset"

\* What a nameref to its own name gives: the value of the global.
GlobalValue(g) ==
    IF g.indexed # {} THEN IF "0" \in DOMAIN The(g.indexed) THEN The(g.indexed)["0"] ELSE ""
    ELSE IF ~g.has_value THEN "" ELSE IF g.nameref # "" THEN g.nameref ELSE g.value

\* "" stands for None.
get_cow(E, x) ==
    LET c == E.vars[x]
    IN  IF ~c.exists THEN E.env[x]
        ELSE IF "NAMEREF" \in c.attrs /\ local_self_nameref(E, x) THEN GlobalValue(global_saved(E, x))
        ELSE IF "NAMEREF" \in c.attrs /\ c.nameref = x THEN ""
        ELSE IF c.has_value THEN c.value ELSE ""

----------------------------------------------------------------------------
(* Scopes *)

\* E with the global of x in place of what x means now.
GlobalView(E, x) == SetVar(E, x, global_saved(E, x))

Rehide(E, x, R, i) == [R EXCEPT !.scopes[i] = (x :> R.vars[x]) @@ @, !.vars[x] = E.vars[x]]

\* R is what an operation made of GlobalView(E, x); the global goes back.
with_global_var(E, x, R) ==
    IF ScopesWith(E, x) = {} THEN R
    ELSE sync_export_env(Rehide(E, x, R, global_scope_index(E, x)), x)

push_local_scope(E) == [E EXCEPT !.scopes = Append(@, [x \in {} |-> NoVar])]

\* Mutant: the environment is not brought back.
pop_local_scope_unsynced(E) ==
    LET scope == E.scopes[Len(E.scopes)]
    IN  [E EXCEPT !.scopes = SubSeq(@, 1, Len(@) - 1),
                  !.vars = [x \in Names |-> IF x \in DOMAIN scope THEN scope[x] ELSE @[x]]]

pop_local_scope(E) ==
    LET scope == E.scopes[Len(E.scopes)]
        R == [E EXCEPT !.scopes = SubSeq(@, 1, Len(@) - 1),
                       !.vars = [x \in Names |-> IF x \in DOMAIN scope THEN scope[x] ELSE @[x]]]
    IN  [R EXCEPT !.env = [x \in Names |->
            IF x \in DOMAIN scope THEN sync_export_env(R, x).env[x] ELSE @[x]]]

InheritExport(e) == [DefaultEntry EXCEPT !.exported = e, !.attrs = IF e THEN {"EXPORT"} ELSE {}]

\* A readonly variable may not be hidden, unless it is a caller's local.
CannotHide(E, x) == ScopesWith(E, x) = {} /\ E.vars[x].readonly

SaveLocal(E, x) == [E EXCEPT !.scopes[Len(E.scopes)] = (x :> E.vars[x]) @@ @]

\* Mutant: a second local of a name in one function saves the first one.
make_local_again(E, x) ==
    IF E.scopes = <<>> THEN Done(E)
    ELSE IF CannotHide(E, x) THEN Fail(E)
    ELSE Done(sync_export_env(SetVar(SaveLocal(E, x), x, InheritExport(E.vars[x].exported)), x))

make_local(E, x) ==
    IF E.scopes = <<>> \/ in_current_scope(E, x) THEN Done(E)
    ELSE IF CannotHide(E, x) THEN Fail(E)
    ELSE Done(sync_export_env(SetVar(SaveLocal(E, x), x, InheritExport(E.vars[x].exported)), x))

make_local_inherit(E, x) ==
    IF E.scopes = <<>> \/ in_current_scope(E, x) THEN Done(E)
    ELSE IF CannotHide(E, x) THEN Fail(E)
    ELSE LET c == E.vars[x]
             absent == ~c.exists /\ c.indexed = {} /\ c.assoc = {} /\ c.nameref = ""
             l == IF absent THEN DefaultEntry
                  ELSE [c EXCEPT !.attrs = @ \ {"NAMEREF"}, !.nameref = ""]
         IN  Done(sync_export_env(SetVar(SaveLocal(E, x), x, l), x))

\* make_local_with_value(x, Some(v)): the entry is written without assign.
make_local_with_value(E, x, v) ==
    IF ~in_current_scope(E, x) /\ CannotHide(E, x) THEN Fail(E)
    ELSE LET already == in_current_scope(E, x)
             c == E.vars[x]
             base == IF already THEN IF c.exists THEN c ELSE [c EXCEPT !.exists = TRUE]
                     ELSE InheritExport(c.exported)
             S == IF already THEN E ELSE SaveLocal(E, x)
             R == SetVar(S, x, [base EXCEPT !.value = v, !.has_value = TRUE, !.readonly = FALSE])
         IN  Done(IF base.exported THEN [R EXCEPT !.env[x] = v] ELSE R)

\* The caller's side of a temporary assignment that local has hidden.
set_local_restore_snapshot(E, x, c) ==
    IF E.scopes # <<>> /\ in_current_scope(E, x)
    THEN [E EXCEPT !.scopes[Len(E.scopes)][x] =
             IF c = NoVar THEN NoVar
             ELSE [c EXCEPT !.exists = TRUE, !.exported = "EXPORT" \in c.attrs,
                            !.readonly = "READONLY" \in c.attrs]]
    ELSE E

\* unset of a variable.
unset(E, x) ==
    LET outer == ScopesWith(E, x) \ {Len(E.scopes)}
        i == Max(outer)
        blank(c) == SetVar(E, x, c)
    IN  Done(
        IF in_current_scope(E, x)
        THEN sync_export_env(blank(InheritExport(E.scopes[Len(E.scopes)][x].exported)), x)
        ELSE IF outer # {} /\ "localvar_unset" \in E.shopt THEN sync_export_env(blank(DefaultEntry), x)
        ELSE IF outer # {}
        THEN sync_export_env([E EXCEPT !.vars[x] = E.scopes[i][x],
                                       !.scopes[i] = RestrictDomain(@, LAMBDA y : y # x)], x)
        ELSE [blank(NoVar) EXCEPT !.env[x] = ""])

----------------------------------------------------------------------------
(* Arrays and attributes *)

\* set_array with no values: attributes other than ARRAY are lost.
set_array_empty(E, x) ==
    SetVar(E, x, [E.vars[x] EXCEPT !.exists = TRUE, !.value = "", !.has_value = FALSE,
                  !.exported = FALSE, !.readonly = FALSE, !.attrs = {"ARRAY"}, !.indexed = {EmptyMap}])

\* The entry mirrors element 0, and is written only when that or the kind changes.
set_array_indexed(E, x, k, v) ==
    LET c == E.vars[x]
        seed == c.indexed = {} /\ c.exists /\ c.has_value /\ c.attrs \cap {"ARRAY", "ASSOC"} = {}
        old == IF c.indexed # {} THEN The(c.indexed)
               ELSE IF seed THEN "0" :> c.value ELSE EmptyMap
        m == (k :> v) @@ old
        at0 == "0" \in DOMAIN m
        arr == [c EXCEPT !.indexed = {m}]
    IN  SetVar(E, x,
          IF k # "0" /\ "ARRAY" \in c.attrs THEN arr
          ELSE [arr EXCEPT !.exists = TRUE, !.value = IF at0 THEN m["0"] ELSE "", !.has_value = at0,
                           !.readonly = FALSE, !.attrs = @ \cup {"ARRAY"}])

set_array_assoc(E, x, k, v) ==
    LET c == E.vars[x]
        m == (k :> v) @@ (IF c.assoc # {} THEN The(c.assoc) ELSE EmptyMap)
        at0 == "0" \in DOMAIN m
        arr == [c EXCEPT !.assoc = {m}]
    IN  SetVar(E, x,
          IF k # "0" /\ "ASSOC" \in c.attrs THEN arr
          ELSE [arr EXCEPT !.exists = TRUE, !.value = IF at0 THEN m["0"] ELSE "", !.has_value = at0,
                           !.readonly = FALSE, !.attrs = @ \cup {"ASSOC"}])

unset_array_elem(E, x, k) ==
    LET c == E.vars[x]
        without(m) == RestrictDomain(m, LAMBDA j : j # k)
        mirror(d, m, a) == IF ~d.exists THEN d
                           ELSE [d EXCEPT !.value = IF "0" \in DOMAIN m THEN m["0"] ELSE "",
                                          !.has_value = "0" \in DOMAIN m, !.attrs = @ \cup {a}]
    IN  SetVar(E, x,
          IF c.assoc # {}
          THEN LET m == without(The(c.assoc))
                   d == [c EXCEPT !.assoc = {m}]
               IN  IF k = "0" THEN mirror(d, m, "ASSOC") ELSE d
          ELSE IF c.indexed # {}
          THEN LET m == without(The(c.indexed))
               IN  mirror([c EXCEPT !.indexed = {m}], m, "ARRAY")
          ELSE c)

\* The one attribute the environment depends on.
SyncFor(E, x, a) == IF a = "EXPORT" THEN sync_export_env(E, x) ELSE E

\* set_attr(x, a, TRUE): changing the kind converts the value.
SetAttrOn(E, x, a) ==
    LET c == E.vars[x]
        d == [c EXCEPT !.exists = TRUE, !.attrs = @ \cup {a}]
        seed(o) == IF o = {} /\ c.exists /\ c.has_value /\ a \notin c.attrs
                   THEN {"0" :> c.value} ELSE o
    IN  SyncFor(SetVar(E, x,
               CASE a = "ARRAY" -> [d EXCEPT !.indexed = seed(@), !.assoc = {}, !.attrs = @ \ {"ASSOC"}]
                 [] a = "ASSOC" -> [d EXCEPT !.assoc = seed(@), !.indexed = {}, !.attrs = @ \ {"ARRAY"}]
                 [] a = "EXPORT" -> [d EXCEPT !.exported = TRUE]
                 [] a = "READONLY" -> [d EXCEPT !.readonly = TRUE]
                 [] a = "NAMEREF" -> IF c.nameref = "" /\ c.has_value
                                     THEN [d EXCEPT !.nameref = c.value] ELSE d), x, a)

SetAttrOff(E, x, a) ==
    LET d == [E.vars[x] EXCEPT !.exists = TRUE, !.attrs = @ \ {a}]
    IN  SyncFor(SetVar(E, x,
               CASE a = "EXPORT" -> [d EXCEPT !.exported = FALSE]
                 [] a = "READONLY" -> [d EXCEPT !.readonly = FALSE]
                 [] a = "NAMEREF" -> [d EXCEPT !.nameref = ""]
                 [] OTHER -> d), x, a)

set_attr(E, x, a, on) == IF on THEN SetAttrOn(E, x, a) ELSE SetAttrOff(E, x, a)

\* set_attr(x, empty)
Touch(E, x) == SetVar(E, x, [E.vars[x] EXCEPT !.exists = TRUE])

ExportAs(E, x, v) ==
    [SetVar(E, x, [E.vars[x] EXCEPT !.exists = TRUE, !.value = v, !.has_value = v # "",
                   !.exported = TRUE, !.attrs = @ \cup {"EXPORT"}]) EXCEPT !.env[x] = v]

export(E, x) == ExportAs(E, x, get_cow(E, x))

----------------------------------------------------------------------------
(* Assignment *)

\* assign for a name that is not a nameref to another one.
AssignHere(E, x, v) ==
    LET c == E.vars[x]
    IN  IF is_readonly(E, x) THEN Fail(E)
        ELSE IF "NAMEREF" \in c.attrs /\ c.nameref = ""
        THEN IF v \notin Names THEN Fail(E)
             ELSE Done(SetVar(E, x, [c EXCEPT !.exists = TRUE, !.value = v, !.has_value = TRUE,
                                              !.nameref = v, !.readonly = FALSE]))
        ELSE IF "ASSOC" \in c.attrs THEN Done(set_array_assoc(E, x, "0", v))
        ELSE IF "ARRAY" \in c.attrs THEN Done(set_array_indexed(E, x, "0", v))
        ELSE LET R == SetVar(E, x, [c EXCEPT !.exists = TRUE, !.value = v, !.has_value = TRUE])
             IN  Done(IF c.exported THEN [R EXCEPT !.env[x] = v] ELSE R)

\* A local nameref to its own name means the global of that name; a global
\* that refers to itself as well makes the code call itself for ever.
RECURSIVE assign(_, _, _)
assign(E, x, v) ==
    LET end == resolve_nameref(E, x)
    IN  IF is_readonly(E, x) THEN Fail(E)
        ELSE IF "NAMEREF" \notin attrs(E, x) \/ E.vars[x].nameref = "" THEN AssignHere(E, x, v)
        ELSE IF local_self_nameref(E, x)
        THEN IF global_saved(E, x).nameref = x /\ "NAMEREF" \in global_saved(E, x).attrs
             THEN [E EXCEPT !.dead = TRUE]
             ELSE with_global_var(E, x, assign(GlobalView(E, x), x, v))
        ELSE IF end = {} \/ ~(end \subseteq Names) THEN Fail(E)
        ELSE IF The(end) # x THEN assign(E, The(end), v)
        ELSE AssignHere(E, x, v)

KeepAttr(E, x, old, a) == IF a \in old.attrs THEN SetAttrOn(E, x, a) ELSE E

KeepExport(E, x, old) == IF old.exported THEN export(E, x) ELSE E

\* A list assignment keeps every attribute but READONLY.
KeepAttrs(E, x, old, kindAttr) ==
    KeepExport(SetAttrOn(KeepAttr(KeepAttr(E, x, old, "EXPORT"), x, old, "NAMEREF"), x, kindAttr), x, old)

reset_indexed_array_for_assignment(E, x) ==
    KeepAttrs(set_array_empty(E, x), x, E.vars[x], "ARRAY")

reset_assoc_array_for_assignment(E, x) ==
    KeepAttrs(unset(E, x), x, E.vars[x], "ASSOC")

\* x[k]=v
AssignElem(E, x, k, v) ==
    LET t == resolved(E, x)
    IN  IF "NAMEREF" \in attrs(E, x) /\ resolve_nameref(E, x) = {x} THEN Fail(E)
        ELSE IF t \notin Names THEN Fail(E)
        ELSE IF is_readonly(E, t) THEN Fail(E)
        ELSE IF kind(E, t) = "assoc" THEN Done(set_array_assoc(E, t, k, v))
        ELSE Done(set_array_indexed(E, t, k, v))

\* x=(v)
AssignList(E, x, v) ==
    LET t == resolved(E, x)
    IN  IF t \notin Names THEN Fail(E)
        ELSE IF is_readonly(E, t) THEN Fail(E)
        ELSE IF kind(E, t) = "assoc"
        THEN Done(set_array_assoc(reset_assoc_array_for_assignment(E, t), t, "0", v))
        ELSE Done(set_array_indexed(reset_indexed_array_for_assignment(E, t), t, "0", v))

\* What a global nameref refers to.
global_target(E, x) ==
    LET g == global_saved(E, x)
    IN  IF "NAMEREF" \in g.attrs /\ g.has_value THEN g.value ELSE x

\* set_attr and export of the global of x.
GlobalAttr(E, x, a) == with_global_var(E, x, SetAttrOn(GlobalView(E, x), x, a))

GlobalExport(E, x) == with_global_var(E, x, export(GlobalView(E, x), x))

Emptied(E, x, assoc) == IF assoc THEN unset(E, x) ELSE set_array_empty(E, x)

Filled(E, x, v, assoc) ==
    IF assoc THEN set_array_assoc(E, x, "0", v) ELSE set_array_indexed(E, x, "0", v)

\* declare -g x=(v): each helper works on the global of the target.
FillGlobal(E, t, v, assoc) == with_global_var(E, t, Filled(GlobalView(E, t), t, v, assoc))

KeepGlobal(E, t, old, a) == IF a \in old.attrs THEN GlobalAttr(E, t, a) ELSE E

ExportGlobal(E, t, old) == IF old.exported THEN GlobalExport(E, t) ELSE E

AssignListTo(E, t, v, assoc, old) ==
    LET emptied == with_global_var(E, t, Emptied(GlobalView(E, t), t, assoc))
        kept == KeepGlobal(KeepGlobal(emptied, t, old, "EXPORT"), t, old, "NAMEREF")
    IN  Done(FillGlobal(ExportGlobal(GlobalAttr(kept, t, IF assoc THEN "ASSOC" ELSE "ARRAY"), t, old),
                        t, v, assoc))

AssignListGlobal(E, x, v) ==
    LET t == global_target(E, x)
    IN  IF t \notin Names THEN Fail(E)
        ELSE IF global_saved(E, t).readonly THEN Fail(E)
        ELSE AssignListTo(E, t, v, kind(E, resolved(E, x)) = "assoc", global_saved(E, t))
=============================================================================
