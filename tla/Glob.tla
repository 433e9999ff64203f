-------------------------------- MODULE Glob --------------------------------
(***************************************************************************)
(* Pathname expansion, crates/expander/src/glob.rs.  A path is the         *)
(* sequence of its names below the starting directory; tree maps the paths *)
(* that exist to "dir", "file" or "link", a symbolic link to an empty      *)
(* directory, and meta to the number GLOBSORT may sort by (a time or a     *)
(* size).                                                                  *)
(***************************************************************************)
EXTENDS Pattern
LOCAL INSTANCE FiniteSetsExt
LOCAL INSTANCE TLC

Dot == <<".">>
DotDot == <<".", ".">>

\* Without "." and "..".
RECURSIVE Resolved(_)
Resolved(path) ==
    IF path = <<>> THEN <<>>
    ELSE LET front == Resolved(Front(path))
         IN  CASE Last(path) = Dot -> front
               [] Last(path) = DotDot -> IF front = <<>> THEN <<>> ELSE Front(front)
               [] OTHER -> Append(front, Last(path))
exists(tree, path) == Resolved(path) = <<>> \/ Resolved(path) \in DOMAIN tree
is_dir(tree, path) ==
    Resolved(path) = <<>> \/ (Resolved(path) \in DOMAIN tree /\ tree[Resolved(path)] \in {"dir", "link"})
\* The names of a directory; none if it cannot be read.
read_dir(tree, path) ==
    IF ~is_dir(tree, path) THEN {}
    ELSE {Last(p) : p \in {p \in DOMAIN tree : Front(p) = Resolved(path)}}

\* A found path: slash says that it is written with a slash at its end.
Found1(path, slash) == [path |-> path, slash |-> slash]

PathText(path) == FoldLeft(LAMBDA out, i : (IF i = 1 THEN <<>> ELSE Append(out, "/")) \o path[i],
                       <<>>, [i \in DOMAIN path |-> i])
path_bytes(f) == PathText(f.path) \o (IF f.slash THEN <<"/">> ELSE <<>>)

Less(s, t) == \E n \in 0 .. Len(s) : /\ n < Len(t) /\ Before(s, n) = Before(t, n)
                                     /\ n = Len(s) \/ (s[n + 1] # t[n + 1] /\ Code(s[n + 1]) < Code(t[n + 1]))

sort_glob_paths(found, sort, meta) ==
    LET key(f) == IF Resolved(f.path) \in DOMAIN meta THEN meta[Resolved(f.path)] ELSE 0
        lt(f, g) == \/ sort.by = "meta" /\ key(f) < key(g)
                    \/ (sort.by = "name" \/ key(f) = key(g)) /\ Less(path_bytes(f), path_bytes(g))
    IN  CASE sort.by = "none" -> found
          [] sort.by # "none" /\ ~sort.desc -> SortSeq(found, lt)
          [] sort.by # "none" /\ sort.desc -> SortSeq(found, LAMBDA f, g : lt(g, f))

Sorted(names) == SortSeq(SetToSeq(names), Less)

----------------------------------------------------------------------------
(* GLOBIGNORE. *)
RECURSIVE SplitIgnore(_, _, _, _)
SplitIgnore(v, i, depth, cur) ==
    CASE i > Len(v) -> <<cur>>
      [] i <= Len(v) /\ CharAt(v, i) = "\\" /\ i < Len(v) -> SplitIgnore(v, i + 2, depth, cur \o <<v[i], v[i + 1]>>)
      [] i <= Len(v) /\ CharAt(v, i) = ":" /\ depth = 0 -> <<cur>> \o SplitIgnore(v, i + 1, 0, <<>>)
      [] OTHER -> SplitIgnore(v, i + 1, CASE v[i] = "[" -> depth + 1
                                          [] v[i] = "]" /\ depth > 0 -> depth - 1
                                          [] OTHER -> depth, Append(cur, v[i]))
split_globignore(v) == SplitIgnore(v, 1, 0, <<>>)

RECURSIVE PathParts(_, _)
PathParts(s, sep) ==
    LET at == {i \in DOMAIN s : s[i] = sep}
    IN  IF at = {} THEN <<s>> ELSE <<SubSeq(s, 1, Min(at) - 1)>> \o PathParts(SubSeq(s, Min(at) + 1, Len(s)), sep)

\* An @(/) whose segment so far has no special character is a slash.
collapse_literal_slash_extglob(pattern) ==
    LET marker == <<"@", "(", "/", ")">>
        at == {i \in 1 .. Len(pattern) - 3 : SubSeq(pattern, i, i + 3) = marker}
        segment == Last(PathParts(SubSeq(pattern, 1, Min(at) - 1), "/"))
    IN  IF at = {} \/ has_glob_meta(segment, {}) THEN {}
        ELSE {SubSeq(pattern, 1, Min(at) - 1) \o <<"/">> \o SubSeq(pattern, Min(at) + 4, Len(pattern))}

RECURSIVE globignore_match(_, _, _)
globignore_match(pattern, path, opts) ==
    LET collapsed == collapse_literal_slash_extglob(pattern)
        ps == PathParts(pattern, "/")
        ts == PathParts(path, "/")
    IN  CASE ~Contains(pattern, "/") \/ ~Contains(path, "/") -> fnmatch(pattern, path, opts)
          [] Contains(pattern, "/") /\ Contains(path, "/") /\ collapsed # {} ->
                globignore_match(CHOOSE c \in collapsed : TRUE, path, opts)
          [] OTHER -> Len(ps) = Len(ts) /\ \A i \in DOMAIN ps : fnmatch(ps[i], ts[i], opts)

is_ignored_path(path, flags) ==
    \E i \in DOMAIN flags.globignore : globignore_match(flags.globignore[i], path, flags.opts)

\* from_env: on is the set of options, ignore the value of GLOBIGNORE or none.
from_env(on, ignore, sort) ==
    LET pieces == UNION {Range(split_globignore(v)) \ {<<>>} : v \in ignore}
    IN  [opts |-> on \cap {"nocaseglob", "extglob"},
         on |-> IF pieces # {} THEN on \cup {"dotglob"} ELSE on,
         globignore |-> SetToSeq(pieces), globsort |-> sort]

----------------------------------------------------------------------------
(* Segments. *)
RECURSIVE SegmentsFrom(_, _, _, _)
SegmentsFrom(w, i, cur, opts) ==
    LET b == CharAt(w, i)
    IN  CASE i > Len(w) -> <<cur>>
          [] i < Len(w) /\ b = CTLESC /\ CharAt(w, i + 1) = "/" -> <<cur>> \o SegmentsFrom(w, i + 2, <<>>, opts)
          [] i < Len(w) /\ b = CTLESC /\ CharAt(w, i + 1) # "/" ->
                SegmentsFrom(w, i + 2, cur \o <<CTLESC, w[i + 1]>>, opts)
          [] i < Len(w) /\ b = "\\" /\ CharAt(w, i + 1) = "/" ->
                IF has_glob_meta(cur, opts) THEN SegmentsFrom(w, i + 2, cur \o <<"\\", "/">>, opts)
                ELSE <<cur>> \o SegmentsFrom(w, i + 2, <<>>, opts)
          [] i <= Len(w) /\ b = "/" -> <<cur>> \o SegmentsFrom(w, i + 1, <<>>, opts)
          [] OTHER -> SegmentsFrom(w, i + 1, Append(cur, b), opts)

Globstar == <<"*", "*">>
Collapsed(segments) ==
    FoldLeft(LAMBDA out, s : IF s = Globstar /\ out # <<>> /\ Last(out) = Globstar THEN out ELSE Append(out, s),
             <<>>, segments)

RECURSIVE Unescaped(_)
Unescaped(s) ==
    CASE s = <<>> -> <<>>
      [] s # <<>> /\ CharAt(s, 1) = "\\" /\ Len(s) > 1 -> <<s[2]>> \o Unescaped(SubSeq(s, 3, Len(s)))
      [] OTHER -> <<s[1]>> \o Unescaped(Tail(s))
dequote_glob_literal_segment(segment) == Unescaped(dequote_bytes(segment))

\* Mutant: a name with a leading dot is found only under dotglob.
DotglobOnly(name, toks, flags) ==
    /\ name \notin {Dot, DotDot} /\ (CharAt(name, 1) = "." => "dotglob" \in flags.on)
    /\ match_tokens(toks, name, flags.opts)

matches_glob_entry(name, toks, flags) ==
    /\ IF name \in {Dot, DotDot}
       THEN "globskipdots" \notin flags.on /\ explicitly_matches_dot_name(toks, name, flags.opts)
       ELSE \/ CharAt(name, 1) # "." \/ "dotglob" \in flags.on
            \/ explicitly_matches_dot_name(toks, name, flags.opts)
    /\ match_tokens(toks, name, flags.opts)

\* The names of a directory that ** walks over, in order.
Walked(tree, path, flags) == Sorted({n \in read_dir(tree, path) : "dotglob" \in flags.on \/ CharAt(n, 1) # "."})
Real(tree, path) == tree[Resolved(path)] = "dir"

RECURSIVE collect_recursive_dirs(_, _, _, _), collect_recursive_all(_, _, _)
collect_recursive_dirs(tree, start, flags, include_symlink_dirs) ==
    LET below(n) == CASE Real(tree, Append(start, n)) ->
                            collect_recursive_dirs(tree, Append(start, n), flags, include_symlink_dirs)
                      [] ~Real(tree, Append(start, n)) /\ include_symlink_dirs /\ is_dir(tree, Append(start, n)) ->
                            <<Found1(Append(start, n), FALSE)>>
                      [] OTHER -> <<>>
        names == Walked(tree, start, flags)
    IN  <<Found1(start, FALSE)>> \o Concat([i \in DOMAIN names |-> below(names[i])])

\* Everything below start; start itself is for the caller.
collect_recursive_all(tree, start, flags) ==
    LET names == Walked(tree, start, flags)
        below(n) == IF Real(tree, Append(start, n)) THEN collect_recursive_all(tree, Append(start, n), flags) ELSE <<>>
    IN  Concat([i \in DOMAIN names |-> <<Found1(Append(start, names[i]), FALSE)>> \o below(names[i])])

----------------------------------------------------------------------------
(* One segment: the paths that dirs leads to. *)
Segment(tree, flags, segments, idx, absolute, slash_start, dirs) ==
    LET segment == segments[idx]
        is_last == idx = Len(segments)
        start_index == IF absolute THEN 2 ELSE 1
        toks == parse(segment, flags.opts)
        literal == dequote_glob_literal_segment(segment)
        globstar == "globstar" \in flags.on /\ segment = Globstar
        matching(d) ==
            LET names == {n \in read_dir(tree, d) : matches_glob_entry(n, toks, flags)}
                dots == IF is_dir(tree, d) /\ "globskipdots" \notin flags.on
                        THEN {n \in {Dot, DotDot} : matches_glob_entry(n, toks, flags)} ELSE {}
            IN  Sorted(names \cup dots)
        starred(d) ==
            IF is_last
            THEN (IF absolute \/ idx # start_index THEN <<Found1(d, slash_start)>> ELSE <<>>)
                 \o collect_recursive_all(tree, d, flags)
            ELSE collect_recursive_dirs(tree, d, flags, idx + 1 = Len(segments) /\ segments[idx + 1] = <<>>)
        next(f) ==
            CASE segment = <<>> -> IF is_dir(tree, f.path) /\ (f.path # <<>> \/ absolute) THEN <<f>> ELSE <<>>
              [] segment # <<>> /\ ~has_glob_meta(segment, flags.opts) ->
                    IF exists(tree, Append(f.path, literal)) /\ is_dir(tree, f.path)
                    THEN <<Found1(Append(f.path, literal), FALSE)>> ELSE <<>>
              [] globstar -> starred(f.path)
              [] OTHER -> LET ns == matching(f.path)
                              fs == [i \in DOMAIN ns |-> Found1(Append(f.path, ns[i]), FALSE)]
                          IN  SelectSeq(fs, LAMBDA g : is_last \/ is_dir(tree, g.path))
    IN  Concat([i \in DOMAIN dirs |-> next(dirs[i])])

no_glob_match_result(word, flags) ==
    CASE "failglob" \in flags.on -> [err |-> TRUE, words |-> <<>>]
      [] "failglob" \notin flags.on /\ "nullglob" \in flags.on -> [err |-> FALSE, words |-> <<>>]
      [] OTHER -> [err |-> FALSE, words |-> <<word>>]

pathname_expand(word, tree, meta, flags) ==
    LET dequoted == dequote_bytes(word)
        absolute == CharAt(dequoted, 1) = "/"
        split == SegmentsFrom(word, 1, <<>>, flags.opts)
        segments == IF "globstar" \in flags.on THEN Collapsed(split) ELSE split
        n == Len(segments)
        slash_start == /\ "globstar" \in flags.on /\ segments = split /\ n >= 2
                       /\ {i \in 1 .. n : segments[i] = Globstar} = {n}
                       /\ segments[n - 1] # <<>> /\ ~has_glob_meta(segments[n - 1], flags.opts)
        found == FoldLeft(LAMBDA dirs, idx : Segment(tree, flags, segments, idx, absolute, slash_start, dirs),
                          <<Found1(<<>>, FALSE)>>, [i \in 1 .. n - (IF absolute THEN 1 ELSE 0)
                                                        |-> IF absolute THEN i + 1 ELSE i])
        paths == sort_glob_paths(found, flags.globsort, meta)
        written(f) ==
            LET text == (IF absolute THEN <<"/">> ELSE <<>>) \o path_bytes(f)
            IN  IF Last(dequoted) = "/" /\ Last(text) # "/" THEN Append(text, "/") ELSE text
        words == SelectSeq([i \in DOMAIN paths |-> written(paths[i])], LAMBDA t : ~is_ignored_path(t, flags))
    IN  CASE ~has_glob_meta(word, flags.opts) -> [err |-> FALSE, words |-> <<word>>]
          [] has_glob_meta(word, flags.opts) /\ words = <<>> -> no_glob_match_result(word, flags)
          [] OTHER -> [err |-> FALSE, words |-> words]
=============================================================================
