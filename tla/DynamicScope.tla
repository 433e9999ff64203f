---------------------------- MODULE DynamicScope ----------------------------
(***************************************************************************)
(* Dynamic scope as a script sees it: a stack of frames over the global    *)
(* variables.  A name means the binding in the innermost frame that has    *)
(* one.  A binding is opaque here.  A step says which bindings may change; *)
(* every other binding, above all every shadowed one, stays as it is.      *)
(***************************************************************************)
EXTENDS Naturals, Sequences

CONSTANTS Names,     \* the names of variables
          Cell       \* what a binding may be

VARIABLES globals,   \* [Names -> Cell]
          frames     \* sequence of functions from the local names to Cell

scopeVars == <<globals, frames>>

Depth == Len(frames)

\* The frames that bind x; 0 stands for the globals.
Binders(x) == {0} \cup {i \in 1..Depth : x \in DOMAIN frames[i]}

Innermost(x) == CHOOSE i \in Binders(x) : \A j \in Binders(x) : j <= i

\* Every binding named in S may have another value; which names each frame
\* binds does not change.  S is a set of pairs of a frame and a name.
ChangeOnly(S) ==
    /\ globals' \in [Names -> Cell]
    /\ Len(frames') = Depth
    /\ \A i \in 1..Depth : DOMAIN frames'[i] = DOMAIN frames[i]
    /\ \A x \in Names : <<0, x>> \notin S => globals'[x] = globals[x]
    /\ \A i \in 1..Depth : \A x \in DOMAIN frames[i] :
           <<i, x>> \notin S => frames'[i][x] = frames[i][x]

Init ==
    /\ globals \in [Names -> Cell]
    /\ frames = <<>>

\* A function is called: a frame without bindings.
Call ==
    /\ frames' = Append(frames, [x \in {} |-> {}])
    /\ UNCHANGED globals

\* It returns: its bindings go, the caller's are as they were.
Return ==
    /\ Depth > 0
    /\ frames' = SubSeq(frames, 1, Depth - 1)
    /\ UNCHANGED globals

\* Assignments, attributes, unset: only what the names mean now.
Write == ChangeOnly({<<Innermost(x), x>> : x \in Names})

\* Commands with -g: only the global of a name.
WriteGlobal(x) == ChangeOnly({<<0, x>>})

\* local, declare in a function: the frame gets bindings of its own, for some
\* names it did not bind.
Local ==
    /\ Depth > 0
    /\ UNCHANGED globals
    /\ Len(frames') = Depth
    /\ \A i \in 1..(Depth - 1) : frames'[i] = frames[i]
    /\ DOMAIN frames[Depth] \subseteq DOMAIN frames'[Depth]

\* A temporary assignment before local is taken back: it was made to the
\* binding that local then shadowed.
TakeBack(x) ==
    /\ Depth > 0
    /\ x \in DOMAIN frames[Depth]
    /\ LET under == Binders(x) \ {Depth}
           i == CHOOSE i \in under : \A j \in under : j <= i
       IN  ChangeOnly({<<i, x>>})

\* unset of a caller's local: the binding goes, and the name means what it
\* meant before.  Elsewhere the step may only change what x then means.
Drop(x) ==
    LET i == Innermost(x)
        under == Binders(x) \ {i}
        j == CHOOSE k \in under : \A l \in under : l <= k
    IN  /\ i > 0 /\ i < Depth
        /\ Len(frames') = Depth
        /\ DOMAIN frames'[i] = DOMAIN frames[i] \ {x}
        /\ \A k \in (1..Depth) \ {i} : DOMAIN frames'[k] = DOMAIN frames[k]
        /\ \A y \in Names : y # x \/ j # 0 => globals'[y] = globals[y]
        /\ \A k \in 1..Depth : \A y \in DOMAIN frames'[k] :
               <<k, y>> # <<j, x>> => frames'[k][y] = frames[k][y]

Next ==
    \/ Call
    \/ Return
    \/ Write
    \/ Local
    \/ \E x \in Names : WriteGlobal(x) \/ TakeBack(x) \/ Drop(x)

Spec == Init /\ [][Next]_scopeVars
=============================================================================
