----------------------------- MODULE MCHistory -----------------------------
(***************************************************************************)
(* Plans for the history model. "table" and "reload" give one shell every *)
(* command on plain lines; "format" and "literal" give it the lines that   *)
(* the file format has to keep apart; "shared" and "overwrite" let two     *)
(* shells save, exit and die over one file; "unread" starts from a file    *)
(* with a line that cannot be read.                                        *)
(***************************************************************************)
EXTENDS HistoryShells

CONSTANTS s1, s2

MCShells == {s1, s2}
MCNoLimit == 9
MCTexts == {"", "a", "b", " a", "ab", "'q", "q'", "#1", "<<E", "E", "mixed", "bad", "HISTFILE="}

Ks == { [neg |-> neg, n |-> n] : neg \in BOOLEAN, n \in 0..2 }
Line(l) == <<Piece(l, 0), Piece(NL, 0)>>

Plain == [cmdhist |-> TRUE, lithist |-> FALSE, stamps |-> FALSE, ignore |-> {},
          interactive |-> TRUE, histappend |-> TRUE, filesize |-> 3]

MCPlanOf ==
    [table |-> [shells |-> {s1}, lines |-> {<<"a">>}, budget |-> 5,
                files |-> {Line("b")}, sizes |-> {2},
                controls |-> {{}, {"erasedups"}},
                ops |-> {"clear", "delete", "store", "fc", "append"},
                ks |-> Ks, faults |-> {}, fixed |-> Plain],
     reload |-> [shells |-> {s1}, lines |-> {<<"a">>, <<" a">>}, budget |-> 4,
                 files |-> {<<>>, Line("b")}, sizes |-> {0, 2},
                 controls |-> {{}, {"ignorespace", "ignoredups"}},
                 ops |-> {"size", "append", "read", "option", "store"},
                 ks |-> {}, faults |-> {}, fixed |-> [Plain EXCEPT !.ignore = {"&"}]],
     format |-> [shells |-> {s1},
                 lines |-> {<<"a", "b">>, <<"'q", "", "q'">>, <<"<<E", "#1", "E">>, <<"#1">>, <<"b">>},
                 budget |-> 3, files |-> {<<>>}, sizes |-> {9}, controls |-> {{}},
                 ops |-> {"append", "write", "read"}, ks |-> {}, faults |-> {},
                 fixed |-> [Plain EXCEPT !.stamps = TRUE]],
     literal |-> [shells |-> {s1},
                  lines |-> {<<"a", "b">>, <<"a">>, <<"HISTFILE=">>},
                  budget |-> 4, files |-> {<<>>}, sizes |-> {9}, controls |-> {{}},
                  ops |-> {"append", "write", "read"}, ks |-> {}, faults |-> {"full"},
                  fixed |-> [Plain EXCEPT !.cmdhist = FALSE, !.interactive = FALSE]],
     shared |-> [shells |-> {s1, s2}, lines |-> {<<"a">>}, budget |-> 2,
                 files |-> {<<>>, Line("b")}, sizes |-> {1}, controls |-> {{}},
                 ops |-> {"append"}, ks |-> {}, faults |-> {"crash"}, fixed |-> Plain],
     overwrite |-> [shells |-> {s1, s2}, lines |-> {<<"a">>}, budget |-> 3,
                    files |-> {<<>>}, sizes |-> {3}, controls |-> {{}},
                    ops |-> {"append", "write"}, ks |-> {}, faults |-> {},
                    fixed |-> [Plain EXCEPT !.histappend = FALSE]],
     unread |-> [shells |-> {s1}, lines |-> {<<"a">>}, budget |-> 4,
                 files |-> {Line("b") \o Line("bad")}, sizes |-> {2}, controls |-> {{}},
                 ops |-> {"append", "read", "fc"}, ks |-> {}, faults |-> {}, fixed |-> Plain]]
MCPlans == DOMAIN MCPlanOf
============================================================================
