----------------------------- MODULE ReaderLoop -----------------------------
(***************************************************************************)
(* The loop of crates/shell/src/reader_loop over a source of lines: a line *)
(* is added to the command until the command is whole, and the whole       *)
(* command is parsed and executed.  A syntax error ends a shell that is    *)
(* not interactive.                                                        *)
(***************************************************************************)
EXTENDS Reader

\* What the loop asks: whether a text that ends in a line needs another one, and
\* what the parser makes of a text.  The shell's answers are NeedsLine and
\* parse_text of Reader.
CONSTANTS needs_line(_, _), try_parse(_)

VARIABLES interactive, feed, gathered, executed, eof_reached
readerVars == <<interactive, feed, gathered, executed, eof_reached>>

\* What parse_command does with the text read_logical_command returns.
parse_command_of(text, eof) ==
    LET res == try_parse(text)
    IN  /\ gathered' = <<>>
        /\ IF Trimmed(text) = <<>> \/ Empty(res)
           THEN eof_reached' = eof /\ UNCHANGED executed
           ELSE IF res.ok THEN eof_reached' = eof /\ executed' = Append(executed, text)
           ELSE eof_reached' = (eof \/ ~interactive) /\ UNCHANGED executed

\* next_line returns a line.
ReadLine ==
    /\ ~eof_reached /\ feed # <<>>
    /\ LET line == Head(feed)
           text == gathered \o line
       IN  IF needs_line(text, line)
           THEN gathered' = text /\ UNCHANGED <<executed, eof_reached>>
           ELSE parse_command_of(text, FALSE)
    /\ feed' = Tail(feed)
    /\ UNCHANGED interactive

\* next_line is at the end: the command is what there is.
ReadEnd ==
    /\ ~eof_reached /\ feed = <<>>
    /\ parse_command_of(gathered, TRUE)
    /\ UNCHANGED <<interactive, feed>>
=============================================================================
