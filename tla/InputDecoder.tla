---------------------------- MODULE InputDecoder ----------------------------
(***************************************************************************)
(* The bytes of the terminal become keys: crates/lineedit/src/input.rs.    *)
(* Bytes are one symbol each; "L2" and "L3" begin UTF-8 characters of two  *)
(* and three bytes, "C" continues one.  `bytes` is what the terminal still *)
(* has to give, `events` the keys seen so far.                             *)
(***************************************************************************)
EXTENDS Naturals, Sequences, SequencesExt, FiniteSetsExt

CONSTANTS
    MAX_CSI_BYTES,  \* longest control sequence
    Pieces,         \* what the inputs are made of
    MaxPieces       \* how many pieces an input has at most

VARIABLES
    decoder,        \* pending, escape_is_command, paste_scan_from
    bytes,          \* not read yet
    events,         \* the keys decoded
    parts,          \* ghost: the bytes read, in the parts that pauses make of them
    stage           \* "push", "key" or "end"

decoderVars == <<decoder, bytes, events, parts, stage>>

ESC == "ESC"
BRACKETED_PASTE_START == <<ESC, "[", "2", "0", "0", "~">>
BRACKETED_PASTE_END == <<ESC, "[", "2", "0", "1", "~">>
KeyEvent(kind, text) == [kind |-> kind, text |-> text]
None == {}
Some(n, event) == {[consumed |-> n, event |-> event]}
When(c, option) == IF c THEN option ELSE None

From(s, n) == SubSeq(s, n + 1, Len(s))
find_subslice(haystack, needle) ==
    LET at == {i \in 0 .. Len(haystack) - Len(needle) : SubSeq(haystack, i + 1, i + Len(needle)) = needle}
    IN  IF at = {} THEN {} ELSE {Min(at)}

width(b) == CASE b = "L2" -> 2 [] b = "L3" -> 3 [] OTHER -> 1
Utf8(s) == s[1] # "C" /\ Len(s) = width(s[1]) /\ \A i \in 2 .. Len(s) : s[i] = "C"

\* Every maximal piece that is no character becomes U+FFFD.
from_utf8_lossy(s) ==
    LET text[i \in 1 .. Len(s) + 1] ==
            IF i > Len(s) THEN <<>>
            ELSE LET run == {n \in 1 .. width(s[i]) : /\ i + n - 1 <= Len(s)
                                                      /\ \A k \in 1 .. n - 1 : s[i + k] = "C"}
                     n == Max(run)
                     piece == SubSeq(s, i, i + n - 1)
                 IN  (IF Utf8(piece) THEN piece ELSE <<"FFFD">>) \o text[i + n]
    IN  text[1]

decode_utf8_at(s, eof) ==
    LET consumed == Min({width(s[1]), Len(s)})
        char == SubSeq(s, 1, consumed)
    IN  IF Len(s) < width(s[1]) /\ ~eof THEN {}
        ELSE {<<consumed, IF Utf8(char) THEN char ELSE <<"FFFD">>>>}

decode_plain_event(s, eof) ==
    CASE s[1] = "DEL" -> Some(1, KeyEvent("Backspace", <<>>))
      [] s[1] = "CR"  -> Some(1, KeyEvent("Enter", <<>>))
      [] s[1] = "^C"  -> Some(1, KeyEvent("Ctrl", <<"c">>))
      [] s[1] \in {"L2", "L3", "C"} ->
             UNION {Some(u[1], KeyEvent("Char", u[2])) : u \in decode_utf8_at(s, eof)}
      [] OTHER -> Some(1, KeyEvent("Char", <<s[1]>>))

Final == {"[", "O", "A", "H", "x", "~"}
CsiKey(sequence) ==
    CASE sequence = <<"A">> -> KeyEvent("Up", <<>>)
      [] sequence \in {<<"H">>, <<"1", "~">>} -> KeyEvent("Home", <<>>)
      [] sequence = <<"2", "~">> -> KeyEvent("Insert", <<>>)
      [] OTHER -> KeyEvent("Raw", <<ESC, "[">> \o from_utf8_lossy(sequence))

decode_csi_event(s, eof) ==
    LET available == Min({Len(s) - 2, MAX_CSI_BYTES})
        finals == {i \in 0 .. available - 1 : s[3 + i] \in Final}
        end == Min(finals) + 3
        rest == From(s, end)
        closing == find_subslice(rest, BRACKETED_PASTE_END)
        sequence == SubSeq(s, 3, end)
    IN  IF finals = {}
        THEN When(eof \/ available = MAX_CSI_BYTES,
                  Some(2 + available,
                       KeyEvent("Raw", <<ESC, "[">> \o from_utf8_lossy(SubSeq(s, 3, 2 + available)))))
        ELSE IF sequence # From(BRACKETED_PASTE_START, 2) THEN Some(end, CsiKey(sequence))
        ELSE IF closing # {}
        THEN Some(end + Min(closing) + Len(BRACKETED_PASTE_END),
                  KeyEvent("Paste", from_utf8_lossy(SubSeq(rest, 1, Min(closing)))))
        ELSE When(eof, Some(Len(s), KeyEvent("Paste", from_utf8_lossy(rest))))

decode_event(s, command, eof) ==
    CASE s = <<>> -> None
      [] s # <<>> /\ s[1] # ESC -> decode_plain_event(s, eof)
      [] s = <<ESC>> -> When(eof, Some(1, KeyEvent("Esc", <<>>)))
      [] Len(s) > 1 /\ s[1] = ESC ->
            CASE command -> Some(1, KeyEvent("Esc", <<>>))
              [] ~command /\ s[2] = "[" -> decode_csi_event(s, eof)
              [] ~command /\ s[2] = "O" ->
                    IF Len(s) < 3 THEN When(eof, Some(2, KeyEvent("Esc", <<>>)))
                    ELSE Some(3, IF s[3] = "H" THEN KeyEvent("Home", <<>>) ELSE KeyEvent("Raw", <<ESC, "O", s[3]>>))
              [] ~command /\ s[2] = ESC -> Some(2, KeyEvent("Raw", <<ESC, ESC>>))
              [] ~command /\ s[2] \notin {"[", "O", ESC} ->
                    UNION {Some(u[1] + 1, KeyEvent("Meta", u[2])) : u \in decode_utf8_at(From(s, 1), eof)}

new_decoder(command) == [pending |-> <<>>, escape_is_command |-> command, paste_scan_from |-> 0]

\* Mutant: the search for the end of a paste goes on one byte too late.
ScansTooLate(p, offset) ==
    Max({Max({Len(p), Len(BRACKETED_PASTE_END) - 2}) - (Len(BRACKETED_PASTE_END) - 2),
         offset + Len(BRACKETED_PASTE_START)})

\* Where the next push goes on looking for the end of a paste.
scan_from(p, offset) ==
    Max({Max({Len(p), Len(BRACKETED_PASTE_END) - 1}) - (Len(BRACKETED_PASTE_END) - 1),
         offset + Len(BRACKETED_PASTE_START)})

\* The loop of decode_available: offset, scan is paste_scan_from, out the events.
RECURSIVE decode_from(_, _, _, _, _)
decode_from(d, offset, scan, out, eof) ==
    LET p == d.pending
        undecoded == From(p, offset)
        search_from == Max({Max({scan, offset}) - offset, Len(BRACKETED_PASTE_START)})
        waits == /\ ~eof /\ IsPrefix(BRACKETED_PASTE_START, undecoded)
                 /\ find_subslice(From(undecoded, search_from), BRACKETED_PASTE_END) = {}
        step == IF waits THEN None ELSE decode_event(undecoded, d.escape_is_command, eof)
        s == IF waits THEN scan_from(p, offset) ELSE scan
    IN  IF step = None
        THEN [decoder |-> [d EXCEPT !.pending = undecoded, !.paste_scan_from = Max({s, offset}) - offset],
              events |-> out]
        ELSE LET e == CHOOSE e \in step : TRUE
             IN  decode_from(d, offset + e.consumed, offset + e.consumed, Append(out, e.event), eof)

decode_available(d, eof) == decode_from(d, 0, d.paste_scan_from, <<>>, eof)
push_bytes(d, s) == decode_available([d EXCEPT !.pending = @ \o s], FALSE)
finish(d) == decode_available(d, TRUE)

----------------------------------------------------------------------------
InitDecoder ==
    /\ \E n \in 1 .. MaxPieces : \E w \in [1 .. n -> Pieces] : bytes = FlattenSeq(w)
    /\ \E command \in BOOLEAN : decoder = new_decoder(command)
    /\ events = <<>> /\ parts = <<<<>>>>
    /\ stage \in {"push", "key"}

Took(n) == [parts EXCEPT ![Len(parts)] = @ \o SubSeq(bytes, 1, n)]

\* The next chunk of input, of any size.
Push(n) ==
    /\ stage = "push" /\ n \in 1 .. Len(bytes)
    /\ \E d \in {push_bytes(decoder, SubSeq(bytes, 1, n))} :
          decoder' = d.decoder /\ events' = events \o d.events
    /\ bytes' = From(bytes, n) /\ parts' = Took(n)
    /\ UNCHANGED stage

Finish ==
    /\ stage = "push" /\ bytes = <<>>
    /\ \E d \in {finish(decoder)} : decoder' = d.decoder /\ events' = events \o d.events
    /\ stage' = "end" /\ UNCHANGED <<bytes, parts>>

\* read_key_mode: one byte at a time, a decoder for each key.
First(n, d) ==
    /\ events' = IF d.events = <<>> THEN events ELSE Append(events, Head(d.events))
    /\ bytes' = From(bytes, n)

RECURSIVE Pushed(_, _)
Pushed(d, n) ==     \* the bytes of the key, and what the last push gave
    LET next == push_bytes(d, <<bytes[n]>>)
    IN  IF next.events # <<>> \/ n = Len(bytes) THEN [n |-> n, d |-> next] ELSE Pushed(next.decoder, n + 1)

ReadKey(pause) ==
    /\ stage = "key" /\ bytes # <<>>
    /\ LET new == new_decoder(decoder.escape_is_command)
           one == push_bytes(new, <<bytes[1]>>)
           alone == bytes[1] = ESC /\ (pause \/ Len(bytes) = 1 \/ decoder.escape_is_command)
           read == Pushed(new, 1)
       IN  IF one.events # <<>> THEN First(1, one) /\ parts' = Took(1)
           ELSE IF alone
           THEN /\ First(1, finish(one.decoder))
                /\ parts' = IF pause THEN Append(Took(1), <<>>) ELSE Took(1)
           ELSE /\ First(read.n, IF read.d.events # <<>> THEN read.d ELSE finish(read.d.decoder))
                /\ parts' = Took(read.n)
    /\ UNCHANGED <<decoder, stage>>

NoMoreKeys == stage = "key" /\ bytes = <<>> /\ stage' = "end" /\ UNCHANGED <<decoder, bytes, events, parts>>

NextDecoder == \/ \E n \in 1 .. Len(bytes) : Push(n)
               \/ Finish
               \/ \E pause \in BOOLEAN : ReadKey(pause)
               \/ NoMoreKeys

----------------------------------------------------------------------------
\* However the input is cut into chunks, and whether bytes come in chunks or one by
\* one, the keys are those of the whole input decoded at once; a pause after an escape
\* begins a new input.  push resumes its search for the end of a paste where the last
\* chunk may have ended in the middle of it (paste_scan_from).
ChunksDoNotMatter ==
    stage = "end" =>
        LET at_once(s) == decode_available([new_decoder(decoder.escape_is_command) EXCEPT !.pending = s], TRUE)
        IN  events = FlattenSeq([i \in DOMAIN parts |-> at_once(parts[i]).events])
=============================================================================
