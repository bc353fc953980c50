-------------------------------- MODULE Text --------------------------------
(* Free text on its way into line-oriented files and shell strings           *)
(* (core/text.rs, core/plan.rs Description).  A text is a sequence of        *)
(* tokens, each a character or a word the properties need not look into.     *)
EXTENDS SequencesExt, Integers

Blank    == {" ", "\t", "\n"}
ControlChar == {"\t", "\n", "esc"}      \* "esc" stands for every other control character
ShellActive == {"\\", "\"", "$", "backtick"}

Parted(parts, token, separator) ==
    IF token = separator THEN Append(parts, <<>>)
    ELSE [parts EXCEPT ![Len(parts)] = Append(@, token)]
Split(text, separator) ==
    FoldLeft(LAMBDA parts, token : Parted(parts, token, separator), << <<>> >>, text)

(* The parts that are not unwanted, in their order.                          *)
Retained(kept, part, unwanted) == IF part \in unwanted THEN kept ELSE Append(kept, part)
Remaining(parts, unwanted) ==
    FoldLeft(LAMBDA kept, part : Retained(kept, part, unwanted), <<>>, parts)

Joined(parts, separator) ==
    FlattenSeq([i \in DOMAIN parts |->
                   IF i = 1 THEN parts[i] ELSE <<separator>> \o parts[i]])

(* str::lines: a final line break ends the last line, it starts no other.    *)
Lines(text) ==
    LET parts == Split(text, "\n") IN IF Last(parts) = <<>> THEN Front(parts) ELSE parts

TrimmedOf(text, unwanted) ==
    LET kept == {i \in DOMAIN text : text[i] \notin unwanted}
    IN  IF kept = {} THEN <<>> ELSE SubSeq(text, Min(kept), Max(kept))
Trimmed(text) == TrimmedOf(text, Blank)
TrimmedEnd(text) ==
    LET kept == {i \in DOMAIN text : text[i] \notin Blank}
    IN  IF kept = {} THEN <<>> ELSE SubSeq(text, 1, Max(kept))

-----------------------------------------------------------------------------
(* The checks at resolution time *)

Printable(text)  == ToSet(text) \cap (ControlChar \ {"\t", "\n"}) = {}
SingleLine(text) == ToSet(text) \cap ControlChar = {}
Token(text)      == SingleLine(text) /\ ToSet(text) \cap Blank = {}

(* A bug: the backslash itself is not escaped. *)
ShellDoubleQuotedButBackslash(text) ==
    FlattenSeq([i \in DOMAIN text |->
                   IF text[i] \in ShellActive \ {"\\"} THEN <<"\\", text[i]>> ELSE <<text[i]>>])

ShellDoubleQuoted(text) ==
    FlattenSeq([i \in DOMAIN text |->
                   IF text[i] \in ShellActive THEN <<"\\", text[i]>> ELSE <<text[i]>>])

-----------------------------------------------------------------------------
(* The first line is the synopsis, what follows is the body. *)

Synopsis(raw) == LET lines == Lines(raw) IN IF lines = <<>> THEN <<>> ELSE Trimmed(Head(lines))

(* A description with no synopsis is refused. *)
HasSynopsis(raw) == Synopsis(raw) # <<>>

Body(raw) ==
    LET lines == Lines(raw)
    IN  IF lines = <<>> THEN <<>> ELSE TrimmedOf(Joined(Tail(lines), "\n"), {"\n"})
=============================================================================
