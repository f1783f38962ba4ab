------------------------------ MODULE QueryText ------------------------------
(***************************************************************************)
(* The text of ServerQuery: the escaping of values, command lines and the  *)
(* parsing of responses (escape.ts, serverQueryProtocol.ts).               *)
(*                                                                         *)
(* A text is a sequence of characters.  Names of commands, parameters and  *)
(* events consist of [A-Za-z0-9_] alone and count as one character each,   *)
(* and so do numbers.                                                      *)
(***************************************************************************)
EXTENDS Naturals, Sequences

CONSTANTS
    Chars,      \* the characters texts are made of
    Events,     \* the names of notifications
    None        \* an input that is not given

Space == " "
Newline == "\n"
Blanks == {Space, Newline, "\r", "\t", "\f", "VT"}

(* The blanks that trim() removes and nobody escapes: U+00A0, U+2028 and the *)
(* other spaces of Unicode; one stands for all.                              *)
Wide == {"NBSP"}

-----------------------------------------------------------------------------
(* escapeQueryValue(): one pass for all characters; the code replaces the    *)
(* backslashes first, so that those it adds stay single.                     *)

Special == {"\\", "/", "BEL", "BS", "\f", Newline, "\r", "\t", "VT", Space, "|"}
Letter == [c \in Special |->
             CASE c = "\\" -> "\\" [] c = "/" -> "/" [] c = "BEL" -> "a" [] c = "BS" -> "b"
               [] c = "\f" -> "f" [] c = Newline -> "n" [] c = "\r" -> "r" [] c = "\t" -> "t"
               [] c = "VT" -> "v" [] c = Space -> "s" [] c = "|" -> "p"]

(* Mutant: the backslash itself is left.                                     *)
EscapedBare(ch) == IF ch \in Special \ {"\\"} THEN <<"\\", Letter[ch]>> ELSE <<ch>>

Escaped(ch) == IF ch \in Special THEN <<"\\", Letter[ch]>> ELSE <<ch>>

Escape(v) ==
    LET text[i \in 0..Len(v)] == IF i = 0 THEN <<>> ELSE text[i - 1] \o Escaped(v[i])
    IN  text[Len(v)]

(* Mutant: escapes stay.                                                     *)
UnescapeRaw(v) == v

(* unescapeQueryValue(): an unknown escape, and a last backslash, stay.       *)
Meant(ch) == IF \E c \in Special : Letter[c] = ch THEN <<CHOOSE c \in Special : Letter[c] = ch>>
             ELSE <<"\\", ch>>

UnescapeChar(s, ch) ==
    IF s.esc THEN [out |-> s.out \o Meant(ch), esc |-> FALSE]
    ELSE IF ch = "\\" THEN [s EXCEPT !.esc = TRUE]
    ELSE [s EXCEPT !.out = Append(@, ch)]

Unescape(v) ==
    LET read[i \in 0..Len(v)] == IF i = 0 THEN [out |-> <<>>, esc |-> FALSE]
                                 ELSE UnescapeChar(read[i - 1], v[i])
        end == read[Len(v)]
    IN  IF end.esc THEN Append(end.out, "\\") ELSE end.out

(* parseKeyValueLine(): escapes are kept until a pair is complete, so that a *)
(* space or '=' that ends one is a bare one; only a space after a value ends *)
(* a pair, and a later pair with the same key wins.                          *)
Stored(s) ==
    LET key == Unescape(s.key)
    IN  [k \in DOMAIN s.out \cup {key} |-> IF k = key THEN Unescape(s.value) ELSE s.out[k]]

Take(s, chars) == IF s.in THEN [s EXCEPT !.value = @ \o chars, !.esc = FALSE]
                          ELSE [s EXCEPT !.key = @ \o chars, !.esc = FALSE]

NothingRead == [out |-> [k \in {} |-> <<>>], key |-> <<>>, value |-> <<>>, in |-> FALSE, esc |-> FALSE]

ReadChar(s, ch) ==
    IF s.esc THEN Take(s, <<"\\", ch>>)
    ELSE IF ch = "\\" THEN [s EXCEPT !.esc = TRUE]
    ELSE IF ch = "=" /\ ~s.in THEN [s EXCEPT !.in = TRUE]
    ELSE IF ch = Space /\ s.in THEN [NothingRead EXCEPT !.out = Stored(s)]
    ELSE Take(s, <<ch>>)

ParseKeyValue(text) ==
    LET read[i \in 0..Len(text)] == IF i = 0 THEN NothingRead ELSE ReadChar(read[i - 1], text[i])
        end == IF read[Len(text)].esc THEN Take(read[Len(text)], <<"\\">>) ELSE read[Len(text)]
    IN  IF end.key # <<>> \/ end.value # <<>> THEN Stored(end) ELSE end.out

(* Array.join().                                                             *)
Join(parts, between) ==
    LET joined[i \in 0..Len(parts)] == IF i = 0 THEN <<>>
                                       ELSE IF i = 1 THEN parts[1]
                                       ELSE joined[i - 1] \o between \o parts[i]
    IN  joined[Len(parts)]

-----------------------------------------------------------------------------
(* buildCommand(): the name and the parameters, as one line.                 *)
Param(p) == <<p[1], "=">> \o Escape(p[2])
Parts(params) == [i \in DOMAIN params |-> Param(params[i])]
BuildCommand(name, params) == Join(<<<<name>>>> \o Parts(params), <<Space>>) \o <<Newline>>

-----------------------------------------------------------------------------
(* parseRawResponse(): the lines that are left after trimming, up to the     *)
(* error line; notifications are no data, and a line of data holds entries   *)
(* between bars.                                                             *)

Trim(text) ==
    LET Solid == {i \in DOMAIN text : text[i] \notin Blanks \cup Wide}
    IN  IF Solid = {} THEN <<>>
        ELSE LET a == CHOOSE i \in Solid : \A k \in Solid : i <= k
                 b == CHOOSE i \in Solid : \A k \in Solid : k <= i
             IN  SubSeq(text, a, b)

IsError(text) == Len(text) > 1 /\ text[1] = "error" /\ text[2] = Space

(* parseErrorLine(): the id, which is '0' for success.                       *)
ErrorId(text) ==
    LET params == ParseKeyValue(SubSeq(text, 3, Len(text)))
    IN  IF <<"id">> \in DOMAIN params THEN params[<<"id">>] ELSE <<>>

(* The text of a line is complete.                                           *)
Kept(s) == IF Trim(s.text) = <<>> THEN s.lines ELSE Append(s.lines, Trim(s.text))

LineChar(s, ch) ==
    IF ch = Newline THEN [lines |-> Kept(s), text |-> <<>>]
    ELSE [s EXCEPT !.text = Append(@, ch)]

Lines(raw) ==
    LET read[i \in 0..Len(raw)] == IF i = 0 THEN [lines |-> <<>>, text |-> <<>>]
                                   ELSE LineChar(read[i - 1], raw[i])
    IN  Kept(read[Len(raw)])

(* splitEntries(), and the entries parsed.                                   *)
Parsed(s) == Append(s.entries, ParseKeyValue(s.text))

EntryChar(s, ch) ==
    IF ch = "|" THEN [entries |-> Parsed(s), text |-> <<>>]
    ELSE [s EXCEPT !.text = Append(@, ch)]

Entries(text) ==
    LET read[i \in 0..Len(text)] == IF i = 0 THEN [entries |-> <<>>, text |-> <<>>]
                                    ELSE EntryChar(read[i - 1], text[i])
    IN  Parsed(read[Len(text)])

(* Mutant: a notification is data.                                           *)
ReadLineAll(s, text) ==
    IF s.over THEN s
    ELSE IF IsError(text) THEN [s EXCEPT !.over = TRUE, !.id = ErrorId(text)]
    ELSE [s EXCEPT !.entries = @ \o Entries(text)]

ReadLine(s, text) ==
    IF s.over THEN s
    ELSE IF IsError(text) THEN [s EXCEPT !.over = TRUE, !.id = ErrorId(text)]
    ELSE IF text[1] \in Events THEN s
    ELSE [s EXCEPT !.entries = @ \o Entries(text)]

NoLine == [entries |-> <<>>, over |-> FALSE, id |-> <<>>]

(* It fails unless there was an error line (over).                           *)
ParseResponse(raw) ==
    LET lines == Lines(raw)
        read[i \in 0..Len(lines)] == IF i = 0 THEN NoLine ELSE ReadLine(read[i - 1], lines[i])
    IN  read[Len(lines)]
=============================================================================
