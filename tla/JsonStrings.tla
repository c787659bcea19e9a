------------------------------- MODULE JsonStrings -------------------------------
(***************************************************************************)
(* Strings in JSON texts, byte by byte: EscapeString() and the UTF-8       *)
(* conversions of src/flatbuffers/include/flatbuffers/util.h, the string   *)
(* constants of Parser::Next() in src/flatbuffers/src/idl_parser.cpp, and  *)
(* the strings picojson.h writes and reads.                                *)
(*                                                                         *)
(* A response of a server goes through all of them: picojson reads its     *)
(* strings, the visitor writes them again for the Parser, which reads      *)
(* them into a buffer; FlatBufferToString() writes them for a request.     *)
(***************************************************************************)
EXTENDS Integers, SequencesExt

Octets == 0..255
Quote == 34
Backslash == 92
Corrupt == -1   \* what FromUTF8() returns for a corrupt sequence
LastCodePoint == 1114111
FirstHigh == 55296
LastHigh == 56319
FirstLow == 56320
LastLow == 57343
HighSurrogates == FirstHigh..LastHigh
LowSurrogates == FirstLow..LastLow

\* The escapes of one letter: the letter, and the byte it stands for.
Letters == {<<110, 10>>, <<116, 9>>, <<114, 13>>, <<98, 8>>, <<102, 12>>,
            <<Quote, Quote>>, <<Backslash, Backslash>>}
Letter(byte) == (CHOOSE l \in Letters : l[2] = byte)[1]
Byte(letters, letter) == (CHOOSE l \in letters : l[1] = letter)[2]

At(s, i) == IF i \in DOMAIN s THEN s[i] ELSE 0   \* past the end: the terminator

\* IntToStringHex(), "%04x": digits of these weights, with letters from base on.
TwoDigits == <<16, 1>>
FourDigits == <<4096, 256, 16, 1>>
HexLetter(digit, base) == IF digit < 10 THEN 48 + digit ELSE base + digit - 10
Hex(n, weights, base) == [i \in DOMAIN weights |-> HexLetter((n \div weights[i]) % 16, base)]
IsHex(c) == c \in 48..57 \cup 65..70 \cup 97..102
HexDigit(c) == IF c <= 57 THEN c - 48 ELSE (c % 32) + 9

-----------------------------------------------------------------------------
\* ToUTF8(), of what its callers give it: 7, 11, 16 or 21 bits.
ToUTF8(ucc) ==
  LET tail(n) == 128 + (n % 64)
  IN IF ucc < 128 THEN <<ucc>>
     ELSE IF ucc < 2048 THEN <<192 + ucc \div 64, tail(ucc)>>
     ELSE IF ucc < 65536 THEN <<224 + ucc \div 4096, tail(ucc \div 64), tail(ucc)>>
     ELSE <<240 + ucc \div 262144, tail(ucc \div 4096), tail(ucc \div 64), tail(ucc)>>

\* FromUTF8() at an index of s: the code point, and how many bytes it takes.
LengthOf(lead) ==
  CASE lead < 128 -> 1 [] lead \in 192..223 -> 2 [] lead \in 224..239 -> 3
    [] lead \in 240..247 -> 4 [] OTHER -> 0
CodePoint(s, i, len) ==
  LET tail(j) == At(s, i + j) % 64
  IN CASE len = 1 -> At(s, i)
       [] len = 2 -> (At(s, i) % 32) * 64 + tail(1)
       [] len = 3 -> (At(s, i) % 16) * 4096 + tail(1) * 64 + tail(2)
       [] OTHER -> (At(s, i) % 8) * 262144 + tail(1) * 4096 + tail(2) * 64 + tail(3)
Shortest(ucc, len) ==
  CASE len = 1 -> TRUE [] len = 2 -> 128 <= ucc /\ ucc <= 2047
    [] len = 3 -> 2048 <= ucc /\ ucc <= 65535 [] OTHER -> 65536 <= ucc /\ ucc <= LastCodePoint
FromUTF8(s, i) ==
  LET len == LengthOf(At(s, i))
      ucc == CodePoint(s, i, len)
      valid == /\ len > 0 /\ \A j \in 1..(len - 1) : At(s, i + j) \in 128..191
               /\ ucc \notin HighSurrogates \cup LowSurrogates /\ Shortest(ucc, len)
  IN [ucc |-> IF valid THEN ucc ELSE Corrupt, len |-> len]

\* ValidateUTF8(): where the loop goes on, once it has passed i bytes.
passed(s, next, i) ==
  IF next # i THEN next ELSE IF FromUTF8(s, i).ucc = Corrupt THEN Corrupt ELSE i + FromUTF8(s, i).len
ValidateUTF8(s) ==
  LET next[i \in 0..Len(s)] == IF i = 0 THEN 1 ELSE passed(s, next[i - 1], i)
  IN next[Len(s)] # Corrupt

\* A slip: the offset of a surrogate pair is not taken off.
HighOf_no_base(ucc) == FirstHigh + ucc \div 1024

\* A code point beyond those of four digits is two surrogates; and how Next() of the
\* Parser and _parse_codepoint() of picojson put them together again.
HighOf(ucc) == FirstHigh + (ucc - 65536) \div 1024
LowOf(ucc) == FirstLow + ((ucc - 65536) % 1024)
Paired(high, low) == 65536 + (high % 1024) * 1024 + (low % 1024)
PicoPaired(high, low) == (high - FirstHigh) * 1024 + (low - FirstLow) + 65536

\* What EscapeString() writes for a code point it has recognized.
Escape(n, base) == <<Backslash, 117>> \o Hex(n, FourDigits, base)
Unicode(ucc) ==
  IF ucc <= 65535 THEN Escape(ucc, 65) ELSE Escape(HighOf(ucc), 65) \o Escape(LowOf(ucc), 65)

\* EscapeString(): without its last quote.
escape_sequence(s, allow_non_utf8, t, i, u) ==
  IF u.ucc # Corrupt THEN [t EXCEPT !.text = @ \o Unicode(u.ucc), !.next = i + u.len]
  ELSE IF allow_non_utf8
  THEN [t EXCEPT !.text = @ \o (<<Backslash, 120>> \o Hex(s[i], TwoDigits, 65))]
  ELSE [t EXCEPT !.ok = FALSE]
escape_char(s, allow_non_utf8, t, i) ==
  IF ~t.ok \/ i < t.next THEN t
  ELSE IF \E l \in Letters : l[2] = s[i]
  THEN [t EXCEPT !.text = @ \o <<Backslash, Letter(s[i])>>]
  ELSE IF s[i] \in 32..126 THEN [t EXCEPT !.text = Append(@, s[i])]
  ELSE escape_sequence(s, allow_non_utf8, t, i, FromUTF8(s, i))
EscapeString(s, allow_non_utf8) ==
  LET t[i \in 0..Len(s)] == IF i = 0 THEN [ok |-> TRUE, text |-> <<Quote>>, next |-> 1]
                            ELSE escape_char(s, allow_non_utf8, t[i - 1], i)
  IN t[Len(s)]

-----------------------------------------------------------------------------
\* A reader of a string: mode is "plain", "escape", "hex" (with digits still to come,
\* and their value so far), "done" or "error"; high is the high surrogate that waits
\* for its low one.
Reader == [mode |-> "plain", out |-> <<>>, digits |-> 0, val |-> 0, high |-> Corrupt, x |-> FALSE]
Fail(r) == [r EXCEPT !.mode = "error"]
Took(r, bytes) == [r EXCEPT !.out = @ \o bytes, !.mode = "plain"]
HexOf(r, digits, x) == [r EXCEPT !.mode = "hex", !.digits = digits, !.val = 0, !.x = x]
More(r, c) == [r EXCEPT !.digits = @ - 1, !.val = @ * 16 + HexDigit(c)]

\* A code point of "\u" in Next(): surrogates come in pairs.
Unit(r) ==
  CASE r.val \in HighSurrogates ->
         IF r.high # Corrupt THEN Fail(r) ELSE [r EXCEPT !.high = r.val, !.mode = "plain"]
    [] r.val \in LowSurrogates ->
         IF r.high = Corrupt THEN Fail(r)
         ELSE [Took(r, ToUTF8(Paired(r.high, r.val))) EXCEPT !.high = Corrupt]
    [] OTHER -> IF r.high # Corrupt THEN Fail(r) ELSE Took(r, ToUTF8(r.val))

\* Parser::Next(), one byte of a string constant in quotes.
next_char(r, c) ==
  CASE r.mode = "plain" /\ c = Quote -> IF r.high # Corrupt THEN Fail(r) ELSE [r EXCEPT !.mode = "done"]
    [] r.mode = "plain" /\ c = Backslash -> [r EXCEPT !.mode = "escape"]
    [] r.mode = "plain" /\ c \notin {Quote, Backslash} ->
         IF c < 32 \/ r.high # Corrupt THEN Fail(r) ELSE Took(r, <<c>>)
    [] r.mode = "escape" ->
         LET letters == Letters \cup {<<39, 39>>, <<47, 47>>}
         IN IF c = 117 THEN HexOf(r, 4, FALSE)
            ELSE IF r.high # Corrupt THEN Fail(r)
            ELSE IF c = 120 THEN HexOf(r, 2, TRUE)
            ELSE IF \E l \in letters : l[1] = c THEN Took(r, <<Byte(letters, c)>>) ELSE Fail(r)
    [] r.mode = "hex" ->
         IF ~IsHex(c) THEN Fail(r)
         ELSE IF r.digits > 1 THEN More(r, c)
         ELSE IF r.x THEN Took(More(r, c), <<More(r, c).val>>) ELSE Unit(More(r, c))
    [] OTHER -> Fail(r)

\* A string constant, and whether Next() accepts it; allow_non_utf8 is FALSE.
Constant(r) == [ok |-> r.mode = "done" /\ ValidateUTF8(r.out), out |-> r.out]
ReadString(text) ==
  LET r[i \in 0..Len(text)] == IF i = 0 THEN Reader ELSE next_char(r[i - 1], text[i])
  IN Constant(r[Len(text)])

-----------------------------------------------------------------------------
\* A slip: the bytes from 128 on are negative, and so control characters too.
IsControl_signed(c) == c < 32 \/ c >= 127

\* What serialize_str_char writes as a number.
IsControl(c) == c < 32 \/ c = 127

\* serialize_str() of picojson.h: without its last quote.
serialize_str_char(c) ==
  LET letters == Letters \cup {<<47, 47>>}
  IN IF \E l \in letters : l[2] = c THEN <<Backslash, (CHOOSE l \in letters : l[2] = c)[1]>>
     ELSE IF IsControl(c) THEN Escape(c, 97)
     ELSE <<c>>
serialize_str(s) ==
  LET text[i \in 0..Len(s)] == IF i = 0 THEN <<Quote>> ELSE text[i - 1] \o serialize_str_char(s[i])
  IN text[Len(s)]

\* _parse_codepoint(): a high surrogate must be followed by a "\u" with a low one.
parse_codepoint(r) ==
  CASE r.high = Corrupt /\ r.val \in HighSurrogates -> [r EXCEPT !.high = r.val, !.mode = "low"]
    [] r.high = Corrupt /\ r.val \notin HighSurrogates ->
         IF r.val \in LowSurrogates THEN Fail(r) ELSE Took(r, ToUTF8(r.val))
    [] OTHER -> IF r.val \in LowSurrogates
                THEN [Took(r, ToUTF8(PicoPaired(r.high, r.val))) EXCEPT !.high = Corrupt]
                ELSE Fail(r)

\* _parse_string() and _parse_quadhex(), one byte.
parse_char(r, c) ==
  CASE r.mode = "plain" /\ c = Quote -> [r EXCEPT !.mode = "done"]
    [] r.mode = "plain" /\ c = Backslash -> [r EXCEPT !.mode = "escape"]
    [] r.mode = "plain" /\ c \notin {Quote, Backslash} ->
         IF c < 32 THEN Fail(r) ELSE Took(r, <<c>>)
    [] r.mode = "low" -> IF c = Backslash THEN [r EXCEPT !.mode = "low_u"] ELSE Fail(r)
    [] r.mode = "low_u" -> IF c = 117 THEN HexOf(r, 4, FALSE) ELSE Fail(r)
    [] r.mode = "escape" ->
         LET letters == Letters \cup {<<47, 47>>}
         IN IF c = 117 THEN HexOf(r, 4, FALSE)
            ELSE IF \E l \in letters : l[1] = c THEN Took(r, <<Byte(letters, c)>>) ELSE Fail(r)
    [] r.mode = "hex" ->
         IF ~IsHex(c) THEN Fail(r)
         ELSE IF r.digits > 1 THEN More(r, c) ELSE parse_codepoint(More(r, c))
    [] OTHER -> Fail(r)

Parsed(r) == [ok |-> r.mode = "done", out |-> r.out]
parse_string(text) ==
  LET r[i \in 0..Len(text)] == IF i = 0 THEN Reader ELSE parse_char(r[i - 1], text[i])
  IN Parsed(r[Len(text)])

-----------------------------------------------------------------------------
\* What UTF-8 is, from the table of its well-formed sequences: ranges of the bytes.
WellFormedBytes ==
  LET tail == 128..191
  IN {<<0..127>>, <<194..223, tail>>, <<{224}, 160..191, tail>>, <<225..236, tail, tail>>,
      <<{237}, 128..159, tail>>, <<238..239, tail, tail>>, <<{240}, 144..191, tail, tail>>,
      <<241..243, tail, tail, tail>>, <<{244}, 128..143, tail, tail>>}
\* The sequences of a text end at these places.
EndsAt(s, ends, n) ==
  \E w \in WellFormedBytes : /\ Len(w) <= n /\ n - Len(w) \in ends
                             /\ \A i \in DOMAIN w : s[n - Len(w) + i] \in w[i]
IsUTF8(s) ==
  LET ends[n \in 0..Len(s)] ==
        IF n = 0 THEN {0} ELSE ends[n - 1] \cup {m \in {n} : EndsAt(s, ends[n - 1], n)}
  IN Len(s) \in ends[Len(s)]

\* What a reader makes of a written string: the text after its first quote.
Closed(written) == Append(Tail(written), Quote)

\* EscapeString() writes a string that both readers read as the same bytes, exactly if
\* those are UTF-8; told to allow others it writes any string, but one that neither
\* reader accepts when it is not UTF-8 (src/flatbuffers/include/flatbuffers/util.h:404).
BothRead(text, s) ==
  /\ ReadString(text) = [ok |-> TRUE, out |-> s]
  /\ parse_string(text) = [ok |-> TRUE, out |-> s]
NeitherReads(text) == ~ReadString(text).ok /\ ~parse_string(text).ok
WrittenRight(s, strict, lenient) ==
  /\ (strict.ok <=> IsUTF8(s)) /\ lenient.ok
  /\ IF strict.ok THEN BothRead(Closed(strict.text), s) /\ lenient = strict
     ELSE NeitherReads(Closed(lenient.text))
EscapedReadsBack(s) == WrittenRight(s, EscapeString(s, FALSE), EscapeString(s, TRUE))

\* What picojson has read from a response it can write and read again whatever the bytes
\* are; written by it, the Parser accepts them exactly if they are UTF-8.
ReadsSerialized(text, s) ==
  /\ parse_string(text) = [ok |-> TRUE, out |-> s]
  /\ IF IsUTF8(s) THEN ReadString(text) = [ok |-> TRUE, out |-> s] ELSE ~ReadString(text).ok
WrittenReadsBack(s) == ReadsSerialized(Closed(serialize_str(s)), s)
=============================================================================
