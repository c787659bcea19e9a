--------------------------------- MODULE Base64 ---------------------------------
(***************************************************************************)
(* base64::encode() and decode() (src/base64.h), and the coders of libb64  *)
(* they call once with a whole text.  The coders keep their place between  *)
(* blocks: a step, and the bits that are left over.                        *)
(*                                                                         *)
(* A byte is a number below 256, a character of the code the number below  *)
(* 64 that its letter stands for; two numbers stand for "=" and for a line *)
(* end.                                                                    *)
(***************************************************************************)
EXTENDS Integers, SequencesExt

Pad == 64
Nul == 65
LineEnd == 66

\* base64_init_encodestate(), base64_init_decodestate()
NewEncoder == [step |-> "A", result |-> 0, out |-> <<>>]
NewDecoder == [step |-> "a", plainchar |-> 0, out |-> <<>>]

\* A slip: the bits left of the first byte are not kept for the second.
encode_byte_drops(s, c) ==
  CASE s.step = "A" -> [step |-> "B", result |-> 0, out |-> Append(s.out, c \div 4)]
    [] s.step = "B" -> [step |-> "C", result |-> (c % 16) * 4,
                        out |-> Append(s.out, s.result + c \div 16)]
    [] s.step = "C" -> [step |-> "A", result |-> c % 64,
                        out |-> s.out \o <<s.result + c \div 64, c % 64>>]

\* base64_encode_block(), one byte of plaintext: what is complete is written.
encode_byte(s, c) ==
  CASE s.step = "A" -> [step |-> "B", result |-> (c % 4) * 16, out |-> Append(s.out, c \div 4)]
    [] s.step = "B" -> [step |-> "C", result |-> (c % 16) * 4,
                        out |-> Append(s.out, s.result + c \div 16)]
    [] s.step = "C" -> [step |-> "A", result |-> c % 64,
                        out |-> s.out \o <<s.result + c \div 64, c % 64>>]

base64_encode_block(s, plaintext) ==
  LET after[i \in 0..Len(plaintext)] ==
        IF i = 0 THEN s ELSE encode_byte(after[i - 1], plaintext[i])
  IN after[Len(plaintext)]

\* base64_encode_blockend(): the last character, and padding.
base64_encode_blockend(s) ==
  CASE s.step = "A" -> s.out
    [] s.step = "B" -> s.out \o <<s.result, Pad, Pad>>
    [] s.step = "C" -> s.out \o <<s.result, Pad>>

\* base64_decode_value(): -2 for the padding, -1 for any other character that is
\* not of the code; the block skips both.
IsValue(c) == c < 64

\* base64_decode_block(), one character: plainchar is the byte being put together.
decode_char(s, c) ==
  IF ~IsValue(c) THEN s
  ELSE CASE s.step = "a" -> [step |-> "b", plainchar |-> c * 4, out |-> s.out]
         [] s.step = "b" -> [step |-> "c", plainchar |-> (c % 16) * 16,
                             out |-> Append(s.out, s.plainchar + c \div 16)]
         [] s.step = "c" -> [step |-> "d", plainchar |-> (c % 4) * 64,
                             out |-> Append(s.out, s.plainchar + c \div 4)]
         [] s.step = "d" -> [step |-> "a", plainchar |-> 0, out |-> Append(s.out, s.plainchar + c)]

base64_decode_block(s, code) ==
  LET after[i \in 0..Len(code)] == IF i = 0 THEN s ELSE decode_char(after[i - 1], code[i])
  IN after[Len(code)]

\* All that the coder writes for a text given at once.
coded(in) == base64_encode_blockend(base64_encode_block(NewEncoder, in))

\* base64::encode().  The string written into has twice the text's size: what the coder
\* writes beyond it is not the string's, and resize() puts zeros there.
encode(in) ==
  [i \in 1..Len(coded(in)) |-> IF i <= 2 * Len(in) THEN coded(in)[i] ELSE Nul]

\* base64::decode()
decode(in) == base64_decode_block(NewDecoder, in).out

-----------------------------------------------------------------------------
Powers == <<1, 2, 4, 8, 16, 32, 64, 128>>

\* The bits of a text of n-bit numbers, from the highest of the first one on.
Bits(text, n) ==
  [i \in 1..(n * Len(text)) |-> (text[(i - 1) \div n + 1] \div Powers[n - ((i - 1) % n)]) % 2]

\* The code is the text's bits, six to a character, filled up with zeros and with
\* "=" to a multiple of four; what the coder writes is the same when the text is cut in
\* two blocks anywhere; and decoding the code, in one block or two, with line ends between
\* them or not, gives the text.  (The code of a single byte has no "=" but two characters
\* 0: it is longer than the "worst case" of src/base64.h:33, for which there is room.)
CodesFaithfully(text, cut) ==
  LET code == encode(text)
      values == SubSeq(code, 1, (4 * Len(text) + 2) \div 3)
      blocks == base64_encode_block(base64_encode_block(NewEncoder, SubSeq(text, 1, cut)),
                                    SubSeq(text, cut + 1, Len(text)))
      at == (cut * 4) \div 3
      halves == <<SubSeq(code, 1, at), SubSeq(code, at + 1, Len(code))>>
  IN /\ Len(code) = 4 * ((Len(text) + 2) \div 3)
     /\ \A i \in DOMAIN code :
          IF i <= Len(values) THEN code[i] \in 0..63
          ELSE code[i] = IF Len(text) = 1 THEN Nul ELSE Pad
     /\ \A i \in 1..(6 * Len(values)) :
          Bits(values, 6)[i] = IF i <= 8 * Len(text) THEN Bits(text, 8)[i] ELSE 0
     /\ base64_encode_blockend(blocks) = coded(text)
     /\ decode(code) = text
     /\ base64_decode_block(base64_decode_block(NewDecoder, halves[1]),
                            <<LineEnd>> \o halves[2]).out = text
=============================================================================
