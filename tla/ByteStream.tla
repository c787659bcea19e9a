------------------------------ MODULE ByteStream ------------------------------
(***************************************************************************)
(* What a std::streambuf over a connection promises its reader: the bytes  *)
(* that arrive, each once and in order, the end only after all of them,    *)
(* and the last PutBack of them again when they are put back.  A byte is   *)
(* represented by its place in the response, 1, 2, ..., so a wrong, lost   *)
(* or repeated byte is a wrong number.                                     *)
(***************************************************************************)
EXTENDS Integers

CONSTANTS
  Length,    \* how many bytes the server sends
  PutBack    \* how many may be put back

VARIABLES
  pos,    \* how many bytes the reader has taken and not put back
  high,   \* the most it ever had
  got,    \* how many have arrived
  out     \* what the last operation returned

vars == <<pos, high, got, out>>

Eof == -1

Init == pos = 0 /\ high = 0 /\ got = 0 /\ out = Eof

\* More bytes may arrive; then the reader gets the next one, or the end if there
\* is none.
Look ==
  /\ got' \in got..Length
  /\ out' = IF pos < got' THEN pos + 1 ELSE Eof

\* Looks at the next byte.
Peek == Look /\ UNCHANGED <<pos, high>>

\* Takes the next byte.
Take ==
  /\ Look
  /\ pos' = IF out' = Eof THEN pos ELSE pos + 1
  /\ high' = IF high < pos' THEN pos' ELSE high

\* Puts the last byte back; this fails only for one further back than PutBack.
Unget ==
  /\ pos > 0
  /\ \/ out' = pos /\ pos' = pos - 1
     \/ high - pos >= PutBack /\ out' = Eof /\ pos' = pos
  /\ UNCHANGED <<high, got>>

Next == Peek \/ Take \/ Unget

Spec == Init /\ [][Next]_vars
=============================================================================
