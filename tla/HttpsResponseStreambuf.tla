------------------------ MODULE HttpsResponseStreambuf ------------------------
(***************************************************************************)
(* The std::streambuf that makes a response readable as a stream           *)
(* (src/https_response_streambuf.inl), and a reader of it.                 *)
(*                                                                         *)
(* The buffer's cells are 0..Size-1, base is 0, and eback, gptr and egptr  *)
(* are the pointers of the get area as indices.  A byte is represented by  *)
(* its place in the response; 0 is a byte that is not of the response: the *)
(* vector's initial zeros, and what lies in front of the vector.           *)
(***************************************************************************)
EXTENDS Integers

CONSTANTS
  BufferLen,     \* _len: 512 in make_request()
  PutBackLen,    \* _put_back_len: 8
  ResponseLen,   \* how many bytes the server sends before it closes
  Wants,         \* may a read return MBEDTLS_ERR_SSL_WANT_READ?
  PutsBackAtEof  \* does the reader put bytes back after it saw the end?

ASSUME LensAssumption ==
  BufferLen \in Nat /\ PutBackLen \in Nat /\ ResponseLen \in Nat
ASSUME ReaderAssumption == Wants \in BOOLEAN /\ PutsBackAtEof \in BOOLEAN

VARIABLES
  buffer,             \* what the cells hold
  eback, gptr, egptr, \* the get area: its begin, the next byte, its end
  arrived,            \* how many bytes conn.read() has returned
  exhausted,          \* has a read failed?  Then every later one does
  out,                \* what the last operation returned
  high                \* the most bytes the reader ever had taken (history)

streambuf == <<buffer, eback, gptr, egptr, arrived, exhausted, out, high>>

Larger(a, b) == IF a < b THEN b ELSE a
Smaller(a, b) == IF a < b THEN a ELSE b

put_back_len == Larger(PutBackLen, 1)
Size == Larger(BufferLen, put_back_len) + put_back_len
Cells == 0..(Size - 1)

Eof == -1

\* How many bytes the reader has taken.
Pos == arrived - (egptr - gptr)

\* The constructor: an empty get area at the end of the buffer.
StreambufInit ==
  /\ buffer = [i \in Cells |-> 0]
  /\ eback = Size /\ gptr = Size /\ egptr = Size
  /\ arrived = 0 /\ exhausted = FALSE
  /\ out = Eof /\ high = 0

-----------------------------------------------------------------------------
\* Slips: the bytes to keep are taken from the front of the buffer; the read is
\* offered all of it.
Kept_from_front ==
  [i \in Cells |-> IF eback = 0 /\ i < put_back_len THEN buffer[eback + i] ELSE buffer[i]]

\* When this isn't the first fill, the last put_back_len bytes move to the front of
\* the buffer; they begin in front of it when fewer were read so far.
Kept ==
  [i \in Cells |->
     LET from == egptr - put_back_len + i
     IN  IF eback = 0 /\ i < put_back_len
         THEN IF from < 0 THEN 0 ELSE buffer[from]
         ELSE buffer[i]]

Start == IF eback = 0 THEN put_back_len ELSE 0

Space_is_size == Size

Space == Size - Start

\* conn.read() returns n bytes.
FillBuffer(n) ==
  [i \in Cells |-> IF i \in Start..(Start + n - 1) THEN arrived + 1 + (i - Start) ELSE Kept[i]]

\* underflow() on an exhausted get area, and what its caller takes of the byte it
\* returns: 1 for sbumpc(), 0 for sgetc().
Underflow(taken) ==
  \/ \E n \in 1..Smaller(Space, ResponseLen - arrived) :
       /\ ~exhausted
       /\ buffer' = FillBuffer(n)
       /\ eback' = 0 /\ gptr' = Start + taken /\ egptr' = Start + n
       /\ arrived' = arrived + n
       /\ out' = arrived + 1
       /\ UNCHANGED exhausted
  \/ \* the read would block: the get area is empty, its first cell is returned
     /\ Wants /\ ~exhausted
     /\ buffer' = Kept
     /\ eback' = 0 /\ gptr' = Start + taken /\ egptr' = Start
     /\ out' = Kept[Start]
     /\ UNCHANGED <<arrived, exhausted>>
  \/ \* the server closed, or the connection is lost
     /\ buffer' = Kept /\ out' = Eof /\ exhausted' = TRUE
     /\ UNCHANGED <<eback, gptr, egptr, arrived>>

\* Looks at the next byte, or takes it.
Get(taken) ==
  /\ \/ /\ gptr < egptr
        /\ out' = buffer[gptr] /\ gptr' = gptr + taken
        /\ UNCHANGED <<buffer, eback, egptr, arrived, exhausted>>
     \/ gptr >= egptr /\ Underflow(taken)
  /\ high' = Larger(high, Pos')

sgetc == Get(0)

sbumpc == Get(1)

\* The reader puts back a byte it was given; the class has no pbackfail().
sungetc ==
  /\ Pos > 0 /\ (exhausted => PutsBackAtEof)
  /\ IF eback < gptr
     THEN gptr' = gptr - 1 /\ out' = buffer[gptr - 1]
     ELSE out' = Eof /\ UNCHANGED gptr
  /\ UNCHANGED <<buffer, eback, egptr, arrived, exhausted, high>>

StreambufNext == sgetc \/ sbumpc \/ sungetc

StreambufSpec == StreambufInit /\ [][StreambufNext]_streambuf

-----------------------------------------------------------------------------
\* The get area lies within the buffer.
GetAreaInBuffer ==
  /\ buffer \in [Cells -> 0..ResponseLen]
  /\ eback \in {0, Size} /\ gptr \in eback..egptr /\ egptr \in 0..Size
  /\ arrived \in 0..ResponseLen /\ exhausted \in BOOLEAN
  /\ out \in {Eof} \cup 0..ResponseLen /\ high \in 0..arrived

\* Until the end is seen, the get area, the put-back bytes included, is a window on
\* the response: cell i holds the byte that is egptr - i before the last one that
\* arrived, in every cell for which there is such a byte.  Each fill moves the
\* window, by memmove and by where conn.read() stores.
WindowOnResponse ==
  ~exhausted =>
    \A i \in eback..(egptr - 1) :
      arrived - egptr + i >= 0 => buffer[i] = arrived - egptr + i + 1

\* The streambuf implements a byte stream: for every way the response is cut into
\* reads, its reader gets every byte once and in order, the end only after all that
\* arrived, and the last put_back_len bytes again when it puts them back before
\* the end.
Stream == INSTANCE ByteStream WITH
  Length <- ResponseLen, PutBack <- put_back_len, pos <- Pos, got <- arrived

StreamSpec == Stream!Spec

-----------------------------------------------------------------------------
(***************************************************************************)
(* What comments of the source say, and the code does not do.              *)
(***************************************************************************)

\* "this is fine, treat it as reading nothing" (src/https_response_streambuf.inl:63):
\* a reader that takes a byte gets the next one, or the end.
WantReadsNothing == [][sbumpc => out' \in {Eof, Pos + 1}]_streambuf

\* "Make arrangements for putback characters" (src/https_response_streambuf.inl:54):
\* a byte that is put back is the one last taken.  A read that fails has moved the
\* bytes, but not the pointers.
PutBackIsLastTaken == [][sungetc => out' \in {Eof, Pos}]_streambuf
=============================================================================
