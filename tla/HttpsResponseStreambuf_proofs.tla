--------------------- MODULE HttpsResponseStreambuf_proofs ---------------------
(***************************************************************************)
(* HttpsResponseStreambuf implements ByteStream, for every length of the   *)
(* buffer, of the put-back area and of the response, as long as no read    *)
(* wants to be called again and the reader puts nothing back at the end.   *)
(***************************************************************************)
EXTENDS HttpsResponseStreambuf, TLAPS

\* What GetAreaInBuffer and WindowOnResponse lack to be inductive: an unfilled buffer is
\* empty, the reader that saw the end has taken all, the window begins at the
\* response's first byte or put_back_len bytes before the last fill at the latest,
\* and only the first fill ends before put_back_len.
Reach ==
  /\ eback = Size => arrived = 0 /\ gptr = Size /\ egptr = Size
  /\ exhausted => gptr = egptr
  /\ 0 <= Pos /\ Pos <= high
  /\ eback = 0 => \/ arrived = egptr
                  \/ egptr >= put_back_len /\ arrived - egptr <= high - put_back_len

IInv == GetAreaInBuffer /\ WindowOnResponse /\ Reach

\* The lengths are what the code asks of them: there is room behind the put-back area.
LEMMA Lengths ==
  put_back_len \in Nat \ {0} /\ Size \in Nat /\ Size >= 2 * put_back_len
  BY LensAssumption DEF put_back_len, Size, Larger

\* The invariant holds initially.
LEMMA InitIInv == StreambufInit => IInv
  <1> SUFFICES ASSUME StreambufInit PROVE IInv
    OBVIOUS
  <1> USE Lengths, LensAssumption
  <1>1. GetAreaInBuffer
    <2>1. buffer \in [Cells -> 0..ResponseLen]
      BY DEF StreambufInit
    <2>2. /\ eback \in {0, Size} /\ gptr \in eback..egptr /\ egptr \in 0..Size
          /\ arrived \in 0..ResponseLen /\ high \in 0..arrived
      BY DEF StreambufInit
    <2>3. out \in {Eof} \cup 0..ResponseLen /\ exhausted \in BOOLEAN
      BY DEF StreambufInit
    <2> QED BY <2>1, <2>2, <2>3 DEF GetAreaInBuffer
  <1>2. WindowOnResponse
    BY DEF StreambufInit, WindowOnResponse
  <1>3. Reach
    BY DEF StreambufInit, Reach, Pos
  <1> QED BY <1>1, <1>2, <1>3 DEF IInv

\* The bytes that memmove keeps are bytes of the response, or 0.
LEMMA KeptType ==
  ASSUME IInv
  PROVE  Kept \in [Cells -> 0..ResponseLen]
  <1> USE Lengths, LensAssumption DEF IInv, GetAreaInBuffer
  <1>1. ASSUME NEW i \in Cells, i < put_back_len, egptr - put_back_len + i >= 0
        PROVE  egptr - put_back_len + i \in Cells
    BY <1>1 DEF Cells
  <1>2. ASSUME NEW i \in Cells
        PROVE  Kept[i] \in 0..ResponseLen
    <2>1. buffer \in [Cells -> 0..ResponseLen] /\ 0 \in 0..ResponseLen /\ i \in Int
      BY DEF Cells
    <2>2. CASE eback = 0 /\ i < put_back_len
      <3>1. CASE egptr - put_back_len + i < 0
        BY <1>2, <2>1, <2>2, <3>1 DEF Kept
      <3>2. CASE egptr - put_back_len + i >= 0
        BY <1>1, <1>2, <2>1, <2>2, <3>2 DEF Kept
      <3> QED BY <2>1, <3>1, <3>2
    <2>3. CASE ~(eback = 0 /\ i < put_back_len)
      BY <1>2, <2>1, <2>3 DEF Kept
    <2> QED BY <2>2, <2>3
  <1> QED BY <1>2 DEF Kept

\* A fill of n bytes preserves the window and what it reaches.
LEMMA FillIInv ==
  ASSUME IInv, ~exhausted, gptr = egptr, NEW taken \in {0, 1},
         NEW n \in 1..Smaller(Space, ResponseLen - arrived),
         buffer' = FillBuffer(n), eback' = 0, gptr' = Start + taken, egptr' = Start + n,
         arrived' = arrived + n, out' = arrived + 1, exhausted' = exhausted,
         high' = Larger(high, Pos')
  PROVE  IInv' /\ Pos' = Pos + taken
  <1> USE Lengths, LensAssumption
  <1>1. /\ arrived \in Nat /\ high \in Nat /\ egptr \in Nat /\ egptr <= Size
        /\ eback \in {0, Size} /\ ResponseLen \in Nat /\ n \in Nat \ {0}
        /\ Start \in Nat /\ Start + n <= Size /\ arrived + n <= ResponseLen
        /\ high <= arrived
    BY DEF IInv, GetAreaInBuffer, Smaller, Space, Start
  <1>2. Pos = arrived /\ Pos' = arrived + taken
    BY <1>1 DEF Pos
  <1>3. high' \in 0..arrived' /\ high' >= Pos' /\ high' >= arrived
    BY <1>1, <1>2 DEF Larger
  <1>4. GetAreaInBuffer'
    <2>1. FillBuffer(n) \in [Cells -> 0..ResponseLen]
      BY KeptType, <1>1 DEF FillBuffer
    <2> QED BY <1>1, <1>3, <2>1 DEF GetAreaInBuffer, IInv, Eof
  <1>5. WindowOnResponse'
    <2> SUFFICES ASSUME NEW i \in 0..(Start + n - 1),
                        arrived - Start + i >= 0
                 PROVE  FillBuffer(n)[i] = arrived - Start + i + 1
      BY <1>1 DEF WindowOnResponse
    <2>1. i \in Cells /\ i \in Nat
      BY <1>1 DEF Cells
    <2>2. CASE i >= Start
      BY <1>1, <2>1, <2>2 DEF FillBuffer
    <2>3. CASE i < Start
      <3> DEFINE from == egptr - put_back_len + i
      <3>1. eback = 0 /\ Start = put_back_len
        BY <1>1, <2>1, <2>3 DEF Start
      <3>2. from \in 0..(egptr - 1)
        BY <1>1, <2>1, <2>3, <3>1 DEF IInv, Reach
      <3>3. buffer[from] = arrived - egptr + from + 1
        BY <1>1, <2>1, <3>1, <3>2 DEF IInv, WindowOnResponse
      <3>4. FillBuffer(n)[i] = Kept[i]
        BY <1>1, <2>1, <2>3 DEF FillBuffer
      <3>5. Kept[i] = buffer[from]
        BY <1>1, <2>1, <2>3, <3>1, <3>2 DEF Kept
      <3> QED BY <1>1, <2>1, <3>1, <3>3, <3>4, <3>5
    <2> QED BY <1>1, <2>1, <2>2, <2>3
  <1>6. Reach'
    <2>1. Size # 0
      OBVIOUS
    <2>2. CASE eback = 0
      BY <1>1, <1>2, <1>3, <2>1, <2>2 DEF Reach, Start
    <2>3. CASE eback = Size
      BY <1>1, <1>2, <1>3, <2>1, <2>3 DEF Reach, Start, IInv
    <2> QED BY <1>1, <2>2, <2>3
  <1> QED BY <1>1, <1>2, <1>4, <1>5, <1>6 DEF IInv

\* What a byte that is in the get area is.
LEMMA NextByte ==
  ASSUME IInv, gptr < egptr
  PROVE  buffer[gptr] = Pos + 1 /\ ~exhausted /\ Pos < arrived /\ gptr \in Nat
  <1> USE Lengths, LensAssumption
  <1>1. /\ arrived \in Nat /\ egptr \in Nat /\ gptr \in eback..(egptr - 1)
        /\ eback \in Nat /\ ~exhausted
    BY DEF IInv, GetAreaInBuffer, Reach
  <1> QED BY <1>1 DEF IInv, Reach, WindowOnResponse, Pos

\* Each operation that gets a byte: the invariant, and the step of the stream.
LEMMA GetStep ==
  ASSUME IInv, ~Wants, NEW taken \in {0, 1}, Get(taken)
  PROVE  /\ IInv'
         /\ arrived' \in arrived..ResponseLen
         /\ out' = IF Pos < arrived' THEN Pos + 1 ELSE Eof
         /\ Pos' = IF out' = Eof THEN Pos ELSE Pos + taken
         /\ high' = IF high < Pos' THEN Pos' ELSE high
  <1> USE Lengths, LensAssumption
  <1>1. /\ arrived \in Nat /\ high \in Nat /\ egptr \in Nat /\ gptr \in Nat
        /\ eback \in Nat /\ high <= arrived /\ arrived <= ResponseLen
        /\ gptr <= egptr /\ Pos \in Nat /\ Pos <= high
    BY DEF IInv, GetAreaInBuffer, Reach, Pos
  <1>2. CASE /\ gptr < egptr
             /\ out' = buffer[gptr] /\ gptr' = gptr + taken
             /\ UNCHANGED <<buffer, eback, egptr, arrived, exhausted>>
    <2>1. out' = Pos + 1 /\ Pos' = Pos + taken /\ Pos < arrived /\ ~exhausted
      BY <1>1, <1>2, NextByte DEF Pos
    <2>2. high' \in 0..arrived /\ high' >= Pos' /\ high' >= high /\ Eof # out'
      BY <1>1, <2>1 DEF Get, Larger, Eof
    <2>3. GetAreaInBuffer'
      BY <1>1, <1>2, <2>1, <2>2 DEF IInv, GetAreaInBuffer, Eof
    <2>4. WindowOnResponse'
      BY <1>2 DEF IInv, WindowOnResponse
    <2>5. Reach'
      <3>1. eback = 0
        BY <1>1, <1>2 DEF IInv, GetAreaInBuffer, Reach
      <3>2. \/ arrived = egptr
            \/ egptr >= put_back_len /\ arrived - egptr <= high - put_back_len
        BY <3>1 DEF IInv, Reach
      <3>3. Pos' \in Int /\ 0 <= Pos' /\ eback' # Size /\ ~exhausted' /\ high' \in Int
        BY <1>1, <1>2, <2>1, <2>2, <3>1
      <3>4. /\ arrived' = arrived /\ egptr' = egptr /\ Pos' <= high' /\ high' >= high
        BY <1>1, <1>2, <2>1, <2>2
      <3>5. \/ arrived' = egptr'
            \/ egptr' >= put_back_len /\ arrived' - egptr' <= high' - put_back_len
        <4>1. CASE arrived = egptr
          BY <3>4, <4>1
        <4>2. CASE egptr >= put_back_len /\ arrived - egptr <= high - put_back_len
          <5>1. arrived - egptr <= high' - put_back_len
            <6>1. arrived - egptr \in Int /\ high \in Int /\ put_back_len \in Int
              BY <1>1
            <6>2. high' \in Int /\ high <= high'
              BY <1>1, <3>3, <3>4
            <6> QED BY <4>2, <6>1, <6>2
          <5> QED BY <3>4, <4>2, <5>1
        <4> QED BY <3>2, <4>1, <4>2
      <3> QED BY <3>3, <3>4, <3>5 DEF Reach
    <2> QED BY <1>1, <1>2, <2>1, <2>2, <2>3, <2>4, <2>5 DEF IInv, Get, Larger
  <1>3. CASE gptr >= egptr /\ Underflow(taken)
    <2>1. gptr = egptr /\ Pos = arrived
      BY <1>1, <1>3 DEF Pos
    <2>2. high' = Larger(high, Pos')
      BY DEF Get
    <2>3. ASSUME NEW n \in 1..Smaller(Space, ResponseLen - arrived),
                 /\ ~exhausted
                 /\ buffer' = FillBuffer(n)
                 /\ eback' = 0 /\ gptr' = Start + taken /\ egptr' = Start + n
                 /\ arrived' = arrived + n
                 /\ out' = arrived + 1
                 /\ UNCHANGED exhausted
          PROVE  /\ IInv'
                 /\ arrived' \in arrived..ResponseLen
                 /\ out' = IF Pos < arrived' THEN Pos + 1 ELSE Eof
                 /\ Pos' = IF out' = Eof THEN Pos ELSE Pos + taken
      <3>1. IInv' /\ Pos' = Pos + taken
        BY <2>1, <2>2, <2>3, FillIInv
      <3>2. n \in Nat \ {0} /\ arrived + n <= ResponseLen
        BY <1>1 DEF Smaller, Space, Start
      <3> QED BY <1>1, <2>1, <2>3, <3>1, <3>2 DEF Eof
    <2>4. CASE /\ buffer' = Kept /\ out' = Eof /\ exhausted' = TRUE
               /\ UNCHANGED <<eback, gptr, egptr, arrived>>
      <3>1. Pos' = Pos /\ high' = high
        BY <1>1, <2>2, <2>4 DEF Pos, Larger
      <3>2. GetAreaInBuffer'
        BY <2>4, <3>1, KeptType DEF IInv, GetAreaInBuffer
      <3>3. WindowOnResponse' /\ Reach'
        BY <2>1, <2>4, <3>1 DEF IInv, WindowOnResponse, Reach
      <3> QED BY <1>1, <2>1, <2>4, <3>1, <3>2, <3>3 DEF IInv, Eof
    <2> QED BY <1>1, <1>3, <2>2, <2>3, <2>4 DEF Underflow, Larger
  <1> QED BY <1>2, <1>3 DEF Get

\* The put-back: the invariant, and the step of the stream.
LEMMA UngetStep ==
  ASSUME IInv, ~PutsBackAtEof, sungetc
  PROVE  IInv' /\ Stream!Unget
  <1> USE Lengths, LensAssumption
  <1>1. /\ arrived \in Nat /\ high \in Nat /\ egptr \in Nat /\ gptr \in Nat
        /\ eback \in {0, Size} /\ eback <= gptr /\ high <= arrived
        /\ arrived <= ResponseLen /\ gptr <= egptr /\ Pos \in Nat
        /\ Pos > 0 /\ Pos <= high /\ ~exhausted
    BY DEF sungetc, IInv, GetAreaInBuffer, Reach, Pos
  <1>2. eback = 0
    BY <1>1 DEF IInv, Reach
  <1>3. /\ UNCHANGED <<buffer, eback, egptr, arrived, exhausted, high>>
        /\ Stream!Eof = Eof
    BY DEF sungetc, Stream!Eof, Eof
  <1>4. CASE eback < gptr
    <2>1. gptr' = gptr - 1 /\ out' = buffer[gptr - 1]
      BY <1>4 DEF sungetc
    <2>2. Pos' = Pos - 1
      BY <1>1, <1>3, <2>1 DEF Pos
    <2>3. gptr - 1 \in eback..(egptr - 1) /\ arrived - egptr + (gptr - 1) = Pos - 1
      BY <1>1, <1>2, <1>4 DEF Pos
    <2>4. out' = Pos
      BY <1>1, <2>1, <2>3 DEF IInv, WindowOnResponse
    <2>5. IInv'
      BY <1>1, <1>2, <1>3, <1>4, <2>1, <2>2, <2>4 DEF IInv, GetAreaInBuffer, WindowOnResponse, Reach
    <2> QED BY <1>1, <1>3, <2>2, <2>4, <2>5 DEF Stream!Unget
  <1>5. CASE ~(eback < gptr)
    <2>1. out' = Eof /\ gptr' = gptr /\ gptr = 0
      BY <1>1, <1>2, <1>5 DEF sungetc
    <2>2. Pos' = Pos /\ Pos = arrived - egptr
      BY <1>1, <1>3, <2>1 DEF Pos
    <2>3. high - Pos >= put_back_len
      BY <1>1, <1>2, <2>2 DEF IInv, Reach
    <2>4. IInv'
      BY <1>1, <1>3, <2>1, <2>2 DEF IInv, GetAreaInBuffer, WindowOnResponse, Reach
    <2> QED BY <1>1, <1>3, <2>1, <2>2, <2>3, <2>4 DEF Stream!Unget
  <1> QED BY <1>4, <1>5

\* Every step of the streambuf preserves the invariant and is a step of the stream.
LEMMA NextStep ==
  ASSUME IInv, ~Wants, ~PutsBackAtEof, [StreambufNext]_streambuf
  PROVE  IInv' /\ [Stream!Next]_Stream!vars
  <1>1. Pos \in Int /\ high \in Int
    BY LensAssumption, Lengths DEF IInv, GetAreaInBuffer, Pos
  <1>2. CASE sgetc
    <2>1. /\ IInv'
          /\ arrived' \in arrived..ResponseLen
          /\ out' = IF Pos < arrived' THEN Pos + 1 ELSE Eof
          /\ Pos' = Pos
          /\ high' = IF high < Pos' THEN Pos' ELSE high
      BY <1>1, <1>2, GetStep DEF sgetc
    <2>2. high' = high
      BY <1>1, <2>1 DEF IInv, Reach
    <2> QED BY <2>1, <2>2 DEF Stream!Next, Stream!Peek, Stream!Look, Stream!Eof, Eof
  <1>3. CASE sbumpc
    BY <1>3, GetStep DEF sbumpc, Stream!Next, Stream!Take, Stream!Look, Stream!Eof, Eof
  <1>4. CASE sungetc
    BY <1>4, UngetStep DEF Stream!Next
  <1>5. CASE UNCHANGED streambuf
    BY <1>5 DEF streambuf, IInv, GetAreaInBuffer, WindowOnResponse, Reach, Pos, Stream!vars
  <1> QED BY <1>2, <1>3, <1>4, <1>5 DEF StreambufNext

\* The invariant holds always.
LEMMA Invariance ==
  ASSUME ~Wants, ~PutsBackAtEof
  PROVE  StreambufSpec => []IInv
  <1>1. IInv /\ [StreambufNext]_streambuf => IInv'
    BY NextStep
  <1> QED BY <1>1, InitIInv, PTL DEF StreambufSpec

-----------------------------------------------------------------------------
\* The get area never leaves the buffer, and conn.read() is never offered more room
\* than there is.
THEOREM GetAreaAlwaysInBuffer ==
  ASSUME ~Wants, ~PutsBackAtEof
  PROVE  StreambufSpec => []GetAreaInBuffer
  <1>1. IInv => GetAreaInBuffer
    BY DEF IInv
  <1> QED BY <1>1, Invariance, PTL

\* The get area is a window on the response, whatever the reads return and however
\* the fills and the put-backs alternate.
THEOREM WindowAlwaysOnResponse ==
  ASSUME ~Wants, ~PutsBackAtEof
  PROVE  StreambufSpec => []WindowOnResponse
  <1>1. IInv => WindowOnResponse
    BY DEF IInv
  <1> QED BY <1>1, Invariance, PTL

\* The streambuf implements the byte stream: initial states are the stream's, and
\* every step is a step of the stream or changes none of its variables.
THEOREM ImplementsStream ==
  ASSUME ~Wants, ~PutsBackAtEof
  PROVE  StreambufSpec => StreamSpec
  <1>1. StreambufInit => Stream!Init
    BY Lengths DEF StreambufInit, Stream!Init, Stream!Eof, Eof, Pos
  <1>2. IInv /\ [StreambufNext]_streambuf => [Stream!Next]_Stream!vars
    BY NextStep
  <1> QED BY <1>1, <1>2, Invariance, PTL DEF StreambufSpec, StreamSpec, Stream!Spec
=============================================================================
