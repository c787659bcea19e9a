--------------------------- MODULE JsonStrings_proofs ---------------------------
(***************************************************************************)
(* What the writers of strings write, the readers read: whatever its bytes *)
(* are, a string goes unchanged from picojson to itself and, exactly if it *)
(* is UTF-8, to the Parser; ValidateUTF8() is the table of UTF-8.          *)
(*                                                                         *)
(* It begins with the induction over the numbers that these proofs share   *)
(* with those of the other recursive functions.  Each fact is about sets   *)
(* and functions and takes no operator: the algorithms go through a text   *)
(* from 1 to its length, the Verifier through depths; both are iterations  *)
(* f[i] = step[f[i - 1], i].                                               *)
(***************************************************************************)
EXTENDS JsonStrings, SequenceTheorems, FiniteSetTheorems, WellFoundedInduction, TLAPS

Below == {p \in Nat \X Nat : p[1] < p[2]}

\* A set of numbers has a least one.
LEMMA LeastNumber ==
  ASSUME NEW T, T \subseteq Nat, T # {}
  PROVE  \E n \in T : \A m \in T : n <= m
  <1>1. IsWellFoundedOn(Below, Nat)
    BY NatLessThanWellFounded DEF OpToRel, Below
  <1>2. \E x \in T : \A y \in T : ~(<<y, x>> \in Below)
    BY <1>1, WFMin
  <1>3. ASSUME NEW y \in Nat, NEW x \in Nat, y < x PROVE <<y, x>> \in Below
    BY <1>3 DEF Below
  <1> HIDE DEF Below
  <1>4. PICK n \in T : \A y \in T : ~(<<y, n>> \in Below)
    BY <1>2
  <1>5. ASSUME NEW m \in T PROVE n <= m
    <2>1. n \in Nat /\ m \in Nat /\ ~(m < n)
      BY <1>3, <1>4
    <2> QED BY <2>1
  <1> QED BY <1>5

\* What holds at 0 and passes from each number to the next holds up to n.
LEMMA UpTo ==
  ASSUME NEW n \in Nat, NEW S, 0 \in S, \A i \in 0..(n - 1) : i \in S => i + 1 \in S
  PROVE  0..n \subseteq S
  <1> DEFINE T == {i \in Nat : i <= n /\ i \notin S}
  <1>1. SUFFICES ASSUME T # {} PROVE FALSE
    OBVIOUS
  <1>2. PICK m \in T : \A k \in T : m <= k
    BY <1>1, LeastNumber
  <1>3. m \in Nat /\ m <= n /\ m \notin S /\ m # 0
    BY <1>2
  <1>4. m - 1 \in 0..(n - 1) /\ m - 1 \notin T
    BY <1>2, <1>3
  <1>5. m - 1 \in S
    BY <1>3, <1>4
  <1> QED BY <1>3, <1>4, <1>5

\* Two functions that agree at 0 and, where they agree, at the next number.
LEMMA Agreement ==
  ASSUME NEW n \in Nat, NEW f, NEW g, f[0] = g[0],
         \A i \in 0..(n - 1) : f[i] = g[i] => f[i + 1] = g[i + 1]
  PROVE  \A i \in 0..n : f[i] = g[i]
  <1> DEFINE S == {i \in 0..n : f[i] = g[i]}
  <1>1. 0 \in S /\ \A i \in 0..(n - 1) : i \in S => i + 1 \in S
    OBVIOUS
  <1>2. 0..n \subseteq S
    BY <1>1, UpTo
  <1> QED BY <1>2

\* The iteration of step on base, n times; does step stay in S?
Iterates(f, n, base, step) == f[0] = base /\ \A i \in 1..n : f[i] = step[<<f[i - 1], i>>]
StaysIn(S, n, step) == \A r \in S, i \in 1..n : step[<<r, i>>] \in S

\* An iteration exists.
LEMMA Iteration ==
  ASSUME NEW n \in Nat, NEW S, NEW base \in S, NEW step, StaysIn(S, n, step)
  PROVE  \E f \in [0..n -> S] : Iterates(f, n, base, step)
  <1> USE DEF StaysIn, Iterates
  <1> DEFINE Solves(f, k) == f[0] = base /\ \A i \in 1..k : f[i] = step[<<f[i - 1], i>>]
             R == {k \in 0..n : \E f \in [0..k -> S] : Solves(f, k)}
  <1>1. 0 \in R
    <2> DEFINE f == [i \in 0..0 |-> base]
    <2>1. f \in [0..0 -> S] /\ Solves(f, 0)
      OBVIOUS
    <2> HIDE DEF f, Solves
    <2>2. \E h \in [0..0 -> S] : Solves(h, 0)
      BY <2>1
    <2> QED BY <2>2
  <1>2. ASSUME NEW k \in 0..(n - 1), k \in R PROVE k + 1 \in R
    <2>1. PICK f \in [0..k -> S] : Solves(f, k)
      BY <1>2
    <2> DEFINE g == [i \in 0..(k + 1) |-> IF i = k + 1 THEN step[<<f[k], k + 1>>] ELSE f[i]]
    <2>2. f[k] \in S /\ k + 1 \in 1..n
      OBVIOUS
    <2>3. step[<<f[k], k + 1>>] \in S
      BY <2>2
    <2>4. g \in [0..(k + 1) -> S]
      BY <2>3
    <2>5. ASSUME NEW i \in 1..(k + 1) PROVE g[i] = step[<<g[i - 1], i>>]
      <3>1. CASE i = k + 1
        <4>1. g[k + 1] = step[<<f[k], k + 1>>] /\ g[k] = f[k] /\ (k + 1) - 1 = k
          OBVIOUS
        <4> QED BY <3>1, <4>1
      <3>2. CASE i # k + 1
        <4>1. i \in 1..k /\ g[i] = f[i] /\ g[i - 1] = f[i - 1]
          BY <3>2
        <4> QED BY <2>1, <4>1
      <3> QED BY <3>1, <3>2
    <2>6. g[0] = base
      BY <2>1
    <2>7. Solves(g, k + 1)
      BY <2>5, <2>6
    <2> HIDE DEF g, Solves
    <2>8. \E h \in [0..(k + 1) -> S] : Solves(h, k + 1)
      BY <2>4, <2>7
    <2> QED BY <2>8
  <1>3. n \in R
    <2> HIDE DEF R
    <2>1. 0..n \subseteq R
      BY <1>1, <1>2, UpTo
    <2> QED BY <2>1
  <1> QED BY <1>3

\* What is at which place of two texts put together, and a part of a text.
Joins(u, s, t, m, n) ==
  /\ Len(u) = m + n
  /\ \A i \in 1..m : u[i] = s[i]
  /\ \A i \in 1..n : u[m + i] = t[i]

LEMMA PutTogether ==
  ASSUME NEW V, NEW s \in Seq(V), NEW t \in Seq(V)
  PROVE  Joins(s \o t, s, t, Len(s), Len(t))
  <1> DEFINE m == Len(s)
             n == Len(t)
  <1>1. m \in Nat /\ n \in Nat
    BY LenProperties
  <1>2. /\ Len(s \o t) = m + n
        /\ \A i \in 1..(m + n) : (s \o t)[i] = IF i <= m THEN s[i] ELSE t[i - m]
    BY ConcatProperties, Zenon
  <1> HIDE DEF m, n
  <1>3. ASSUME NEW i \in 1..m PROVE (s \o t)[i] = s[i]
    <2>1. i \in 1..(m + n) /\ i <= m
      BY <1>1
    <2> QED BY <1>2, <2>1, Zenon
  <1>4. ASSUME NEW i \in 1..n PROVE (s \o t)[m + i] = t[i]
    <2>1. m + i \in 1..(m + n) /\ ~(m + i <= m) /\ (m + i) - m = i
      BY <1>1
    <2> QED BY <1>2, <2>1, Zenon
  <1>5. Joins(s \o t, s, t, m, n)
    BY <1>2, <1>3, <1>4, Zenon DEF Joins
  <1> QED BY <1>5, Zenon DEF m, n

LEMMA PartIs ==
  ASSUME NEW V, NEW t \in Seq(V), NEW v \in Seq(V), NEW m \in Nat, NEW n, n = Len(v),
         m + n <= Len(t), \A i \in 1..n : t[m + i] = v[i]
  PROVE  SubSeq(t, m + 1, m + n) = v
  <1>1. n \in Nat /\ Len(t) \in Nat
    BY LenProperties
  <1> DEFINE s == SubSeq(t, m + 1, m + n)
  <1>2. \A i \in (m + 1)..(m + n) : t[i] \in V
    <2> SUFFICES ASSUME NEW i \in (m + 1)..(m + n) PROVE t[i] \in V
      OBVIOUS
    <2>1. i \in 1..Len(t)
      BY <1>1
    <2> QED BY <2>1, ElementOfSeq
  <1>3. m + 1 \in Int /\ m + n \in Int /\ (m + n) - (m + 1) + 1 = n
    BY <1>1
  <1>4. /\ s \in Seq(V) /\ Len(s) = IF m + 1 <= m + n THEN (m + n) - (m + 1) + 1 ELSE 0
        /\ \A i \in 1..((m + n) - (m + 1) + 1) : s[i] = t[(m + 1) + i - 1]
    BY <1>2, <1>3, SubSeqProperties
  <1>5. Len(s) = n
    BY <1>1, <1>4
  <1>6. ASSUME NEW i \in 1..n PROVE s[i] = v[i]
    <2>1. (m + 1) + i - 1 = m + i
      BY <1>1
    <2> QED BY <1>3, <1>4, <2>1, Zenon
  <1> HIDE DEF s
  <1>7. s = v
    BY <1>4, <1>5, <1>6, SeqEqual
  <1> QED BY <1>7 DEF s

Associates(a, b, c) == (a \o b) \o c = a \o (b \o c)

LEMMA Associative ==
  ASSUME NEW V, NEW a \in Seq(V), NEW b \in Seq(V), NEW c \in Seq(V)
  PROVE  Associates(a, b, c)
  BY DEF Associates

-----------------------------------------------------------------------------
(***************************************************************************)
(* Reading: the two readers of strings, one byte after another.            *)
(***************************************************************************)
Who == {"flatbuffers", "picojson"}
Step(who, r, c) == IF who = "flatbuffers" THEN next_char(r, c) ELSE parse_char(r, c)

\* The reader who is led from r to q by the text u.
Follows(f, who, r, u) ==
  /\ f[0] = r
  /\ \A i \in 1..Len(u) : f[i] = Step(who, f[i - 1], u[i])
Turns(who, r, u, q) == \E f : Follows(f, who, r, u) /\ f[Len(u)] = q

\* Nothing leads a reader nowhere.
LEMMA TurnsNothing ==
  ASSUME NEW who, NEW r
  PROVE  Turns(who, r, <<>>, r)
  <1> DEFINE f == [i \in 0..0 |-> r]
  <1>1. Len(<<>>) = 0 /\ 1..0 = {} /\ f[0] = r
    OBVIOUS
  <1> HIDE DEF f
  <1>2. Follows(f, who, r, <<>>) /\ f[Len(<<>>)] = r
    BY <1>1, Zenon DEF Follows
  <1> QED BY <1>2, Zenon DEF Turns

\* One byte leads it one step.
LEMMA TurnsOne ==
  ASSUME NEW who, NEW r, NEW c
  PROVE  Turns(who, r, <<c>>, Step(who, r, c))
  <1> DEFINE q == Step(who, r, c)
             f == [i \in 0..1 |-> IF i = 0 THEN r ELSE q]
             u == <<c>>
  <1> HIDE DEF q
  <1>1. Len(u) = 1 /\ u[1] = c /\ 1..1 = {1} /\ 1 - 1 = 0 /\ f[0] = r /\ f[1] = q
    OBVIOUS
  <1> HIDE DEF f, u
  <1>2. \A i \in 1..1 : f[i] = Step(who, f[i - 1], u[i])
    <2> SUFFICES ASSUME NEW i \in 1..1 PROVE f[i] = Step(who, f[i - 1], u[i])
      OBVIOUS
    <2>1. i = 1
      BY <1>1
    <2> QED BY <1>1, <2>1, Zenon DEF q
  <1>3. Follows(f, who, r, u) /\ f[Len(u)] = q
    BY <1>1, <1>2, Zenon DEF Follows
  <1> QED BY <1>3, Zenon DEF Turns, q, u

\* Two texts, one after the other, lead it through where the first does.
LEMMA TurnsThrough ==
  ASSUME NEW who, NEW V, NEW u \in Seq(V), NEW v \in Seq(V), NEW r, NEW q, NEW p,
         Turns(who, r, u, q), Turns(who, q, v, p)
  PROVE  Turns(who, r, u \o v, p)
  <1>1. PICK f : Follows(f, who, r, u) /\ f[Len(u)] = q
    BY Zenon DEF Turns
  <1>2. PICK g : Follows(g, who, q, v) /\ g[Len(v)] = p
    BY Zenon DEF Turns
  <1> DEFINE m == Len(u)
             n == Len(v)
             t == u \o v
             h == [i \in 0..(m + n) |-> IF i <= m THEN f[i] ELSE g[i - m]]
  <1>3. m \in Nat /\ n \in Nat
    BY LenProperties
  <1>4. Joins(t, u, v, m, n)
    BY PutTogether, Zenon
  <1> HIDE DEF m, n, t
  <1>5. \A i \in 0..m : h[i] = f[i]
    BY <1>3
  <1>6. \A i \in 1..n : h[m + i] = g[i]
    <2> SUFFICES ASSUME NEW i \in 1..n PROVE h[m + i] = g[i]
      OBVIOUS
    <2>1. m + i \in 0..(m + n) /\ ~(m + i <= m) /\ (m + i) - m = i
      BY <1>3
    <2> QED BY <2>1, Zenon
  <1>7. h[m] = q /\ f[m] = q /\ g[0] = q
    BY <1>1, <1>2, <1>3, <1>5 DEF Follows, m
  <1>8. \A i \in 0..n : h[m + i] = g[i]
    <2> SUFFICES ASSUME NEW i \in 0..n PROVE h[m + i] = g[i]
      OBVIOUS
    <2>1. CASE i = 0
      <3>1. m + 0 = m
        BY <1>3
      <3> QED BY <1>7, <2>1, <3>1, Zenon
    <2>2. CASE i # 0
      <3>1. i \in 1..n
        BY <1>3, <2>2
      <3> QED BY <1>6, <3>1, Zenon
    <2> QED BY <2>1, <2>2
  <1> HIDE DEF h
  <1>9. \A i \in 1..(m + n) : h[i] = Step(who, h[i - 1], t[i])
    <2> SUFFICES ASSUME NEW i \in 1..(m + n) PROVE h[i] = Step(who, h[i - 1], t[i])
      OBVIOUS
    <2>1. CASE i <= m
      <3>1. i \in 1..m /\ i \in 0..m /\ i - 1 \in 0..m
        BY <1>3, <2>1
      <3>2. f[i] = Step(who, f[i - 1], u[i])
        BY <1>1, <3>1, Zenon DEF Follows, m
      <3> QED BY <1>4, <1>5, <3>1, <3>2, Zenon DEF Joins
    <2>2. CASE ~(i <= m)
      <3> DEFINE j == i - m
      <3>1. j \in 1..n /\ j \in 0..n /\ j - 1 \in 0..n /\ i = m + j /\ i - 1 = m + (j - 1)
        BY <1>3, <2>2
      <3> HIDE DEF j
      <3>2. g[j] = Step(who, g[j - 1], v[j])
        BY <1>2, <3>1, Zenon DEF Follows, n
      <3>3. t[m + j] = v[j]
        BY <1>4, <3>1, Zenon DEF Joins
      <3> QED BY <1>8, <3>1, <3>2, <3>3, Zenon
    <2> QED BY <2>1, <2>2
  <1>10. h[0] = r
    <2>1. 0 \in 0..m
      BY <1>3
    <2> QED BY <1>1, <1>5, <2>1, Zenon DEF Follows
  <1>11. h[m + n] = p
    <2>1. n \in 0..n
      BY <1>3
    <2> QED BY <1>2, <1>8, <2>1, Zenon DEF n
  <1>12. Len(t) = m + n
    BY <1>4, Zenon DEF Joins
  <1>13. Follows(h, who, r, t) /\ h[Len(t)] = p
    BY <1>9, <1>10, <1>11, <1>12, Zenon DEF Follows
  <1> QED BY <1>13, Zenon DEF Turns, t

\* What the two readers return.
Answer(who, q) == IF who = "flatbuffers" THEN Constant(q) ELSE Parsed(q)
ReadBy(who, text) == IF who = "flatbuffers" THEN ReadString(text) ELSE parse_string(text)

\* What a reader answers of a text is what it answers where the text leads it from the start.
LEMMA ReadIs ==
  ASSUME NEW who \in Who, NEW V, NEW text \in Seq(V), NEW q, Turns(who, Reader, text, q)
  PROVE  ReadBy(who, text) = Answer(who, q)
  <1>1. PICK f : Follows(f, who, Reader, text) /\ f[Len(text)] = q
    BY Zenon DEF Turns
  <1> DEFINE n == Len(text)
             Solves(h) == h = [i \in 0..n |-> IF i = 0 THEN Reader ELSE Step(who, h[i - 1], text[i])]
             g == [i \in 0..n |-> f[i]]
             read == CHOOSE h : Solves(h)
  <1>2. n \in Nat
    BY LenProperties
  <1>3. Solves(g)
    <2>1. ASSUME NEW i \in 0..n
          PROVE  f[i] = IF i = 0 THEN Reader ELSE Step(who, g[i - 1], text[i])
      <3>1. CASE i = 0
        BY <1>1, <3>1, Zenon DEF Follows
      <3>2. CASE i # 0
        <4>1. i \in 1..n /\ i - 1 \in 0..n
          BY <1>2, <3>2
        <4>2. g[i - 1] = f[i - 1]
          BY <4>1
        <4> QED BY <1>1, <3>2, <4>1, <4>2, Zenon DEF Follows
      <3> QED BY <3>1, <3>2
    <2> QED BY <2>1, Zenon
  <1>4. Solves(read)
    BY <1>3, Zenon
  <1>5. ReadBy(who, text) = Answer(who, read[n])
    <2>1. CASE who = "flatbuffers"
      <3> DEFINE by == CHOOSE h : h = [i \in 0..n |-> IF i = 0 THEN Reader ELSE next_char(h[i - 1], text[i])]
      <3>1. read = by
        BY <2>1, Zenon DEF Step
      <3>2. ReadString(text) = Constant(by[n])
        BY DEF ReadString
      <3> HIDE DEF by, read, n
      <3> QED BY <2>1, <3>1, <3>2, Zenon DEF ReadBy, Answer
    <2>2. CASE who = "picojson"
      <3> DEFINE by == CHOOSE h : h = [i \in 0..n |-> IF i = 0 THEN Reader ELSE parse_char(h[i - 1], text[i])]
      <3>1. read = by
        <4>1. who # "flatbuffers"
          BY <2>2
        <4> QED BY <4>1, Zenon DEF Step
      <3>2. parse_string(text) = Parsed(by[n])
        BY DEF parse_string
      <3>3. who # "flatbuffers"
        BY <2>2
      <3> HIDE DEF by, read, n
      <3> QED BY <3>1, <3>2, <3>3, Zenon DEF ReadBy, Answer
    <2> QED BY <2>1, <2>2 DEF Who
  <1> HIDE DEF read, n
  <1>6. read[0] = Reader /\ \A i \in 1..n : read[i] = Step(who, read[i - 1], text[i])
    BY <1>2, <1>4
  <1>7. \A i \in 0..n : f[i] = read[i]
    <2>1. f[0] = read[0]
      BY <1>1, <1>6, Zenon DEF Follows
    <2>2. \A i \in 0..(n - 1) : f[i] = read[i] => f[i + 1] = read[i + 1]
      <3> SUFFICES ASSUME NEW i \in 0..(n - 1), f[i] = read[i] PROVE f[i + 1] = read[i + 1]
        OBVIOUS
      <3>1. i + 1 \in 1..n /\ (i + 1) - 1 = i
        BY <1>2
      <3>2. f[i + 1] = Step(who, f[(i + 1) - 1], text[i + 1])
        BY <1>1, <3>1, Zenon DEF Follows, n
      <3>3. read[i + 1] = Step(who, read[(i + 1) - 1], text[i + 1])
        BY <1>6, <3>1, Zenon
      <3> QED BY <3>1, <3>2, <3>3, Zenon
    <2> QED BY <1>2, <2>1, <2>2, Agreement, Zenon
  <1>8. read[n] = q
    <2>1. n \in 0..n
      BY <1>2
    <2> QED BY <1>1, <1>7, <2>1, Zenon DEF n
  <1> QED BY <1>5, <1>8, Zenon

-----------------------------------------------------------------------------
(***************************************************************************)
(* What a reader makes of the pieces that the writers write.               *)
(***************************************************************************)
Modes == {"plain", "escape", "hex", "low", "low_u", "done", "error"}
Words == Seq(Int)
StringReaders ==
        [mode : Modes, out : Words, digits : Int, val : Int, high : Int, x : BOOLEAN]

\* A reader between two pieces, and one at the end.
Ready(r) == r \in StringReaders /\ r.mode = "plain" /\ r.high = Corrupt
Conveys(who, u, w) ==
  \A r : Ready(r) => \E q : Turns(who, r, u, q) /\ Ready(q) /\ q.out = r.out \o w

\* What FromUTF8() returns for a corrupt sequence is no code point.
LEMMA CorruptIs == Corrupt \in Int /\ Corrupt < 0
  BY DEF Corrupt

\* A reader is ready before it reads.
LEMMA ReaderReady == Ready(Reader) /\ Reader.out = <<>>
  <1> DEFINE none == <<>>
  <1>1. none \in Words
    BY DEF Words
  <1>2. Reader = [mode |-> "plain", out |-> none, digits |-> 0, val |-> 0, high |-> Corrupt, x |-> FALSE]
    BY Zenon DEF Reader
  <1> HIDE DEF none
  <1>3. Reader \in StringReaders
    BY <1>1, <1>2, CorruptIs DEF StringReaders, Modes
  <1>4. Reader.mode = "plain" /\ Reader.high = Corrupt /\ Reader.out = none
    BY <1>2
  <1> QED BY <1>3, <1>4, Zenon DEF Ready, none

\* It is ready again after it appended a text.
LEMMA TookReady ==
  ASSUME NEW r \in StringReaders, r.high = Corrupt, NEW w \in Words
  PROVE  Ready(Took(r, w)) /\ Took(r, w).out = r.out \o w
  <1> DEFINE o == r.out \o w
  <1>1. o \in Words
    <2>1. r.out \in Words
      BY DEF StringReaders
    <2> QED BY <2>1, ConcatProperties, Zenon DEF Words
  <1>2. Took(r, w) = [[r EXCEPT !.out = o] EXCEPT !.mode = "plain"]
    BY DEF Took, StringReaders
  <1> HIDE DEF o
  <1>3. [[r EXCEPT !.out = o] EXCEPT !.mode = "plain"] \in StringReaders
    BY <1>1 DEF StringReaders, Modes
  <1>4. /\ [[r EXCEPT !.out = o] EXCEPT !.mode = "plain"].mode = "plain"
        /\ [[r EXCEPT !.out = o] EXCEPT !.mode = "plain"].high = Corrupt
        /\ [[r EXCEPT !.out = o] EXCEPT !.mode = "plain"].out = o
    BY DEF StringReaders
  <1> QED BY <1>2, <1>3, <1>4, Zenon DEF Ready, o

\* The characters that stand for themselves.
Themselves == {c \in 32..255 : c # Quote /\ c # Backslash}

\* A byte that stands for itself is appended.
LEMMA PlainStep ==
  ASSUME NEW who \in Who, NEW r, Ready(r), NEW c \in Themselves
  PROVE  Step(who, r, c) = Took(r, <<c>>)
  <1>1. r.mode = "plain" /\ ~(c < 32) /\ c # Quote /\ c # Backslash /\ r.high = Corrupt
    BY DEF Ready, Themselves
  <1>2. next_char(r, c) = Took(r, <<c>>)
    BY <1>1 DEF next_char
  <1>3. parse_char(r, c) = Took(r, <<c>>)
    BY <1>1 DEF parse_char
  <1> QED BY <1>2, <1>3, Zenon DEF Step

\* So its text conveys it.
LEMMA PlainConveys ==
  ASSUME NEW who \in Who, NEW c \in Themselves
  PROVE  Conveys(who, <<c>>, <<c>>)
  <1>1. <<c>> \in Words
    BY DEF Themselves, Words
  <1> SUFFICES ASSUME NEW r, Ready(r)
               PROVE  \E q : Turns(who, r, <<c>>, q) /\ Ready(q) /\ q.out = r.out \o <<c>>
    BY Zenon DEF Conveys
  <1> DEFINE u == <<c>>
             q == Took(r, u)
  <1> HIDE DEF u
  <1>2. Turns(who, r, u, q)
    BY PlainStep, TurnsOne, Zenon DEF u
  <1>3. Ready(q) /\ q.out = r.out \o u
    <2>1. r \in StringReaders /\ r.high = Corrupt
      BY Zenon DEF Ready
    <2> QED BY <1>1, <2>1, TookReady, Zenon DEF u
  <1> HIDE DEF q
  <1> QED BY <1>2, <1>3, Zenon DEF u

\* What conveys two texts, one after the other, conveys them put together.
LEMMA ConveysBoth ==
  ASSUME NEW who, NEW u \in Words, NEW v \in Words, NEW a \in Words, NEW b \in Words,
         Conveys(who, u, a), Conveys(who, v, b)
  PROVE  Conveys(who, u \o v, a \o b)
  <1> SUFFICES ASSUME NEW r, Ready(r)
               PROVE  \E q : Turns(who, r, u \o v, q) /\ Ready(q) /\ q.out = r.out \o (a \o b)
    BY Zenon DEF Conveys
  <1>1. PICK p : Turns(who, r, u, p) /\ Ready(p) /\ p.out = r.out \o a
    BY Zenon DEF Conveys
  <1>2. PICK q : Turns(who, p, v, q) /\ Ready(q) /\ q.out = p.out \o b
    BY <1>1, Zenon DEF Conveys
  <1>3. Turns(who, r, u \o v, q)
    BY <1>1, <1>2, TurnsThrough, Zenon DEF Words
  <1>4. r.out \in Words
    BY DEF Ready, StringReaders
  <1>5. Associates(r.out, a, b)
    BY <1>4, Associative, Zenon DEF Words
  <1>6. q.out = r.out \o (a \o b)
    BY <1>1, <1>2, <1>5, Zenon DEF Associates
  <1> QED BY <1>2, <1>3, <1>6, Zenon

\* Nothing conveys nothing.
LEMMA NothingConveys ==
  ASSUME NEW who
  PROVE  Conveys(who, <<>>, <<>>)
  <1> SUFFICES ASSUME NEW r, Ready(r)
               PROVE  \E q : Turns(who, r, <<>>, q) /\ Ready(q) /\ q.out = r.out \o <<>>
    BY Zenon DEF Conveys
  <1>1. r.out \in Words
    BY DEF Ready, StringReaders
  <1>2. r.out \o <<>> = r.out
    BY <1>1, ConcatEmptySeq, Zenon DEF Words
  <1> QED BY <1>2, TurnsNothing, Zenon

\* The quote at the end.
LEMMA ClosedIsRead ==
  ASSUME NEW who \in Who, NEW u \in Words, NEW w \in Words, Conveys(who, u, w)
  PROVE  ReadBy(who, u \o <<Quote>>)
           = [ok |-> who = "flatbuffers" => ValidateUTF8(w), out |-> w]
  <1> DEFINE q == <<Quote>>
  <1>1. PICK p : Turns(who, Reader, u, p) /\ Ready(p) /\ p.out = Reader.out \o w
    BY ReaderReady, Zenon DEF Conveys
  <1>2. p.out = w
    BY <1>1, ReaderReady, ConcatEmptySeq, Zenon DEF Words
  <1> DEFINE r == [p EXCEPT !.mode = "done"]
  <1>3. Step(who, p, Quote) = r
    <2>1. p.mode = "plain" /\ p.high = Corrupt
      BY <1>1, Zenon DEF Ready
    <2>2. next_char(p, Quote) = r
      BY <2>1 DEF next_char, Quote, Backslash
    <2>3. parse_char(p, Quote) = r
      BY <2>1 DEF parse_char, Quote, Backslash
    <2> QED BY <2>2, <2>3, Zenon DEF Step
  <1>4. r.mode = "done" /\ r.out = w
    BY <1>1, <1>2 DEF Ready, StringReaders
  <1>5. q \in Words
    BY DEF Quote, Words
  <1> HIDE DEF q, r
  <1>6. Turns(who, p, q, r)
    BY <1>3, TurnsOne, Zenon DEF q
  <1>7. Turns(who, Reader, u \o q, r)
    BY <1>1, <1>5, <1>6, TurnsThrough, Zenon DEF Words
  <1>8. ReadBy(who, u \o q) = Answer(who, r)
    BY <1>5, <1>7, ReadIs, ConcatProperties, Zenon DEF Words
  <1>9. Answer(who, r) = [ok |-> who = "flatbuffers" => ValidateUTF8(w), out |-> w]
    <2>1. CASE who = "flatbuffers"
      BY <1>4, <2>1, Zenon DEF Answer, Constant
    <2>2. CASE who # "flatbuffers"
      BY <1>4, <2>2, Zenon DEF Answer, Parsed
    <2> QED BY <2>1, <2>2
  <1> QED BY <1>8, <1>9, Zenon DEF q

\* Two bytes lead a reader two steps.
LEMMA TurnsTwo ==
  ASSUME NEW who, NEW r, NEW a \in Int, NEW b \in Int
  PROVE  Turns(who, r, <<a, b>>, Step(who, Step(who, r, a), b))
  <1>1. <<a>> \in Words /\ <<b>> \in Words /\ <<a, b>> = <<a>> \o <<b>>
    <2>1. <<a>> \in Words
      BY DEF Words
    <2>2. <<b>> \in Words
      BY DEF Words
    <2>3. <<a, b>> = <<a>> \o <<b>>
      <3> DEFINE u == <<a>>
                 v == <<b>>
                 w == <<a, b>>
      <3>1. Len(u) = 1 /\ Len(v) = 1 /\ u[1] = a /\ v[1] = b
        OBVIOUS
      <3>2. Joins(u \o v, u, v, 1, 1)
        <4> HIDE DEF u, v
        <4>1. Joins(u \o v, u, v, Len(u), Len(v)) /\ Len(u) = 1 /\ Len(v) = 1
          BY <2>1, <2>2, <3>1, PutTogether, Zenon DEF Words, u, v
        <4> QED BY <4>1, Zenon
      <3>3. u \o v \in Words
        BY <2>1, <2>2, ConcatProperties, Zenon DEF Words
      <3>4. w \in Words /\ Len(w) = 2 /\ w[1] = a /\ w[2] = b
        BY DEF Words
      <3> HIDE DEF u, v, w
      <3>5. Len(u \o v) = 2 /\ \A i \in 1..2 : (u \o v)[i] = w[i]
        BY <3>1, <3>2, <3>4 DEF Joins
      <3>6. w = u \o v
        BY <3>3, <3>4, <3>5, SeqEqual DEF Words
      <3> QED BY <3>6, Zenon DEF u, v, w
    <2> QED BY <2>1, <2>2, <2>3
  <1> DEFINE u == <<a>>
             v == <<b>>
             q == Step(who, r, a)
  <1>2. Turns(who, r, u, q) /\ Turns(who, q, v, Step(who, q, b))
    BY TurnsOne, Zenon
  <1> HIDE DEF u, v, q
  <1>3. Turns(who, r, u \o v, Step(who, q, b))
    BY <1>1, <1>2, TurnsThrough, Zenon DEF Words, u, v
  <1> QED BY <1>1, <1>3, Zenon DEF u, v, q

\* The escapes of one letter.
AllLetters == Letters \cup {<<39, 39>>, <<47, 47>>}
PicoLetters == Letters \cup {<<47, 47>>}

\* The letters picojson knows mean the same to the Parser, and neither is an escape in digits.
LEMMA LetterRead ==
  ASSUME NEW l \in PicoLetters
  PROVE  /\ l[1] \in Int /\ l[2] \in Int /\ l[1] \notin {117, 120}
         /\ Byte(AllLetters, l[1]) = l[2] /\ Byte(PicoLetters, l[1]) = l[2]
  <1>1. l \in AllLetters /\ PicoLetters \subseteq AllLetters
    BY DEF AllLetters, PicoLetters
  <1>2. l[1] \in Int /\ l[2] \in Int /\ l[1] \notin {117, 120}
    BY DEF PicoLetters, Letters, Quote, Backslash
  <1>3. ASSUME NEW m \in AllLetters, m[1] = l[1] PROVE m[2] = l[2]
    BY <1>3 DEF AllLetters, PicoLetters, Letters, Quote, Backslash
  <1> HIDE DEF AllLetters, PicoLetters
  <1>4. Byte(AllLetters, l[1]) = l[2]
    <2> DEFINE m == CHOOSE k \in AllLetters : k[1] = l[1]
    <2>1. m \in AllLetters /\ m[1] = l[1]
      BY <1>1, Zenon
    <2> HIDE DEF m
    <2>2. m[2] = l[2]
      BY <1>3, <2>1, Zenon
    <2> QED BY <2>2, Zenon DEF Byte, m
  <1>5. Byte(PicoLetters, l[1]) = l[2]
    <2> DEFINE m == CHOOSE k \in PicoLetters : k[1] = l[1]
    <2>1. m \in PicoLetters /\ m[1] = l[1]
      BY Zenon
    <2> HIDE DEF m
    <2>2. m[2] = l[2]
      BY <1>1, <1>3, <2>1, Zenon
    <2> QED BY <2>2, Zenon DEF Byte, m
  <1> QED BY <1>2, <1>4, <1>5, Zenon

\* After a backslash.
In(r, mode) == [r EXCEPT !.mode = mode]

\* A reader in another mode is a reader.
LEMMA InReader ==
  ASSUME NEW r \in StringReaders, NEW mode \in Modes
  PROVE  /\ In(r, mode) \in StringReaders /\ In(r, mode).mode = mode /\ In(r, mode).out = r.out
         /\ In(r, mode).high = r.high
  BY DEF In, StringReaders

\* A backslash begins an escape.
LEMMA BackslashStep ==
  ASSUME NEW who \in Who, NEW r, r.mode = "plain"
  PROVE  Step(who, r, Backslash) = In(r, "escape")
  <1>1. next_char(r, Backslash) = In(r, "escape")
    BY DEF next_char, In, Quote, Backslash
  <1>2. parse_char(r, Backslash) = In(r, "escape")
    BY DEF parse_char, In, Quote, Backslash
  <1> QED BY <1>1, <1>2, Zenon DEF Step

\* The letter after it is read as the byte it stands for.
LEMMA LetterStep ==
  ASSUME NEW who \in Who, NEW r, r.mode = "escape", r.high = Corrupt, NEW l \in PicoLetters
  PROVE  Step(who, r, l[1]) = Took(r, <<l[2]>>)
  <1>1. l[1] # 117 /\ l[1] # 120 /\ l \in AllLetters
    BY LetterRead DEF AllLetters, PicoLetters
  <1>2. next_char(r, l[1]) = Took(r, <<Byte(AllLetters, l[1])>>)
    <2> DEFINE c == l[1]
    <2>1. \E k \in AllLetters : k[1] = c
      BY <1>1, Zenon
    <2>2. c # 117 /\ c # 120
      BY <1>1, Zenon
    <2> HIDE DEF c
    <2>3. next_char(r, c) = IF \E k \in AllLetters : k[1] = c THEN Took(r, <<Byte(AllLetters, c)>>)
                            ELSE Fail(r)
      BY <2>2 DEF next_char, AllLetters
    <2> QED BY <2>1, <2>3, Zenon DEF c
  <1>3. parse_char(r, l[1]) = Took(r, <<Byte(PicoLetters, l[1])>>)
    <2> DEFINE c == l[1]
    <2>1. \E k \in PicoLetters : k[1] = c
      BY Zenon
    <2>2. c # 117
      BY <1>1, Zenon
    <2> HIDE DEF c
    <2>3. parse_char(r, c) = IF \E k \in PicoLetters : k[1] = c THEN Took(r, <<Byte(PicoLetters, c)>>)
                             ELSE Fail(r)
      BY <2>2 DEF parse_char, PicoLetters
    <2> QED BY <2>1, <2>3, Zenon DEF c
  <1> QED BY <1>2, <1>3, LetterRead, Zenon DEF Step

\* So the two convey that byte.
LEMMA LetterConveys ==
  ASSUME NEW who \in Who, NEW l \in PicoLetters
  PROVE  Conveys(who, <<Backslash, l[1]>>, <<l[2]>>)
  <1> SUFFICES ASSUME NEW r, Ready(r)
               PROVE  \E q : /\ Turns(who, r, <<Backslash, l[1]>>, q) /\ Ready(q)
                             /\ q.out = r.out \o <<l[2]>>
    BY Zenon DEF Conveys
  <1> DEFINE p == In(r, "escape")
             w == <<l[2]>>
             q == Took(p, w)
  <1>1. r \in StringReaders /\ r.mode = "plain" /\ r.high = Corrupt
    BY Zenon DEF Ready
  <1>2. Backslash \in Int /\ l[1] \in Int /\ l[2] \in Int
    BY LetterRead DEF Backslash
  <1>3. w \in Words
    BY <1>2 DEF Words
  <1>4. p \in StringReaders /\ p.mode = "escape" /\ p.out = r.out /\ p.high = Corrupt
    BY <1>1, InReader DEF Modes
  <1>5. Step(who, r, Backslash) = p
    BY <1>1, BackslashStep, Zenon
  <1> HIDE DEF p
  <1>6. Step(who, p, l[1]) = q
    BY <1>4, LetterStep, Zenon
  <1>7. Turns(who, r, <<Backslash, l[1]>>, q)
    BY <1>2, <1>5, <1>6, TurnsTwo, Zenon
  <1> HIDE DEF w
  <1>8. Ready(q) /\ q.out = p.out \o w
    BY <1>3, <1>4, TookReady, Zenon
  <1> HIDE DEF q
  <1> QED BY <1>4, <1>7, <1>8, Zenon DEF w

\* The digits of a number.
Bases == {65, 97}

\* A hexadecimal digit, upper or lower case, is read as the value it was written for.
LEMMA DigitRead ==
  ASSUME NEW d \in 0..15, NEW base \in Bases
  PROVE  /\ HexLetter(d, base) \in Int /\ IsHex(HexLetter(d, base))
         /\ HexDigit(HexLetter(d, base)) = d
  <1>1. CASE d < 10
    <2>1. HexLetter(d, base) = 48 + d
      BY <1>1 DEF HexLetter
    <2>2. 48 + d \in 48..57 /\ 48 + d <= 57 /\ (48 + d) - 48 = d
      BY <1>1
    <2> QED BY <2>1, <2>2 DEF IsHex, HexDigit
  <1>2. CASE ~(d < 10) /\ base = 65
    <2> DEFINE c == 65 + d - 10
    <2>1. HexLetter(d, base) = c
      BY <1>2 DEF HexLetter
    <2>2. c \in 65..70 /\ ~(c <= 57) /\ c % 32 = c - 64 /\ (c - 64) + 9 = d
      BY <1>2
    <2> HIDE DEF c
    <2> QED BY <2>1, <2>2 DEF IsHex, HexDigit
  <1>3. CASE ~(d < 10) /\ base = 97
    <2> DEFINE c == 97 + d - 10
    <2>1. HexLetter(d, base) = c
      BY <1>3 DEF HexLetter
    <2>2. c \in 97..102 /\ ~(c <= 57) /\ c % 32 = c - 96 /\ (c - 96) + 9 = d
      BY <1>3
    <2> HIDE DEF c
    <2> QED BY <2>1, <2>2 DEF IsHex, HexDigit
  <1> QED BY <1>1, <1>2, <1>3 DEF Bases

\* A reader with so many digits to come, and the value so far.
Taking(r, digits, val) == [[r EXCEPT !.digits = digits] EXCEPT !.val = val]
InHex(r, digits, val, x) ==
  r \in StringReaders /\ r.mode = "hex" /\ r.digits = digits /\ r.val = val /\ r.x = x

\* A reader that takes a digit is a reader that expects one less.
LEMMA TakingReader ==
  ASSUME NEW r \in StringReaders, r.mode = "hex", NEW digits \in Int, NEW val \in Int
  PROVE  /\ InHex(Taking(r, digits, val), digits, val, r.x)
         /\ \A m, v \in Int : Taking(Taking(r, digits, val), m, v) = Taking(r, m, v)
  BY DEF InHex, Taking, StringReaders

\* What a reader does at the last digit.
Finished(who, r) ==
  IF r.x THEN Took(r, <<r.val>>) ELSE IF who = "flatbuffers" THEN Unit(r) ELSE parse_codepoint(r)

\* A digit is taken.
Takes(who, r, digits, val, x, d, base) ==
  LET q == Taking(r, digits - 1, val * 16 + d)
  IN Step(who, r, HexLetter(d, base)) = IF digits > 1 THEN q ELSE Finished(who, q)

\* Each digit adds its value to sixteen times what was read before.
LEMMA DigitStep ==
  ASSUME NEW who \in Who, NEW r, NEW digits \in Int, NEW val \in Int, NEW x \in BOOLEAN,
         InHex(r, digits, val, x), x => who = "flatbuffers",
         NEW d \in 0..15, NEW base \in Bases
  PROVE  Takes(who, r, digits, val, x, d, base)
  <1> DEFINE c == HexLetter(d, base)
             q == Taking(r, digits - 1, val * 16 + d)
  <1>1. IsHex(c) /\ HexDigit(c) = d
    BY DigitRead
  <1> HIDE DEF c
  <1>2. r \in StringReaders /\ r.mode = "hex" /\ r.digits = digits /\ r.val = val /\ r.x = x
    BY Zenon DEF InHex
  <1>3. More(r, c) = q
    BY <1>1, <1>2 DEF More, Taking, StringReaders
  <1>4. q.val = val * 16 + d /\ q.x = x
    <2>1. digits - 1 \in Int /\ val * 16 + d \in Int
      OBVIOUS
    <2>2. InHex(q, digits - 1, val * 16 + d, r.x)
      BY <1>2, <2>1, TakingReader, Zenon
    <2> HIDE DEF q
    <2> QED BY <1>2, <2>2 DEF InHex
  <1>5. next_char(r, c) = IF digits > 1 THEN More(r, c)
                          ELSE IF x THEN Took(More(r, c), <<More(r, c).val>>) ELSE Unit(More(r, c))
    BY <1>1, <1>2 DEF next_char
  <1>6. parse_char(r, c) = IF digits > 1 THEN More(r, c) ELSE parse_codepoint(More(r, c))
    BY <1>1, <1>2 DEF parse_char
  <1> HIDE DEF q
  <1>7. Step(who, r, c) = IF digits > 1 THEN q ELSE Finished(who, q)
    <2>1. CASE digits > 1
      BY <1>3, <1>5, <1>6, <2>1, Zenon DEF Step
    <2>2. CASE ~(digits > 1) /\ x
      <3>1. who = "flatbuffers"
        BY <2>2
      <3> QED BY <1>3, <1>4, <1>5, <2>2, <3>1 DEF Step, Finished
    <2>3. CASE ~(digits > 1) /\ ~x
      BY <1>3, <1>4, <1>5, <1>6, <2>3 DEF Step, Finished
    <2> QED BY <2>1, <2>2, <2>3
  <1> QED BY <1>7, Zenon DEF c, q, Takes

\* Four bytes lead a reader four steps.
LEMMA TurnsFour ==
  ASSUME NEW who, NEW r, NEW u, Len(u) = 4,
         NEW a, a = Step(who, r, u[1]), NEW b, b = Step(who, a, u[2]),
         NEW c, c = Step(who, b, u[3]), NEW d, d = Step(who, c, u[4])
  PROVE  Turns(who, r, u, d)
  <1> DEFINE f == [i \in 0..4 |-> IF i = 0 THEN r ELSE IF i = 1 THEN a ELSE IF i = 2 THEN b
                                  ELSE IF i = 3 THEN c ELSE d]
  <1>1. f[0] = r /\ f[1] = a /\ f[2] = b /\ f[3] = c /\ f[4] = d
    OBVIOUS
  <1> HIDE DEF f
  <1>2. \A i \in 1..4 : i = 1 \/ i = 2 \/ i = 3 \/ i = 4
    OBVIOUS
  <1>3. 1 - 1 = 0 /\ 2 - 1 = 1 /\ 3 - 1 = 2 /\ 4 - 1 = 3
    OBVIOUS
  <1>4. \A i \in 1..4 : f[i] = Step(who, f[i - 1], u[i])
    BY <1>1, <1>2, <1>3, Zenon
  <1>5. Follows(f, who, r, u) /\ f[Len(u)] = d
    BY <1>1, <1>4, Zenon DEF Follows
  <1> QED BY <1>5, Zenon DEF Turns

CodeUnits == 0..65535
Digit(n, i) == (n \div FourDigits[i]) % 16

\* A code unit is what its four digits say.
LEMMA FourDigitsSay ==
  ASSUME NEW n \in CodeUnits
  PROVE  /\ Digit(n, 1) \in 0..15 /\ Digit(n, 2) \in 0..15 /\ Digit(n, 3) \in 0..15
         /\ Digit(n, 4) \in 0..15
         /\ ((Digit(n, 1) * 16 + Digit(n, 2)) * 16 + Digit(n, 3)) * 16 + Digit(n, 4) = n
  <1>1. /\ Digit(n, 1) = (n \div 4096) % 16 /\ Digit(n, 2) = (n \div 256) % 16
        /\ Digit(n, 3) = (n \div 16) % 16 /\ Digit(n, 4) = n % 16
    BY DEF Digit, FourDigits, CodeUnits
  <1>2. /\ (n \div 4096) % 16 \in 0..15 /\ (n \div 256) % 16 \in 0..15
        /\ (n \div 16) % 16 \in 0..15 /\ n % 16 \in 0..15
        /\ ((((n \div 4096) % 16) * 16 + ((n \div 256) % 16)) * 16 + ((n \div 16) % 16)) * 16
             + (n % 16) = n
    <2>1. n = (n \div 16) * 16 + (n % 16) /\ n % 16 \in 0..15 /\ (n \div 16) % 16 \in 0..15
      BY DEF CodeUnits
    <2>2. n \div 16 = (n \div 256) * 16 + ((n \div 16) % 16)
      BY DEF CodeUnits
    <2>3. n \div 256 = (n \div 4096) * 16 + ((n \div 256) % 16) /\ (n \div 256) % 16 \in 0..15
      BY DEF CodeUnits
    <2>4. (n \div 4096) % 16 = n \div 4096 /\ n \div 4096 \in 0..15
      <3>1. n \div 4096 \in 0..15
        BY DEF CodeUnits
      <3>2. \A q \in 0..15 : q % 16 = q
        OBVIOUS
      <3> QED BY <3>1, <3>2
    <2> QED BY <2>1, <2>2, <2>3, <2>4
  <1> QED BY <1>1, <1>2

\* Digits that are written.
Written(u, n, base) ==
  /\ u \in Words /\ Len(u) = 4
  /\ u[1] = HexLetter(Digit(n, 1), base) /\ u[2] = HexLetter(Digit(n, 2), base)
  /\ u[3] = HexLetter(Digit(n, 3), base) /\ u[4] = HexLetter(Digit(n, 4), base)

\* Four digits of a code unit are written most significant first.
LEMMA FourDigitsAre ==
  ASSUME NEW n \in CodeUnits, NEW base \in Bases
  PROVE  Written(Hex(n, FourDigits, base), n, base)
  <1> DEFINE u == Hex(n, FourDigits, base)
             e(i) == HexLetter(Digit(n, i), base)
  <1>1. \A i \in 1..4 : e(i) \in Int
    <2> SUFFICES ASSUME NEW i \in 1..4 PROVE e(i) \in Int
      OBVIOUS
    <2>1. i = 1 \/ i = 2 \/ i = 3 \/ i = 4
      OBVIOUS
    <2>2. Digit(n, i) \in 0..15
      BY <2>1, FourDigitsSay, Zenon
    <2> QED BY <2>2, DigitRead, Zenon
  <1>2. u = [i \in 1..4 |-> e(i)]
    <2>1. DOMAIN FourDigits = 1..4
      BY DEF FourDigits
    <2> QED BY <2>1, Zenon DEF Hex, Digit
  <1> HIDE DEF u, e
  <1>3. u \in Words /\ Len(u) = 4
    <2> DEFINE g == [i \in 1..4 |-> e(i)]
    <2>1. g \in [1..4 -> Int]
      BY <1>1, Zenon
    <2>2. g \in Seq(Int)
      BY <2>1, SeqDef, Zenon
    <2>3. DOMAIN g = 1..4
      BY <2>1, Zenon
    <2> HIDE DEF g
    <2>4. Len(g) = 4
      BY <2>2, <2>3, LenProperties
    <2> QED BY <1>2, <2>2, <2>4, Zenon DEF Words, g
  <1>4. u[1] = e(1) /\ u[2] = e(2) /\ u[3] = e(3) /\ u[4] = e(4)
    BY <1>2
  <1> QED BY <1>3, <1>4, Zenon DEF Written, u, e

\* Four digits are read as the number they were written for.
LEMMA FourRead ==
  ASSUME NEW who \in Who, NEW r, InHex(r, 4, 0, FALSE), NEW n \in CodeUnits, NEW base \in Bases
  PROVE  Turns(who, r, Hex(n, FourDigits, base), Finished(who, Taking(r, 0, n)))
  <1> DEFINE d1 == Digit(n, 1)
             d2 == Digit(n, 2)
             d3 == Digit(n, 3)
             d4 == Digit(n, 4)
             u == Hex(n, FourDigits, base)
             v2 == d1 * 16 + d2
             v3 == v2 * 16 + d3
  <1>1. /\ d1 \in 0..15 /\ d2 \in 0..15 /\ d3 \in 0..15 /\ d4 \in 0..15
        /\ v3 * 16 + d4 = n
    BY FourDigitsSay, Zenon
  <1>2. /\ Len(u) = 4 /\ u[1] = HexLetter(d1, base) /\ u[2] = HexLetter(d2, base)
        /\ u[3] = HexLetter(d3, base) /\ u[4] = HexLetter(d4, base)
    BY FourDigitsAre, Zenon DEF Written
  <1> HIDE DEF d1, d2, d3, d4, u
  <1>3. d1 \in Int /\ v2 \in Int /\ v3 \in Int /\ 0 * 16 + d1 = d1
    BY <1>1
  <1> HIDE DEF v2, v3
  <1>4. r \in StringReaders /\ r.mode = "hex" /\ r.x = FALSE
    BY DEF InHex
  <1> DEFINE a == Taking(r, 3, d1)
             b == Taking(r, 2, v2)
             c == Taking(r, 1, v3)
             z == Taking(r, 0, n)
  <1>n. n \in Int
    BY DEF CodeUnits
  <1>5. InHex(a, 3, d1, FALSE) /\ InHex(b, 2, v2, FALSE) /\ InHex(c, 1, v3, FALSE)
    <2>1. InHex(a, 3, d1, r.x) /\ InHex(b, 2, v2, r.x) /\ InHex(c, 1, v3, r.x)
      BY <1>3, <1>4, TakingReader
    <2> HIDE DEF a, b, c
    <2> QED BY <1>4, <2>1, Zenon
  <1>6. Taking(a, 2, v2) = b /\ Taking(b, 1, v3) = c /\ Taking(c, 0, n) = z
    BY <1>n, <1>3, <1>4, TakingReader
  <1> HIDE DEF a, b, c, z
  <1>7. Step(who, r, u[1]) = a
    <2>1. 4 > 1 /\ 4 - 1 = 3 /\ 4 \in Int /\ 0 \in Int /\ FALSE \in BOOLEAN
      OBVIOUS
    <2>2. Takes(who, r, 4, 0, FALSE, d1, base)
      BY <1>1, <2>1, DigitStep, Zenon
    <2> QED BY <1>2, <1>3, <2>1, <2>2, Zenon DEF a, Takes
  <1>8. Step(who, a, u[2]) = b
    <2>1. 3 > 1 /\ 3 - 1 = 2 /\ 3 \in Int /\ FALSE \in BOOLEAN
      OBVIOUS
    <2>2. Takes(who, a, 3, d1, FALSE, d2, base)
      BY <1>1, <1>3, <1>5, <2>1, DigitStep, Zenon
    <2> QED BY <1>2, <1>6, <2>1, <2>2, Zenon DEF v2, Takes
  <1>9. Step(who, b, u[3]) = c
    <2>1. 2 > 1 /\ 2 - 1 = 1 /\ 2 \in Int /\ FALSE \in BOOLEAN
      OBVIOUS
    <2>2. Takes(who, b, 2, v2, FALSE, d3, base)
      BY <1>1, <1>3, <1>5, <2>1, DigitStep, Zenon
    <2> QED BY <1>2, <1>6, <2>1, <2>2, Zenon DEF v3, Takes
  <1>10. Step(who, c, u[4]) = Finished(who, z)
    <2>1. ~(1 > 1) /\ 1 - 1 = 0 /\ 1 \in Int /\ FALSE \in BOOLEAN
      OBVIOUS
    <2>2. Takes(who, c, 1, v3, FALSE, d4, base)
      BY <1>1, <1>3, <1>5, <2>1, DigitStep, Zenon
    <2> QED BY <1>1, <1>2, <1>6, <2>1, <2>2, Zenon DEF Takes
  <1> QED BY <1>2, <1>7, <1>8, <1>9, <1>10, TurnsFour, Zenon DEF u, z

\* "\u" and four digits.
CodeRead(who, v) == IF who = "flatbuffers" THEN Unit(v) ELSE parse_codepoint(v)

\* A reader set to read digits is a reader.
LEMMA HexSet ==
  ASSUME NEW r \in StringReaders, NEW mode \in Modes, NEW digits \in Int, NEW val \in Int,
         NEW x \in BOOLEAN
  PROVE  [r EXCEPT !.mode = mode, !.digits = digits, !.val = val, !.x = x] \in StringReaders
  BY DEF StringReaders

\* It expects as many as it was set to.
LEMMA HexOfReader ==
  ASSUME NEW r \in StringReaders
  PROVE  LET p == HexOf(r, 4, FALSE)
         IN InHex(p, 4, 0, FALSE) /\ p.out = r.out /\ p.high = r.high
  <1> DEFINE p == HexOf(r, 4, FALSE)
  <1>1. "hex" \in Modes /\ 4 \in Int /\ 0 \in Int /\ FALSE \in BOOLEAN
    BY DEF Modes
  <1>2. p \in StringReaders
    BY <1>1, HexSet, Zenon DEF HexOf
  <1>3. p.mode = "hex" /\ p.digits = 4 /\ p.val = 0 /\ p.out = r.out /\ p.high = r.high
    BY DEF HexOf, StringReaders
  <1>4. p.x = FALSE
    BY DEF HexOf, StringReaders
  <1> HIDE DEF p
  <1>5. InHex(p, 4, 0, FALSE)
    BY <1>2, <1>3, <1>4, Zenon DEF InHex
  <1> QED BY <1>3, <1>5 DEF p

\* A u after the backslash begins four digits.
LEMMA HexBegins ==
  ASSUME NEW who \in Who, NEW r \in StringReaders,
         r.mode = "escape" \/ (who = "picojson" /\ r.mode = "low_u")
  PROVE  LET p == HexOf(r, 4, FALSE)
         IN Step(who, r, 117) = p /\ InHex(p, 4, 0, FALSE) /\ p.out = r.out /\ p.high = r.high
  <1> DEFINE p == HexOf(r, 4, FALSE)
  <1>1. CASE r.mode = "escape"
    <2>1. next_char(r, 117) = p
      BY <1>1 DEF next_char
    <2>2. parse_char(r, 117) = p
      BY <1>1 DEF parse_char
    <2>3. Step(who, r, 117) = p
      BY <2>1, <2>2, Zenon DEF Step
    <2>4. InHex(p, 4, 0, FALSE) /\ p.out = r.out /\ p.high = r.high
      BY HexOfReader, Zenon
    <2> QED BY <2>3, <2>4
  <1>2. CASE who = "picojson" /\ r.mode = "low_u"
    <2>1. parse_char(r, 117) = p
      BY <1>2 DEF parse_char
    <2>2. who # "flatbuffers"
      BY <1>2
    <2>3. Step(who, r, 117) = p
      BY <2>1, <2>2, Zenon DEF Step
    <2>4. InHex(p, 4, 0, FALSE) /\ p.out = r.out /\ p.high = r.high
      BY HexOfReader, Zenon
    <2> QED BY <2>3, <2>4
  <1> QED BY <1>1, <1>2

\* The escape of a code unit leads either reader to that unit.
LEMMA EscapeTurns ==
  ASSUME NEW who \in Who, NEW r \in StringReaders,
         r.mode = "plain" \/ (who = "picojson" /\ r.mode = "low"),
         NEW n \in CodeUnits, NEW base \in Bases
  PROVE  \E v \in StringReaders : /\ Turns(who, r, Escape(n, base), CodeRead(who, v))
                                  /\ v.val = n /\ v.high = r.high /\ v.out = r.out
  <1>1. PICK p \in StringReaders : /\ Step(who, r, Backslash) = p /\ p.out = r.out /\ p.high = r.high
                                   /\ p.mode = "escape" \/ (who = "picojson" /\ p.mode = "low_u")
    <2>1. CASE r.mode = "plain"
      <3> DEFINE p == In(r, "escape")
      <3>1. Step(who, r, Backslash) = p
        BY <2>1, BackslashStep, Zenon
      <3>2. p \in StringReaders /\ p.mode = "escape" /\ p.out = r.out /\ p.high = r.high
        BY InReader DEF Modes
      <3> HIDE DEF p
      <3> QED BY <3>1, <3>2, Zenon
    <2>2. CASE who = "picojson" /\ r.mode = "low"
      <3> DEFINE p == In(r, "low_u")
      <3>1. parse_char(r, Backslash) = p
        BY <2>2 DEF parse_char, In
      <3>2. who # "flatbuffers"
        BY <2>2
      <3>3. Step(who, r, Backslash) = p
        BY <3>1, <3>2, Zenon DEF Step
      <3>4. p \in StringReaders /\ p.mode = "low_u" /\ p.out = r.out /\ p.high = r.high
        BY InReader DEF Modes
      <3> HIDE DEF p
      <3> QED BY <2>2, <3>3, <3>4, Zenon
    <2> QED BY <2>1, <2>2, Zenon
  <1> DEFINE h == HexOf(p, 4, FALSE)
             w == <<Backslash, 117>>
             x == Hex(n, FourDigits, base)
             v == Taking(h, 0, n)
  <1>2. Step(who, p, 117) = h /\ InHex(h, 4, 0, FALSE) /\ h.out = r.out /\ h.high = r.high
    BY <1>1, HexBegins, Zenon
  <1> HIDE DEF h
  <1>3. Backslash \in Int /\ 117 \in Int
    BY DEF Backslash
  <1>4. Turns(who, r, w, h)
    BY <1>1, <1>2, <1>3, TurnsTwo, Zenon
  <1>5. Turns(who, h, x, Finished(who, v))
    BY <1>2, FourRead, Zenon
  <1>6. w \in Words /\ x \in Words
    <2>1. w \in Words
      BY <1>3 DEF Words
    <2>2. x \in Words
      BY FourDigitsAre, Zenon DEF Written
    <2> QED BY <2>1, <2>2
  <1>7. v \in StringReaders /\ v.val = n /\ v.x = FALSE /\ v.high = r.high /\ v.out = r.out
    <2>1. h \in StringReaders /\ h.mode = "hex" /\ h.x = FALSE
      BY <1>2 DEF InHex
    <2>2. 0 \in Int /\ n \in Int
      BY DEF CodeUnits
    <2>3. InHex(v, 0, n, h.x)
      BY <2>1, <2>2, TakingReader, Zenon
    <2>4. v.high = h.high /\ v.out = h.out
      BY <2>1 DEF Taking, StringReaders
    <2> HIDE DEF v
    <2>5. v \in StringReaders /\ v.val = n /\ v.x = h.x
      BY <2>3, Zenon DEF InHex
    <2> QED BY <1>2, <2>1, <2>4, <2>5, Zenon
  <1>8. Finished(who, v) = CodeRead(who, v)
    <2> HIDE DEF v
    <2> QED BY <1>7, Zenon DEF Finished, CodeRead
  <1> HIDE DEF v, w, x
  <1>9. Turns(who, r, w \o x, CodeRead(who, v))
    BY <1>4, <1>5, <1>6, <1>8, TurnsThrough, Zenon DEF Words
  <1> QED BY <1>7, <1>9, Zenon DEF Escape, w, x

Surrogates == HighSurrogates \cup LowSurrogates

SurrogateBounds ==
  FirstHigh = 55296 /\ LastHigh = 56319 /\ FirstLow = 56320 /\ LastLow = 57343

\* The surrogates are those between their bounds.
LEMMA SurrogatesBetween ==
  ASSUME NEW n
  PROVE  /\ SurrogateBounds
         /\ n \in HighSurrogates <=> n \in Int /\ FirstHigh <= n /\ n <= LastHigh
         /\ n \in LowSurrogates <=> n \in Int /\ FirstLow <= n /\ n <= LastLow
  <1>1. SurrogateBounds
    BY SMT DEF SurrogateBounds, FirstHigh, LastHigh, FirstLow, LastLow
  <1>2. FirstHigh \in Int /\ LastHigh \in Int /\ FirstLow \in Int /\ LastLow \in Int
    BY <1>1, SMT DEF SurrogateBounds
  <1>3. n \in HighSurrogates <=> n \in Int /\ FirstHigh <= n /\ n <= LastHigh
    BY <1>2, SMT DEF HighSurrogates
  <1>4. n \in LowSurrogates <=> n \in Int /\ FirstLow <= n /\ n <= LastLow
    BY <1>2, SMT DEF LowSurrogates
  <1> QED BY <1>1, <1>3, <1>4

\* The surrogates, in numbers.
LEMMA SurrogateIs ==
  ASSUME NEW n \in Int
  PROVE  n \in Surrogates <=> 55296 <= n /\ n <= 57343
  <1>1. /\ n \in HighSurrogates <=> 55296 <= n /\ n <= 56319
        /\ n \in LowSurrogates <=> 56320 <= n /\ n <= 57343
    BY SurrogatesBetween, SMT DEF SurrogateBounds
  <1>2. n \in Surrogates <=> n \in HighSurrogates \/ n \in LowSurrogates
    BY Zenon DEF Surrogates
  <1> QED BY <1>1, <1>2, SMT

\* ToUTF8() returns bytes.
LEMMA ToUTF8IsText ==
  ASSUME NEW ucc \in Nat
  PROVE  ToUTF8(ucc) \in Words
  <1> DEFINE tail(n) == 128 + (n % 64)
  <1>1. tail(ucc) \in Int /\ tail(ucc \div 64) \in Int /\ tail(ucc \div 4096) \in Int
    OBVIOUS
  <1>2. 192 + ucc \div 64 \in Int /\ 224 + ucc \div 4096 \in Int /\ 240 + ucc \div 262144 \in Int
    OBVIOUS
  <1>3. /\ <<ucc>> \in Words
        /\ \A a, b \in Int : <<a, b>> \in Words
        /\ \A a, b, c \in Int : <<a, b, c>> \in Words
        /\ \A a, b, c, d \in Int : <<a, b, c, d>> \in Words
    BY DEF Words
  <1> HIDE DEF Words
  <1>4. /\ <<192 + ucc \div 64, tail(ucc)>> \in Words
        /\ <<224 + ucc \div 4096, tail(ucc \div 64), tail(ucc)>> \in Words
        /\ <<240 + ucc \div 262144, tail(ucc \div 4096), tail(ucc \div 64), tail(ucc)>> \in Words
    BY <1>1, <1>2, <1>3
  <1> QED BY <1>3, <1>4 DEF ToUTF8

\* A code point that is not a surrogate is its UTF-8.
LEMMA UnitConveys ==
  ASSUME NEW who \in Who, NEW n \in CodeUnits, n \notin Surrogates, NEW base \in Bases
  PROVE  Conveys(who, Escape(n, base), ToUTF8(n))
  <1> DEFINE u == Escape(n, base)
             w == ToUTF8(n)
  <1> SUFFICES ASSUME NEW r, Ready(r)
               PROVE  \E q : Turns(who, r, u, q) /\ Ready(q) /\ q.out = r.out \o w
    BY Zenon DEF Conveys
  <1>1. r \in StringReaders /\ r.mode = "plain" /\ r.high = Corrupt
    BY Zenon DEF Ready
  <1>2. PICK v \in StringReaders : /\ Turns(who, r, u, CodeRead(who, v))
                                   /\ v.val = n /\ v.high = r.high /\ v.out = r.out
    BY <1>1, EscapeTurns, Zenon
  <1>3. w \in Words
    <2>1. n \in Nat
      BY DEF CodeUnits
    <2> QED BY <2>1, ToUTF8IsText, Zenon
  <1> HIDE DEF u, w
  <1>4. CodeRead(who, v) = Took(v, w)
    <2>1. v.val \notin HighSurrogates /\ v.val \notin LowSurrogates /\ v.high = Corrupt
      BY <1>1, <1>2, Zenon DEF Surrogates
    <2>2. Unit(v) = Took(v, ToUTF8(v.val))
      BY <2>1 DEF Unit
    <2>3. parse_codepoint(v) = Took(v, ToUTF8(v.val))
      BY <2>1 DEF parse_codepoint
    <2> QED BY <1>2, <2>2, <2>3, Zenon DEF CodeRead, w
  <1>5. Ready(Took(v, w)) /\ Took(v, w).out = v.out \o w
    BY <1>1, <1>2, <1>3, TookReady, Zenon
  <1> QED BY <1>2, <1>4, <1>5, Zenon

\* The surrogates of a code point.
Supplementary == {n \in Nat : 65536 <= n /\ n <= LastCodePoint}

LEMMA IsCodeUnit ==
  \A n \in Int : 0 <= n /\ n <= 65535 => n \in CodeUnits
  <1> DEFINE top == 65535
  <1>1. CodeUnits = 0..top
    BY DEF CodeUnits
  <1>2. top \in Int
    OBVIOUS
  <1> HIDE DEF top
  <1>3. \A n \in Int : 0 <= n /\ n <= top => n \in 0..top
    BY <1>2
  <1>4. \A n \in Int : 0 <= n /\ n <= top => n \in CodeUnits
    BY <1>1, <1>3, Zenon
  <1> QED BY <1>4 DEF top

\* High and low surrogates are apart, and code units.
LEMMA SurrogatesApart ==
  ASSUME NEW n
  PROVE  /\ n \in HighSurrogates => n \in CodeUnits /\ n # Corrupt /\ n \notin LowSurrogates
         /\ n \in LowSurrogates => n \in CodeUnits
  <1>1. ASSUME n \in HighSurrogates PROVE n \in Int /\ 55296 <= n /\ n <= 56319
    BY <1>1, SurrogatesBetween, SMT DEF SurrogateBounds
  <1>2. ASSUME n \in LowSurrogates PROVE n \in Int /\ 56320 <= n /\ n <= 57343
    BY <1>2, SurrogatesBetween, SMT DEF SurrogateBounds
  <1>3. ASSUME n \in HighSurrogates PROVE n \in CodeUnits /\ n # Corrupt
    <2>1. n \in Int /\ 0 <= n /\ n <= 65535
      BY <1>1, <1>3
    <2>2. n # Corrupt
      BY <2>1, SMT DEF Corrupt
    <2>3. n \in CodeUnits
      BY <2>1, IsCodeUnit, SMT
    <2> QED BY <2>2, <2>3
  <1>4. ASSUME n \in LowSurrogates PROVE n \in CodeUnits
    <2>1. n \in Int /\ 0 <= n /\ n <= 65535
      BY <1>2, <1>4
    <2> QED BY <2>1, IsCodeUnit, SMT
  <1>5. n \in HighSurrogates => n \notin LowSurrogates
    BY <1>1, <1>2
  <1> QED BY <1>3, <1>4, <1>5

\* A high and a low surrogate are put together again.
Together(ucc, high, low) == Paired(high, low) = ucc /\ PicoPaired(high, low) = ucc

\* A supplementary code point is its high and its low surrogate together, for each reader.
LEMMA SurrogatesAre ==
  ASSUME NEW ucc \in Supplementary
  PROVE  /\ HighOf(ucc) \in HighSurrogates /\ LowOf(ucc) \in LowSurrogates
         /\ Together(ucc, HighOf(ucc), LowOf(ucc))
  <1> DEFINE b == ucc - 65536
             q == b \div 1024
             m == b % 1024
             high == 55296 + q
             low == 56320 + m
  <1>1. b \in Int /\ 0 <= b /\ b < 1024 * 1024 /\ ucc = 65536 + b
    BY SMT DEF Supplementary, LastCodePoint
  <1>3. HighOf(ucc) = high /\ LowOf(ucc) = low
    BY SMT DEF HighOf, LowOf, FirstHigh, FirstLow
  <1> HIDE DEF b
  <1>2. q \in 0..1023 /\ m \in 0..1023 /\ b = q * 1024 + m
    BY <1>1, SMT
  <1> HIDE DEF q, m
  <1>4. (55296 + q) % 1024 = q
    BY <1>2, SMT
  <1>5. (56320 + m) % 1024 = m
    BY <1>2, SMT
  <1>6. high \in HighSurrogates /\ low \in LowSurrogates
    BY <1>2, SurrogatesBetween, SMT DEF SurrogateBounds
  <1>7. Together(ucc, high, low)
    BY <1>1, <1>2, <1>4, <1>5, SMT DEF Together, Paired, PicoPaired, FirstHigh, FirstLow
  <1> HIDE DEF high, low
  <1> QED BY <1>3, <1>6, <1>7, Zenon

Raised(r, high, mode) == [r EXCEPT !.high = high, !.mode = mode]

\* A reader that remembers a high surrogate is a reader.
LEMMA WithHigh ==
  ASSUME NEW r \in StringReaders, NEW high \in Int, NEW mode \in Modes
  PROVE  LET p == Raised(r, high, mode)
         IN p \in StringReaders /\ p.high = high /\ p.mode = mode /\ p.out = r.out
  BY DEF StringReaders, Raised

\* One that appended what the pair stands for is ready.
LEMMA TookLow ==
  ASSUME NEW r \in StringReaders, NEW w \in Words
  PROVE  LET q == [Took(r, w) EXCEPT !.high = Corrupt]
         IN Ready(q) /\ q.out = r.out \o w
  <1> DEFINE p == Raised(r, Corrupt, "plain")
  <1>1. p \in StringReaders /\ p.high = Corrupt /\ p.out = r.out
    <2>1. "plain" \in Modes /\ Corrupt \in Int
      BY CorruptIs DEF Modes
    <2> QED BY <2>1, WithHigh, Zenon
  <1>2. Ready(Took(p, w)) /\ Took(p, w).out = p.out \o w
    <2> HIDE DEF p
    <2> QED BY <1>1, TookReady, Zenon
  <1>3. Took(p, w) = [Took(r, w) EXCEPT !.high = Corrupt]
    BY DEF Took, StringReaders, Raised
  <1> HIDE DEF p
  <1> QED BY <1>1, <1>2, <1>3, Zenon

\* The first half of a pair, and the second.
LEMMA HighRead ==
  ASSUME NEW who \in Who, NEW v \in StringReaders, v.high = Corrupt, v.val \in HighSurrogates
  PROVE  LET p == CodeRead(who, v)
         IN /\ p \in StringReaders /\ p.high = v.val /\ p.out = v.out
            /\ p.mode = IF who = "flatbuffers" THEN "plain" ELSE "low"
  <1>0. v.val \in Int
    BY DEF StringReaders
  <1>1. CASE who = "flatbuffers"
    <2> DEFINE p == Raised(v, v.val, "plain")
    <2>1. Unit(v) = p
      BY SurrogatesApart, Zenon DEF Unit, Raised
    <2>2. p \in StringReaders /\ p.high = v.val /\ p.mode = "plain" /\ p.out = v.out
      <3>1. "plain" \in Modes
        BY DEF Modes
      <3> QED BY <1>0, <3>1, WithHigh, Zenon
    <2> HIDE DEF p
    <2> QED BY <1>1, <2>1, <2>2, Zenon DEF CodeRead
  <1>2. CASE who # "flatbuffers"
    <2> DEFINE p == Raised(v, v.val, "low")
    <2>1. parse_codepoint(v) = p
      BY DEF parse_codepoint, Raised
    <2>2. p \in StringReaders /\ p.high = v.val /\ p.mode = "low" /\ p.out = v.out
      <3>1. "low" \in Modes
        BY DEF Modes
      <3> QED BY <1>0, <3>1, WithHigh, Zenon
    <2> HIDE DEF p
    <2> QED BY <1>2, <2>1, <2>2, Zenon DEF CodeRead
  <1> QED BY <1>1, <1>2

\* Either reader makes of the low surrogate, after the high one, the code point of both.
LEMMA LowRead ==
  ASSUME NEW who \in Who, NEW v \in StringReaders, NEW ucc \in Supplementary,
         v.high = HighOf(ucc), v.val = LowOf(ucc)
  PROVE  LET q == CodeRead(who, v) IN Ready(q) /\ q.out = v.out \o ToUTF8(ucc)
  <1> DEFINE q == [Took(v, ToUTF8(ucc)) EXCEPT !.high = Corrupt]
  <1>1. v.high # Corrupt /\ v.val \in LowSurrogates /\ v.val \notin HighSurrogates
    BY SurrogatesAre, SurrogatesApart, Zenon
  <1>5. Together(ucc, v.high, v.val)
    BY SurrogatesAre, Zenon
  <1>2. Unit(v) = q
    <2>1. Unit(v) = [Took(v, ToUTF8(Paired(v.high, v.val)))
                       EXCEPT !.high = Corrupt]
      BY <1>1, Zenon DEF Unit
    <2>2. Paired(v.high, v.val) = ucc
      BY <1>5, Zenon DEF Together
    <2> QED BY <2>1, <2>2, Zenon
  <1>3. parse_codepoint(v) = q
    <2>1. parse_codepoint(v) = [Took(v, ToUTF8(PicoPaired(v.high, v.val)))
                                  EXCEPT !.high = Corrupt]
      BY <1>1, Zenon DEF parse_codepoint
    <2>2. PicoPaired(v.high, v.val) = ucc
      BY <1>5, Zenon DEF Together
    <2> QED BY <2>1, <2>2, Zenon
  <1>4. Ready(q) /\ q.out = v.out \o ToUTF8(ucc)
    <2>1. ucc \in Nat
      BY SMT DEF Supplementary
    <2> QED BY <2>1, ToUTF8IsText, TookLow, Zenon
  <1> HIDE DEF q
  <1> QED BY <1>2, <1>3, <1>4, Zenon DEF CodeRead

\* A pair is the UTF-8 of its code point.
LEMMA PairConveys ==
  ASSUME NEW who \in Who, NEW ucc \in Supplementary, NEW base \in Bases
  PROVE  Conveys(who, Escape(HighOf(ucc), base) \o Escape(LowOf(ucc), base), ToUTF8(ucc))
  <1> DEFINE a == Escape(HighOf(ucc), base)
             b == Escape(LowOf(ucc), base)
             w == ToUTF8(ucc)
  <1>1. HighOf(ucc) \in CodeUnits /\ LowOf(ucc) \in CodeUnits
    BY SurrogatesAre, SurrogatesApart, Zenon
  <1> SUFFICES ASSUME NEW r, Ready(r)
               PROVE  \E q : Turns(who, r, a \o b, q) /\ Ready(q) /\ q.out = r.out \o w
    BY Zenon DEF Conveys
  <1>2. r \in StringReaders /\ r.mode = "plain" /\ r.high = Corrupt
    BY Zenon DEF Ready
  <1>3. PICK v \in StringReaders : /\ Turns(who, r, a, CodeRead(who, v))
                                   /\ v.val = HighOf(ucc) /\ v.high = r.high /\ v.out = r.out
    BY <1>1, <1>2, EscapeTurns, Zenon
  <1> DEFINE p == CodeRead(who, v)
  <1>4. /\ p \in StringReaders /\ p.high = HighOf(ucc) /\ p.out = r.out
        /\ p.mode = IF who = "flatbuffers" THEN "plain" ELSE "low"
    <2>1. v.val \in HighSurrogates /\ v.high = Corrupt
      BY <1>2, <1>3, SurrogatesAre, Zenon
    <2>2. /\ p \in StringReaders /\ p.high = v.val /\ p.out = v.out
          /\ p.mode = IF who = "flatbuffers" THEN "plain" ELSE "low"
      BY <2>1, HighRead, Zenon
    <2> HIDE DEF p
    <2> QED BY <1>3, <2>2, Zenon
  <1>5. Turns(who, r, a, p)
    BY <1>3, Zenon
  <1> HIDE DEF p
  <1>6. p.mode = "plain" \/ (who = "picojson" /\ p.mode = "low")
    BY <1>4 DEF Who
  <1>7. PICK z \in StringReaders : /\ Turns(who, p, b, CodeRead(who, z))
                                   /\ z.val = LowOf(ucc) /\ z.high = p.high /\ z.out = p.out
    <2> DEFINE n == LowOf(ucc)
    <2>1. n \in CodeUnits /\ p \in StringReaders
      BY <1>1, <1>4, Zenon
    <2> HIDE DEF n
    <2>2. \E z \in StringReaders : /\ Turns(who, p, Escape(n, base), CodeRead(who, z))
                                   /\ z.val = n /\ z.high = p.high /\ z.out = p.out
      BY <1>6, <2>1, EscapeTurns, Zenon
    <2> QED BY <2>2, Zenon DEF n
  <1>8. Ready(CodeRead(who, z)) /\ CodeRead(who, z).out = r.out \o w
    BY <1>4, <1>7, LowRead, Zenon
  <1>9. a \in Words /\ b \in Words
    <2>1. \A n \in CodeUnits : Hex(n, FourDigits, base) \in Words
      BY FourDigitsAre, Zenon DEF Written
    <2>2. <<Backslash, 117>> \in Words
      BY DEF Words, Backslash
    <2>3. \A n \in CodeUnits : Escape(n, base) \in Words
      BY <2>1, <2>2, ConcatProperties, Zenon DEF Words, Escape
    <2> QED BY <1>1, <2>3, Zenon
  <1> HIDE DEF a, b
  <1>10. Turns(who, r, a \o b, CodeRead(who, z))
    BY <1>5, <1>7, <1>9, TurnsThrough, Zenon DEF Words
  <1> QED BY <1>8, <1>10, Zenon

\* What EscapeString() writes for a code point.
CodePoints == 0..LastCodePoint

\* The escape of a code point, or of its surrogates, conveys its UTF-8.
LEMMA UnicodeConveys ==
  ASSUME NEW who \in Who, NEW ucc \in CodePoints, ucc \notin Surrogates
  PROVE  Conveys(who, Unicode(ucc), ToUTF8(ucc))
  <1>1. 65 \in Bases
    BY DEF Bases
  <1>2. CASE ucc \in CodeUnits
    <2>1. Unicode(ucc) = Escape(ucc, 65)
      <3>1. ucc <= 65535
        BY <1>2, SMT DEF CodeUnits
      <3> QED BY <3>1, SMT DEF Unicode, Escape
    <2> QED BY <1>1, <1>2, <2>1, UnitConveys, Zenon
  <1>3. CASE ucc \notin CodeUnits
    <2>1. ~(ucc <= 65535)
      BY <1>3, SMT DEF CodePoints, CodeUnits
    <2>3. ucc \in Supplementary
      BY <1>3, SMT DEF CodePoints, CodeUnits, Supplementary
    <2>2. Unicode(ucc) = Escape(HighOf(ucc), 65) \o Escape(LowOf(ucc), 65)
      BY <2>1 DEF Unicode
    <2> QED BY <1>1, <2>2, <2>3, PairConveys, Zenon
  <1> QED BY <1>2, <1>3

-----------------------------------------------------------------------------
(***************************************************************************)
(* What picojson writes, both read.                                        *)
(***************************************************************************)

\* What is written when it is closed.
LEMMA ClosedIs ==
  ASSUME NEW u \in Words
  PROVE  Closed(<<Quote>> \o u) = u \o <<Quote>>
  <1> DEFINE q == <<Quote>>
             t == q \o u
  <1>1. Quote \in Int /\ q \in Words /\ Len(q) = 1
    BY DEF Quote, Words
  <1> HIDE DEF q
  <1>2. Joins(t, q, u, 1, Len(u)) /\ t \in Words
    <2>1. Joins(t, q, u, Len(q), Len(u))
      BY <1>1, PutTogether, Zenon DEF Words
    <2>2. t \in Words
      BY <1>1, ConcatProperties, Zenon DEF Words
    <2> QED BY <1>1, <2>1, <2>2, Zenon
  <1> HIDE DEF t
  <1>3. Len(u) \in Nat
    BY LenProperties DEF Words
  <1>4. Tail(t) = u
    <2>1. Len(t) = 1 + Len(u)
      BY <1>2, Zenon DEF Joins
    <2>2. t # <<>>
      BY <1>3, <2>1
    <2>3. /\ Tail(t) \in Words /\ Len(Tail(t)) = Len(t) - 1
          /\ \A i \in 1..Len(Tail(t)) : Tail(t)[i] = t[i + 1]
      BY <1>2, <2>2, HeadTailProperties, Zenon DEF Words
    <2>4. Len(Tail(t)) = Len(u)
      BY <1>3, <2>1, <2>3
    <2>5. \A i \in 1..Len(u) : t[1 + i] = u[i]
      BY <1>2, Zenon DEF Joins
    <2>6. ASSUME NEW i \in 1..Len(Tail(t)) PROVE Tail(t)[i] = u[i]
      <3>1. Tail(t)[i] = t[i + 1] /\ i \in 1..Len(u)
        BY <2>3, <2>4, Zenon
      <3>2. i + 1 = 1 + i
        BY <1>3
      <3> QED BY <2>5, <3>1, <3>2, Zenon
    <2> QED BY <2>3, <2>4, <2>6, SeqEqual, Zenon DEF Words
  <1>5. Append(u, Quote) = u \o q
    BY <1>1, AppendIsConcat, Zenon DEF Words, q
  <1> QED BY <1>4, <1>5, Zenon DEF Closed, t, q

\* A byte written by serialize_str() is read as that byte.
CharWritten(c) ==
  /\ serialize_str_char(c) \in Words
  /\ \A who \in Who : Conveys(who, serialize_str_char(c), <<c>>)

\* What picojson writes for a byte conveys it to both readers.
LEMMA CharConveys ==
  ASSUME NEW c \in Octets
  PROVE  CharWritten(c)
  <1>1. CASE \E l \in PicoLetters : l[2] = c
    <2> DEFINE l == CHOOSE k \in PicoLetters : k[2] = c
               u == <<Backslash, l[1]>>
    <2>1. l \in PicoLetters /\ l[2] = c
      BY <1>1, Zenon
    <2>2. serialize_str_char(c) = u
      BY <1>1, Zenon DEF serialize_str_char, PicoLetters
    <2> HIDE DEF l
    <2>3. u \in Words
      <3>1. l[1] \in Int /\ Backslash \in Int
        BY <2>1, LetterRead DEF Backslash
      <3> QED BY <3>1 DEF Words
    <2>4. \A who \in Who : Conveys(who, u, <<l[2]>>)
      BY <2>1, LetterConveys, Zenon
    <2> QED BY <2>1, <2>2, <2>3, <2>4, Zenon DEF CharWritten
  <1>2. CASE ~(\E l \in PicoLetters : l[2] = c) /\ IsControl(c)
    <2> DEFINE u == Escape(c, 97)
    <2>1. serialize_str_char(c) = u
      BY <1>2, Zenon DEF serialize_str_char, PicoLetters
    <2>2. c \in CodeUnits /\ c < 128 /\ 97 \in Bases
      BY <1>2 DEF IsControl, CodeUnits, Octets, Bases
    <2>3. c \notin Surrogates
      <3>1. ~(55296 <= c)
        BY <2>2 DEF CodeUnits
      <3>2. c \in Int
        BY <2>2 DEF CodeUnits
      <3> QED BY <3>1, <3>2, SurrogateIs
    <2>4. ToUTF8(c) = <<c>>
      BY <2>2 DEF ToUTF8
    <2>5. u \in Words
      <3> DEFINE x == Hex(c, FourDigits, 97)
                 w == <<Backslash, 117>>
      <3>1. x \in Words
        BY <2>2, FourDigitsAre, Zenon DEF Written
      <3>2. w \in Words
        BY DEF Words, Backslash
      <3> HIDE DEF x, w
      <3> QED BY <3>1, <3>2, ConcatProperties, Zenon DEF Words, Escape, x, w
    <2>6. c \in CodeUnits /\ 97 \in Bases
      BY <2>2
    <2> HIDE DEF u
    <2>7. \A who \in Who : Conveys(who, u, ToUTF8(c))
      BY <2>3, <2>6, UnitConveys, Zenon DEF u
    <2> QED BY <2>1, <2>4, <2>5, <2>7, Zenon DEF CharWritten
  <1>3. CASE ~(\E l \in PicoLetters : l[2] = c) /\ ~IsControl(c)
    <2> DEFINE u == <<c>>
    <2>1. serialize_str_char(c) = u
      BY <1>3, Zenon DEF serialize_str_char, PicoLetters
    <2>2. c # Quote /\ c # Backslash
      <3>1. <<Quote, Quote>> \in PicoLetters /\ <<Backslash, Backslash>> \in PicoLetters
        BY DEF PicoLetters, Letters
      <3>2. <<Quote, Quote>>[2] = Quote /\ <<Backslash, Backslash>>[2] = Backslash
        OBVIOUS
      <3> QED BY <1>3, <3>1, <3>2, Zenon
    <2>3. c \in Themselves
      BY <1>3, <2>2 DEF IsControl, Themselves, Octets
    <2>4. u \in Words
      BY DEF Words, Octets
    <2>5. \A who \in Who : Conveys(who, u, u)
      BY <2>3, PlainConveys, Zenon
    <2> HIDE DEF u
    <2> QED BY <2>1, <2>4, <2>5, Zenon DEF CharWritten, u
  <1> QED BY <1>1, <1>2, <1>3

\* A text of bytes is one of numbers, and grows by its bytes.
LEMMA BytesAreWords ==
  ASSUME NEW s \in Seq(Octets)
  PROVE  /\ s \in Words /\ Len(s) \in Nat /\ \A i \in 1..Len(s) : s[i] \in Octets
         /\ SubSeq(s, 1, 0) = <<>> /\ SubSeq(s, 1, Len(s)) = s
         /\ \A i \in 1..Len(s) : SubSeq(s, 1, i) = SubSeq(s, 1, i - 1) \o <<s[i]>>
         /\ \A i \in 0..Len(s) : SubSeq(s, 1, i) \in Words
  <1>1. Octets \subseteq Int
    BY DEF Octets
  <1>2. s \in Words
    BY <1>1, SeqMonotonic, Zenon DEF Words
  <1>3. Len(s) \in Nat
    BY LenProperties
  <1>4. \A i \in 1..Len(s) : s[i] \in Octets
    BY ElementOfSeq
  <1>5. SubSeq(s, 1, 0) = <<>>
    BY SubSeqEmpty
  <1>6. SubSeq(s, 1, Len(s)) = s
    BY SubSeqFull
  <1>7. ASSUME NEW i \in 1..Len(s) PROVE SubSeq(s, 1, i) = SubSeq(s, 1, i - 1) \o <<s[i]>>
    <2>1. 1 \in 1..Len(s) /\ i \in 1..Len(s)
      BY <1>3
    <2> QED BY <2>1, SubSeqRecursiveSecond
  <1>8. ASSUME NEW i \in 0..Len(s) PROVE SubSeq(s, 1, i) \in Words
    <2>1. 1 \in Int /\ i \in Int
      BY <1>3
    <2>2. \A j \in 1..i : s[j] \in Int
      <3> SUFFICES ASSUME NEW j \in 1..i PROVE s[j] \in Int
        OBVIOUS
      <3>1. j \in 1..Len(s)
        BY <1>3
      <3> QED BY <1>1, <1>4, <3>1
    <2> QED BY <2>1, <2>2, SubSeqProperties, Zenon DEF Words
  <1> QED BY <1>2, <1>3, <1>4, <1>5, <1>6, <1>7, <1>8

\* What serialize_str() writes is read as what it was given.
LEMMA SerializedIs ==
  ASSUME NEW s \in Seq(Octets)
  PROVE  \E u \in Words : /\ serialize_str(s) = <<Quote>> \o u
                          /\ \A who \in Who : Conveys(who, u, s)
  <1> DEFINE n == Len(s)
             q == <<Quote>>
             char(i) == serialize_str_char(s[i])
             step == [p \in Words \X (1..n) |-> p[1] \o serialize_str_char(s[p[2]])]
             Solves(h) == h = [i \in 0..n |-> IF i = 0 THEN <<Quote>>
                                              ELSE h[i - 1] \o serialize_str_char(s[i])]
             text == CHOOSE h : Solves(h)
  <1>1. n \in Nat /\ \A i \in 1..n : s[i] \in Octets
    BY BytesAreWords
  <1>2. q \in Words
    BY DEF Words, Quote
  <1>3. \A i \in 1..n : CharWritten(s[i])
    BY <1>1, CharConveys, Zenon
  <1>4. \A i \in 1..n : char(i) \in Words
    BY <1>3, Zenon DEF CharWritten
  <1>5. ASSUME NEW t \in Words, NEW i \in 1..n
        PROVE  step[<<t, i>>] = t \o char(i)
    <2>1. <<t, i>> \in Words \X (1..n) /\ <<t, i>>[1] = t /\ <<t, i>>[2] = i
      OBVIOUS
    <2> QED BY <2>1, Zenon
  <1> HIDE DEF step, q
  <1>6. StaysIn(Words, n, step)
    BY <1>4, <1>5, ConcatProperties, Zenon DEF StaysIn, Words
  <1>7. PICK f \in [0..n -> Words] : Iterates(f, n, q, step)
    BY <1>1, <1>2, <1>6, Iteration, Zenon
  <1>8. Solves(f)
    <2>1. ASSUME NEW i \in 0..n
          PROVE  f[i] = IF i = 0 THEN <<Quote>> ELSE f[i - 1] \o serialize_str_char(s[i])
      <3>1. CASE i = 0
        BY <1>7, <3>1, Zenon DEF Iterates, q
      <3>2. CASE i # 0
        <4>1. i \in 1..n /\ i - 1 \in 0..n
          BY <1>1, <3>2
        <4>2. f[i - 1] \in Words /\ f[i] = step[<<f[i - 1], i>>]
          BY <1>7, <4>1, Zenon DEF Iterates
        <4> QED BY <1>5, <3>2, <4>1, <4>2, Zenon
      <3> QED BY <3>1, <3>2
    <2> QED BY <2>1, Zenon
  <1>9. Solves(text)
    BY <1>8, Zenon
  <1>10. serialize_str(s) = text[n]
    BY DEF serialize_str
  <1> HIDE DEF text
  <1>11. text[0] = q /\ \A i \in 1..n : text[i] = text[i - 1] \o char(i)
    <2>1. \A i \in 0..n : text[i] = IF i = 0 THEN <<Quote>> ELSE text[i - 1] \o char(i)
      BY <1>9, Zenon
    <2>2. 0 \in 0..n /\ \A i \in 1..n : i \in 0..n /\ i # 0
      BY <1>1
    <2> QED BY <2>1, <2>2, Zenon DEF q
  <1> HIDE DEF n, char
  <1> DEFINE Upto(i, u) == /\ text[i] = q \o u
                           /\ \A who \in Who : Conveys(who, u, SubSeq(s, 1, i))
             S == {i \in 0..n : \E u \in Words : Upto(i, u)}
  <1>12. 0 \in S
    <2> DEFINE none == <<>>
    <2>1. none \in Words /\ 0 \in 0..n
      BY <1>1 DEF Words
    <2>2. q \o none = q
      BY <1>2, ConcatEmptySeq, Zenon DEF Words
    <2>3. SubSeq(s, 1, 0) = none
      BY BytesAreWords
    <2>4. \A who \in Who : Conveys(who, none, none)
      BY NothingConveys, Zenon
    <2> HIDE DEF none
    <2>5. Upto(0, none)
      BY <1>11, <2>2, <2>3, <2>4, Zenon
    <2> HIDE DEF Upto
    <2> QED BY <2>1, <2>5, Zenon
  <1>13. ASSUME NEW i \in 0..(n - 1), i \in S PROVE i + 1 \in S
    <2>1. PICK u \in Words : Upto(i, u)
      BY <1>13, Zenon
    <2> DEFINE j == i + 1
               v == u \o char(j)
    <2>2. j \in 1..n /\ j \in 0..n /\ j - 1 = i /\ i \in 0..n
      BY <1>1
    <2> HIDE DEF j
    <2>3. char(j) \in Words /\ s[j] \in Octets /\ CharWritten(s[j])
      BY <1>1, <1>3, <1>4, <2>2, Zenon
    <2>4. v \in Words
      BY <2>3, ConcatProperties, Zenon DEF Words
    <2>5. text[j] = q \o v
      <3>1. text[j] = (q \o u) \o char(j)
        BY <1>11, <2>1, <2>2, Zenon
      <3>2. Associates(q, u, char(j))
        BY <1>2, <2>3, Associative, Zenon DEF Words
      <3> QED BY <3>1, <3>2, Zenon DEF Associates
    <2>6. \A who \in Who : Conveys(who, v, SubSeq(s, 1, j))
      <3> SUFFICES ASSUME NEW who \in Who PROVE Conveys(who, v, SubSeq(s, 1, j))
        OBVIOUS
      <3> DEFINE w == <<s[j]>>
      <3>1. SubSeq(s, 1, j) = SubSeq(s, 1, i) \o w /\ SubSeq(s, 1, i) \in Words
        BY <2>2, BytesAreWords, Zenon DEF n
      <3>2. w \in Words
        <4>1. Octets \subseteq Int
          BY DEF Octets
        <4>2. s[j] \in Int
          BY <2>3, <4>1, Zenon
        <4> QED BY <4>2 DEF Words
      <3>3. Conveys(who, char(j), w)
        BY <2>3, Zenon DEF CharWritten, char
      <3>4. Conveys(who, u, SubSeq(s, 1, i))
        BY <2>1, Zenon
      <3> HIDE DEF w
      <3> QED BY <2>3, <3>1, <3>2, <3>3, <3>4, ConveysBoth, Zenon
    <2>7. Upto(j, v)
      BY <2>5, <2>6, Zenon
    <2> HIDE DEF Upto, v
    <2>8. j \in S
      BY <2>2, <2>4, <2>7, Zenon
    <2> QED BY <2>8, Zenon DEF j
  <1>14. n \in S
    <2> HIDE DEF S
    <2>1. 0..n \subseteq S
      BY <1>1, <1>12, <1>13, UpTo, Zenon
    <2> QED BY <1>1, <2>1
  <1>15. PICK u \in Words : Upto(n, u)
    BY <1>14, Zenon
  <1>16. SubSeq(s, 1, n) = s
    BY BytesAreWords, Zenon DEF n
  <1>17. \A who \in Who : Conveys(who, u, s)
    BY <1>15, <1>16, Zenon
  <1> QED BY <1>10, <1>15, <1>17, Zenon DEF q, n

-----------------------------------------------------------------------------
(***************************************************************************)
(* The sequences of bytes that FromUTF8() recognizes are the well-formed   *)
(* ones, and ToUTF8() writes them again.                                   *)
(***************************************************************************)
Tails == 128..191
Lead2 == 192..223
Lead3 == 224..239
Lead4 == 240..247

\* The code points of two, three and four bytes.
Of2(a, b) == (a % 32) * 64 + (b % 64)
Of3(a, b, c) == (a % 16) * 4096 + (b % 64) * 64 + (c % 64)
Of4(a, b, c, d) == (a % 8) * 262144 + (b % 64) * 4096 + (c % 64) * 64 + (d % 64)
Is2(a, b) == a \in 194..223 /\ b \in Tails
Is3(a, b, c) ==
  /\ c \in Tails
  /\ \/ a = 224 /\ b \in 160..191
     \/ a \in 225..236 /\ b \in Tails
     \/ a = 237 /\ b \in 128..159
     \/ a \in 238..239 /\ b \in Tails
Is4(a, b, c, d) ==
  /\ c \in Tails /\ d \in Tails
  /\ \/ a = 240 /\ b \in 144..191
     \/ a \in 241..243 /\ b \in Tails
     \/ a = 244 /\ b \in 128..143

\* A code point that may be written in so many bytes.
May(ucc, len) == ucc \notin Surrogates /\ Shortest(ucc, len)

\* A tail byte is 128 and six bits.
LEMMA TailRead ==
  ASSUME NEW b \in Tails
  PROVE  b % 64 \in 0..63 /\ b = 128 + (b % 64)
  BY DEF Tails

\* FromUTF8() returns the code point of two bytes exactly if they are well-formed.
LEMMA TwoBytes ==
  ASSUME NEW a \in Lead2, NEW b \in Tails
  PROVE  LET u == Of2(a, b)
         IN /\ May(u, 2) <=> Is2(a, b)
            /\ May(u, 2) => ToUTF8(u) = <<a, b>> /\ u \in Nat /\ u <= LastCodePoint
  <1> DEFINE x == a % 32
             y == b % 64
             u == x * 64 + y
  <1>1. x \in 0..31 /\ a = 192 + x
    BY DEF Lead2
  <1>2. y \in 0..63 /\ b = 128 + y
    BY TailRead
  <1>3. Of2(a, b) = u
    BY DEF Of2
  <1> HIDE DEF x, y
  <1>4. u \in Nat /\ u < 2048 /\ u \div 64 = x /\ u % 64 = y
    BY <1>1, <1>2, SMT
  <1> HIDE DEF u
  <1>5. u \notin Surrogates
    <2>1. ~(55296 <= u)
      BY <1>4, SMT
    <2> QED BY <1>4, <2>1, SurrogateIs
  <1>6. 128 <= u <=> a \in 194..223
    <2>1. u = x * 64 + y
      BY DEF u
    <2> QED BY <1>1, <1>2, <2>1
  <1>7. Shortest(u, 2) <=> 128 <= u
    BY <1>4 DEF Shortest
  <1>8. ASSUME Shortest(u, 2) PROVE ToUTF8(u) = <<a, b>>
    <2>1. ~(u < 128) /\ u < 2048
      BY <1>4, <1>7, <1>8
    <2>2. ToUTF8(u) = <<192 + u \div 64, 128 + (u % 64)>>
      BY <2>1 DEF ToUTF8
    <2> QED BY <1>1, <1>2, <1>4, <2>2
  <1>9. u \in Nat /\ u <= LastCodePoint
    BY <1>4, SMT DEF LastCodePoint
  <1>10. May(u, 2) <=> Is2(a, b)
    <2>1. May(u, 2) <=> 128 <= u
      BY <1>5, <1>7, SMT DEF May
    <2>2. Is2(a, b) <=> a \in 194..223
      BY Zenon DEF Is2
    <2> QED BY <1>6, <2>1, <2>2, SMT
  <1>11. May(u, 2) => Shortest(u, 2)
    BY Zenon DEF May
  <1> QED BY <1>3, <1>8, <1>9, <1>10, <1>11, Zenon

\* The same of three bytes.
LEMMA ThreeBytes ==
  ASSUME NEW a \in Lead3, NEW b \in Tails, NEW c \in Tails
  PROVE  LET u == Of3(a, b, c)
         IN /\ May(u, 3) <=> Is3(a, b, c)
            /\ May(u, 3) => ToUTF8(u) = <<a, b, c>> /\ u \in Nat /\ u <= LastCodePoint
  <1> DEFINE x == a % 16
             y == b % 64
             z == c % 64
             u == x * 4096 + y * 64 + z
  <1>1. x \in 0..15 /\ a = 224 + x
    BY DEF Lead3
  <1>2. y \in 0..63 /\ b = 128 + y /\ z \in 0..63 /\ c = 128 + z
    BY TailRead
  <1>3. Of3(a, b, c) = u
    BY DEF Of3
  <1> HIDE DEF x, y, z
  <1>4. u \in Nat /\ u < 65536 /\ u \div 4096 = x /\ (u \div 64) % 64 = y /\ u % 64 = z
    <2>1. u \in Nat /\ u < 65536
      BY <1>1, <1>2, SMT
    <2>2. u \div 4096 = x
      BY <1>1, <1>2, SMT
    <2>3. u \div 64 = x * 64 + y /\ u % 64 = z
      BY <1>1, <1>2, SMT
    <2>4. (x * 64 + y) % 64 = y
      BY <1>1, <1>2, SMT
    <2> QED BY <2>1, <2>2, <2>3, <2>4
  <1>5. u = x * 4096 + y * 64 + z
    OBVIOUS
  <1> HIDE DEF u
  <1>6. u \in Surrogates <=> a = 237 /\ ~(b \in 128..159)
    <2>1. u \in Surrogates <=> 55296 <= u /\ u <= 57343
      BY <1>4, SurrogateIs, SMT
    <2>2. 55296 <= u /\ u <= 57343 <=> x = 13 /\ 32 <= y
      BY <1>1, <1>2, <1>5, SMT
    <2>3. x = 13 /\ 32 <= y <=> a = 237 /\ ~(b \in 128..159)
      BY <1>1, <1>2, SMT
    <2> QED BY <2>1, <2>2, <2>3, SMT
  <1>7. Shortest(u, 3) <=> ~(a = 224 /\ ~(b \in 160..191))
    <2>1. Shortest(u, 3) <=> 2048 <= u
      BY <1>4 DEF Shortest
    <2>2. 2048 <= u <=> ~(x = 0 /\ y < 32)
      BY <1>1, <1>2, <1>5, SMT
    <2>3. (x = 0 /\ y < 32) <=> (a = 224 /\ ~(b \in 160..191))
      BY <1>1, <1>2, SMT
    <2> QED BY <2>1, <2>2, <2>3, SMT
  <1>8. ASSUME Shortest(u, 3) PROVE ToUTF8(u) = <<a, b, c>>
    <2>1. ~(u < 128) /\ ~(u < 2048) /\ u < 65536
      BY <1>4, <1>8 DEF Shortest
    <2>2. ToUTF8(u) = <<224 + u \div 4096, 128 + ((u \div 64) % 64), 128 + (u % 64)>>
      BY <2>1 DEF ToUTF8
    <2> QED BY <1>1, <1>2, <1>4, <2>2
  <1>9. u \in Nat /\ u <= LastCodePoint
    BY <1>4, SMT DEF LastCodePoint
  <1>10. Is3(a, b, c) <=> ~(a = 237 /\ ~(b \in 128..159)) /\ ~(a = 224 /\ ~(b \in 160..191))
    BY DEF Is3, Tails, Lead3
  <1>11. May(u, 3) <=> Is3(a, b, c)
    <2>1. May(u, 3) <=> u \notin Surrogates /\ Shortest(u, 3)
      BY Zenon DEF May
    <2> HIDE DEF Is3
    <2> QED BY <1>6, <1>7, <1>10, <2>1
  <1>12. May(u, 3) => Shortest(u, 3)
    BY Zenon DEF May
  <1> QED BY <1>3, <1>8, <1>9, <1>11, <1>12, Zenon

\* The same of four bytes.
LEMMA FourBytes ==
  ASSUME NEW a \in Lead4, NEW b \in Tails, NEW c \in Tails, NEW d \in Tails
  PROVE  LET u == Of4(a, b, c, d)
         IN /\ May(u, 4) <=> Is4(a, b, c, d)
            /\ May(u, 4) => ToUTF8(u) = <<a, b, c, d>> /\ u \in Nat /\ u <= LastCodePoint
  <1> DEFINE x == a % 8
             y == b % 64
             z == c % 64
             w == d % 64
             u == x * 262144 + y * 4096 + z * 64 + w
  <1>1. x \in 0..7 /\ a = 240 + x
    BY DEF Lead4
  <1>2. /\ y \in 0..63 /\ b = 128 + y /\ z \in 0..63 /\ c = 128 + z
        /\ w \in 0..63 /\ d = 128 + w
    BY TailRead
  <1>3. Of4(a, b, c, d) = u
    BY DEF Of4
  <1> HIDE DEF x, y, z, w
  <1>4. /\ u \in Nat /\ u \div 262144 = x /\ (u \div 4096) % 64 = y
        /\ (u \div 64) % 64 = z /\ u % 64 = w
    <2>1. u \in Nat
      BY <1>1, <1>2, SMT
    <2>2. u \div 262144 = x
      BY <1>1, <1>2, SMT
    <2>3. u \div 4096 = x * 64 + y
      BY <1>1, <1>2, SMT
    <2>4. u \div 64 = (x * 64 + y) * 64 + z /\ u % 64 = w
      BY <1>1, <1>2, SMT
    <2>5. (x * 64 + y) % 64 = y
      BY <1>1, <1>2, SMT
    <2>6. ((x * 64 + y) * 64 + z) % 64 = z
      BY <1>1, <1>2, SMT
    <2> QED BY <2>1, <2>2, <2>3, <2>4, <2>5, <2>6
  <1>5. u = x * 262144 + y * 4096 + z * 64 + w
    OBVIOUS
  <1> HIDE DEF u
  <1>6. Shortest(u, 4) <=> 65536 <= u /\ u <= 1114111
    BY <1>4, SMT DEF Shortest, LastCodePoint
  <1>7. 65536 <= u <=> ~(a = 240 /\ ~(b \in 144..191))
    <2>1. 65536 <= u <=> ~(x = 0 /\ y < 16)
      BY <1>1, <1>2, <1>5, SMT
    <2>2. x = 0 /\ y < 16 <=> a = 240 /\ ~(b \in 144..191)
      BY <1>1, <1>2, SMT
    <2> QED BY <2>1, <2>2, SMT
  <1>8. u <= 1114111 <=> a < 244 \/ (a = 244 /\ b \in 128..143)
    <2>1. u <= 1114111 <=> x < 4 \/ (x = 4 /\ y < 16)
      BY <1>1, <1>2, <1>5, SMT
    <2>2. x < 4 \/ (x = 4 /\ y < 16) <=> a < 244 \/ (a = 244 /\ b \in 128..143)
      BY <1>1, <1>2, SMT
    <2> QED BY <2>1, <2>2, SMT
  <1>9. ASSUME Shortest(u, 4)
        PROVE  ToUTF8(u) = <<a, b, c, d>> /\ u \notin Surrogates /\ u \in Nat /\ u <= LastCodePoint
    <2>1. ~(u < 128) /\ ~(u < 2048) /\ ~(u < 65536) /\ u <= LastCodePoint
      BY <1>4, <1>6, <1>9, SMT DEF LastCodePoint
    <2>2. ToUTF8(u) = <<240 + u \div 262144, 128 + ((u \div 4096) % 64),
                        128 + ((u \div 64) % 64), 128 + (u % 64)>>
      BY <2>1, SMT DEF ToUTF8
    <2>3. ToUTF8(u) = <<a, b, c, d>>
      BY <1>1, <1>2, <1>4, <2>2, SMT
    <2>4. u \notin Surrogates
      <3>1. ~(u <= 57343)
        BY <1>4, <2>1, SMT
      <3> QED BY <1>4, <3>1, SurrogateIs
    <2>5. u \in Nat
      BY <1>4
    <2> QED BY <2>1, <2>3, <2>4, <2>5
  <1>10. Is4(a, b, c, d) <=> /\ ~(a = 240 /\ ~(b \in 144..191))
                             /\ a < 244 \/ (a = 244 /\ b \in 128..143)
    BY DEF Is4, Tails, Lead4
  <1>11. Shortest(u, 4) <=> Is4(a, b, c, d)
    BY <1>6, <1>7, <1>8, <1>10, SMT
  <1>12. May(u, 4) <=> Shortest(u, 4)
    BY <1>9, Zenon DEF May
  <1> QED BY <1>3, <1>9, <1>11, <1>12, Zenon

\* The table of the well-formed sequences, row by row.
Row1 == 0..127
Row2 == 194..223
Row3 == {224}
Row3b == 160..191
Row4 == 225..236
Row5 == {237}
Row5b == 128..159
Row6 == 238..239
Row7 == {240}
Row7b == 144..191
Row8 == 241..243
Row9 == {244}
Row9b == 128..143

\* The row fits the text after p.
FitsWell(s, p, w) == \A k \in DOMAIN w : s[p + k] \in w[k]
BeginsSequence(s, p, m) == \E w \in WellFormedBytes : Len(w) = m /\ p + m <= Len(s) /\ FitsWell(s, p, w)

\* The rows of the table of well-formed sequences, named.
LEMMA RowsAre ==
  WellFormedBytes =
    {<<Row1>>, <<Row2, Tails>>, <<Row3, Row3b, Tails>>, <<Row4, Tails, Tails>>,
     <<Row5, Row5b, Tails>>, <<Row6, Tails, Tails>>, <<Row7, Row7b, Tails, Tails>>,
     <<Row8, Tails, Tails, Tails>>, <<Row9, Row9b, Tails, Tails>>}
  BY DEF WellFormedBytes, Row1, Row2, Row3, Row3b, Row4, Row5, Row5b, Row6, Row7, Row7b, Row8,
         Row9, Row9b, Tails

\* A row of so many ranges.
Ranges(w, m) == Len(w) = m /\ DOMAIN w = 1..m

\* A tuple of ranges holds them in order.
LEMMA RangesOf ==
  /\ \A a : Ranges(<<a>>, 1) /\ <<a>>[1] = a
  /\ \A a, b : Ranges(<<a, b>>, 2) /\ <<a, b>>[1] = a /\ <<a, b>>[2] = b
  /\ \A a, b, c : /\ Ranges(<<a, b, c>>, 3) /\ <<a, b, c>>[1] = a /\ <<a, b, c>>[2] = b
                  /\ <<a, b, c>>[3] = c
  /\ \A a, b, c, d : /\ Ranges(<<a, b, c, d>>, 4) /\ <<a, b, c, d>>[1] = a /\ <<a, b, c, d>>[2] = b
                     /\ <<a, b, c, d>>[3] = c /\ <<a, b, c, d>>[4] = d
  BY DEF Ranges

\* Bytes fit a row if each is in its range.
LEMMA FitsRanges ==
  ASSUME NEW s, NEW p, NEW w
  PROVE  /\ Ranges(w, 1) => (FitsWell(s, p, w) <=> s[p + 1] \in w[1])
         /\ Ranges(w, 2) => (FitsWell(s, p, w) <=> s[p + 1] \in w[1] /\ s[p + 2] \in w[2])
         /\ Ranges(w, 3) => (FitsWell(s, p, w) <=> /\ s[p + 1] \in w[1] /\ s[p + 2] \in w[2]
                                                   /\ s[p + 3] \in w[3])
         /\ Ranges(w, 4) => (FitsWell(s, p, w) <=> /\ s[p + 1] \in w[1] /\ s[p + 2] \in w[2]
                                                   /\ s[p + 3] \in w[3] /\ s[p + 4] \in w[4])
  <1>1. /\ 1..1 = {1} /\ 1..2 = {1, 2} /\ 1..3 = {1, 2, 3} /\ 1..4 = {1, 2, 3, 4}
    OBVIOUS
  <1>2. Ranges(w, 1) => (FitsWell(s, p, w) <=> s[p + 1] \in w[1])
    BY <1>1, Zenon DEF Ranges, FitsWell
  <1>3. Ranges(w, 2) => (FitsWell(s, p, w) <=> s[p + 1] \in w[1] /\ s[p + 2] \in w[2])
    BY <1>1, Zenon DEF Ranges, FitsWell
  <1>4. Ranges(w, 3) => (FitsWell(s, p, w) <=> /\ s[p + 1] \in w[1] /\ s[p + 2] \in w[2]
                                               /\ s[p + 3] \in w[3])
    BY <1>1, Zenon DEF Ranges, FitsWell
  <1>5. Ranges(w, 4) => (FitsWell(s, p, w) <=> /\ s[p + 1] \in w[1] /\ s[p + 2] \in w[2]
                                               /\ s[p + 3] \in w[3] /\ s[p + 4] \in w[4])
    BY <1>1, Zenon DEF Ranges, FitsWell
  <1> QED BY <1>2, <1>3, <1>4, <1>5

FitsWell1(a) == a \in Row1
FitsWell2(a, b) == a \in Row2 /\ b \in Tails
FitsWell3(a, b, c) ==
      \/ a \in Row3 /\ b \in Row3b /\ c \in Tails
      \/ a \in Row4 /\ b \in Tails /\ c \in Tails
      \/ a \in Row5 /\ b \in Row5b /\ c \in Tails
      \/ a \in Row6 /\ b \in Tails /\ c \in Tails
FitsWell4(a, b, c, d) ==
      \/ a \in Row7 /\ b \in Row7b /\ c \in Tails /\ d \in Tails
      \/ a \in Row8 /\ b \in Tails /\ c \in Tails /\ d \in Tails
      \/ a \in Row9 /\ b \in Row9b /\ c \in Tails /\ d \in Tails

\* A well-formed sequence begins at a place if the bytes there fit a row.
LEMMA BeginsSequenceIs ==
  ASSUME NEW s, NEW p, NEW m
  PROVE  BeginsSequence(s, p, m) <=>
                   /\ p + m <= Len(s)
                   /\ \/ m = 1 /\ FitsWell1(s[p + 1])
                      \/ m = 2 /\ FitsWell2(s[p + 1], s[p + 2])
                      \/ m = 3 /\ FitsWell3(s[p + 1], s[p + 2], s[p + 3])
                      \/ m = 4 /\ FitsWell4(s[p + 1], s[p + 2], s[p + 3], s[p + 4])
  <1>1. ASSUME NEW a
        PROVE  Len(<<a>>) = 1 /\ (FitsWell(s, p, <<a>>) <=> s[p + 1] \in a)
    <2> DEFINE w == <<a>>
    <2>1. Ranges(w, 1) /\ w[1] = a
      BY RangesOf, Zenon
    <2> HIDE DEF w
    <2>2. Len(w) = 1 /\ (FitsWell(s, p, w) <=> s[p + 1] \in a)
      BY <2>1, FitsRanges, Zenon DEF Ranges
    <2> QED BY <2>2, Zenon DEF w
  <1>2. ASSUME NEW a, NEW b
        PROVE  Len(<<a, b>>) = 2 /\ (FitsWell(s, p, <<a, b>>) <=> s[p + 1] \in a /\ s[p + 2] \in b)
    <2> DEFINE w == <<a, b>>
    <2>1. Ranges(w, 2) /\ w[1] = a /\ w[2] = b
      BY RangesOf, Zenon
    <2> HIDE DEF w
    <2>2. Len(w) = 2 /\ (FitsWell(s, p, w) <=> s[p + 1] \in a /\ s[p + 2] \in b)
      BY <2>1, FitsRanges, Zenon DEF Ranges
    <2> QED BY <2>2, Zenon DEF w
  <1>3. ASSUME NEW a, NEW b, NEW c
        PROVE  /\ Len(<<a, b, c>>) = 3
               /\ FitsWell(s, p, <<a, b, c>>) <=> s[p + 1] \in a /\ s[p + 2] \in b /\ s[p + 3] \in c
    <2> DEFINE w == <<a, b, c>>
    <2>1. Ranges(w, 3) /\ w[1] = a /\ w[2] = b /\ w[3] = c
      BY RangesOf, Zenon
    <2> HIDE DEF w
    <2>2. Len(w) = 3 /\ (FitsWell(s, p, w) <=> s[p + 1] \in a /\ s[p + 2] \in b /\ s[p + 3] \in c)
      BY <2>1, FitsRanges, Zenon DEF Ranges
    <2> QED BY <2>2, Zenon DEF w
  <1>4. ASSUME NEW a, NEW b, NEW c, NEW d
        PROVE  /\ Len(<<a, b, c, d>>) = 4
               /\ FitsWell(s, p, <<a, b, c, d>>) <=> /\ s[p + 1] \in a /\ s[p + 2] \in b
                                                     /\ s[p + 3] \in c /\ s[p + 4] \in d
    <2> DEFINE w == <<a, b, c, d>>
    <2>1. Ranges(w, 4) /\ w[1] = a /\ w[2] = b /\ w[3] = c /\ w[4] = d
      BY RangesOf, Zenon
    <2> HIDE DEF w
    <2>2. Len(w) = 4 /\ (FitsWell(s, p, w) <=> /\ s[p + 1] \in a /\ s[p + 2] \in b
                                               /\ s[p + 3] \in c /\ s[p + 4] \in d)
      BY <2>1, FitsRanges, Zenon DEF Ranges
    <2> QED BY <2>2, Zenon DEF w
  <1> DEFINE Is(w) == Len(w) = m /\ p + m <= Len(s) /\ FitsWell(s, p, w)
             one == <<Row1>>
             two == <<Row2, Tails>>
             three == <<Row3, Row3b, Tails>>
             four == <<Row4, Tails, Tails>>
             five == <<Row5, Row5b, Tails>>
             six == <<Row6, Tails, Tails>>
             seven == <<Row7, Row7b, Tails, Tails>>
             eight == <<Row8, Tails, Tails, Tails>>
             nine == <<Row9, Row9b, Tails, Tails>>
  <1>5. WellFormedBytes = {one, two, three, four, five, six, seven, eight, nine}
    BY RowsAre, Zenon
  <1>6. /\ Len(one) = 1 /\ (FitsWell(s, p, one) <=> FitsWell1(s[p + 1]))
        /\ Len(two) = 2 /\ (FitsWell(s, p, two) <=> FitsWell2(s[p + 1], s[p + 2]))
    BY <1>1, <1>2, Zenon DEF FitsWell1, FitsWell2
  <1>7. /\ Len(three) = 3 /\ Len(four) = 3 /\ Len(five) = 3 /\ Len(six) = 3
        /\ FitsWell3(s[p + 1], s[p + 2], s[p + 3]) <=>
                 (FitsWell(s, p, three) \/ FitsWell(s, p, four) \/ FitsWell(s, p, five) \/ FitsWell(s, p, six))
    BY <1>3, Zenon DEF FitsWell3
  <1>8. /\ Len(seven) = 4 /\ Len(eight) = 4 /\ Len(nine) = 4
        /\ FitsWell4(s[p + 1], s[p + 2], s[p + 3], s[p + 4]) <=>
                 (FitsWell(s, p, seven) \/ FitsWell(s, p, eight) \/ FitsWell(s, p, nine))
    BY <1>4, Zenon DEF FitsWell4
  <1> HIDE DEF one, two, three, four, five, six, seven, eight, nine
  <1>9. BeginsSequence(s, p, m) <=> ( \/ Is(one) \/ Is(two)
                                      \/ Is(three) \/ Is(four) \/ Is(five) \/ Is(six)
                                      \/ Is(seven) \/ Is(eight) \/ Is(nine) )
    BY <1>5, Zenon DEF BeginsSequence
  <1> QED BY <1>6, <1>7, <1>8, <1>9, Zenon

\* The rows, in the bits that FromUTF8() looks at.
LEMMA FitsAre ==
  ASSUME NEW a, NEW b, NEW c, NEW d
  PROVE  /\ FitsWell1(a) <=> a \in 0..127
         /\ FitsWell2(a, b) <=> Is2(a, b)
         /\ FitsWell3(a, b, c) <=> Is3(a, b, c)
         /\ FitsWell4(a, b, c, d) <=> Is4(a, b, c, d)
  <1>1. FitsWell1(a) <=> a \in 0..127
    BY Zenon DEF FitsWell1, Row1
  <1>2. FitsWell2(a, b) <=> Is2(a, b)
    BY Zenon DEF FitsWell2, Row2, Is2
  <1>3. a \in Row3 <=> a = 224
    BY Zenon DEF Row3
  <1>4. a \in Row5 <=> a = 237
    BY Zenon DEF Row5
  <1>5. a \in Row7 <=> a = 240
    BY Zenon DEF Row7
  <1>6. a \in Row9 <=> a = 244
    BY Zenon DEF Row9
  <1>7. FitsWell3(a, b, c) <=> Is3(a, b, c)
    BY <1>3, <1>4, Zenon DEF FitsWell3, Row3b, Row4, Row5b, Row6, Is3
  <1>8. FitsWell4(a, b, c, d) <=> Is4(a, b, c, d)
    BY <1>5, <1>6, Zenon DEF FitsWell4, Row7b, Row8, Row9b, Is4
  <1> QED BY <1>1, <1>2, <1>7, <1>8, Zenon

\* Past the last byte FromUTF8() looks at the terminating zero, which is no tail.
LEMMA TailAt ==
  ASSUME NEW s \in Seq(Octets), NEW i \in Nat, i > 0
  PROVE  /\ At(s, i) \in Octets /\ (i <= Len(s) => At(s, i) = s[i])
         /\ At(s, i) \in Tails <=> i <= Len(s) /\ s[i] \in Tails
  <1>1. DOMAIN s = 1..Len(s) /\ Len(s) \in Nat
    BY LenProperties
  <1>2. i \in DOMAIN s <=> i <= Len(s)
    BY <1>1
  <1>3. i <= Len(s) => At(s, i) = s[i] /\ s[i] \in Octets
    <2> SUFFICES ASSUME i <= Len(s) PROVE At(s, i) = s[i] /\ s[i] \in Octets
      OBVIOUS
    <2>1. At(s, i) = s[i]
      BY <1>2, Zenon DEF At
    <2>2. i \in 1..Len(s)
      BY <1>1
    <2> QED BY <2>1, <2>2, ElementOfSeq, Zenon
  <1>4. ~(i <= Len(s)) => At(s, i) = 0
    BY <1>2, Zenon DEF At
  <1>5. 0 \in Octets /\ 0 \notin Tails
    BY DEF Octets, Tails
  <1> QED BY <1>3, <1>4, <1>5, Zenon

\* A lead byte begins sequences of one length.
LEMMA LeadsApart ==
  ASSUME NEW a \in Octets, NEW b, NEW c, NEW d
  PROVE  /\ a \in Row1 <=> LengthOf(a) = 1
         /\ Is2(a, b) => LengthOf(a) = 2
         /\ Is3(a, b, c) => LengthOf(a) = 3
         /\ Is4(a, b, c, d) => LengthOf(a) = 4
         /\ LengthOf(a) = 2 => a \in Lead2
         /\ LengthOf(a) = 3 => a \in Lead3
         /\ LengthOf(a) = 4 => a \in Lead4
         /\ LengthOf(a) \in 0..4
  <1>1. /\ a \in Row1 => LengthOf(a) = 1
        /\ a \in Lead2 => LengthOf(a) = 2
        /\ a \in Lead3 => LengthOf(a) = 3
        /\ a \in Lead4 => LengthOf(a) = 4
        /\ a \in 128..191 \cup 248..255 => LengthOf(a) = 0
    BY DEF LengthOf, Octets, Row1, Lead2, Lead3, Lead4
  <1>2. \/ a \in Row1 \/ a \in Lead2 \/ a \in Lead3 \/ a \in Lead4
        \/ a \in 128..191 \cup 248..255
    BY DEF Octets, Row1, Lead2, Lead3, Lead4
  <1>3. /\ Is2(a, b) => a \in Lead2
        /\ Is3(a, b, c) => a \in Lead3
        /\ Is4(a, b, c, d) => a \in Lead4
    BY DEF Is2, Is3, Is4, Lead2, Lead3, Lead4
  <1> QED BY <1>1, <1>2, <1>3

\* The code points are the numbers up to the last one.
LEMMA CodePointsAre ==
  ASSUME NEW n \in Nat
  PROVE  n <= LastCodePoint <=> n \in CodePoints
  <1>1. LastCodePoint \in Int
    BY SMT DEF LastCodePoint
  <1> QED BY <1>1 DEF CodePoints

\* The bytes of s after p that one call of FromUTF8() is about.
SaysLead(s, p, m) ==
     /\ \A j \in 1..(m - 1) : At(s, (p + 1) + j) \in Tails
     /\ May(CodePoint(s, p + 1, m), m)
Encodes(s, p, m) ==
  LET u == CodePoint(s, p + 1, m)
  IN u \in CodePoints /\ ToUTF8(u) = SubSeq(s, p + 1, p + m)

\* What FromUTF8() returns, by the length that its first byte says.
LEMMA FromUTF8Is ==
  ASSUME NEW s, NEW p, NEW a, At(s, p + 1) = a
  PROVE  LET u == FromUTF8(s, p + 1)
             m == LengthOf(a)
         IN /\ u.len = m
            /\ u.ucc = IF m > 0 /\ SaysLead(s, p, m) THEN CodePoint(s, p + 1, m) ELSE Corrupt
  <1> DEFINE i == p + 1
             m == LengthOf(At(s, i))
             ucc == CodePoint(s, i, m)
             valid == /\ m > 0 /\ \A j \in 1..(m - 1) : At(s, i + j) \in 128..191
                      /\ ucc \notin HighSurrogates \cup LowSurrogates /\ Shortest(ucc, m)
  <1>1. FromUTF8(s, i) = [ucc |-> IF valid THEN ucc ELSE Corrupt, len |-> m]
    BY Zenon DEF FromUTF8
  <1>2. valid <=> m > 0 /\ SaysLead(s, p, m)
    BY Zenon DEF SaysLead, May, Surrogates, Tails
  <1> HIDE DEF valid, ucc, m
  <1>3. FromUTF8(s, i).len = m /\ FromUTF8(s, i).ucc = IF valid THEN ucc ELSE Corrupt
    BY <1>1
  <1> QED BY <1>2, <1>3, Zenon DEF ucc, m

\* What the bytes say, by the length that the first one tells.
LEMMA FirstBytes ==
  ASSUME NEW s \in Seq(Octets), NEW p \in Nat, NEW m \in 1..4, p + m <= Len(s)
  PROVE  /\ m = 1 => SubSeq(s, p + 1, p + m) = <<s[p + 1]>>
         /\ m = 2 => SubSeq(s, p + 1, p + m) = <<s[p + 1], s[p + 2]>>
         /\ m = 3 => SubSeq(s, p + 1, p + m) = <<s[p + 1], s[p + 2], s[p + 3]>>
         /\ m = 4 => SubSeq(s, p + 1, p + m) = <<s[p + 1], s[p + 2], s[p + 3], s[p + 4]>>
  <1>0. Len(s) \in Nat
    BY LenProperties
  <1>1. ASSUME NEW v \in Seq(Octets), Len(v) = m, \A i \in 1..m : s[p + i] = v[i]
        PROVE  SubSeq(s, p + 1, p + m) = v
    BY <1>1, PartIs
  <1>2. CASE m = 1
    <2> DEFINE v == <<s[p + 1]>>
    <2>1. p + 1 \in 1..Len(s)
      BY <1>0, <1>2
    <2>2. s[p + 1] \in Octets
      BY <2>1, ElementOfSeq, Zenon
    <2>3. v \in Seq(Octets) /\ Len(v) = m
      BY <1>2, <2>2
    <2>4. \A i \in 1..m : s[p + i] = v[i]
      BY <1>2
    <2> HIDE DEF v
    <2>5. SubSeq(s, p + 1, p + m) = v
      BY <1>1, <2>3, <2>4, Zenon
    <2>6. m # 2 /\ m # 3 /\ m # 4
      BY <1>2
    <2> QED BY <2>5, <2>6, Zenon DEF v
  <1>3. CASE m = 2
    <2> DEFINE v == <<s[p + 1], s[p + 2]>>
    <2>1. p + 1 \in 1..Len(s) /\ p + 2 \in 1..Len(s)
      BY <1>0, <1>3
    <2>2. s[p + 1] \in Octets /\ s[p + 2] \in Octets
      BY <2>1, ElementOfSeq, Zenon
    <2>3. v \in Seq(Octets) /\ Len(v) = m
      BY <1>3, <2>2
    <2>4. \A i \in 1..m : s[p + i] = v[i]
      BY <1>3
    <2> HIDE DEF v
    <2>5. SubSeq(s, p + 1, p + m) = v
      BY <1>1, <2>3, <2>4, Zenon
    <2>6. m # 1 /\ m # 3 /\ m # 4
      BY <1>3
    <2> QED BY <2>5, <2>6, Zenon DEF v
  <1>4. CASE m = 3
    <2> DEFINE v == <<s[p + 1], s[p + 2], s[p + 3]>>
    <2>1. p + 1 \in 1..Len(s) /\ p + 2 \in 1..Len(s) /\ p + 3 \in 1..Len(s)
      BY <1>0, <1>4
    <2>2. s[p + 1] \in Octets /\ s[p + 2] \in Octets /\ s[p + 3] \in Octets
      BY <2>1, ElementOfSeq, Zenon
    <2>3. v \in Seq(Octets) /\ Len(v) = m
      BY <1>4, <2>2
    <2>4. \A i \in 1..m : s[p + i] = v[i]
      BY <1>4
    <2> HIDE DEF v
    <2>5. SubSeq(s, p + 1, p + m) = v
      BY <1>1, <2>3, <2>4, Zenon
    <2>6. m # 1 /\ m # 2 /\ m # 4
      BY <1>4
    <2> QED BY <2>5, <2>6, Zenon DEF v
  <1>5. CASE m = 4
    <2> DEFINE v == <<s[p + 1], s[p + 2], s[p + 3], s[p + 4]>>
    <2>1. p + 1 \in 1..Len(s) /\ p + 2 \in 1..Len(s) /\ p + 3 \in 1..Len(s) /\ p + 4 \in 1..Len(s)
      BY <1>0, <1>5
    <2>2. s[p + 1] \in Octets /\ s[p + 2] \in Octets /\ s[p + 3] \in Octets /\ s[p + 4] \in Octets
      BY <2>1, ElementOfSeq, Zenon
    <2>3. v \in Seq(Octets) /\ Len(v) = m
      BY <1>5, <2>2
    <2>4. \A i \in 1..m : s[p + i] = v[i]
      BY <1>5
    <2> HIDE DEF v
    <2>5. SubSeq(s, p + 1, p + m) = v
      BY <1>1, <2>3, <2>4, Zenon
    <2>6. m # 1 /\ m # 2 /\ m # 3
      BY <1>5
    <2> QED BY <2>5, <2>6, Zenon DEF v
  <1> QED BY <1>2, <1>3, <1>4, <1>5

\* What FromUTF8() recognizes is what is well-formed, and ToUTF8() writes it again.
Agrees(s, p, m) == /\ SaysLead(s, p, m) <=> BeginsSequence(s, p, m)
                   /\ BeginsSequence(s, p, m) => p + m <= Len(s) /\ Encodes(s, p, m)

\* FromUTF8() agrees with the table on a byte alone.
LEMMA OneAgrees ==
  ASSUME NEW s \in Seq(Octets), NEW p \in Nat, p < Len(s), s[p + 1] \in Row1
  PROVE  Agrees(s, p, 1)
  <1> DEFINE a == s[p + 1]
  <1>1. Len(s) \in Nat /\ p + 1 \in Nat /\ p + 1 > 0 /\ p + 1 <= Len(s) /\ 1 \in 1..4
    BY LenProperties
  <1>2. CodePoint(s, p + 1, 1) = a
    <2>1. At(s, p + 1) = a
      BY <1>1, TailAt, Zenon
    <2>2. CodePoint(s, p + 1, 1) = At(s, p + 1)
      BY DEF CodePoint
    <2> QED BY <2>1, <2>2, Zenon
  <1>0. a \in Row1
    OBVIOUS
  <1>4. SubSeq(s, p + 1, p + 1) = <<a>>
    BY <1>1, FirstBytes, Zenon
  <1> HIDE DEF a
  <1>3. a \in Int /\ 0 <= a /\ a < 128
    BY <1>0 DEF Row1
  <1>5. May(a, 1)
    <2>1. ~(55296 <= a)
      BY <1>3, SMT
    <2>2. a \notin Surrogates
      BY <1>3, <2>1, SurrogateIs, SMT
    <2>3. Shortest(a, 1)
      BY DEF Shortest
    <2> QED BY <2>2, <2>3, Zenon DEF May
  <1>6. SaysLead(s, p, 1)
    <2>1. \A j \in 1..(1 - 1) : At(s, (p + 1) + j) \in Tails
      OBVIOUS
    <2> QED BY <1>2, <1>5, <2>1, Zenon DEF SaysLead
  <1>7. BeginsSequence(s, p, 1)
    <2>1. FitsWell1(a)
      BY <1>0, Zenon DEF FitsWell1
    <2> QED BY <1>1, <2>1, BeginsSequenceIs, Zenon DEF a
  <1>8. Encodes(s, p, 1)
    <2>1. ToUTF8(a) = <<a>>
      BY <1>3 DEF ToUTF8
    <2>2. a \in CodePoints
      <3>1. a \in Nat /\ a <= LastCodePoint
        BY <1>3, SMT DEF LastCodePoint
      <3> QED BY <3>1, CodePointsAre, Zenon
    <2> QED BY <1>2, <1>4, <2>1, <2>2, Zenon DEF Encodes
  <1> QED BY <1>1, <1>6, <1>7, <1>8, Zenon DEF Agrees

\* From where the bytes are.
Present(s, p, m) ==
  /\ \A j \in 1..(m - 1) : At(s, (p + 1) + j) \in Tails
  /\ p + m <= Len(s)

\* If each tail is found, the sequence is within the text.
LEMMA TailsPresent ==
  ASSUME NEW s \in Seq(Octets), NEW p \in Nat, p < Len(s), NEW m \in 1..4
  PROVE  /\ (\A j \in 1..(m - 1) : At(s, (p + 1) + j) \in Tails) => Present(s, p, m)
         /\ m = 2 => (Present(s, p, m) <=> p + 2 <= Len(s) /\ s[p + 2] \in Tails)
         /\ m = 3 => (Present(s, p, m) <=> p + 3 <= Len(s) /\ s[p + 2] \in Tails /\ s[p + 3] \in Tails)
         /\ m = 4 => (Present(s, p, m) <=> /\ p + 4 <= Len(s) /\ s[p + 2] \in Tails
                                           /\ s[p + 3] \in Tails /\ s[p + 4] \in Tails)
         /\ p + m <= Len(s) => \A j \in 1..m : At(s, p + j) = s[p + j]
  <1>1. Len(s) \in Nat
    BY LenProperties
  <1>2. ASSUME NEW j \in 1..3
        PROVE  At(s, (p + 1) + j) \in Tails <=> p + j + 1 <= Len(s) /\ s[p + j + 1] \in Tails
    <2> DEFINE i == (p + 1) + j
    <2>1. i \in Nat /\ i > 0 /\ i = p + j + 1
      OBVIOUS
    <2> HIDE DEF i
    <2> QED BY <2>1, TailAt, Zenon DEF i
  <1>3. ASSUME \A j \in 1..(m - 1) : At(s, (p + 1) + j) \in Tails
        PROVE  p + m <= Len(s)
    <2>1. CASE m = 1
      BY <1>1, <2>1
    <2>2. CASE m # 1
      <3>1. m - 1 \in 1..3 /\ m - 1 \in 1..(m - 1) /\ p + (m - 1) + 1 = p + m
        BY <2>2
      <3> QED BY <1>2, <1>3, <3>1, Zenon
    <2> QED BY <2>1, <2>2
  <1>4. /\ p + 1 + 1 = p + 2 /\ p + 2 + 1 = p + 3 /\ p + 3 + 1 = p + 4
        /\ 1..(2 - 1) = {1} /\ 1..(3 - 1) = {1, 2} /\ 1..(4 - 1) = {1, 2, 3}
        /\ 1 \in 1..3 /\ 2 \in 1..3 /\ 3 \in 1..3
    OBVIOUS
  <1>5. ASSUME m = 2 PROVE Present(s, p, m) <=> p + 2 <= Len(s) /\ s[p + 2] \in Tails
    BY <1>2, <1>4, <1>5, Zenon DEF Present
  <1>6. ASSUME m = 3
        PROVE  Present(s, p, m) <=> p + 3 <= Len(s) /\ s[p + 2] \in Tails /\ s[p + 3] \in Tails
    <2>1. p + 3 <= Len(s) => p + 2 <= Len(s)
      BY <1>1
    <2> QED BY <1>2, <1>4, <1>6, <2>1, Zenon DEF Present
  <1>7. ASSUME m = 4
        PROVE  Present(s, p, m) <=> /\ p + 4 <= Len(s) /\ s[p + 2] \in Tails
                                    /\ s[p + 3] \in Tails /\ s[p + 4] \in Tails
    <2>1. p + 4 <= Len(s) => p + 3 <= Len(s) /\ p + 2 <= Len(s)
      BY <1>1
    <2> QED BY <1>2, <1>4, <1>7, <2>1, Zenon DEF Present
  <1>8. ASSUME p + m <= Len(s), NEW j \in 1..m PROVE At(s, p + j) = s[p + j]
    <2>1. p + j \in Nat /\ p + j > 0 /\ p + j <= Len(s)
      BY <1>1, <1>8
    <2> QED BY <2>1, TailAt, Zenon
  <1> QED BY <1>3, <1>5, <1>6, <1>7, <1>8, Zenon DEF Present

\* The cases of more than one byte are alike: what is read, what fits.
LEMMA AgreesWith ==
  ASSUME NEW s \in Seq(Octets), NEW p \in Nat, p < Len(s), NEW m \in 2..4,
         BeginsSequence(s, p, m) => Present(s, p, m) /\ Encodes(s, p, m),
         Present(s, p, m) => (May(CodePoint(s, p + 1, m), m) <=> BeginsSequence(s, p, m))
  PROVE  Agrees(s, p, m)
  <1>1. m \in 1..4
    OBVIOUS
  <1>2. SaysLead(s, p, m) => Present(s, p, m)
    BY <1>1, TailsPresent, Zenon DEF SaysLead
  <1>3. SaysLead(s, p, m) <=> Present(s, p, m) /\ May(CodePoint(s, p + 1, m), m)
    BY <1>2, Zenon DEF SaysLead, Present
  <1> QED BY <1>2, <1>3, Zenon DEF Agrees, Present

\* It agrees on two bytes.
LEMMA TwoAgrees ==
  ASSUME NEW s \in Seq(Octets), NEW p \in Nat, p < Len(s), s[p + 1] \in Lead2
  PROVE  Agrees(s, p, 2)
  <1> DEFINE a == s[p + 1]
             b == s[p + 2]
             u == Of2(a, b)
  <1>1. 2 \in 1..4 /\ 2 \in 2..4 /\ 1 \in 1..2 /\ 2 \in 1..2 /\ p + 1 + 1 = p + 2
    OBVIOUS
  <1>2. BeginsSequence(s, p, 2) <=> p + 2 <= Len(s) /\ Is2(a, b)
    <2>1. 2 # 1 /\ 2 # 3 /\ 2 # 4
      OBVIOUS
    <2>2. FitsWell2(a, b) <=> Is2(a, b)
      BY FitsAre, Zenon
    <2> QED BY <2>1, <2>2, BeginsSequenceIs, Zenon
  <1>3. Is2(a, b) /\ p + 2 <= Len(s) => Present(s, p, 2)
    BY <1>1, TailsPresent, Zenon DEF Is2
  <1>4. ASSUME Present(s, p, 2)
        PROVE  /\ CodePoint(s, p + 1, 2) = u /\ p + 2 <= Len(s)
               /\ May(u, 2) <=> Is2(a, b)
               /\ May(u, 2) => ToUTF8(u) = <<a, b>> /\ u \in Nat /\ u <= LastCodePoint
    <2>1. p + 2 <= Len(s) /\ b \in Tails
      BY <1>1, <1>4, TailsPresent, Zenon
    <2>2. At(s, p + 1) = a /\ At(s, p + 2) = b
      BY <1>1, <2>1, TailsPresent, Zenon
    <2>3. CodePoint(s, p + 1, 2) = Of2(At(s, p + 1), At(s, (p + 1) + 1))
      BY DEF CodePoint, Of2
    <2>4. CodePoint(s, p + 1, 2) = u
      BY <1>1, <2>2, <2>3, Zenon
    <2>5. a \in Lead2
      OBVIOUS
    <2> QED BY <2>1, <2>4, <2>5, TwoBytes, Zenon
  <1>5. ASSUME Present(s, p, 2), Is2(a, b) PROVE Encodes(s, p, 2)
    <2>1. SubSeq(s, p + 1, p + 2) = <<a, b>>
      BY <1>1, <1>4, <1>5, FirstBytes, Zenon
    <2>2. ToUTF8(u) = <<a, b>> /\ u \in Nat /\ u <= LastCodePoint /\ CodePoint(s, p + 1, 2) = u
      BY <1>4, <1>5, Zenon
    <2> HIDE DEF u
    <2>3. u \in CodePoints
      BY <2>2, CodePointsAre, Zenon
    <2> QED BY <2>1, <2>2, <2>3, Zenon DEF Encodes
  <1>6. BeginsSequence(s, p, 2) => Present(s, p, 2) /\ Encodes(s, p, 2)
    BY <1>2, <1>3, <1>5, Zenon
  <1>7. Present(s, p, 2) => (May(CodePoint(s, p + 1, 2), 2) <=> BeginsSequence(s, p, 2))
    BY <1>2, <1>4, Zenon
  <1> QED BY <1>1, <1>6, <1>7, AgreesWith, Zenon

\* It agrees on three bytes.
LEMMA ThreeAgrees ==
  ASSUME NEW s \in Seq(Octets), NEW p \in Nat, p < Len(s), s[p + 1] \in Lead3
  PROVE  Agrees(s, p, 3)
  <1> DEFINE a == s[p + 1]
             b == s[p + 2]
             c == s[p + 3]
             u == Of3(a, b, c)
  <1>1. /\ 3 \in 1..4 /\ 3 \in 2..4 /\ 1 \in 1..3 /\ 2 \in 1..3 /\ 3 \in 1..3
        /\ p + 1 + 1 = p + 2 /\ p + 1 + 2 = p + 3
    OBVIOUS
  <1>2. BeginsSequence(s, p, 3) <=> p + 3 <= Len(s) /\ Is3(a, b, c)
    <2>1. 3 # 1 /\ 3 # 2 /\ 3 # 4
      OBVIOUS
    <2>2. FitsWell3(a, b, c) <=> Is3(a, b, c)
      BY FitsAre, Zenon
    <2> QED BY <2>1, <2>2, BeginsSequenceIs, Zenon
  <1>3. Is3(a, b, c) /\ p + 3 <= Len(s) => Present(s, p, 3)
    <2>1. Is3(a, b, c) => b \in Tails /\ c \in Tails
      BY DEF Is3, Tails
    <2> QED BY <1>1, <2>1, TailsPresent, Zenon
  <1>4. ASSUME Present(s, p, 3)
        PROVE  /\ CodePoint(s, p + 1, 3) = u /\ p + 3 <= Len(s)
               /\ May(u, 3) <=> Is3(a, b, c)
               /\ May(u, 3) => ToUTF8(u) = <<a, b, c>> /\ u \in Nat /\ u <= LastCodePoint
    <2>1. p + 3 <= Len(s) /\ b \in Tails /\ c \in Tails
      BY <1>1, <1>4, TailsPresent, Zenon
    <2>2. At(s, p + 1) = a /\ At(s, p + 2) = b /\ At(s, p + 3) = c
      BY <1>1, <2>1, TailsPresent, Zenon
    <2>3. CodePoint(s, p + 1, 3) = Of3(At(s, p + 1), At(s, (p + 1) + 1), At(s, (p + 1) + 2))
      BY DEF CodePoint, Of3
    <2>4. CodePoint(s, p + 1, 3) = u
      BY <1>1, <2>2, <2>3, Zenon
    <2>5. a \in Lead3
      OBVIOUS
    <2> QED BY <2>1, <2>4, <2>5, ThreeBytes, Zenon
  <1>5. ASSUME Present(s, p, 3), Is3(a, b, c) PROVE Encodes(s, p, 3)
    <2>1. SubSeq(s, p + 1, p + 3) = <<a, b, c>>
      BY <1>1, <1>4, <1>5, FirstBytes, Zenon
    <2>2. ToUTF8(u) = <<a, b, c>> /\ u \in Nat /\ u <= LastCodePoint /\ CodePoint(s, p + 1, 3) = u
      BY <1>4, <1>5, Zenon
    <2> HIDE DEF u
    <2>3. u \in CodePoints
      BY <2>2, CodePointsAre, Zenon
    <2> QED BY <2>1, <2>2, <2>3, Zenon DEF Encodes
  <1>6. BeginsSequence(s, p, 3) => Present(s, p, 3) /\ Encodes(s, p, 3)
    BY <1>2, <1>3, <1>5, Zenon
  <1>7. Present(s, p, 3) => (May(CodePoint(s, p + 1, 3), 3) <=> BeginsSequence(s, p, 3))
    BY <1>2, <1>4, Zenon
  <1> QED BY <1>1, <1>6, <1>7, AgreesWith, Zenon

\* It agrees on four bytes.
LEMMA FourAgrees ==
  ASSUME NEW s \in Seq(Octets), NEW p \in Nat, p < Len(s), s[p + 1] \in Lead4
  PROVE  Agrees(s, p, 4)
  <1> DEFINE a == s[p + 1]
             b == s[p + 2]
             c == s[p + 3]
             d == s[p + 4]
             u == Of4(a, b, c, d)
  <1>1. /\ 4 \in 1..4 /\ 4 \in 2..4 /\ 1 \in 1..4 /\ 2 \in 1..4 /\ 3 \in 1..4
        /\ p + 1 + 1 = p + 2 /\ p + 1 + 2 = p + 3 /\ p + 1 + 3 = p + 4
    OBVIOUS
  <1>2. BeginsSequence(s, p, 4) <=> p + 4 <= Len(s) /\ Is4(a, b, c, d)
    <2>1. 4 # 1 /\ 4 # 2 /\ 4 # 3
      OBVIOUS
    <2>2. FitsWell4(a, b, c, d) <=> Is4(a, b, c, d)
      BY FitsAre, Zenon
    <2> QED BY <2>1, <2>2, BeginsSequenceIs, Zenon
  <1>3. Is4(a, b, c, d) /\ p + 4 <= Len(s) => Present(s, p, 4)
    <2>1. Is4(a, b, c, d) => b \in Tails /\ c \in Tails /\ d \in Tails
      BY DEF Is4, Tails
    <2> QED BY <1>1, <2>1, TailsPresent, Zenon
  <1>4. ASSUME Present(s, p, 4)
        PROVE  /\ CodePoint(s, p + 1, 4) = u /\ p + 4 <= Len(s)
               /\ May(u, 4) <=> Is4(a, b, c, d)
               /\ May(u, 4) => ToUTF8(u) = <<a, b, c, d>> /\ u \in Nat /\ u <= LastCodePoint
    <2>1. p + 4 <= Len(s) /\ b \in Tails /\ c \in Tails /\ d \in Tails
      BY <1>1, <1>4, TailsPresent, Zenon
    <2>2. At(s, p + 1) = a /\ At(s, p + 2) = b /\ At(s, p + 3) = c /\ At(s, p + 4) = d
      BY <1>1, <2>1, TailsPresent, Zenon
    <2>3. CodePoint(s, p + 1, 4) = Of4(At(s, p + 1), At(s, (p + 1) + 1), At(s, (p + 1) + 2),
                                       At(s, (p + 1) + 3))
      BY DEF CodePoint, Of4
    <2>4. CodePoint(s, p + 1, 4) = u
      BY <1>1, <2>2, <2>3, Zenon
    <2>5. a \in Lead4
      OBVIOUS
    <2> QED BY <2>1, <2>4, <2>5, FourBytes, Zenon
  <1>5. ASSUME Present(s, p, 4), Is4(a, b, c, d) PROVE Encodes(s, p, 4)
    <2>1. SubSeq(s, p + 1, p + 4) = <<a, b, c, d>>
      BY <1>1, <1>4, <1>5, FirstBytes, Zenon
    <2>2. /\ ToUTF8(u) = <<a, b, c, d>> /\ u \in Nat /\ u <= LastCodePoint
          /\ CodePoint(s, p + 1, 4) = u
      BY <1>4, <1>5, Zenon
    <2> HIDE DEF u
    <2>3. u \in CodePoints
      BY <2>2, CodePointsAre, Zenon
    <2> QED BY <2>1, <2>2, <2>3, Zenon DEF Encodes
  <1>6. BeginsSequence(s, p, 4) => Present(s, p, 4) /\ Encodes(s, p, 4)
    BY <1>2, <1>3, <1>5, Zenon
  <1>7. Present(s, p, 4) => (May(CodePoint(s, p + 1, 4), 4) <=> BeginsSequence(s, p, 4))
    BY <1>2, <1>4, Zenon
  <1> QED BY <1>1, <1>6, <1>7, AgreesWith, Zenon

\* Where a sequence may begin, one call of FromUTF8() finds the one that does.
Seen(s, p) ==
  LET u == FromUTF8(s, p + 1)
  IN /\ \A m : BeginsSequence(s, p, m) <=> u.ucc # Corrupt /\ m = u.len
     /\ u.ucc # Corrupt =>
          /\ u.len \in 1..4 /\ p + u.len <= Len(s)
          /\ u.ucc \in CodePoints /\ u.ucc \notin Surrogates
          /\ ToUTF8(u.ucc) = SubSeq(s, p + 1, p + u.len)

\* FromUTF8() finds a sequence at a place exactly if a well-formed one begins there.
LEMMA EachSeen ==
  ASSUME NEW s \in Seq(Octets), NEW p \in Nat, p < Len(s)
  PROVE  Seen(s, p)
  <1> DEFINE a == s[p + 1]
             m == LengthOf(a)
             u == FromUTF8(s, p + 1)
             ucc == CodePoint(s, p + 1, m)
  <1>1. At(s, p + 1) = a /\ a \in Octets
    <2>1. Len(s) \in Nat
      BY LenProperties
    <2>2. p + 1 \in Nat /\ p + 1 > 0 /\ p + 1 <= Len(s)
      BY <2>1
    <2> QED BY <2>2, TailAt, Zenon
  <1>2. u.len = m /\ u.ucc = IF m > 0 /\ SaysLead(s, p, m) THEN ucc ELSE Corrupt
    BY <1>1, FromUTF8Is, Zenon
  <1>3. \A k : BeginsSequence(s, p, k) => k = m /\ k \in 1..4
    <2> SUFFICES ASSUME NEW k, BeginsSequence(s, p, k) PROVE k = m /\ k \in 1..4
      OBVIOUS
    <2>1. \/ k = 1 /\ a \in Row1
          \/ k = 2 /\ Is2(a, s[p + 2])
          \/ k = 3 /\ Is3(a, s[p + 2], s[p + 3])
          \/ k = 4 /\ Is4(a, s[p + 2], s[p + 3], s[p + 4])
      BY BeginsSequenceIs, FitsAre, Zenon DEF FitsWell1
    <2>2. k = m
      BY <1>1, <2>1, LeadsApart, Zenon
    <2>3. k \in 1..4
      BY <2>1
    <2> QED BY <2>2, <2>3
  <1>4. m \in 0..4
    BY <1>1, LeadsApart, Zenon
  <1>5. CASE m = 0
    <2>1. ~(m > 0) /\ m \notin 1..4
      BY <1>5
    <2>2. u.ucc = Corrupt
      BY <1>2, <2>1, Zenon
    <2>3. \A k : ~BeginsSequence(s, p, k)
      BY <1>3, <2>1, Zenon
    <2> QED BY <2>2, <2>3, Zenon DEF Seen
  <1>6. CASE m # 0
    <2>1. m \in 1..4 /\ m > 0
      BY <1>4, <1>6
    <2>2. Agrees(s, p, m)
      <3>1. m = 1 \/ m = 2 \/ m = 3 \/ m = 4
        BY <2>1
      <3>2. m = 1 => a \in Row1
        BY <1>1, LeadsApart, Zenon
      <3>3. /\ m = 2 => a \in Lead2
            /\ m = 3 => a \in Lead3
            /\ m = 4 => a \in Lead4
        BY <1>1, LeadsApart, Zenon
      <3> HIDE DEF m
      <3> QED BY <3>1, <3>2, <3>3, OneAgrees, TwoAgrees, ThreeAgrees, FourAgrees, Zenon
    <2> HIDE DEF m
    <2>3. CASE BeginsSequence(s, p, m)
      <3>1. SaysLead(s, p, m) /\ p + m <= Len(s) /\ Encodes(s, p, m)
        BY <2>2, <2>3, Zenon DEF Agrees
      <3>2. u.ucc = ucc
        BY <1>2, <2>1, <3>1, Zenon
      <3>3. ucc \in CodePoints /\ ToUTF8(ucc) = SubSeq(s, p + 1, p + m)
        BY <3>1, Zenon DEF Encodes
      <3>4. ucc # Corrupt
        <4> HIDE DEF ucc
        <4>1. \A k \in CodePoints : k # Corrupt
          BY DEF CodePoints, Corrupt
        <4> QED BY <3>3, <4>1, Zenon
      <3>5. ucc \notin Surrogates
        BY <3>1, Zenon DEF SaysLead, May
      <3> HIDE DEF u, ucc
      <3> QED BY <1>2, <1>3, <2>1, <2>3, <3>1, <3>2, <3>3, <3>4, <3>5, Zenon DEF Seen, u
    <2>4. CASE ~BeginsSequence(s, p, m)
      <3>1. u.ucc = Corrupt
        BY <1>2, <2>2, <2>4, Zenon DEF Agrees
      <3>2. \A k : ~BeginsSequence(s, p, k)
        BY <1>3, <2>4, Zenon
      <3> QED BY <3>1, <3>2, Zenon DEF Seen
    <2> QED BY <2>3, <2>4
  <1> QED BY <1>5, <1>6

-----------------------------------------------------------------------------
(***************************************************************************)
(* ValidateUTF8() accepts exactly what is UTF-8.                           *)
(***************************************************************************)
Passes(f, s) == f[0] = 1 /\ \A i \in 1..Len(s) : f[i] = passed(s, f[i - 1], i)

\* What FromUTF8() found is one to four bytes long.
LEMMA SeenIsInt ==
  ASSUME NEW s \in Seq(Octets), NEW i \in 1..Len(s)
  PROVE  /\ FromUTF8(s, i).ucc # Corrupt => FromUTF8(s, i).len \in 1..4
         /\ Seen(s, i - 1) /\ (i - 1) + 1 = i
  <1>1. Len(s) \in Nat
    BY LenProperties
  <1>2. i - 1 \in Nat /\ i - 1 < Len(s) /\ (i - 1) + 1 = i
    BY <1>1
  <1>3. Seen(s, i - 1)
    BY <1>2, EachSeen, Zenon
  <1> QED BY <1>2, <1>3, Zenon DEF Seen

\* The function in ValidateUTF8() exists, and its last value is the answer.
LEMMA NextIs ==
  ASSUME NEW s \in Seq(Octets)
  PROVE  \E f \in [0..Len(s) -> Int] : Passes(f, s) /\ (ValidateUTF8(s) <=> f[Len(s)] # Corrupt)
  <1> DEFINE n == Len(s)
             step == [p \in Int \X (1..n) |-> passed(s, p[1], p[2])]
             Solves(h) == h = [i \in 0..n |-> IF i = 0 THEN 1 ELSE passed(s, h[i - 1], i)]
             next == CHOOSE h : Solves(h)
  <1>1. n \in Nat
    BY LenProperties
  <1>2. ASSUME NEW v \in Int, NEW i \in 1..n
        PROVE  passed(s, v, i) \in Int /\ step[<<v, i>>] = passed(s, v, i)
    <2>1. <<v, i>> \in Int \X (1..n) /\ <<v, i>>[1] = v /\ <<v, i>>[2] = i
      OBVIOUS
    <2>2. step[<<v, i>>] = passed(s, v, i)
      BY <2>1, Zenon
    <2> DEFINE u == FromUTF8(s, i)
    <2>3. u.ucc # Corrupt => u.len \in 1..4
      BY SeenIsInt, Zenon
    <2>4. passed(s, v, i) = IF v # i THEN v ELSE IF u.ucc = Corrupt THEN Corrupt ELSE i + u.len
      BY Zenon DEF passed
    <2> HIDE DEF u
    <2>5. u.ucc # Corrupt => i + u.len \in Int
      BY <2>3
    <2>6. passed(s, v, i) \in Int
      BY <2>4, <2>5, CorruptIs, Zenon
    <2> QED BY <2>2, <2>6, Zenon
  <1> HIDE DEF step
  <1>3. StaysIn(Int, n, step)
    BY <1>2, Zenon DEF StaysIn
  <1>4. 1 \in Int
    OBVIOUS
  <1>5. PICK f \in [0..n -> Int] : Iterates(f, n, 1, step)
    BY <1>1, <1>3, <1>4, Iteration, Zenon
  <1>6. \A i \in 1..n : f[i - 1] \in Int /\ f[i] = passed(s, f[i - 1], i)
    <2> SUFFICES ASSUME NEW i \in 1..n PROVE f[i - 1] \in Int /\ f[i] = passed(s, f[i - 1], i)
      OBVIOUS
    <2>1. i - 1 \in 0..n
      BY <1>1
    <2>2. f[i - 1] \in Int /\ f[i] = step[<<f[i - 1], i>>]
      BY <1>5, <2>1, Zenon DEF Iterates
    <2> QED BY <1>2, <2>2, Zenon
  <1>7. Solves(f)
    <2>1. ASSUME NEW i \in 0..n
          PROVE  f[i] = IF i = 0 THEN 1 ELSE passed(s, f[i - 1], i)
      <3>1. CASE i = 0
        BY <1>5, <3>1, Zenon DEF Iterates
      <3>2. CASE i # 0
        <4>1. i \in 1..n
          BY <1>1, <3>2
        <4> QED BY <1>6, <3>2, <4>1, Zenon
      <3> QED BY <3>1, <3>2
    <2> QED BY <2>1, Zenon
  <1>8. Solves(next)
    BY <1>7, Zenon
  <1>9. ValidateUTF8(s) <=> next[n] # Corrupt
    BY DEF ValidateUTF8
  <1> HIDE DEF next
  <1>10. /\ \A i \in 0..n : next[i] = IF i = 0 THEN 1 ELSE passed(s, next[i - 1], i)
    BY <1>8, Zenon
  <1>11. \A i \in 0..n : f[i] = next[i]
    <2>1. f[0] = next[0]
      <3>1. 0 \in 0..n
        BY <1>1
      <3> QED BY <1>5, <1>10, <3>1, Zenon DEF Iterates
    <2>2. \A i \in 0..(n - 1) : f[i] = next[i] => f[i + 1] = next[i + 1]
      <3> SUFFICES ASSUME NEW i \in 0..(n - 1), f[i] = next[i] PROVE f[i + 1] = next[i + 1]
        OBVIOUS
      <3> DEFINE j == i + 1
      <3>1. j \in 1..n /\ j \in 0..n /\ j # 0 /\ j - 1 = i
        BY <1>1
      <3> HIDE DEF j
      <3>2. next[j] = passed(s, next[j - 1], j) /\ f[j] = passed(s, f[j - 1], j)
        BY <1>6, <1>10, <3>1, Zenon
      <3>3. f[j] = next[j]
        BY <3>1, <3>2, Zenon
      <3> QED BY <3>3, Zenon DEF j
    <2> HIDE DEF n
    <2> QED BY <1>1, <2>1, <2>2, Agreement, Zenon
  <1>12. f[n] = next[n]
    <2>1. n \in 0..n
      BY <1>1
    <2> QED BY <1>11, <2>1, Zenon
  <1>13. Passes(f, s)
    BY <1>5, <1>6, Zenon DEF Passes, Iterates
  <1> QED BY <1>5, <1>9, <1>12, <1>13, Zenon

\* A call that is made finds a sequence, and the next one comes after it.
LEMMA PassesTo ==
  ASSUME NEW s \in Seq(Octets), NEW f \in [0..Len(s) -> Int], Passes(f, s),
         NEW p \in 0..(Len(s) - 1), f[p] = p + 1, NEW m \in 1..4, BeginsSequence(s, p, m)
  PROVE  /\ p + m <= Len(s)
         /\ \A i \in 1..m : f[p + i] = p + m + 1
  <1> DEFINE n == Len(s)
             S == {x \in 0..(m - 1) : f[(p + x) + 1] = p + m + 1}
  <1>1. n \in Nat /\ p \in Nat /\ p < n /\ p + 1 \in 1..n /\ (p + 1) - 1 = p
    BY LenProperties
  <1>2. FromUTF8(s, p + 1).ucc # Corrupt /\ m = FromUTF8(s, p + 1).len /\ p + m <= n
    BY <1>1, EachSeen, Zenon DEF Seen
  <1>3. 0 \in S
    <2>1. f[p + 1] = passed(s, p + 1, p + 1)
      BY <1>1, Zenon DEF Passes
    <2>2. f[p + 1] = (p + 1) + m
      BY <1>2, <2>1, Zenon DEF passed
    <2> QED BY <1>1, <2>2
  <1>4. ASSUME NEW x \in 0..((m - 1) - 1), x \in S PROVE x + 1 \in S
    <2> DEFINE j == (p + x) + 1
    <2>1. /\ j + 1 \in 1..n /\ (j + 1) - 1 = j /\ f[j] = p + m + 1 /\ p + m + 1 # j + 1
          /\ j + 1 = (p + (x + 1)) + 1 /\ x + 1 \in 0..(m - 1)
      BY <1>1, <1>2, <1>4
    <2> HIDE DEF j
    <2>2. f[j + 1] = passed(s, f[(j + 1) - 1], j + 1)
      BY <2>1, Zenon DEF Passes
    <2>3. f[j + 1] = p + m + 1
      BY <2>1, <2>2, Zenon DEF passed
    <2> QED BY <2>1, <2>3, Zenon
  <1>5. 0..(m - 1) \subseteq S
    <2> HIDE DEF S
    <2>1. m - 1 \in Nat
      OBVIOUS
    <2> QED BY <1>3, <1>4, <2>1, UpTo, Zenon
  <1>6. ASSUME NEW i \in 1..m PROVE f[p + i] = p + m + 1
    <2>1. i - 1 \in 0..(m - 1) /\ (p + (i - 1)) + 1 = p + i
      BY <1>1
    <2>2. i - 1 \in S
      BY <1>5, <2>1, Zenon
    <2>3. f[(p + (i - 1)) + 1] = p + m + 1
      BY <2>2, Zenon
    <2> QED BY <2>1, <2>3, Zenon
  <1> QED BY <1>2, <1>6

\* Where a call comes next it came from a sequence that ends there.
Comes(f, s, k) ==
  f[k] # Corrupt =>
    /\ f[k] > k /\ f[k] <= Len(s) + 1
    /\ k > 0 => \E p \in 0..(k - 1) : f[p] = p + 1 /\ BeginsSequence(s, p, f[k] - 1 - p)

\* ValidateUTF8() goes on from a place exactly if sequences end there.
LEMMA AllCome ==
  ASSUME NEW s \in Seq(Octets), NEW f \in [0..Len(s) -> Int], Passes(f, s)
  PROVE  \A k \in 0..Len(s) : Comes(f, s, k)
  <1> DEFINE n == Len(s)
             S == {k \in 0..n : Comes(f, s, k)}
  <1>1. n \in Nat
    BY LenProperties
  <1>2. 0 \in S
    <2>1. f[0] = 1 /\ 1 > 0 /\ 1 <= n + 1 /\ ~(0 > 0) /\ 0 \in 0..n
      BY <1>1 DEF Passes
    <2> QED BY <2>1, Zenon DEF Comes
  <1>3. ASSUME NEW k \in 0..(n - 1), k \in S PROVE k + 1 \in S
    <2> DEFINE j == k + 1
               u == FromUTF8(s, j)
    <2>1. /\ j \in 1..n /\ j \in 0..n /\ j - 1 = k /\ k \in 0..n /\ k \in Nat /\ k < n /\ j > 0
          /\ k \in 0..(j - 1)
      BY <1>1
    <2>2. f[j] = passed(s, f[k], j) /\ Comes(f, s, k)
      BY <1>3, <2>1, Zenon DEF Passes
    <2>3. f[k] \in Int /\ f[j] \in Int
      BY <2>1
    <2>4. CASE f[k] # j
      <3>1. f[j] = f[k]
        BY <2>2, <2>4, Zenon DEF passed
      <3> SUFFICES ASSUME f[j] # Corrupt
                   PROVE  /\ f[j] > j /\ f[j] <= n + 1
                          /\ \E p \in 0..(j - 1) : f[p] = p + 1 /\ BeginsSequence(s, p, f[j] - 1 - p)
        BY <2>1, Zenon DEF Comes
      <3>2. f[k] > k /\ f[k] <= n + 1
        BY <2>2, <3>1, Zenon DEF Comes
      <3>3. k > 0
        <4>1. f[0] = 0 + 1
          BY DEF Passes
        <4>2. k # 0
          BY <2>4, <4>1
        <4> QED BY <2>1, <4>2
      <3>4. PICK p \in 0..(k - 1) : f[p] = p + 1 /\ BeginsSequence(s, p, f[k] - 1 - p)
        BY <2>2, <3>1, <3>3, Zenon DEF Comes
      <3>5. p \in 0..(j - 1)
        BY <2>1
      <3>6. f[j] > j
        BY <2>1, <2>3, <2>4, <3>1, <3>2
      <3> QED BY <3>1, <3>2, <3>4, <3>5, <3>6, Zenon
    <2>5. CASE f[k] = j
      <3>1. f[j] = IF u.ucc = Corrupt THEN Corrupt ELSE j + u.len
        BY <2>2, <2>5, Zenon DEF passed
      <3> SUFFICES ASSUME f[j] # Corrupt
                   PROVE  /\ f[j] > j /\ f[j] <= n + 1
                          /\ \E p \in 0..(j - 1) : f[p] = p + 1 /\ BeginsSequence(s, p, f[j] - 1 - p)
        BY <2>1, Zenon DEF Comes
      <3>2. u.ucc # Corrupt /\ f[j] = j + u.len
        BY <3>1, Zenon
      <3>3. Seen(s, k)
        BY <2>1, EachSeen, Zenon
      <3>4. BeginsSequence(s, k, u.len) /\ u.len \in 1..4 /\ k + u.len <= n
        BY <3>2, <3>3, Zenon DEF Seen
      <3> DEFINE l == u.len
                 v == f[j]
      <3>7. l \in 1..4 /\ k + l <= n /\ v = j + l
        BY <3>2, <3>4, Zenon
      <3> HIDE DEF u, l, v
      <3>8. v > j /\ v <= n + 1 /\ v - 1 - k = l
        BY <1>1, <2>1, <3>7
      <3>5. f[j] > j /\ f[j] <= n + 1 /\ f[j] - 1 - k = u.len
        BY <3>8, Zenon DEF l, v
      <3>6. f[k] = k + 1
        BY <2>5
      <3> QED BY <2>1, <3>4, <3>5, <3>6, Zenon
    <2> QED BY <2>1, <2>4, <2>5, Zenon
  <1>4. 0..n \subseteq S
    <2> HIDE DEF S
    <2> QED BY <1>1, <1>2, <1>3, UpTo, Zenon
  <1> QED BY <1>4, Zenon

\* The function in IsUTF8().
Ends(e, s) ==
  e[0] = {0} /\ \A i \in 1..Len(s) : e[i] = e[i - 1] \cup {m \in {i} : EndsAt(s, e[i - 1], i)}

\* The function in IsUTF8() exists, and decides it.
LEMMA EndsExist ==
  ASSUME NEW s \in Seq(Octets)
  PROVE  \E e \in [0..Len(s) -> SUBSET Int] : Ends(e, s) /\ (IsUTF8(s) <=> Len(s) \in e[Len(s)])
  <1> DEFINE n == Len(s)
             more(x, i) == x \cup {m \in {i} : EndsAt(s, x, i)}
             step == [p \in (SUBSET Int) \X (1..n) |-> more(p[1], p[2])]
             Solves(h) == h = [i \in 0..n |-> IF i = 0 THEN {0} ELSE more(h[i - 1], i)]
             ends == CHOOSE h : Solves(h)
  <1>1. n \in Nat
    BY LenProperties
  <1>2. ASSUME NEW v \in SUBSET Int, NEW i \in 1..n
        PROVE  more(v, i) \in SUBSET Int /\ step[<<v, i>>] = more(v, i)
    <2>1. <<v, i>> \in (SUBSET Int) \X (1..n) /\ <<v, i>>[1] = v /\ <<v, i>>[2] = i
      OBVIOUS
    <2>2. step[<<v, i>>] = more(v, i)
      BY <2>1, Zenon
    <2>3. i \in Int
      OBVIOUS
    <2>4. more(v, i) \in SUBSET Int
      BY <2>3, Zenon
    <2> QED BY <2>2, <2>4, Zenon
  <1>3. {0} \in SUBSET Int
    OBVIOUS
  <1>4. ends = CHOOSE h : h = [i \in 0..n |-> IF i = 0 THEN {0}
                                 ELSE h[i - 1] \cup {m \in {i} : EndsAt(s, h[i - 1], i)}]
    BY Zenon
  <1>5. IsUTF8(s) <=> n \in ends[n]
    BY DEF IsUTF8
  <1>13. \A e : (e[0] = {0} /\ \A i \in 1..n : e[i] = more(e[i - 1], i)) => Ends(e, s)
    BY Zenon DEF Ends
  <1> HIDE DEF step, more
  <1>6. StaysIn(SUBSET Int, n, step)
    BY <1>2, Zenon DEF StaysIn
  <1>7. PICK e \in [0..n -> SUBSET Int] : Iterates(e, n, {0}, step)
    BY <1>1, <1>3, <1>6, Iteration, Zenon
  <1>8. \A i \in 1..n : e[i] = more(e[i - 1], i)
    <2> SUFFICES ASSUME NEW i \in 1..n PROVE e[i] = more(e[i - 1], i)
      OBVIOUS
    <2>1. i - 1 \in 0..n
      BY <1>1
    <2>2. e[i - 1] \in SUBSET Int /\ e[i] = step[<<e[i - 1], i>>]
      BY <1>7, <2>1, Zenon DEF Iterates
    <2> QED BY <1>2, <2>2, Zenon
  <1>9. Solves(e)
    <2>1. ASSUME NEW i \in 0..n
          PROVE  e[i] = IF i = 0 THEN {0} ELSE more(e[i - 1], i)
      <3>1. CASE i = 0
        BY <1>7, <3>1, Zenon DEF Iterates
      <3>2. CASE i # 0
        <4>1. i \in 1..n
          BY <1>1, <3>2
        <4> QED BY <1>8, <3>2, <4>1, Zenon
      <3> QED BY <3>1, <3>2
    <2> QED BY <2>1, Zenon
  <1>10. Solves(ends)
    BY <1>9, Zenon
  <1> HIDE DEF ends
  <1>11. \A i \in 0..n : ends[i] = IF i = 0 THEN {0} ELSE more(ends[i - 1], i)
    BY <1>10, Zenon
  <1>12. \A i \in 0..n : e[i] = ends[i]
    <2>1. e[0] = ends[0]
      <3>1. 0 \in 0..n
        BY <1>1
      <3> QED BY <1>7, <1>11, <3>1, Zenon DEF Iterates
    <2>2. \A i \in 0..(n - 1) : e[i] = ends[i] => e[i + 1] = ends[i + 1]
      <3> SUFFICES ASSUME NEW i \in 0..(n - 1), e[i] = ends[i] PROVE e[i + 1] = ends[i + 1]
        OBVIOUS
      <3> DEFINE j == i + 1
      <3>1. j \in 1..n /\ j \in 0..n /\ j # 0 /\ j - 1 = i
        BY <1>1
      <3> HIDE DEF j
      <3>2. ends[j] = more(ends[j - 1], j) /\ e[j] = more(e[j - 1], j)
        BY <1>8, <1>11, <3>1, Zenon
      <3>3. e[j] = ends[j]
        BY <3>1, <3>2, Zenon
      <3> QED BY <3>3, Zenon DEF j
    <2> HIDE DEF n
    <2> QED BY <1>1, <2>1, <2>2, Agreement, Zenon
  <1>14. e[n] = ends[n]
    <2>1. n \in 0..n
      BY <1>1
    <2> QED BY <1>12, <2>1, Zenon
  <1>15. Ends(e, s)
    <2>1. e[0] = {0}
      BY <1>7, Zenon DEF Iterates
    <2> QED BY <1>8, <1>13, <2>1, Zenon
  <1> QED BY <1>5, <1>14, <1>15, Zenon

\* A place where sequences end is one where a sequence begun at such a place ends.
LEMMA RowLengths ==
  ASSUME NEW w \in WellFormedBytes
  PROVE  Len(w) \in 1..4
  <1>1. /\ \A a : Len(<<a>>) = 1 /\ \A b : Len(<<a, b>>) = 2
        /\ \A a, b, c : Len(<<a, b, c>>) = 3
        /\ \A a, b, c, d : Len(<<a, b, c, d>>) = 4
    OBVIOUS
  <1>2. Len(w) = 1 \/ Len(w) = 2 \/ Len(w) = 3 \/ Len(w) = 4
    BY <1>1, RowsAre, Zenon
  <1> QED BY <1>2

\* A sequence ends at a place if one begins before it at a place where others end.
LEMMA EndsAtIs ==
  ASSUME NEW s \in Seq(Octets), NEW j \in 1..Len(s), NEW x, x \subseteq 0..(j - 1)
  PROVE  EndsAt(s, x, j) <=> \E p \in x : BeginsSequence(s, p, j - p)
  <1>1. Len(s) \in Nat
    BY LenProperties
  <1>2. ASSUME EndsAt(s, x, j) PROVE \E p \in x : BeginsSequence(s, p, j - p)
    <2>1. PICK w \in WellFormedBytes : /\ Len(w) <= j /\ j - Len(w) \in x
                                       /\ \A i \in DOMAIN w : s[j - Len(w) + i] \in w[i]
      BY <1>2, Zenon DEF EndsAt
    <2> DEFINE m == Len(w)
               p == j - m
    <2>2. m \in 1..4
      BY RowLengths
    <2>3. j - p = m /\ p + m = j /\ p + m <= Len(s)
      BY <1>1, <2>2
    <2>4. FitsWell(s, p, w)
      BY <2>1, Zenon DEF FitsWell
    <2>5. p \in x
      BY <2>1, Zenon
    <2> HIDE DEF p
    <2>6. BeginsSequence(s, p, m)
      BY <2>3, <2>4, Zenon DEF BeginsSequence
    <2> QED BY <2>3, <2>5, <2>6, Zenon
  <1>3. ASSUME NEW p \in x, BeginsSequence(s, p, j - p) PROVE EndsAt(s, x, j)
    <2>1. PICK w \in WellFormedBytes : Len(w) = j - p /\ FitsWell(s, p, w)
      BY <1>3, Zenon DEF BeginsSequence
    <2>2. p \in 0..(j - 1) /\ p \in Nat
      OBVIOUS
    <2>3. Len(w) <= j /\ j - Len(w) = p
      BY <2>1, <2>2
    <2>4. \A i \in DOMAIN w : s[j - Len(w) + i] \in w[i]
      BY <2>1, <2>3, Zenon DEF FitsWell
    <2> QED BY <2>3, <2>4, Zenon DEF EndsAt
  <1> QED BY <1>2, <1>3, Zenon

\* The places that are found are not beyond, and stay.
LEMMA EndsBelow ==
  ASSUME NEW s \in Seq(Octets), NEW e, Ends(e, s)
  PROVE  \A k \in 0..Len(s) : e[k] \subseteq 0..k /\ \A p \in 0..k : p \in e[k] <=> p \in e[p]
  <1> DEFINE n == Len(s)
             Good(k) == e[k] \subseteq 0..k /\ \A p \in 0..k : p \in e[k] <=> p \in e[p]
             S == {k \in 0..n : Good(k)}
  <1>1. n \in Nat
    BY LenProperties
  <1>2. 0 \in S
    <2>1. e[0] = {0} /\ 0..0 = {0} /\ 0 \in 0..n
      BY <1>1 DEF Ends
    <2> QED BY <2>1, Zenon
  <1>3. ASSUME NEW k \in 0..(n - 1), k \in S PROVE k + 1 \in S
    <2> DEFINE j == k + 1
    <2>1. j \in 1..n /\ j - 1 = k /\ j \in 0..n /\ j \notin 0..k /\ j \in 0..j
      BY <1>1
    <2>2. \A p : p \in 0..j <=> p \in 0..k \/ p = j
      OBVIOUS
    <2>3. Good(k)
      BY <1>3, Zenon
    <2> HIDE DEF j
    <2>4. e[j] = e[k] \cup {m \in {j} : EndsAt(s, e[k], j)}
      BY <2>1, Zenon DEF Ends
    <2>5. \A p : p \in e[j] => p \in e[k] \/ p = j
      BY <2>4, Zenon
    <2>6. e[j] \subseteq 0..j
      BY <2>2, <2>3, <2>5, Zenon
    <2>7. \A p \in 0..k : p \in e[j] <=> p \in e[k]
      BY <2>1, <2>4, Zenon
    <2>8. Good(j)
      BY <2>2, <2>3, <2>6, <2>7, Zenon
    <2> HIDE DEF Good
    <2> QED BY <2>1, <2>8, Zenon DEF j
  <1>4. 0..n \subseteq S
    <2> HIDE DEF S
    <2> QED BY <1>1, <1>2, <1>3, UpTo, Zenon
  <1> QED BY <1>4, Zenon

\* The calls that are made are those at such places.
LEMMA CallsAreEnds ==
  ASSUME NEW s \in Seq(Octets), NEW f \in [0..Len(s) -> Int], Passes(f, s), NEW e, Ends(e, s)
  PROVE  \A k \in 0..Len(s) : f[k] = k + 1 <=> k \in e[k]
  <1> DEFINE n == Len(s)
             Same(p) == f[p] = p + 1 <=> p \in e[p]
             S == {k \in 0..n : \A p \in 0..k : Same(p)}
  <1>1. n \in Nat
    BY LenProperties
  <1>2. 0 \in S
    <2>1. e[0] = {0} /\ f[0] = 0 + 1 /\ 0..0 = {0} /\ 0 \in 0..n
      BY <1>1 DEF Ends, Passes
    <2> QED BY <2>1, Zenon
  <1>3. ASSUME NEW k \in 0..(n - 1), k \in S PROVE k + 1 \in S
    <2> DEFINE j == k + 1
    <2>1. /\ j \in 1..n /\ j - 1 = k /\ j \in 0..n /\ k \in 0..n /\ j \notin 0..k /\ j > 0
          /\ j # Corrupt /\ j + 1 # Corrupt /\ (j + 1) - 1 = j
      BY <1>1 DEF Corrupt
    <2>2. \A p : p \in 0..j <=> p \in 0..k \/ p = j
      OBVIOUS
    <2>3. \A p \in 0..k : Same(p)
      BY <1>3, Zenon
    <2>4. e[k] \subseteq 0..k /\ \A p \in 0..k : p \in e[k] <=> p \in e[p]
      BY <2>1, EndsBelow, Zenon
    <2>5. \A p \in 0..k : p \in 0..(j - 1) /\ p \in 0..(n - 1)
      BY <1>1
    <2>6. 0..k = 0..(j - 1)
      BY <2>1, Zenon
    <2> HIDE DEF j
    <2>7. e[j] = e[k] \cup {m \in {j} : EndsAt(s, e[k], j)}
      BY <2>1, Zenon DEF Ends
    <2>8. EndsAt(s, e[k], j) <=> \E p \in e[k] : BeginsSequence(s, p, j - p)
      BY <2>1, <2>4, <2>6, EndsAtIs, Zenon
    <2>9. j \in e[j] <=> \E p \in e[k] : BeginsSequence(s, p, j - p)
      BY <2>1, <2>4, <2>7, <2>8, Zenon
    <2>10. ASSUME f[j] = j + 1 PROVE j \in e[j]
      <3>1. Comes(f, s, j)
        BY <2>1, AllCome, Zenon
      <3>2. f[j] # Corrupt /\ f[j] - 1 = j
        BY <2>1, <2>10, Zenon
      <3>3. PICK p \in 0..(j - 1) : f[p] = p + 1 /\ BeginsSequence(s, p, f[j] - 1 - p)
        BY <2>1, <3>1, <3>2, Zenon DEF Comes
      <3>4. p \in e[k] /\ BeginsSequence(s, p, j - p)
        BY <2>3, <2>4, <2>6, <3>2, <3>3, Zenon
      <3> QED BY <2>9, <3>4, Zenon
    <2>11. ASSUME j \in e[j] PROVE f[j] = j + 1
      <3>1. PICK p \in e[k] : BeginsSequence(s, p, j - p)
        BY <2>9, <2>11, Zenon
      <3>2. p \in 0..k /\ f[p] = p + 1 /\ p \in 0..(n - 1)
        BY <2>3, <2>4, <2>5, Zenon
      <3> DEFINE m == j - p
      <3>3. p \in Nat /\ p < n /\ p + m = j /\ m \in Int /\ m >= 1
        BY <1>1, <2>1, <3>2
      <3> HIDE DEF m
      <3>4. m \in 1..4
        BY <3>1, <3>3, EachSeen, Zenon DEF Seen, m
      <3>5. \A i \in 1..m : f[p + i] = p + m + 1
        BY <3>1, <3>2, <3>4, PassesTo, Zenon DEF m
      <3>6. m \in 1..m
        BY <3>4
      <3> QED BY <3>3, <3>5, <3>6, Zenon
    <2>12. \A p \in 0..j : Same(p)
      BY <2>2, <2>3, <2>10, <2>11, Zenon
    <2> HIDE DEF Same
    <2> QED BY <2>1, <2>12, Zenon DEF j
  <1>4. 0..n \subseteq S
    <2> HIDE DEF S
    <2> QED BY <1>1, <1>2, <1>3, UpTo, Zenon
  <1>5. \A k \in 0..n : k \in 0..k
    OBVIOUS
  <1> QED BY <1>4, <1>5, Zenon

\* ValidateUTF8() accepts a string exactly if it is a sequence of well-formed sequences of
\* the Unicode standard (table 3-7): its length tests, its surrogates and its last code
\* point leave out what the table leaves out, and no more.
THEOREM ValidatesUTF8 ==
  ASSUME NEW s \in Seq(Octets)
  PROVE  ValidateUTF8(s) <=> IsUTF8(s)
  <1> DEFINE n == Len(s)
  <1>1. PICK f \in [0..n -> Int] : Passes(f, s) /\ (ValidateUTF8(s) <=> f[n] # Corrupt)
    BY NextIs, Zenon
  <1>2. PICK e \in [0..n -> SUBSET Int] : Ends(e, s) /\ (IsUTF8(s) <=> n \in e[n])
    BY EndsExist, Zenon
  <1>3. n \in Nat /\ n \in 0..n /\ n + 1 # Corrupt /\ f[n] \in Int
    <2>1. n \in Nat
      BY LenProperties
    <2> QED BY <2>1 DEF Corrupt
  <1>4. f[n] = n + 1 <=> n \in e[n]
    BY <1>1, <1>2, <1>3, CallsAreEnds, Zenon
  <1>5. f[n] # Corrupt => f[n] = n + 1
    <2>1. Comes(f, s, n)
      BY <1>1, <1>3, AllCome, Zenon
    <2>2. f[n] # Corrupt => f[n] > n /\ f[n] <= n + 1
      BY <2>1, Zenon DEF Comes
    <2> QED BY <1>3, <2>2
  <1> QED BY <1>1, <1>2, <1>3, <1>4, <1>5, Zenon

\* A text that conveys bytes, closed by a quote, is read as these.
LEMMA ReadersRead ==
  ASSUME NEW u \in Words, NEW w \in Words
  PROVE  /\ Conveys("flatbuffers", u, w) =>
              ReadString(u \o <<Quote>>) = [ok |-> ValidateUTF8(w), out |-> w]
         /\ Conveys("picojson", u, w) => parse_string(u \o <<Quote>>) = [ok |-> TRUE, out |-> w]
  <1> DEFINE text == u \o <<Quote>>
  <1>1. "flatbuffers" \in Who /\ "picojson" \in Who /\ "picojson" # "flatbuffers"
    BY DEF Who
  <1>2. ReadBy("flatbuffers", text) = ReadString(text)
    BY Zenon DEF ReadBy
  <1>3. ReadBy("picojson", text) = parse_string(text)
    BY <1>1, Zenon DEF ReadBy
  <1>4. ASSUME Conveys("flatbuffers", u, w)
        PROVE  ReadString(text) = [ok |-> ValidateUTF8(w), out |-> w]
    <2>1. ReadBy("flatbuffers", text)
            = [ok |-> "flatbuffers" = "flatbuffers" => ValidateUTF8(w), out |-> w]
      BY <1>1, <1>4, ClosedIsRead, Zenon
    <2>2. ("flatbuffers" = "flatbuffers" => ValidateUTF8(w)) = ValidateUTF8(w)
      BY Zenon DEF ValidateUTF8
    <2> QED BY <1>2, <2>1, <2>2, Zenon
  <1>5. ASSUME Conveys("picojson", u, w)
        PROVE  parse_string(text) = [ok |-> TRUE, out |-> w]
    <2>1. ReadBy("picojson", text)
            = [ok |-> "picojson" = "flatbuffers" => ValidateUTF8(w), out |-> w]
      BY <1>1, <1>5, ClosedIsRead, Zenon
    <2>2. ("picojson" = "flatbuffers" => ValidateUTF8(w)) = TRUE
      BY <1>1, Zenon
    <2> QED BY <1>3, <2>1, <2>2, Zenon
  <1> QED BY <1>4, <1>5, Zenon

\* picojson writes a string that it reads as the same bytes, whatever they are, and that
\* the Parser reads as them exactly if they are UTF-8: what has come from a server goes
\* through serialize_str(), _parse_string(), Next() and ValidateUTF8() unchanged.
THEOREM SerializedIsRead ==
  ASSUME NEW s \in Seq(Octets)
  PROVE  WrittenReadsBack(s)
  <1>1. PICK u \in Words : /\ serialize_str(s) = <<Quote>> \o u
                           /\ \A who \in Who : Conveys(who, u, s)
    BY SerializedIs, Zenon
  <1> DEFINE text == u \o <<Quote>>
  <1>2. Closed(serialize_str(s)) = text
    BY <1>1, ClosedIs, Zenon
  <1>3. s \in Words
    BY BytesAreWords, Zenon
  <1>4. ReadString(text) = [ok |-> ValidateUTF8(s), out |-> s]
    BY <1>1, <1>3, ReadersRead, Zenon DEF Who
  <1>5. parse_string(text) = [ok |-> TRUE, out |-> s]
    BY <1>1, <1>3, ReadersRead, Zenon DEF Who
  <1> HIDE DEF text
  <1>6. CASE IsUTF8(s)
    <2>1. ValidateUTF8(s) = TRUE
      BY <1>6, ValidatesUTF8, Zenon DEF ValidateUTF8
    <2> QED BY <1>2, <1>4, <1>5, <1>6, <2>1, Zenon DEF WrittenReadsBack, ReadsSerialized
  <1>7. CASE ~IsUTF8(s)
    <2>1. ~ValidateUTF8(s)
      BY <1>7, ValidatesUTF8, Zenon
    <2>2. ~ReadString(text).ok
      <3>1. ReadString(text).ok = ValidateUTF8(s)
        BY <1>4
      <3> QED BY <2>1, <3>1, Zenon
    <2> QED BY <1>2, <1>5, <1>7, <2>2, Zenon DEF WrittenReadsBack, ReadsSerialized
  <1> QED BY <1>6, <1>7

-----------------------------------------------------------------------------
(***************************************************************************)
(* What EscapeString() writes for a byte that is not of UTF-8: the Parser  *)
(* reads it, picojson does not.                                            *)
(***************************************************************************)

\* Two digits of a byte.
HexPair(u, c) ==
    \E d1 \in 0..15, d2 \in 0..15 :
      /\ u = <<HexLetter(d1, 65), HexLetter(d2, 65)>> /\ d1 * 16 + d2 = c

\* Two digits of a byte are written most significant first.
LEMMA TwoDigitsAre ==
  ASSUME NEW c \in Octets
  PROVE  Hex(c, TwoDigits, 65) \in Words /\ HexPair(Hex(c, TwoDigits, 65), c)
  <1> DEFINE d1 == (c \div 16) % 16
             d2 == (c \div 1) % 16
             h(d) == HexLetter(d, 65)
             u == <<h(d1), h(d2)>>
  <1>1. d1 \in 0..15 /\ d2 \in 0..15 /\ d1 * 16 + d2 = c
    <2>1. c \div 1 = c /\ c = (c \div 16) * 16 + (c % 16) /\ c \div 16 \in 0..15 /\ c % 16 \in 0..15
      BY DEF Octets
    <2>2. \A q \in 0..15 : q % 16 = q
      OBVIOUS
    <2> QED BY <2>1, <2>2
  <1>2. Hex(c, TwoDigits, 65) = [i \in 1..2 |-> h((c \div TwoDigits[i]) % 16)]
    <2>1. DOMAIN TwoDigits = 1..2
      BY DEF TwoDigits
    <2> QED BY <2>1, Zenon DEF Hex
  <1>3. (c \div TwoDigits[1]) % 16 = d1 /\ (c \div TwoDigits[2]) % 16 = d2
    BY DEF TwoDigits
  <1>4. h(d1) \in Int /\ h(d2) \in Int
    BY <1>1, DigitRead, Zenon DEF Bases
  <1> HIDE DEF d1, d2, h
  <1>5. Hex(c, TwoDigits, 65) = u
    <2> DEFINE e(i) == h((c \div TwoDigits[i]) % 16)
    <2>1. e(1) = h(d1) /\ e(2) = h(d2)
      BY <1>3, Zenon
    <2> HIDE DEF e
    <2>2. [i \in 1..2 |-> e(i)] = <<e(1), e(2)>>
      OBVIOUS
    <2>3. Hex(c, TwoDigits, 65) = [i \in 1..2 |-> e(i)]
      BY <1>2, Zenon DEF e
    <2> QED BY <2>1, <2>2, <2>3, Zenon
  <1>6. u \in Words
    BY <1>4 DEF Words
  <1>7. HexPair(u, c)
    BY <1>1, Zenon DEF HexPair, h
  <1> HIDE DEF u
  <1> QED BY <1>5, <1>6, <1>7, Zenon

\* The Parser expects two digits after an x.
LEMMA TwoHexReader ==
  ASSUME NEW r \in StringReaders
  PROVE  LET p == HexOf(r, 2, TRUE)
         IN InHex(p, 2, 0, TRUE) /\ p.out = r.out /\ p.high = r.high
  <1> DEFINE p == HexOf(r, 2, TRUE)
  <1>1. "hex" \in Modes /\ 2 \in Int /\ 0 \in Int /\ TRUE \in BOOLEAN
    BY DEF Modes
  <1>2. p \in StringReaders
    BY <1>1, HexSet, Zenon DEF HexOf
  <1>3. p.mode = "hex" /\ p.digits = 2 /\ p.val = 0 /\ p.out = r.out /\ p.high = r.high
    BY DEF HexOf, StringReaders
  <1>4. p.x = TRUE
    BY DEF HexOf, StringReaders
  <1> HIDE DEF p
  <1>5. InHex(p, 2, 0, TRUE)
    BY <1>2, <1>3, <1>4, Zenon DEF InHex
  <1> QED BY <1>3, <1>5 DEF p

ByteEscape(c) == <<Backslash, 120>> \o Hex(c, TwoDigits, 65)

\* The escape of a byte conveys it to the Parser.
LEMMA ByteConveys ==
  ASSUME NEW c \in Octets
  PROVE  ByteEscape(c) \in Words /\ Conveys("flatbuffers", ByteEscape(c), <<c>>)
  <1> DEFINE who == "flatbuffers"
             w == <<Backslash, 120>>
             x == Hex(c, TwoDigits, 65)
  <1>1. w \in Words /\ x \in Words /\ Backslash \in Int /\ 120 \in Int
    <2>1. w \in Words /\ Backslash \in Int /\ 120 \in Int
      BY DEF Words, Backslash
    <2> QED BY <2>1, TwoDigitsAre, Zenon
  <1>2. PICK d1 \in 0..15, d2 \in 0..15 :
          x = <<HexLetter(d1, 65), HexLetter(d2, 65)>> /\ d1 * 16 + d2 = c
    BY TwoDigitsAre, Zenon DEF HexPair
  <1>3. who \in Who /\ 65 \in Bases
    BY DEF Who, Bases
  <1>4. HexLetter(d1, 65) \in Int /\ HexLetter(d2, 65) \in Int
    BY <1>3, DigitRead, Zenon
  <1> HIDE DEF x, w
  <1>5. ASSUME NEW r, Ready(r)
        PROVE  \E q : Turns(who, r, ByteEscape(c), q) /\ Ready(q) /\ q.out = r.out \o <<c>>
    <2> DEFINE p == In(r, "escape")
               h == HexOf(p, 2, TRUE)
               a == Taking(h, 1, d1)
               z == Taking(h, 0, c)
    <2>1. r \in StringReaders /\ r.mode = "plain" /\ r.high = Corrupt
      BY <1>5, Zenon DEF Ready
    <2>2. p \in StringReaders /\ p.mode = "escape" /\ p.out = r.out /\ p.high = Corrupt
      BY <2>1, InReader DEF Modes
    <2>3. Step(who, r, Backslash) = p
      BY <1>3, <2>1, BackslashStep, Zenon
    <2> HIDE DEF p
    <2>4. Step(who, p, 120) = h
      <3>1. next_char(p, 120) = h
        BY <2>2 DEF next_char
      <3> QED BY <3>1, Zenon DEF Step
    <2>5. InHex(h, 2, 0, TRUE) /\ h.out = r.out /\ h.high = Corrupt
      BY <2>2, TwoHexReader, Zenon
    <2> HIDE DEF h
    <2>6. Turns(who, r, w, h)
      BY <1>1, <2>3, <2>4, TurnsTwo, Zenon DEF w
    <2>7. h \in StringReaders /\ h.mode = "hex" /\ h.x = TRUE
      BY <2>5, Zenon DEF InHex
    <2>8. d1 \in Int /\ c \in Int /\ 0 * 16 + d1 = d1 /\ 1 \in Int /\ 0 \in Int /\ 2 \in Int
      BY DEF Octets
    <2>9. InHex(a, 1, d1, TRUE) /\ InHex(z, 0, c, TRUE) /\ Taking(a, 0, c) = z
      <3>1. InHex(a, 1, d1, h.x) /\ InHex(z, 0, c, h.x) /\ Taking(a, 0, c) = z
        BY <2>7, <2>8, TakingReader
      <3> HIDE DEF a, z
      <3> QED BY <2>7, <3>1, Zenon
    <2>10. z.out = r.out /\ z.high = Corrupt
      BY <2>5, <2>7 DEF Taking, StringReaders
    <2> HIDE DEF a, z
    <2>11. Step(who, h, HexLetter(d1, 65)) = a
      <3>1. 2 > 1 /\ 2 - 1 = 1 /\ TRUE \in BOOLEAN
        OBVIOUS
      <3>2. Takes(who, h, 2, 0, TRUE, d1, 65)
        BY <1>3, <2>5, <2>8, <3>1, DigitStep, Zenon
      <3> QED BY <2>8, <3>1, <3>2, Zenon DEF a, Takes
    <2>12. Step(who, a, HexLetter(d2, 65)) = Finished(who, z)
      <3>1. ~(1 > 1) /\ 1 - 1 = 0 /\ TRUE \in BOOLEAN
        OBVIOUS
      <3>2. Takes(who, a, 1, d1, TRUE, d2, 65)
        BY <1>3, <2>8, <2>9, <3>1, DigitStep, Zenon
      <3> QED BY <1>2, <2>9, <3>1, <3>2, Zenon DEF Takes
    <2>13. Turns(who, h, x, Finished(who, z))
      <3>1. Turns(who, h, <<HexLetter(d1, 65), HexLetter(d2, 65)>>,
                  Step(who, Step(who, h, HexLetter(d1, 65)), HexLetter(d2, 65)))
        BY <1>4, TurnsTwo, Zenon
      <3> QED BY <1>2, <2>11, <2>12, <3>1, Zenon
    <2> DEFINE one == <<c>>
               q == Took(z, one)
    <2>14. z \in StringReaders /\ z.val = c /\ z.x = TRUE
      BY <2>9, Zenon DEF InHex
    <2>15. Finished(who, z) = q
      BY <2>14, Zenon DEF Finished
    <2>16. one \in Words
      BY <2>8 DEF Words
    <2> HIDE DEF one
    <2>17. Ready(q) /\ q.out = r.out \o one
      <3>1. Ready(q) /\ q.out = z.out \o one
        BY <2>10, <2>14, <2>16, TookReady, Zenon
      <3> HIDE DEF q
      <3> QED BY <2>10, <3>1, Zenon
    <2> HIDE DEF q
    <2>18. Turns(who, r, w \o x, q)
      BY <1>1, <2>6, <2>13, <2>15, TurnsThrough, Zenon DEF Words
    <2> QED BY <2>17, <2>18, Zenon DEF ByteEscape, w, x, one
  <1>6. ByteEscape(c) \in Words
    BY <1>1, ConcatProperties, Zenon DEF Words, ByteEscape, w, x
  <1> QED BY <1>5, <1>6, Zenon DEF Conveys

\* A reader that has failed stays so.
Failed(r) == r \in StringReaders /\ r.mode = "error"
Stops(u) == \A r : Ready(r) => \E q : Turns("picojson", r, u, q) /\ Failed(q)

\* picojson stays where it failed.
LEMMA FailedStays ==
  ASSUME NEW r, Failed(r), NEW u \in Words
  PROVE  Turns("picojson", r, u, r)
  <1>1. ASSUME NEW c PROVE Step("picojson", r, c) = r
    <2>1. r \in StringReaders /\ r.mode = "error"
      BY Zenon DEF Failed
    <2>2. parse_char(r, c) = Fail(r)
      BY <2>1 DEF parse_char
    <2>3. Fail(r) = r
      BY <2>1 DEF Fail, StringReaders
    <2>4. "picojson" # "flatbuffers"
      OBVIOUS
    <2> QED BY <2>2, <2>3, <2>4, Zenon DEF Step
  <1> DEFINE n == Len(u)
             f == [i \in 0..n |-> r]
  <1>2. n \in Nat
    BY LenProperties DEF Words
  <1>3. f[0] = r /\ f[n] = r /\ \A i \in 1..n : f[i] = r /\ f[i - 1] = r
    BY <1>2
  <1> HIDE DEF f
  <1>4. Follows(f, "picojson", r, u) /\ f[n] = r
    BY <1>1, <1>3, Zenon DEF Follows
  <1> QED BY <1>4, Zenon DEF Turns

\* It fails on the escape of a byte, which JSON does not have.
LEMMA ByteStops ==
  ASSUME NEW c \in Octets
  PROVE  Stops(ByteEscape(c))
  <1> DEFINE who == "picojson"
             w == <<Backslash, 120>>
             x == Hex(c, TwoDigits, 65)
  <1>1. w \in Words /\ x \in Words /\ Backslash \in Int /\ 120 \in Int
    <2>1. w \in Words /\ Backslash \in Int /\ 120 \in Int
      BY DEF Words, Backslash
    <2> QED BY <2>1, TwoDigitsAre, Zenon
  <1>2. who \in Who /\ who # "flatbuffers"
    BY DEF Who
  <1> HIDE DEF x, w
  <1>3. ASSUME NEW r, Ready(r)
        PROVE  \E q : Turns(who, r, ByteEscape(c), q) /\ Failed(q)
    <2> DEFINE p == In(r, "escape")
               q == In(p, "error")
    <2>1. r \in StringReaders /\ r.mode = "plain"
      BY <1>3, Zenon DEF Ready
    <2>2. p \in StringReaders /\ p.mode = "escape"
      BY <2>1, InReader DEF Modes
    <2>3. Step(who, r, Backslash) = p
      BY <1>2, <2>1, BackslashStep, Zenon
    <2> HIDE DEF p
    <2>4. Step(who, p, 120) = q
      <3>1. \A l \in PicoLetters : l[1] # 120
        BY LetterRead
      <3>2. parse_char(p, 120) = q
        BY <2>2, <3>1 DEF parse_char, PicoLetters, Fail, In
      <3> QED BY <1>2, <3>2, Zenon DEF Step
    <2>5. Failed(q)
      BY <2>2, InReader DEF Modes, Failed
    <2> HIDE DEF q
    <2>6. Turns(who, r, w, q)
      BY <1>1, <2>3, <2>4, TurnsTwo, Zenon DEF w
    <2>7. Turns(who, q, x, q)
      BY <1>1, <2>5, FailedStays, Zenon
    <2>8. Turns(who, r, w \o x, q)
      BY <1>1, <2>6, <2>7, TurnsThrough, Zenon DEF Words
    <2> QED BY <2>5, <2>8, Zenon DEF ByteEscape, w, x
  <1> QED BY <1>3, Zenon DEF Stops

\* Once it has failed, it fails whatever comes; before that, it comes to where it fails.
LEMMA StopsThrough ==
  ASSUME NEW u \in Words, NEW v \in Words, NEW w \in Words,
         Stops(u) \/ (Conveys("picojson", u, w) /\ Stops(v))
  PROVE  Stops(u \o v)
  <1> SUFFICES ASSUME NEW r, Ready(r)
               PROVE  \E q : Turns("picojson", r, u \o v, q) /\ Failed(q)
    BY Zenon DEF Stops
  <1>1. CASE Stops(u)
    <2>1. PICK q : Turns("picojson", r, u, q) /\ Failed(q)
      BY <1>1, Zenon DEF Stops
    <2>2. Turns("picojson", q, v, q)
      BY <2>1, FailedStays, Zenon
    <2> QED BY <2>1, <2>2, TurnsThrough, Zenon DEF Words
  <1>2. CASE Conveys("picojson", u, w) /\ Stops(v)
    <2>1. PICK p : Turns("picojson", r, u, p) /\ Ready(p)
      BY <1>2, Zenon DEF Conveys
    <2>2. PICK q : Turns("picojson", p, v, q) /\ Failed(q)
      BY <1>2, <2>1, Zenon DEF Stops
    <2> QED BY <2>1, <2>2, TurnsThrough, Zenon DEF Words
  <1> QED BY <1>1, <1>2

\* What it fails in is not read.
LEMMA StoppedIsNotRead ==
  ASSUME NEW u \in Words, Stops(u)
  PROVE  ~parse_string(u \o <<Quote>>).ok
  <1> DEFINE v == <<Quote>>
             text == u \o v
  <1>1. v \in Words
    BY DEF Words, Quote
  <1> HIDE DEF v
  <1>2. PICK q : Turns("picojson", Reader, u, q) /\ Failed(q)
    BY ReaderReady, Zenon DEF Stops
  <1>3. Turns("picojson", Reader, text, q)
    <2>1. Turns("picojson", q, v, q)
      BY <1>1, <1>2, FailedStays, Zenon
    <2> QED BY <1>1, <1>2, <2>1, TurnsThrough, Zenon DEF Words
  <1>4. text \in Words /\ "picojson" \in Who /\ "picojson" # "flatbuffers"
    <2>1. text \in Words
      BY <1>1, ConcatProperties, Zenon DEF Words
    <2> QED BY <2>1 DEF Who
  <1> HIDE DEF text
  <1>5. ReadBy("picojson", text) = Answer("picojson", q)
    BY <1>3, <1>4, ReadIs, Zenon DEF Words
  <1>6. parse_string(text) = Parsed(q)
    BY <1>4, <1>5, Zenon DEF ReadBy, Answer
  <1>7. q.mode # "done"
    BY <1>2 DEF Failed
  <1>8. ~Parsed(q).ok
    BY <1>7 DEF Parsed
  <1> QED BY <1>6, <1>8, Zenon DEF text, v

-----------------------------------------------------------------------------
(***************************************************************************)
(* One byte of EscapeString().                                             *)
(***************************************************************************)

\* What is written for a code point is a text.
LEMMA UnicodeIsText ==
  ASSUME NEW ucc \in CodePoints
  PROVE  Unicode(ucc) \in Words
  <1>1. 65 \in Bases
    BY DEF Bases
  <1>2. ASSUME NEW n \in CodeUnits PROVE Escape(n, 65) \in Words
    <2> DEFINE x == Hex(n, FourDigits, 65)
               w == <<Backslash, 117>>
    <2>1. x \in Words
      BY <1>1, FourDigitsAre, Zenon DEF Written
    <2>2. w \in Words
      BY DEF Words, Backslash
    <2> HIDE DEF x, w
    <2> QED BY <2>1, <2>2, ConcatProperties, Zenon DEF Words, Escape, x, w
  <1>3. CASE ucc \in CodeUnits
    <2>1. Unicode(ucc) = Escape(ucc, 65)
      <3>1. ucc <= 65535
        BY <1>3, SMT DEF CodeUnits
      <3> QED BY <3>1, SMT DEF Unicode, Escape
    <2> QED BY <1>2, <1>3, <2>1, Zenon
  <1>4. CASE ucc \notin CodeUnits
    <2>1. ~(ucc <= 65535)
      BY <1>4, SMT DEF CodePoints, CodeUnits
    <2>2. ucc \in Supplementary
      BY <1>4, SMT DEF CodePoints, CodeUnits, Supplementary
    <2>3. Unicode(ucc) = Escape(HighOf(ucc), 65) \o Escape(LowOf(ucc), 65)
      BY <2>1 DEF Unicode
    <2>4. HighOf(ucc) \in CodeUnits /\ LowOf(ucc) \in CodeUnits
      BY <2>2, SurrogatesAre, SurrogatesApart, Zenon
    <2>5. Escape(HighOf(ucc), 65) \in Words /\ Escape(LowOf(ucc), 65) \in Words
      BY <1>2, <2>4, Zenon
    <2> QED BY <2>3, <2>5, ConcatProperties, Zenon DEF Words
  <1> QED BY <1>3, <1>4

Writers == [ok : BOOLEAN, text : Words, next : Int]

\* Where it goes on, once it has passed i bytes.
GoesOn(t, i) == IF t.next > i THEN t.next ELSE i + 1

\* What is written for a byte that may be one, or for m bytes of UTF-8.
Wrote(v, t, u, i, m) ==
  v \in Writers /\ v.ok = t.ok /\ v.text = t.text \o u /\ GoesOn(v, i) = i + m

Adding(t, u) == [t EXCEPT !.text = @ \o u]
Passing(t, u, next) == [t EXCEPT !.text = @ \o u, !.next = next]

\* A writer that adds a text goes on.
LEMMA AddsText ==
  ASSUME NEW t \in Writers, NEW u \in Words, NEW v, v = Adding(t, u)
  PROVE  v \in Writers /\ v.ok = t.ok /\ v.text = t.text \o u /\ v.next = t.next
  <1> DEFINE w == t.text \o u
  <1>1. w \in Words
    <2>1. t.text \in Words
      BY DEF Writers
    <2> QED BY <2>1, ConcatProperties, Zenon DEF Words
  <1>2. v = [t EXCEPT !.text = w]
    BY DEF w, Adding
  <1> HIDE DEF w
  <1>3. v \in Writers /\ v.ok = t.ok /\ v.text = w /\ v.next = t.next
    BY <1>1, <1>2 DEF Writers
  <1> QED BY <1>3, Zenon DEF w

\* One that adds what stands for a sequence passes over its bytes.
LEMMA AddsSequence ==
  ASSUME NEW t \in Writers, NEW u \in Words, NEW next \in Int, NEW v,
         v = Passing(t, u, next)
  PROVE  v \in Writers /\ v.ok = t.ok /\ v.text = t.text \o u /\ v.next = next
  <1> DEFINE w == t.text \o u
  <1>1. w \in Words
    <2>1. t.text \in Words
      BY DEF Writers
    <2> QED BY <2>1, ConcatProperties, Zenon DEF Words
  <1>2. v = [t EXCEPT !.text = w, !.next = next]
    BY DEF w, Passing
  <1> HIDE DEF w
  <1>3. v \in Writers /\ v.ok = t.ok /\ v.text = w /\ v.next = next
    BY <1>1, <1>2 DEF Writers
  <1> QED BY <1>3, Zenon DEF w

\* One that refuses is a writer.
LEMMA Refuses ==
  ASSUME NEW t \in Writers
  PROVE  [t EXCEPT !.ok = FALSE] \in Writers /\ ~[t EXCEPT !.ok = FALSE].ok
  BY DEF Writers

\* A byte below 128 is a sequence of UTF-8.
LEMMA OneByte ==
  ASSUME NEW s \in Seq(Octets), NEW i \in 1..Len(s), s[i] < 128
  PROVE  FromUTF8(s, i).ucc # Corrupt /\ FromUTF8(s, i).len = 1 /\ SubSeq(s, i, i) = <<s[i]>>
  <1> DEFINE p == i - 1
  <1>1. Len(s) \in Nat
    BY LenProperties
  <1>2. p \in Nat /\ p < Len(s) /\ p + 1 = i /\ 1 \in 1..4 /\ p + 1 <= Len(s)
    BY <1>1
  <1> HIDE DEF p
  <1>3. s[i] \in Octets
    BY BytesAreWords
  <1>4. s[p + 1] \in Row1
    <2> DEFINE c == s[i]
    <2>1. c \in Octets /\ c < 128
      BY <1>3
    <2> HIDE DEF c
    <2>2. c \in Row1
      BY <2>1 DEF Octets, Row1
    <2> QED BY <1>2, <2>2, Zenon DEF c
  <1>5. BeginsSequence(s, p, 1)
    BY <1>2, <1>4, BeginsSequenceIs, Zenon DEF FitsWell1
  <1>6. Seen(s, p)
    BY <1>2, EachSeen, Zenon
  <1>7. FromUTF8(s, i).ucc # Corrupt /\ 1 = FromUTF8(s, i).len
    BY <1>2, <1>5, <1>6, Zenon DEF Seen
  <1>8. SubSeq(s, p + 1, p + 1) = <<s[p + 1]>>
    BY <1>2, FirstBytes, Zenon
  <1> QED BY <1>2, <1>7, <1>8, Zenon

\* The cases of escape_char().
IsLetter(c) == \E l \in Letters : l[2] = c
IsPlain(c) == c \in 32..126

\* What is written as a letter, or as it is, is ASCII.
LEMMA SmallLetters ==
  ASSUME NEW c \in Int
  PROVE  /\ IsLetter(c) => c < 128 /\ <<Letter(c), c>> \in PicoLetters
         /\ IsPlain(c) => c < 128
         /\ IsPlain(c) /\ ~IsLetter(c) => c \in Themselves
  <1>1. ASSUME IsLetter(c) PROVE c < 128 /\ <<Letter(c), c>> \in PicoLetters
    <2> DEFINE l == CHOOSE k \in Letters : k[2] = c
    <2>1. l \in Letters /\ l[2] = c
      BY <1>1, Zenon DEF IsLetter
    <2>2. Letter(c) = l[1]
      BY Zenon DEF Letter
    <2> HIDE DEF l
    <2>3. l = <<l[1], l[2]>> /\ l[2] < 128
      BY <2>1 DEF Letters, Quote, Backslash
    <2>4. l \in PicoLetters
      BY <2>1, Zenon DEF PicoLetters
    <2>5. <<Letter(c), c>> \in PicoLetters
      BY <2>1, <2>2, <2>3, <2>4, Zenon
    <2>6. c < 128
      BY <2>1, <2>3
    <2> QED BY <2>5, <2>6
  <1>2. IsPlain(c) => c < 128
    BY DEF IsPlain
  <1>3. ASSUME IsPlain(c), ~IsLetter(c) PROVE c \in Themselves
    <2>1. <<Quote, Quote>> \in Letters /\ <<Backslash, Backslash>> \in Letters
      BY DEF Letters
    <2>2. <<Quote, Quote>>[2] = Quote /\ <<Backslash, Backslash>>[2] = Backslash
      OBVIOUS
    <2>3. c # Quote /\ c # Backslash
      BY <1>3, <2>1, <2>2, Zenon DEF IsLetter
    <2>4. c \in 32..255
      BY <1>3 DEF IsPlain
    <2> QED BY <2>3, <2>4 DEF Themselves
  <1> QED BY <1>1, <1>2, <1>3, Zenon

\* What EscapeString() does with a byte, in three cases.
LEMMA EscapeCharIs ==
  ASSUME NEW s, NEW t, NEW i, NEW a \in BOOLEAN, t.ok, ~(i < t.next)
  PROVE  escape_char(s, a, t, i)
           = IF IsLetter(s[i]) THEN [t EXCEPT !.text = @ \o <<Backslash, Letter(s[i])>>]
             ELSE IF IsPlain(s[i]) THEN [t EXCEPT !.text = Append(@, s[i])]
             ELSE escape_sequence(s, a, t, i, FromUTF8(s, i))
  BY Zenon DEF escape_char, IsLetter, IsPlain

\* UTF-8 is written so that both read it.
LEMMA WritesSequence ==
  ASSUME NEW s \in Seq(Octets), NEW i \in 1..Len(s), NEW t \in Writers, t.ok, t.next <= i,
         FromUTF8(s, i).ucc # Corrupt
  PROVE  LET m == FromUTF8(s, i).len
             v == escape_char(s, TRUE, t, i)
         IN /\ m \in 1..4 /\ i + m <= Len(s) + 1 /\ escape_char(s, FALSE, t, i) = v
            /\ \E u \in Words : /\ Wrote(v, t, u, i, m)
                                /\ \A who \in Who : Conveys(who, u, SubSeq(s, i, i + m - 1))
  <1> DEFINE c == s[i]
             m == FromUTF8(s, i).len
             ucc == FromUTF8(s, i).ucc
             v == escape_char(s, TRUE, t, i)
             p == i - 1
  <1>1. Len(s) \in Nat /\ c \in Octets
    BY BytesAreWords
  <1>2. /\ p \in Nat /\ p < Len(s) /\ p + 1 = i /\ t.next \in Int /\ i \in Int /\ ~(i < t.next)
        /\ ~(t.next > i)
    BY <1>1 DEF Writers
  <1> HIDE DEF p
  <1>3. /\ m \in 1..4 /\ p + m <= Len(s) /\ ucc \in CodePoints /\ ucc \notin Surrogates
        /\ ToUTF8(ucc) = SubSeq(s, p + 1, p + m)
    <2>1. Seen(s, p)
      BY <1>2, EachSeen, Zenon
    <2> QED BY <1>2, <2>1, Zenon DEF Seen
  <1>4. i + m <= Len(s) + 1 /\ i + m - 1 = p + m
    <2> DEFINE l == m
    <2>1. l \in 1..4 /\ p + l <= Len(s)
      BY <1>3, Zenon
    <2> HIDE DEF l
    <2>2. i + l <= Len(s) + 1 /\ i + l - 1 = p + l
      BY <1>1, <1>2, <2>1
    <2> QED BY <2>2, Zenon DEF l
  <1>5. c \in Int
    <2>1. Octets \subseteq Int
      BY DEF Octets
    <2> QED BY <1>1, <2>1, Zenon
  <1>6. \A a \in BOOLEAN : escape_char(s, a, t, i)
           = IF IsLetter(c) THEN [t EXCEPT !.text = @ \o <<Backslash, Letter(c)>>]
             ELSE IF IsPlain(c) THEN [t EXCEPT !.text = Append(@, c)]
             ELSE escape_sequence(s, a, t, i, FromUTF8(s, i))
    BY <1>2, EscapeCharIs, Zenon
  <1>7. /\ TRUE \in BOOLEAN /\ FALSE \in BOOLEAN
    OBVIOUS
  <1>8. /\ c < 128 => m = 1 /\ SubSeq(s, i, i) = <<c>>
        /\ i + 1 - 1 = i
    <2>1. i + 1 - 1 = i
      OBVIOUS
    <2> QED BY <2>1, OneByte, Zenon
  <1> HIDE DEF c, m, ucc
  <1>9. CASE IsLetter(c)
    <2> DEFINE u == <<Backslash, Letter(c)>>
               w == <<c>>
    <2>1. c < 128 /\ <<Letter(c), c>> \in PicoLetters
      BY <1>5, <1>9, SmallLetters, Zenon
    <2>2. \A who \in Who : Conveys(who, u, w)
      <3> DEFINE l == <<Letter(c), c>>
      <3>1. l[1] = Letter(c) /\ l[2] = c
        OBVIOUS
      <3>2. l \in PicoLetters
        BY <2>1
      <3> HIDE DEF l
      <3> QED BY <3>1, <3>2, LetterConveys, Zenon
    <2>3. u \in Words
      <3> DEFINE l == <<Letter(c), c>>
      <3>1. l[1] = Letter(c) /\ l \in PicoLetters
        BY <2>1
      <3> HIDE DEF l
      <3>2. Letter(c) \in Int /\ Backslash \in Int
        BY <3>1, LetterRead DEF Backslash
      <3> QED BY <3>2 DEF Words
    <2>4. v = [t EXCEPT !.text = @ \o u] /\ escape_char(s, FALSE, t, i) = v
      BY <1>6, <1>7, <1>9, Zenon
    <2> HIDE DEF u, v, w
    <2>5. v \in Writers /\ v.ok = t.ok /\ v.text = t.text \o u /\ v.next = t.next
      <3>1. v = Adding(t, u)
        BY <2>4, Zenon DEF Adding
      <3> QED BY <2>3, <3>1, AddsText, Zenon
    <2>6. m = 1 /\ SubSeq(s, i, i) = w
      BY <1>8, <2>1, Zenon DEF w
    <2>7. GoesOn(v, i) = i + m
      BY <1>2, <2>5, <2>6, Zenon DEF GoesOn
    <2>8. \A who \in Who : Conveys(who, u, SubSeq(s, i, i + m - 1))
      BY <1>8, <2>2, <2>6, Zenon
    <2>9. Wrote(v, t, u, i, m)
      BY <2>5, <2>7, Zenon DEF Wrote
    <2> QED BY <1>3, <1>4, <2>3, <2>4, <2>8, <2>9, Zenon DEF v, m
  <1>10. CASE ~IsLetter(c) /\ IsPlain(c)
    <2> DEFINE u == <<c>>
    <2>1. c < 128 /\ c \in Themselves
      BY <1>5, <1>10, SmallLetters, Zenon
    <2>2. \A who \in Who : Conveys(who, u, u)
      BY <2>1, PlainConveys, Zenon
    <2>3. u \in Words
      BY <1>5 DEF Words
    <2>4. v = [t EXCEPT !.text = @ \o u] /\ escape_char(s, FALSE, t, i) = v
      <3>1. t.text \in Words
        BY DEF Writers
      <3>2. Append(t.text, c) = t.text \o u
        BY <1>5, <3>1, AppendIsConcat, Zenon DEF Words
      <3>3. [t EXCEPT !.text = Append(@, c)] = [t EXCEPT !.text = @ \o u]
        BY <3>2, Zenon
      <3> QED BY <1>6, <1>7, <1>10, <3>3, Zenon
    <2> HIDE DEF v, u
    <2>5. v \in Writers /\ v.ok = t.ok /\ v.text = t.text \o u /\ v.next = t.next
      <3>1. v = Adding(t, u)
        BY <2>4, Zenon DEF Adding
      <3> QED BY <2>3, <3>1, AddsText, Zenon
    <2>6. m = 1 /\ SubSeq(s, i, i) = u
      BY <1>8, <2>1, Zenon DEF u
    <2>7. GoesOn(v, i) = i + m
      BY <1>2, <2>5, <2>6, Zenon DEF GoesOn
    <2>8. \A who \in Who : Conveys(who, u, SubSeq(s, i, i + m - 1))
      BY <1>8, <2>2, <2>6, Zenon
    <2>9. Wrote(v, t, u, i, m)
      BY <2>5, <2>7, Zenon DEF Wrote
    <2> QED BY <1>3, <1>4, <2>3, <2>4, <2>8, <2>9, Zenon DEF v, m
  <1>11. CASE ~IsLetter(c) /\ ~IsPlain(c)
    <2> DEFINE u == Unicode(ucc)
               next == i + m
    <2>1. ucc # Corrupt
      BY Zenon DEF ucc
    <2>2. v = [t EXCEPT !.text = @ \o u, !.next = next] /\ escape_char(s, FALSE, t, i) = v
      <3>1. \A a \in BOOLEAN : escape_char(s, a, t, i) = escape_sequence(s, a, t, i, FromUTF8(s, i))
        BY <1>6, <1>11, Zenon
      <3>2. \A a \in BOOLEAN : escape_sequence(s, a, t, i, FromUTF8(s, i))
                                 = [t EXCEPT !.text = @ \o u, !.next = next]
        BY <2>1, Zenon DEF escape_sequence, ucc, m
      <3> QED BY <1>7, <3>1, <3>2, Zenon
    <2>3. \A who \in Who : Conveys(who, u, ToUTF8(ucc))
      BY <1>3, UnicodeConveys, Zenon
    <2>4. u \in Words
      BY <1>3, UnicodeIsText, Zenon
    <2>5. next \in Int /\ next > i
      BY <1>3
    <2> HIDE DEF u, v, next
    <2>6. v \in Writers /\ v.ok = t.ok /\ v.text = t.text \o u /\ v.next = next
      <3>1. v = Passing(t, u, next)
        BY <2>2, Zenon DEF Passing
      <3>2. next \in Int
        BY <2>5
      <3> HIDE DEF Writers
      <3>3. \A k \in Int : v = Passing(t, u, k)
              => v \in Writers /\ v.ok = t.ok /\ v.text = t.text \o u /\ v.next = k
        BY <2>4, AddsSequence, Zenon
      <3> QED BY <3>1, <3>2, <3>3, Zenon
    <2>7. GoesOn(v, i) = i + m
      BY <2>5, <2>6, Zenon DEF GoesOn, next
    <2>8. \A who \in Who : Conveys(who, u, SubSeq(s, i, i + m - 1))
      BY <1>2, <1>3, <1>4, <2>3, Zenon
    <2>9. Wrote(v, t, u, i, m)
      BY <2>6, <2>7, Zenon DEF Wrote
    <2> QED BY <1>3, <1>4, <2>2, <2>4, <2>8, <2>9, Zenon DEF v, m
  <1> QED BY <1>9, <1>10, <1>11

\* A byte that is not of UTF-8 is refused, or written so that only the Parser reads it.
LEMMA WritesByte ==
  ASSUME NEW s \in Seq(Octets), NEW i \in 1..Len(s), NEW t \in Writers, t.ok, t.next <= i,
         FromUTF8(s, i).ucc = Corrupt
  PROVE  /\ Wrote(escape_char(s, TRUE, t, i), t, ByteEscape(s[i]), i, 1)
         /\ escape_char(s, FALSE, t, i) \in Writers /\ ~escape_char(s, FALSE, t, i).ok
  <1> DEFINE c == s[i]
             v == escape_char(s, TRUE, t, i)
             w == escape_char(s, FALSE, t, i)
             u == ByteEscape(c)
  <1>1. c \in Octets
    BY BytesAreWords
  <1>2. c \in Int /\ t.next \in Int /\ i \in Int
    <2>1. Octets \subseteq Int
      BY DEF Octets
    <2>2. c \in Int
      BY <1>1, <2>1, Zenon
    <2>3. t.next \in Int /\ i \in Int
      BY DEF Writers
    <2> QED BY <2>2, <2>3
  <1>3. ~(i < t.next) /\ ~(t.next > i)
    BY <1>2
  <1>4. ~(c < 128)
    BY OneByte, Zenon
  <1>5. \A a \in BOOLEAN : escape_char(s, a, t, i)
           = IF IsLetter(c) THEN [t EXCEPT !.text = @ \o <<Backslash, Letter(c)>>]
             ELSE IF IsPlain(c) THEN [t EXCEPT !.text = Append(@, c)]
             ELSE escape_sequence(s, a, t, i, FromUTF8(s, i))
    BY <1>3, EscapeCharIs, Zenon
  <1>6. ~IsLetter(c) /\ ~IsPlain(c)
    BY <1>2, <1>4, SmallLetters, Zenon
  <1>7. v = [t EXCEPT !.text = @ \o u] /\ w = [t EXCEPT !.ok = FALSE]
    <2>1. TRUE \in BOOLEAN /\ FALSE \in BOOLEAN
      OBVIOUS
    <2>2. \A a \in BOOLEAN : escape_char(s, a, t, i) = escape_sequence(s, a, t, i, FromUTF8(s, i))
      BY <1>5, <1>6, Zenon
    <2>3. escape_sequence(s, TRUE, t, i, FromUTF8(s, i)) = [t EXCEPT !.text = @ \o u]
      BY Zenon DEF escape_sequence, ByteEscape
    <2>4. escape_sequence(s, FALSE, t, i, FromUTF8(s, i)) = [t EXCEPT !.ok = FALSE]
      BY Zenon DEF escape_sequence
    <2> QED BY <2>1, <2>2, <2>3, <2>4, Zenon
  <1>8. u \in Words
    BY <1>1, ByteConveys, Zenon
  <1> HIDE DEF v, u, w
  <1>9. v \in Writers /\ v.ok = t.ok /\ v.text = t.text \o u /\ v.next = t.next
    BY <1>7, <1>8, AddsText, Zenon DEF Adding
  <1>10. w \in Writers /\ ~w.ok
    BY <1>7, Refuses, Zenon
  <1>11. GoesOn(v, i) = i + 1
    BY <1>3, <1>9, Zenon DEF GoesOn
  <1> QED BY <1>9, <1>10, <1>11, Zenon DEF Wrote, v, u, w

-----------------------------------------------------------------------------
(***************************************************************************)
(* EscapeString(), byte after byte.                                        *)
(***************************************************************************)
FirstWriter == [ok |-> TRUE, text |-> <<Quote>>, next |-> 1]

\* Nothing is written for a byte of a sequence already written, or after a refusal.
LEMMA PassesByte ==
  ASSUME NEW s, NEW t, NEW i, NEW a, ~t.ok \/ i < t.next
  PROVE  escape_char(s, a, t, i) = t
  BY Zenon DEF escape_char

\* What has been written stays a text.
LEMMA StaysWriter ==
  ASSUME NEW s \in Seq(Octets), NEW t \in Writers, NEW i \in 1..Len(s), NEW a \in BOOLEAN
  PROVE  escape_char(s, a, t, i) \in Writers
  <1>1. CASE ~t.ok \/ i < t.next
    BY <1>1, PassesByte, Zenon
  <1>2. CASE t.ok /\ ~(i < t.next)
    <2>1. t.next <= i
      BY <1>2 DEF Writers
    <2>2. a = TRUE \/ a = FALSE
      OBVIOUS
    <2>3. CASE FromUTF8(s, i).ucc # Corrupt
      <3>1. escape_char(s, FALSE, t, i) = escape_char(s, TRUE, t, i)
        BY <1>2, <2>1, <2>3, WritesSequence, Zenon
      <3>2. escape_char(s, TRUE, t, i) \in Writers
        BY <1>2, <2>1, <2>3, WritesSequence, Zenon DEF Wrote
      <3> QED BY <2>2, <3>1, <3>2, Zenon
    <2>4. CASE FromUTF8(s, i).ucc = Corrupt
      <3>1. escape_char(s, TRUE, t, i) \in Writers /\ escape_char(s, FALSE, t, i) \in Writers
        BY <1>2, <2>1, <2>4, WritesByte, Zenon DEF Wrote
      <3> QED BY <2>2, <3>1, Zenon
    <2> QED BY <2>3, <2>4
  <1> QED BY <1>1, <1>2

\* The function in EscapeString() exists, and its last value is what is written.
Runs(t, s, a) == t[0] = FirstWriter /\ \A i \in 1..Len(s) : t[i] = escape_char(s, a, t[i - 1], i)

\* The function in EscapeString() exists, and its last value is what is written.
LEMMA RunIs ==
  ASSUME NEW s \in Seq(Octets), NEW a \in BOOLEAN
  PROVE  \E t \in [0..Len(s) -> Writers] : Runs(t, s, a) /\ EscapeString(s, a) = t[Len(s)]
  <1> DEFINE n == Len(s)
             step == [p \in Writers \X (1..n) |-> escape_char(s, a, p[1], p[2])]
             Solves(h) == h = [i \in 0..n |-> IF i = 0 THEN FirstWriter ELSE escape_char(s, a, h[i - 1], i)]
             writes == CHOOSE h : Solves(h)
  <1>1. n \in Nat
    BY LenProperties
  <1>2. ASSUME NEW v \in Writers, NEW i \in 1..n
        PROVE  escape_char(s, a, v, i) \in Writers /\ step[<<v, i>>] = escape_char(s, a, v, i)
    <2>1. <<v, i>> \in Writers \X (1..n) /\ <<v, i>>[1] = v /\ <<v, i>>[2] = i
      OBVIOUS
    <2>2. step[<<v, i>>] = escape_char(s, a, v, i)
      BY <2>1, Zenon
    <2> QED BY <2>2, StaysWriter, Zenon
  <1>3. EscapeString(s, a) = writes[n]
    <2> DEFINE by == CHOOSE h : h = [i \in 0..n |-> IF i = 0 THEN [ok |-> TRUE, text |-> <<Quote>>, next |-> 1]
                                       ELSE escape_char(s, a, h[i - 1], i)]
    <2>1. EscapeString(s, a) = by[n]
      BY DEF EscapeString
    <2>2. writes = by
      BY Zenon DEF FirstWriter
    <2> HIDE DEF by, writes
    <2> QED BY <2>1, <2>2, Zenon
  <1>4. FirstWriter \in Writers
    <2> DEFINE q == <<Quote>>
    <2>1. q \in Words /\ 1 \in Int
      BY DEF Words, Quote
    <2> HIDE DEF q
    <2>2. [ok |-> TRUE, text |-> q, next |-> 1] \in Writers
      BY <2>1 DEF Writers
    <2> QED BY <2>2, Zenon DEF FirstWriter, q
  <1> HIDE DEF step
  <1>5. StaysIn(Writers, n, step)
    BY <1>2, Zenon DEF StaysIn
  <1>6. PICK t \in [0..n -> Writers] : Iterates(t, n, FirstWriter, step)
    BY <1>1, <1>4, <1>5, Iteration, Zenon
  <1>7. \A i \in 1..n : t[i] = escape_char(s, a, t[i - 1], i)
    <2> SUFFICES ASSUME NEW i \in 1..n PROVE t[i] = escape_char(s, a, t[i - 1], i)
      OBVIOUS
    <2>1. i - 1 \in 0..n
      BY <1>1
    <2>2. t[i - 1] \in Writers /\ t[i] = step[<<t[i - 1], i>>]
      BY <1>6, <2>1, Zenon DEF Iterates
    <2> QED BY <1>2, <2>2, Zenon
  <1>8. Solves(t)
    <2>1. ASSUME NEW i \in 0..n
          PROVE  t[i] = IF i = 0 THEN FirstWriter ELSE escape_char(s, a, t[i - 1], i)
      <3>1. CASE i = 0
        BY <1>6, <3>1, Zenon DEF Iterates
      <3>2. CASE i # 0
        <4>1. i \in 1..n
          BY <1>1, <3>2
        <4> QED BY <1>7, <3>2, <4>1, Zenon
      <3> QED BY <3>1, <3>2
    <2> QED BY <2>1, Zenon
  <1>9. Solves(writes)
    BY <1>8, Zenon
  <1> HIDE DEF writes
  <1>10. \A i \in 0..n : writes[i] = IF i = 0 THEN FirstWriter ELSE escape_char(s, a, writes[i - 1], i)
    BY <1>9, Zenon
  <1>11. \A i \in 0..n : t[i] = writes[i]
    <2>1. t[0] = writes[0]
      <3>1. 0 \in 0..n
        BY <1>1
      <3> QED BY <1>6, <1>10, <3>1, Zenon DEF Iterates
    <2>2. \A i \in 0..(n - 1) : t[i] = writes[i] => t[i + 1] = writes[i + 1]
      <3> SUFFICES ASSUME NEW i \in 0..(n - 1), t[i] = writes[i] PROVE t[i + 1] = writes[i + 1]
        OBVIOUS
      <3> DEFINE j == i + 1
      <3>1. j \in 1..n /\ j \in 0..n /\ j # 0 /\ j - 1 = i
        BY <1>1
      <3> HIDE DEF j
      <3>2. writes[j] = escape_char(s, a, writes[j - 1], j) /\ t[j] = escape_char(s, a, t[j - 1], j)
        BY <1>7, <1>10, <3>1, Zenon
      <3>3. t[j] = writes[j]
        BY <3>1, <3>2, Zenon
      <3> QED BY <3>3, Zenon DEF j
    <2> HIDE DEF n
    <2> QED BY <1>1, <2>1, <2>2, Agreement, Zenon
  <1>12. t[n] = writes[n]
    <2>1. n \in 0..n
      BY <1>1
    <2> QED BY <1>11, <2>1, Zenon
  <1>13. Runs(t, s, a)
    BY <1>6, <1>7, Zenon DEF Runs, Iterates
  <1> QED BY <1>3, <1>12, <1>13, Zenon

\* What has been written of the bytes before the place where it goes on: the Parser reads
\* those bytes, and so does picojson, unless there was one that is not of UTF-8.
Says(u, w, x) ==
  /\ Conveys("flatbuffers", u, w)
  /\ IF x = Corrupt THEN Stops(u) ELSE Conveys("picojson", u, w)

\* The same, told to refuse (t) and told not to (l): x is where ValidateUTF8() goes on.
Holds(s, i, x, t, l) ==
  /\ t \in Writers /\ l \in Writers /\ l.ok
  /\ IF x = Corrupt THEN ~t.ok ELSE t = l /\ GoesOn(l, i) = x
  /\ GoesOn(l, i) \in (i + 1)..(Len(s) + 1)
  /\ \E u \in Words : l.text = <<Quote>> \o u /\ Says(u, SubSeq(s, 1, GoesOn(l, i) - 1), x)

\* Before the first byte, nothing has been written.
LEMMA HoldsFirst ==
  ASSUME NEW s \in Seq(Octets)
  PROVE  Holds(s, 0, 1, FirstWriter, FirstWriter)
  <1> DEFINE none == <<>>
             q == <<Quote>>
  <1>1. Len(s) \in Nat /\ SubSeq(s, 1, 0) = none
    BY BytesAreWords
  <1>2. none \in Words /\ q \in Words /\ 1 # Corrupt /\ 1 - 1 = 0 /\ 0 + 1 = 1
    BY DEF Words, Quote, Corrupt
  <1>3. q \o none = q
    BY <1>2, ConcatEmptySeq, Zenon DEF Words
  <1> HIDE DEF none, q
  <1>4. FirstWriter \in Writers /\ FirstWriter.ok /\ FirstWriter.text = q /\ FirstWriter.next = 1
    <2>1. FirstWriter = [ok |-> TRUE, text |-> q, next |-> 1]
      BY Zenon DEF FirstWriter, q
    <2> QED BY <1>2, <2>1 DEF Writers
  <1>5. GoesOn(FirstWriter, 0) = 1
    <2>1. 1 > 0
      OBVIOUS
    <2> QED BY <1>4, <2>1, Zenon DEF GoesOn
  <1>6. 1 \in (0 + 1)..(Len(s) + 1)
    BY <1>1
  <1>7. Says(none, none, 1)
    BY <1>2, NothingConveys, Zenon DEF Says, none
  <1> QED BY <1>1, <1>2, <1>3, <1>4, <1>5, <1>6, <1>7, Zenon DEF Holds, q

\* The bytes up to a place, and those of a sequence after it.
LEMMA PrefixGrows ==
  ASSUME NEW s \in Seq(Octets), NEW i \in 1..Len(s), NEW m \in Nat, m > 0, i + m <= Len(s) + 1
  PROVE  /\ SubSeq(s, 1, (i + m) - 1) = SubSeq(s, 1, i - 1) \o SubSeq(s, i, i + m - 1)
         /\ SubSeq(s, 1, i - 1) \in Words /\ SubSeq(s, i, i + m - 1) \in Words
  <1>1. Len(s) \in Nat
    BY LenProperties
  <1> DEFINE p == i - 1
             e == i + m - 1
  <1>2. 1 \in 1..(Len(s) + 1) /\ p \in (1 - 1)..Len(s) /\ e \in p..Len(s) /\ p + 1 = i
    BY <1>1
  <1>3. p \in 0..Len(s) /\ (i + m) - 1 = e /\ i \in Int /\ e \in Int
    BY <1>1
  <1>4. \A k \in i..e : k \in 1..Len(s)
    BY <1>1
  <1> HIDE DEF p, e
  <1>5. SubSeq(s, 1, p) \o SubSeq(s, p + 1, e) = SubSeq(s, 1, e)
    BY <1>2, ConcatAdjacentSubSeq, Zenon
  <1>6. SubSeq(s, 1, p) \in Words
    BY <1>3, BytesAreWords, Zenon
  <1>7. SubSeq(s, i, e) \in Words
    <2>1. Octets \subseteq Int
      BY DEF Octets
    <2>2. \A k \in i..e : s[k] \in Int
      BY <1>4, <2>1, BytesAreWords, Zenon
    <2> QED BY <1>3, <2>2, SubSeqProperties, Zenon DEF Words
  <1> QED BY <1>2, <1>3, <1>5, <1>6, <1>7, Zenon DEF p, e

\* A piece is added.
LEMMA AddsPiece ==
  ASSUME NEW s \in Seq(Octets), NEW i \in 1..Len(s), NEW m \in Nat, m > 0, i + m <= Len(s) + 1,
         NEW l \in Writers, NEW v, NEW u \in Words, NEW e \in Words, NEW x, NEW y,
         l.text = <<Quote>> \o u, Says(u, SubSeq(s, 1, i - 1), x), Wrote(v, l, e, i, m),
         Conveys("flatbuffers", e, SubSeq(s, i, i + m - 1)),
         \/ x = Corrupt /\ y = Corrupt
         \/ x # Corrupt /\ y = Corrupt /\ Stops(e)
         \/ x # Corrupt /\ y # Corrupt /\ Conveys("picojson", e, SubSeq(s, i, i + m - 1))
  PROVE  /\ GoesOn(v, i) \in (i + 1)..(Len(s) + 1)
         /\ \E w \in Words : v.text = <<Quote>> \o w /\ Says(w, SubSeq(s, 1, GoesOn(v, i) - 1), y)
  <1> DEFINE q == <<Quote>>
             w == u \o e
             a == SubSeq(s, 1, i - 1)
             b == SubSeq(s, i, i + m - 1)
  <1>1. Len(s) \in Nat
    BY LenProperties
  <1>2. SubSeq(s, 1, (i + m) - 1) = a \o b /\ a \in Words /\ b \in Words
    BY PrefixGrows, Zenon
  <1>3. q \in Words
    BY DEF Words, Quote
  <1> HIDE DEF q, a, b
  <1>4. w \in Words
    BY ConcatProperties, Zenon DEF Words
  <1>5. v.text = q \o w
    <2>1. v.text = (q \o u) \o e
      BY Zenon DEF Wrote, q
    <2>2. Associates(q, u, e)
      BY <1>3, Associative, Zenon DEF Words
    <2> QED BY <2>1, <2>2, Zenon DEF Associates
  <1>6. Conveys("flatbuffers", w, a \o b)
    <2>1. Conveys("flatbuffers", u, a) /\ Conveys("flatbuffers", e, b)
      BY Zenon DEF Says, a, b
    <2> QED BY <1>2, <2>1, ConveysBoth, Zenon
  <1>7. i + m \in (i + 1)..(Len(s) + 1)
    BY <1>1
  <1>8. GoesOn(v, i) = i + m
    BY Zenon DEF Wrote
  <1>9. Says(w, a \o b, y)
    <2> HIDE DEF w
    <2>1. CASE y # Corrupt
      <3>1. Conveys("picojson", u, a) /\ Conveys("picojson", e, b)
        BY <2>1, Zenon DEF Says, a, b
      <3>2. Conveys("picojson", w, a \o b)
        BY <1>2, <3>1, ConveysBoth, Zenon DEF w
      <3> QED BY <1>6, <2>1, <3>2, Zenon DEF Says
    <2>2. CASE y = Corrupt
      <3>1. Stops(u) \/ (Conveys("picojson", u, a) /\ Stops(e))
        BY <2>2, Zenon DEF Says, a
      <3>2. Stops(w)
        BY <1>2, <3>1, StopsThrough, Zenon DEF w
      <3> QED BY <1>6, <2>2, <3>2, Zenon DEF Says
    <2> QED BY <2>1, <2>2
  <1> HIDE DEF w
  <1> QED BY <1>2, <1>4, <1>5, <1>7, <1>8, <1>9, Zenon DEF q

\* With each byte, or none if it was passed over, the same is true after it.
LEMMA HoldsOn ==
  ASSUME NEW s \in Seq(Octets), NEW j \in 1..Len(s), NEW x \in Int, NEW t, NEW l,
         Holds(s, j - 1, x, t, l)
  PROVE  Holds(s, j, passed(s, x, j), escape_char(s, FALSE, t, j), escape_char(s, TRUE, l, j))
  <1> DEFINE i == j - 1
             y == passed(s, x, j)
             t1 == escape_char(s, FALSE, t, j)
             l1 == escape_char(s, TRUE, l, j)
             g == GoesOn(l, i)
  <1>1. Len(s) \in Nat /\ i \in Nat /\ i + 1 = j /\ j # Corrupt /\ j \in Int
    <2>1. Len(s) \in Nat
      BY LenProperties
    <2> QED BY <2>1 DEF Corrupt
  <1>2. /\ t \in Writers /\ l \in Writers /\ l.ok
        /\ IF x = Corrupt THEN ~t.ok ELSE t = l /\ g = x
        /\ g \in j..(Len(s) + 1)
    BY <1>1, Zenon DEF Holds
  <1>3. PICK u \in Words : l.text = <<Quote>> \o u /\ Says(u, SubSeq(s, 1, g - 1), x)
    BY Zenon DEF Holds
  <1>4. l.next \in Int
    BY <1>2 DEF Writers
  <1>5. g = IF l.next > i THEN l.next ELSE j
    BY <1>1, Zenon DEF GoesOn
  <1>6. t1 \in Writers /\ l1 \in Writers
    BY <1>2, StaysWriter, Zenon
  <1>7. y = IF x # j THEN x ELSE IF FromUTF8(s, j).ucc = Corrupt THEN Corrupt ELSE j + FromUTF8(s, j).len
    BY Zenon DEF passed
  <1> HIDE DEF g, y, t1, l1, i
  \* A sequence is being passed.
  <1>8. CASE j < l.next
    <2>1. l.next > i /\ l.next > j
      BY <1>1, <1>4, <1>8
    <2>2. g = l.next
      BY <1>5, <2>1
    <2>3. l1 = l
      BY <1>8, PassesByte, Zenon DEF l1
    <2>4. GoesOn(l1, j) = g
      BY <2>1, <2>2, <2>3, Zenon DEF GoesOn
    <2>5. x # j
      <3>1. g # j
        BY <1>4, <2>1, <2>2
      <3> QED BY <1>1, <1>2, <3>1, Zenon
    <2>6. y = x
      BY <1>7, <2>5, Zenon
    <2>7. IF x = Corrupt THEN ~t1.ok ELSE t1 = l1 /\ GoesOn(l1, j) = x
      <3>1. CASE x = Corrupt
        <4>1. ~t.ok
          BY <1>2, <3>1, Zenon
        <4>2. t1 = t
          BY <4>1, PassesByte, Zenon DEF t1
        <4> QED BY <3>1, <4>1, <4>2, Zenon
      <3>2. CASE x # Corrupt
        <4>1. t = l /\ g = x
          BY <1>2, <3>2, Zenon
        <4>2. t1 = t
          BY <1>8, <4>1, PassesByte, Zenon DEF t1
        <4> QED BY <2>3, <2>4, <3>2, <4>1, <4>2, Zenon
      <3> QED BY <3>1, <3>2
    <2>8. g \in (j + 1)..(Len(s) + 1)
      BY <1>1, <1>2, <1>4, <2>1, <2>2
    <2> QED BY <1>2, <1>3, <1>6, <2>3, <2>4, <2>6, <2>7, <2>8, Zenon DEF Holds, t1, l1, y
  \* A sequence begins here, or a byte that is not of UTF-8.
  <1>9. CASE ~(j < l.next)
    <2>1. l.next <= j /\ g = j
      BY <1>1, <1>4, <1>5, <1>9
    <2>2. Says(u, SubSeq(s, 1, j - 1), x)
      BY <1>3, <2>1, Zenon
    <2>3. x # Corrupt => x = j /\ t = l
      BY <1>2, <2>1, Zenon
    <2>4. x = Corrupt => ~t1.ok
      <3> SUFFICES ASSUME x = Corrupt PROVE ~t1.ok
        OBVIOUS
      <3>1. ~t.ok
        BY <1>2, Zenon
      <3>2. t1 = t
        BY <3>1, PassesByte, Zenon DEF t1
      <3> QED BY <3>1, <3>2, Zenon
    <2>5. x = Corrupt => y = Corrupt
      BY <1>1, <1>7, Zenon
    <2>6. CASE FromUTF8(s, j).ucc # Corrupt
      <3> DEFINE m == FromUTF8(s, j).len
      <3>1. /\ m \in 1..4 /\ j + m <= Len(s) + 1 /\ escape_char(s, FALSE, l, j) = l1
            /\ \E e \in Words : /\ Wrote(l1, l, e, j, m)
                                /\ \A who \in Who : Conveys(who, e, SubSeq(s, j, j + m - 1))
        BY <1>2, <2>1, <2>6, WritesSequence, Zenon DEF l1
      <3>2. PICK e \in Words : /\ Wrote(l1, l, e, j, m)
                               /\ \A who \in Who : Conveys(who, e, SubSeq(s, j, j + m - 1))
        BY <3>1, Zenon
      <3>3. Conveys("flatbuffers", e, SubSeq(s, j, j + m - 1)) /\ Conveys("picojson", e, SubSeq(s, j, j + m - 1))
        BY <3>2, Zenon DEF Who
      <3>4. x # Corrupt => y = j + m
        BY <1>1, <1>7, <2>3, <2>6, Zenon
      <3> HIDE DEF m
      <3>5. m \in Nat /\ m > 0 /\ j + m # Corrupt
        BY <3>1 DEF Corrupt
      <3>6. \/ x = Corrupt /\ y = Corrupt
            \/ x # Corrupt /\ y # Corrupt /\ Conveys("picojson", e, SubSeq(s, j, j + m - 1))
        BY <2>5, <3>3, <3>4, <3>5, Zenon
      <3>7. /\ GoesOn(l1, j) \in (j + 1)..(Len(s) + 1)
            /\ \E w \in Words : l1.text = <<Quote>> \o w /\ Says(w, SubSeq(s, 1, GoesOn(l1, j) - 1), y)
        BY <1>2, <1>3, <2>2, <3>1, <3>2, <3>3, <3>5, <3>6, AddsPiece, Zenon
      <3>8. l1.ok /\ GoesOn(l1, j) = j + m
        BY <1>2, <3>2, Zenon DEF Wrote
      <3>9. IF y = Corrupt THEN ~t1.ok ELSE t1 = l1 /\ GoesOn(l1, j) = y
        <4>1. CASE x = Corrupt
          BY <2>4, <2>5, <4>1, Zenon
        <4>2. CASE x # Corrupt
          <5>1. t1 = l1
            BY <2>3, <3>1, <4>2, Zenon DEF t1
          <5> QED BY <3>4, <3>5, <3>8, <4>2, <5>1, Zenon
        <4> QED BY <4>1, <4>2
      <3> QED BY <1>6, <3>7, <3>8, <3>9, Zenon DEF Holds, t1, l1, y
    <2>7. CASE FromUTF8(s, j).ucc = Corrupt
      <3> DEFINE c == s[j]
                 e == ByteEscape(c)
      <3>1. c \in Octets /\ SubSeq(s, j, j + 1 - 1) = <<c>>
        <4> DEFINE p == j - 1
        <4>1. p \in Nat /\ p + 1 <= Len(s) /\ p + 1 = j /\ 1 \in 1..4 /\ j + 1 - 1 = j
          BY <1>1
        <4> HIDE DEF p
        <4>2. SubSeq(s, p + 1, p + 1) = <<s[p + 1]>>
          BY <4>1, FirstBytes, Zenon
        <4>3. c \in Octets
          BY BytesAreWords
        <4> QED BY <4>1, <4>2, <4>3, Zenon
      <3>2. /\ Wrote(l1, l, e, j, 1)
            /\ escape_char(s, FALSE, l, j) \in Writers /\ ~escape_char(s, FALSE, l, j).ok
        BY <1>2, <2>1, <2>7, WritesByte, Zenon DEF l1
      <3>3. e \in Words /\ Conveys("flatbuffers", e, SubSeq(s, j, j + 1 - 1)) /\ Stops(e)
        <4>1. e \in Words /\ Conveys("flatbuffers", e, <<c>>)
          BY <3>1, ByteConveys, Zenon
        <4>2. Stops(e)
          BY <3>1, ByteStops, Zenon
        <4> QED BY <3>1, <4>1, <4>2, Zenon
      <3> HIDE DEF e, c
      <3>4. y = Corrupt
        BY <1>1, <1>7, <2>3, <2>7, Zenon
      <3>5. 1 \in Nat /\ 1 > 0 /\ j + 1 <= Len(s) + 1
        BY <1>1
      <3>6. \/ x = Corrupt /\ y = Corrupt
            \/ x # Corrupt /\ y = Corrupt /\ Stops(e)
        BY <3>3, <3>4, Zenon
      <3>7. /\ GoesOn(l1, j) \in (j + 1)..(Len(s) + 1)
            /\ \E w \in Words : l1.text = <<Quote>> \o w /\ Says(w, SubSeq(s, 1, GoesOn(l1, j) - 1), y)
        <4> DEFINE m == 1
        <4>1. m \in Nat /\ m > 0 /\ j + m <= Len(s) + 1 /\ Wrote(l1, l, e, j, m)
              /\ Conveys("flatbuffers", e, SubSeq(s, j, j + m - 1))
          BY <3>2, <3>3, <3>5, Zenon
        <4> HIDE DEF m
        <4> QED BY <1>2, <1>3, <2>2, <3>3, <3>6, <4>1, AddsPiece, Zenon
      <3>8. l1.ok
        BY <1>2, <3>2, Zenon DEF Wrote
      <3>9. ~t1.ok
        <4>1. CASE x = Corrupt
          BY <2>4, <4>1, Zenon
        <4>2. CASE x # Corrupt
          BY <2>3, <3>2, <4>2, Zenon DEF t1
        <4> QED BY <4>1, <4>2
      <3> QED BY <1>6, <3>4, <3>7, <3>8, <3>9, Zenon DEF Holds, t1, l1, y
    <2> QED BY <2>6, <2>7
  <1> QED BY <1>8, <1>9

\* So it is true after the last.
LEMMA HoldsThroughout ==
  ASSUME NEW s \in Seq(Octets), NEW f \in [0..Len(s) -> Int], Passes(f, s),
         NEW t, Runs(t, s, FALSE), NEW l, Runs(l, s, TRUE)
  PROVE  Holds(s, Len(s), f[Len(s)], t[Len(s)], l[Len(s)])
  <1> DEFINE n == Len(s)
             S == {i \in 0..n : Holds(s, i, f[i], t[i], l[i])}
  <1>1. n \in Nat
    BY LenProperties
  <1>2. 0 \in S
    <2>1. 0 \in 0..n
      BY <1>1
    <2>2. t[0] = FirstWriter /\ l[0] = FirstWriter
      BY Zenon DEF Runs
    <2>3. f[0] = 1
      BY DEF Passes
    <2>4. Holds(s, 0, f[0], t[0], l[0])
      BY <2>2, <2>3, HoldsFirst, Zenon
    <2> QED BY <2>1, <2>4, Zenon
  <1>3. ASSUME NEW i \in 0..(n - 1), i \in S PROVE i + 1 \in S
    <2> DEFINE j == i + 1
    <2>1. j \in 1..n /\ j - 1 = i /\ j \in 0..n /\ f[i] \in Int
      BY <1>1
    <2>2. Holds(s, i, f[i], t[i], l[i])
      BY <1>3, Zenon
    <2> HIDE DEF j
    <2>3. Holds(s, j, passed(s, f[i], j), escape_char(s, FALSE, t[i], j), escape_char(s, TRUE, l[i], j))
      BY <2>1, <2>2, HoldsOn, Zenon
    <2>4. /\ f[j] = passed(s, f[i], j) /\ t[j] = escape_char(s, FALSE, t[i], j)
          /\ l[j] = escape_char(s, TRUE, l[i], j)
      BY <2>1, Zenon DEF Passes, Runs
    <2> QED BY <2>1, <2>3, <2>4, Zenon DEF j
  <1>4. n \in S
    <2> HIDE DEF S
    <2>1. 0..n \subseteq S
      BY <1>1, <1>2, <1>3, UpTo, Zenon
    <2> QED BY <1>1, <2>1
  <1> QED BY <1>4, Zenon

\* EscapeString() writes a string that both readers read as the same bytes, exactly if
\* they are UTF-8; told to allow others, it writes any, and neither reads those.
THEOREM EscapedIsRead ==
  ASSUME NEW s \in Seq(Octets)
  PROVE  EscapedReadsBack(s)
  <1> DEFINE n == Len(s)
  <1>1. PICK f \in [0..n -> Int] : Passes(f, s) /\ (ValidateUTF8(s) <=> f[n] # Corrupt)
    BY NextIs, Zenon
  <1>2. PICK t \in [0..n -> Writers] : Runs(t, s, FALSE) /\ EscapeString(s, FALSE) = t[n]
    BY RunIs, Zenon
  <1>3. PICK l \in [0..n -> Writers] : Runs(l, s, TRUE) /\ EscapeString(s, TRUE) = l[n]
    BY RunIs, Zenon
  <1>4. Holds(s, n, f[n], t[n], l[n])
    BY <1>1, <1>2, <1>3, HoldsThroughout, Zenon
  <1>5. n \in Nat /\ SubSeq(s, 1, n) = s /\ s \in Words
    BY BytesAreWords
  <1> DEFINE x == f[n]
             strict == t[n]
             lenient == l[n]
  <1>6. GoesOn(lenient, n) - 1 = n
    <2> DEFINE g == GoesOn(lenient, n)
    <2>1. g \in (n + 1)..(n + 1)
      BY <1>4, Zenon DEF Holds
    <2> HIDE DEF g
    <2>2. g - 1 = n
      BY <1>5, <2>1
    <2> QED BY <2>2, Zenon DEF g
  <1>7. /\ strict \in Writers /\ lenient \in Writers /\ lenient.ok
        /\ IF x = Corrupt THEN ~strict.ok ELSE strict = lenient
    BY <1>4, Zenon DEF Holds
  <1>8. PICK u \in Words : lenient.text = <<Quote>> \o u /\ Says(u, s, x)
    BY <1>4, <1>5, <1>6, Zenon DEF Holds
  <1>9. IsUTF8(s) <=> x # Corrupt
    BY <1>1, ValidatesUTF8, Zenon
  <1> HIDE DEF x, strict, lenient, n
  <1> DEFINE text == u \o <<Quote>>
  <1>10. Closed(lenient.text) = text
    BY <1>8, ClosedIs, Zenon
  <1>11. ReadString(text) = [ok |-> ValidateUTF8(s), out |-> s]
    BY <1>5, <1>8, ReadersRead, Zenon DEF Says
  <1>12. x # Corrupt => parse_string(text) = [ok |-> TRUE, out |-> s]
    BY <1>5, <1>8, ReadersRead, Zenon DEF Says
  <1>13. x = Corrupt => ~parse_string(text).ok
    BY <1>8, StoppedIsNotRead, Zenon DEF Says
  <1>14. strict.ok <=> IsUTF8(s)
    BY <1>7, <1>9, Zenon
  <1>15. CASE x # Corrupt
    <2>1. ValidateUTF8(s) = TRUE
      BY <1>9, <1>15, ValidatesUTF8, Zenon DEF ValidateUTF8
    <2>2. BothRead(text, s)
      BY <1>11, <1>12, <1>15, <2>1, Zenon DEF BothRead
    <2>3. strict.ok /\ lenient = strict
      BY <1>7, <1>15, Zenon
    <2> HIDE DEF text
    <2>4. WrittenRight(s, strict, lenient)
      BY <1>7, <1>10, <1>14, <2>2, <2>3, Zenon DEF WrittenRight
    <2> QED BY <1>2, <1>3, <2>4, Zenon DEF EscapedReadsBack, strict, lenient, n
  <1>16. CASE x = Corrupt
    <2>1. ~ReadString(text).ok
      <3> HIDE DEF text
      <3>1. ReadString(text).ok = ValidateUTF8(s)
        BY <1>11
      <3>2. ~ValidateUTF8(s)
        BY <1>9, <1>16, ValidatesUTF8, Zenon
      <3> QED BY <3>1, <3>2, Zenon
    <2>2. NeitherReads(text)
      BY <1>13, <1>16, <2>1, Zenon DEF NeitherReads
    <2>3. ~strict.ok
      BY <1>7, <1>16, Zenon
    <2> HIDE DEF text
    <2>4. WrittenRight(s, strict, lenient)
      BY <1>7, <1>10, <1>14, <2>2, <2>3, Zenon DEF WrittenRight
    <2> QED BY <1>2, <1>3, <2>4, Zenon DEF EscapedReadsBack, strict, lenient, n
  <1> QED BY <1>15, <1>16
=============================================================================
