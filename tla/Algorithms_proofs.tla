--------------------------- MODULE Algorithms_proofs ---------------------------
(***************************************************************************)
(* What TLC checks of the algorithms on a few inputs, proved for all: the  *)
(* readers of a buffer of FlatBuffers stay inside one that the Verifier    *)
(* accepted, base64 decodes what it encoded, in whatever pieces, a token   *)
(* is the header and the payload it was minted from, the head of a         *)
(* response is read apart from its body, a URI in its parts, and strings   *)
(* in JSON are read as they were written.                                  *)
(***************************************************************************)
EXTENDS Algorithms, JsonStrings_proofs

-----------------------------------------------------------------------------
(***************************************************************************)
(* FlatBuffer: one table, then tables within tables, by the depth of the   *)
(* Verifier.                                                               *)
(***************************************************************************)
Buffers == Seq(0..255)

\* The places of fields in a vtable: its entries are two bytes each.
Places == {2 * i : i \in Nat}

\* What is read of a buffer is a number, a byte or a length one that is not negative.
LEMMA NumbersRead ==
  ASSUME NEW b \in Buffers, NEW p \in Int
  PROVE  U8(b, p) \in 0..255 /\ U16(b, p) \in Nat /\ I32(b, p) \in Int
  <1>1. ASSUME NEW q \in Int PROVE U8(b, q) \in 0..255
    <2>1. CASE q + 1 \in DOMAIN b
      <3>1. q + 1 \in 1..Len(b)
        BY <2>1, LenProperties DEF Buffers
      <3>2. b[q + 1] \in 0..255
        BY <3>1, ElementOfSeq DEF Buffers
      <3> QED BY <2>1, <3>2 DEF U8
    <2>2. CASE q + 1 \notin DOMAIN b
      BY <2>2 DEF U8
    <2> QED BY <2>1, <2>2
  <1> DEFINE x == U8(b, p)
             y == U8(b, p + 1)
             z == U8(b, p + 2)
             w == U8(b, p + 3)
             u == U16(b, p)
  <1>2. x \in 0..255 /\ y \in 0..255 /\ z \in 0..255 /\ w \in 0..255
    BY <1>1
  <1>3. u = x + 256 * y
    BY DEF U16
  <1>4. I32(b, p) = u + 65536 * z + 16777216 * (IF w < 128 THEN w ELSE w - 256)
    BY DEF I32
  <1> HIDE DEF x, y, z, w, u
  <1>5. u \in Nat
    BY <1>2, <1>3
  <1>6. I32(b, p) \in Int
    BY <1>2, <1>4, <1>5
  <1> QED BY <1>2, <1>5, <1>6 DEF x, u

\* Verifier::Verify() is InBounds().
LEMMA VerifyIsInBounds ==
  ASSUME NEW b \in Buffers, NEW elem \in Int, NEW elem_len \in Int, Verify(b, elem, elem_len)
  PROVE  InBounds(b, <<elem, elem_len>>)
  <1>1. Len(b) \in Nat
    BY DEF Buffers
  <1> QED BY <1>1 DEF Verify, InBounds

\* An accepted string is read inside the buffer, its terminator included.
LEMMA StringInBounds ==
  ASSUME NEW b \in Buffers, NEW p \in Int, VerifyString(b, p), NEW range \in StringReads(b, p)
  PROVE  InBounds(b, range)
  <1> DEFINE n == VectorSize(b, p)
  <1>1. n \in Nat /\ Verify(b, p, 4) /\ Verify(b, p + 4 + n, 1)
    <2>1. VectorSize(b, p) \in Int
      BY NumbersRead DEF VectorSize
    <2> QED BY <2>1 DEF VerifyString, VerifyVector
  <1>2. range \in {<<p, 4>>, <<p + 4, n + 1>>}
    BY DEF StringReads
  <1> HIDE DEF n
  <1>3. Len(b) \in Nat
    BY LenProperties DEF Buffers
  <1>4. p >= 0 /\ p + 4 <= Len(b) /\ p + 4 + n + 1 <= Len(b)
    BY <1>1, <1>3 DEF Verify
  <1>5. InBounds(b, <<p, 4>>) /\ InBounds(b, <<p + 4, n + 1>>)
    BY <1>1, <1>3, <1>4 DEF InBounds
  <1> QED BY <1>2, <1>5

\* So are the length and the offsets of an accepted vector of offsets.
LEMMA VectorInBounds ==
  ASSUME NEW b \in Buffers, NEW p \in Int, VerifyVector(b, p, 4)
  PROVE  /\ InBounds(b, <<p, 4>>)
         /\ \A i \in 1..VectorSize(b, p) : InBounds(b, <<p + 4 * i, 4>>)
  <1> DEFINE n == VectorSize(b, p)
  <1>1. n \in Nat /\ Verify(b, p, 4) /\ Verify(b, p, 4 + 4 * n)
    <2>1. VectorSize(b, p) \in Int
      BY NumbersRead DEF VectorSize
    <2> QED BY <2>1 DEF VerifyVector
  <1> HIDE DEF n
  <1>2. Len(b) \in Nat
    BY LenProperties DEF Buffers
  <1>3. p >= 0 /\ p + 4 <= Len(b) /\ p + 4 + 4 * n <= Len(b)
    BY <1>1, <1>2 DEF Verify
  <1>4. \A i \in 1..n : InBounds(b, <<p + 4 * i, 4>>)
    BY <1>1, <1>2, <1>3 DEF InBounds
  <1> QED BY <1>2, <1>3, <1>4 DEF InBounds, n

\* The entry of a field that the vtable is long enough for lies inside it: sizes and
\* places are even.
LEMMA EntryInBounds ==
  ASSUME NEW b \in Buffers, NEW at \in Int, VerifyTableStart(b, at),
         NEW i \in Nat, 2 * i < VTableSize(b, at)
  PROVE  InBounds(b, <<GetVTable(b, at) + 2 * i, 2>>)
  <1> DEFINE v == GetVTable(b, at)
             n == VTableSize(b, at)
  <1>1. v \in Int
    BY NumbersRead DEF GetVTable
  <1>2. n \in Nat
    <2>1. U16(b, GetVTable(b, at)) \in Nat
      BY <1>1, NumbersRead
    <2> QED BY <2>1 DEF VTableSize
  <1>3. Verify(b, v, n) /\ n % 2 = 0 /\ 2 * i < n
    BY DEF VerifyTableStart
  <1> HIDE DEF v, n
  <1>4. Len(b) \in Nat
    BY LenProperties DEF Buffers
  <1>5. 2 * i + 2 <= n
    BY <1>2, <1>3
  <1>6. v >= 0 /\ v + n <= Len(b)
    BY <1>1, <1>2, <1>3, <1>4 DEF Verify
  <1>7. InBounds(b, <<v + 2 * i, 2>>)
    BY <1>1, <1>2, <1>4, <1>5, <1>6 DEF InBounds
  <1> QED BY <1>7 DEF v

\* Whatever bytes a buffer consists of: where a table's Verify() holds, no accessor of
\* the table, its strings and its vectors reads outside of the buffer.
THEOREM AcceptedTableInBounds ==
  ASSUME NEW b \in Buffers, NEW at \in Int, NEW fields, NEW tables,
         VerifyTable(b, at, fields, tables),
         NEW f \in fields, f.vt \in Places, NEW range \in FieldReads(b, at, f)
  PROVE  InBounds(b, range)
  <1> DEFINE v == GetVTable(b, at)
             q == FieldAt(b, at, f.vt)
             p == GetPointer(b, at, f.vt)
  <1>1. PICK i \in Nat : f.vt = 2 * i
    BY DEF Places
  <1>2. /\ VerifyTableStart(b, at) /\ VerifyField(b, at, f, tables)
        /\ Verify(b, at, 4) /\ Verify(b, v, 2)
    BY DEF VerifyTable, VerifyTableStart
  <1>3. v \in Int
    BY NumbersRead DEF GetVTable
  <1>4. q \in Int
    <2>1. v + f.vt \in Int
      BY <1>1, <1>3
    <2>2. U16(b, v + f.vt) \in Nat
      BY <2>1, NumbersRead
    <2>3. GetOptionalFieldOffset(b, at, f.vt) \in Int
      BY <2>2 DEF GetOptionalFieldOffset
    <2> QED BY <2>3 DEF FieldAt
  <1>5. p \in Int
    <2>1. I32(b, q) \in Int
      BY <1>4, NumbersRead
    <2> QED BY <1>4, <2>1 DEF GetPointer, Indirect
  <1>6. CASE range \in {<<at, 4>>, <<v, 2>>}
    BY <1>2, <1>3, <1>6, VerifyIsInBounds
  <1>7. CASE f.vt < VTableSize(b, at) /\ range = <<v + f.vt, 2>>
    BY <1>1, <1>2, <1>7, EntryInBounds
  <1>8. CASE HasField(b, at, f.vt) /\ IsScalar(f) /\ range = <<q, SizeOf(f.type)>>
    <2>1. Verify(b, q, SizeOf(f.type))
      BY <1>2, <1>8 DEF VerifyField
    <2>2. SizeOf(f.type) \in Int
      BY DEF SizeOf
    <2> QED BY <1>4, <1>8, <2>1, <2>2, VerifyIsInBounds
  <1>9. CASE HasField(b, at, f.vt) /\ ~IsScalar(f)
    <2>1. VerifyReferred(b, at, f, tables)
      BY <1>2, <1>9 DEF VerifyField
    <2>2. CASE range = <<q, 4>>
      <3>1. Verify(b, q, 4)
        BY <2>1 DEF VerifyReferred, VerifyOffset
      <3> QED BY <1>4, <2>2, <3>1, VerifyIsInBounds
    <2>3. CASE f.type = "string" /\ range \in StringReads(b, p)
      <3>1. VerifyString(b, p)
        BY <2>1, <2>3 DEF VerifyReferred
      <3> QED BY <1>5, <2>3, <3>1, StringInBounds
    <2>4. CASE f.type = "vector"
      <3>1. VerifyVector(b, p, 4)
        BY <2>1, <2>4 DEF VerifyReferred
      <3>2. CASE range \in {<<p, 4>>} \cup {<<p + 4 * k, 4>> : k \in 1..VectorSize(b, p)}
        BY <1>5, <3>1, <3>2, VectorInBounds
      <3>3. ASSUME f.of = "string", NEW k \in 1..VectorSize(b, p),
                   range \in StringReads(b, Element(b, p, k))
            PROVE  InBounds(b, range)
        <4>1. VerifyString(b, Element(b, p, k))
          BY <2>1, <2>4, <3>3 DEF VerifyReferred
        <4>2. Element(b, p, k) \in Int
          <5>1. p + 4 * k \in Int
            BY <1>5
          <5>2. I32(b, p + 4 * k) \in Int
            BY <5>1, NumbersRead
          <5> QED BY <5>1, <5>2 DEF Element, Indirect
        <4> QED BY <3>3, <4>1, <4>2, StringInBounds
      <3>4. \/ range \in {<<q, 4>>}
            \/ range \in {<<p, 4>>} \cup {<<p + 4 * k, 4>> : k \in 1..VectorSize(b, p)}
            \/ f.of = "string" /\ \E k \in 1..VectorSize(b, p) :
                                    range \in StringReads(b, Element(b, p, k))
            \/ range \in {<<at, 4>>, <<v, 2>>}
            \/ f.vt < VTableSize(b, at) /\ range = <<v + f.vt, 2>>
        BY <1>9, <2>4 DEF FieldReads
      <3> QED BY <1>6, <1>7, <2>2, <3>2, <3>3, <3>4
    <2>5. CASE f.type \in {"string", "table"}
      <3>1. \/ range = <<q, 4>>
            \/ f.type = "string" /\ range \in StringReads(b, p)
            \/ range \in {<<at, 4>>, <<v, 2>>}
            \/ f.vt < VTableSize(b, at) /\ range = <<v + f.vt, 2>>
        BY <1>9, <2>5 DEF FieldReads
      <3> QED BY <1>6, <1>7, <2>2, <2>3, <3>1
    <2> QED BY <1>9, <2>4, <2>5 DEF IsScalar
  <1>10. CASE ~(HasField(b, at, f.vt) /\ ~IsScalar(f))
    <2>1. \/ range \in {<<at, 4>>, <<v, 2>>}
          \/ f.vt < VTableSize(b, at) /\ range = <<v + f.vt, 2>>
          \/ HasField(b, at, f.vt) /\ IsScalar(f) /\ range = <<q, SizeOf(f.type)>>
      BY <1>10 DEF FieldReads
    <2> QED BY <1>6, <1>7, <1>8, <2>1
  <1> QED BY <1>9, <1>10

\* What a field refers to is at a number.
LEMMA PointersAreNumbers ==
  ASSUME NEW b \in Buffers, NEW at \in Int, NEW vt \in Places
  PROVE  FieldAt(b, at, vt) \in Int /\ GetPointer(b, at, vt) \in Int
  <1> DEFINE v == GetVTable(b, at)
             q == FieldAt(b, at, vt)
  <1>1. v \in Int
    BY NumbersRead DEF GetVTable
  <1>2. v + vt \in Int
    BY <1>1 DEF Places
  <1>3. U16(b, v + vt) \in Nat
    BY <1>2, NumbersRead
  <1>4. GetOptionalFieldOffset(b, at, vt) \in Int
    BY <1>3 DEF GetOptionalFieldOffset
  <1>5. q \in Int
    BY <1>4 DEF FieldAt
  <1>6. I32(b, q) \in Int
    BY <1>5, NumbersRead
  <1> QED BY <1>5, <1>6 DEF GetPointer, Indirect

\* Every field of every table is one that theorem is about, and a field that refers to
\* a table is one, or a vector of them.
Sound(f) == f.vt \in Places /\ (f.of \in DOMAIN Tables => f.type \in {"table", "vector"})

LEMMA FieldsAre ==
  ASSUME NEW name, NEW vt \in Places, NEW type, NEW default, NEW of
  PROVE  /\ Sound(Number(name, vt, type, default)) /\ Sound(String(name, vt))
         /\ Sound(TableOf(name, vt, of)) /\ Sound(VectorOf(name, vt, of))
  <1>1. "none" \notin DOMAIN Tables /\ "string" \notin DOMAIN Tables
    BY DEF Tables
  <1> QED BY <1>1 DEF Sound, Number, String, TableOf, VectorOf, Field

LEMMA RequiredToo ==
  ASSUME NEW name, NEW vt \in Places, NEW of
  PROVE  /\ Sound(Required(String(name, vt))) /\ Sound(Required(TableOf(name, vt, of)))
         /\ Sound(Required(VectorOf(name, vt, of)))
  <1>1. "string" \notin DOMAIN Tables
    BY DEF Tables
  <1> QED BY <1>1 DEF Sound, Required, String, TableOf, VectorOf, Field

LEMMA SmallPlaces ==
  /\ 4 \in Places /\ 6 \in Places /\ 8 \in Places /\ 10 \in Places /\ 12 \in Places
  /\ 14 \in Places /\ 16 \in Places /\ 18 \in Places /\ 20 \in Places /\ 22 \in Places
  /\ 24 \in Places
  <1>1. \A i \in Nat : 2 * i \in Places
    BY DEF Places
  <1>2. 2 * 2 = 4 /\ 2 * 3 = 6 /\ 2 * 4 = 8 /\ 2 * 5 = 10 /\ 2 * 6 = 12 /\ 2 * 7 = 14
    OBVIOUS
  <1>3. 2 * 8 = 16 /\ 2 * 9 = 18 /\ 2 * 10 = 20 /\ 2 * 11 = 22 /\ 2 * 12 = 24
    OBVIOUS
  <1>4. 2 \in Nat /\ 3 \in Nat /\ 4 \in Nat /\ 5 \in Nat /\ 6 \in Nat /\ 7 \in Nat /\ 8 \in Nat
        /\ 9 \in Nat /\ 10 \in Nat /\ 11 \in Nat /\ 12 \in Nat
    OBVIOUS
  <1> QED BY <1>1, <1>2, <1>3, <1>4

\* The elements of short sequences.
LEMMA TwoElements ==
  ASSUME NEW a, NEW b
  PROVE  {<<a, b>>[i] : i \in DOMAIN <<a, b>>} = {a, b}
  OBVIOUS

LEMMA ThreeElements ==
  ASSUME NEW a, NEW b, NEW c
  PROVE  {<<a, b, c>>[i] : i \in DOMAIN <<a, b, c>>} = {a, b, c}
  OBVIOUS

LEMMA FourElements ==
  ASSUME NEW a, NEW b, NEW c, NEW d
  PROVE  {<<a, b, c, d>>[i] : i \in DOMAIN <<a, b, c, d>>} = {a, b, c, d}
  OBVIOUS

LEMMA FiveElements ==
  ASSUME NEW a, NEW b, NEW c, NEW d, NEW e
  PROVE  {<<a, b, c, d, e>>[i] : i \in DOMAIN <<a, b, c, d, e>>} = {a, b, c, d, e}
  OBVIOUS

LEMMA SixElements ==
  ASSUME NEW a, NEW b, NEW c, NEW d, NEW e, NEW f
  PROVE  {<<a, b, c, d, e, f>>[i] : i \in DOMAIN <<a, b, c, d, e, f>>} = {a, b, c, d, e, f}
  OBVIOUS

LEMMA SevenElements ==
  ASSUME NEW a, NEW b, NEW c, NEW d, NEW e, NEW f, NEW g
  PROVE  {<<a, b, c, d, e, f, g>>[i] : i \in DOMAIN <<a, b, c, d, e, f, g>>} = {a, b, c, d, e, f, g}
  OBVIOUS

LEMMA ElevenElements ==
  ASSUME NEW a, NEW b, NEW c, NEW d, NEW e, NEW f, NEW g, NEW h, NEW j, NEW k, NEW l
  PROVE  {<<a, b, c, d, e, f, g, h, j, k, l>>[i] : i \in DOMAIN <<a, b, c, d, e, f, g, h, j, k, l>>}
           = {a, b, c, d, e, f, g, h, j, k, l}
  OBVIOUS

LEMMA FieldsSound ==
  ASSUME NEW type \in DOMAIN Tables
  PROVE  \A f \in FieldsOf(type) : Sound(f)
  <1>1. \A x \in {Token[i] : i \in DOMAIN Token} : Sound(x)
    <2> DEFINE a == String("access_token", 4)
               b == String("token_type", 6)
               c == String("grant_type", 8)
               d == String("refresh_token", 10)
               e == Number("expires_in", 12, "int32", 0)
               f == String("id_token", 14)
    <2>1. Sound(a) /\ Sound(b) /\ Sound(c) /\ Sound(d) /\ Sound(e) /\ Sound(f)
      BY SmallPlaces, FieldsAre, RequiredToo, Zenon
    <2>2. Token = <<a, b, c, d, e, f>>
      BY Zenon DEF Token
    <2> HIDE DEF a, b, c, d, e, f
    <2>3. {Token[i] : i \in DOMAIN Token} = {a, b, c, d, e, f}
      BY <2>2, SixElements
    <2> QED BY <2>1, <2>3, Zenon
  <1>2. \A x \in {Error[i] : i \in DOMAIN Error} : Sound(x)
    <2> DEFINE a == Number("code", 4, "int32", 0)
               b == String("message", 6)
               c == String("status", 8)
    <2>1. Sound(a) /\ Sound(b) /\ Sound(c)
      BY SmallPlaces, FieldsAre, RequiredToo, Zenon
    <2>2. Error = <<a, b, c>>
      BY Zenon DEF Error
    <2> HIDE DEF a, b, c
    <2>3. {Error[i] : i \in DOMAIN Error} = {a, b, c}
      BY <2>2, ThreeElements
    <2> QED BY <2>1, <2>3, Zenon
  <1>3. \A x \in {Type[i] : i \in DOMAIN Type} : Sound(x)
    <2> DEFINE a == Number("base_type", 4, "int8", 0)
               b == Number("element", 6, "int8", 0)
               c == Number("index", 8, "int32", -1)
    <2>1. Sound(a) /\ Sound(b) /\ Sound(c)
      BY SmallPlaces, FieldsAre, RequiredToo, Zenon
    <2>2. Type = <<a, b, c>>
      BY Zenon DEF Type
    <2> HIDE DEF a, b, c
    <2>3. {Type[i] : i \in DOMAIN Type} = {a, b, c}
      BY <2>2, ThreeElements
    <2> QED BY <2>1, <2>3, Zenon
  <1>4. \A x \in {KeyValue[i] : i \in DOMAIN KeyValue} : Sound(x)
    <2> DEFINE a == Required(String("key", 4))
               b == String("value", 6)
    <2>1. Sound(a) /\ Sound(b)
      BY SmallPlaces, FieldsAre, RequiredToo, Zenon
    <2>2. KeyValue = <<a, b>>
      BY Zenon DEF KeyValue
    <2> HIDE DEF a, b
    <2>3. {KeyValue[i] : i \in DOMAIN KeyValue} = {a, b}
      BY <2>2, TwoElements
    <2> QED BY <2>1, <2>3, Zenon
  <1>5. \A x \in {EnumVal[i] : i \in DOMAIN EnumVal} : Sound(x)
    <2> DEFINE a == Required(String("name", 4))
               b == Number("value", 6, "int64", 0)
               c == TableOf("object", 8, "Object")
               d == TableOf("union_type", 10, "Type")
    <2>1. Sound(a) /\ Sound(b) /\ Sound(c) /\ Sound(d)
      BY SmallPlaces, FieldsAre, RequiredToo, Zenon
    <2>2. EnumVal = <<a, b, c, d>>
      BY Zenon DEF EnumVal
    <2> HIDE DEF a, b, c, d
    <2>3. {EnumVal[i] : i \in DOMAIN EnumVal} = {a, b, c, d}
      BY <2>2, FourElements
    <2> QED BY <2>1, <2>3, Zenon
  <1>6. \A x \in {Enum[i] : i \in DOMAIN Enum} : Sound(x)
    <2> DEFINE a == Required(String("name", 4))
               b == Required(VectorOf("values", 6, "EnumVal"))
               c == Number("is_union", 8, "uint8", 0)
               d == Required(TableOf("underlying_type", 10, "Type"))
               e == Attributes(12)
               f == Documentation(14)
    <2>1. Sound(a) /\ Sound(b) /\ Sound(c) /\ Sound(d) /\ Sound(e) /\ Sound(f)
      BY SmallPlaces, FieldsAre, RequiredToo, Zenon DEF Attributes, Documentation
    <2>2. Enum = <<a, b, c, d, e, f>>
      BY Zenon DEF Enum
    <2> HIDE DEF a, b, c, d, e, f
    <2>3. {Enum[i] : i \in DOMAIN Enum} = {a, b, c, d, e, f}
      BY <2>2, SixElements
    <2> QED BY <2>1, <2>3, Zenon
  <1>7. \A x \in {FieldDef[i] : i \in DOMAIN FieldDef} : Sound(x)
    <2> DEFINE a == Required(String("name", 4))
               b == Required(TableOf("type", 6, "Type"))
               c == Number("id", 8, "uint16", 0)
               d == Number("offset", 10, "uint16", 0)
               e == Number("default_integer", 12, "int64", 0)
               f == Number("default_real", 14, "double", 0)
               g == Number("deprecated", 16, "uint8", 0)
               h == Number("required", 18, "uint8", 0)
               j == Number("key", 20, "uint8", 0)
               k == Attributes(22)
               l == Documentation(24)
    <2>1. Sound(a) /\ Sound(b) /\ Sound(c) /\ Sound(d) /\ Sound(e) /\ Sound(f) /\ Sound(g)
          /\ Sound(h) /\ Sound(j) /\ Sound(k) /\ Sound(l)
      BY SmallPlaces, FieldsAre, RequiredToo, Zenon DEF Attributes, Documentation
    <2>2. FieldDef = <<a, b, c, d, e, f, g, h, j, k, l>>
      BY Zenon DEF FieldDef
    <2> HIDE DEF a, b, c, d, e, f, g, h, j, k, l
    <2>3. {FieldDef[i] : i \in DOMAIN FieldDef} = {a, b, c, d, e, f, g, h, j, k, l}
      BY <2>2, ElevenElements
    <2> QED BY <2>1, <2>3, Zenon
  <1>8. \A x \in {Object[i] : i \in DOMAIN Object} : Sound(x)
    <2> DEFINE a == Required(String("name", 4))
               b == Required(VectorOf("fields", 6, "Field"))
               c == Number("is_struct", 8, "uint8", 0)
               d == Number("minalign", 10, "int32", 0)
               e == Number("bytesize", 12, "int32", 0)
               f == Attributes(14)
               g == Documentation(16)
    <2>1. Sound(a) /\ Sound(b) /\ Sound(c) /\ Sound(d) /\ Sound(e) /\ Sound(f) /\ Sound(g)
      BY SmallPlaces, FieldsAre, RequiredToo, Zenon DEF Attributes, Documentation
    <2>2. Object = <<a, b, c, d, e, f, g>>
      BY Zenon DEF Object
    <2> HIDE DEF a, b, c, d, e, f, g
    <2>3. {Object[i] : i \in DOMAIN Object} = {a, b, c, d, e, f, g}
      BY <2>2, SevenElements
    <2> QED BY <2>1, <2>3, Zenon
  <1>9. \A x \in {Schema[i] : i \in DOMAIN Schema} : Sound(x)
    <2> DEFINE a == Required(VectorOf("objects", 4, "Object"))
               b == Required(VectorOf("enums", 6, "Enum"))
               c == String("file_ident", 8)
               d == String("file_ext", 10)
               e == TableOf("root_table", 12, "Object")
    <2>1. Sound(a) /\ Sound(b) /\ Sound(c) /\ Sound(d) /\ Sound(e)
      BY SmallPlaces, FieldsAre, RequiredToo, Zenon
    <2>2. Schema = <<a, b, c, d, e>>
      BY Zenon DEF Schema
    <2> HIDE DEF a, b, c, d, e
    <2>3. {Schema[i] : i \in DOMAIN Schema} = {a, b, c, d, e}
      BY <2>2, FiveElements
    <2> QED BY <2>1, <2>3, Zenon
  <1>10. type \in {"Token", "Error", "Type", "KeyValue", "EnumVal", "Enum", "Field", "Object", "Schema"}
    BY DEF Tables
  <1>11. Tables["Token"] = Token
    BY DEF Tables
  <1>12. Tables["Error"] = Error
    BY DEF Tables
  <1>13. Tables["Type"] = Type
    BY DEF Tables
  <1>14. Tables["KeyValue"] = KeyValue
    BY DEF Tables
  <1>15. Tables["EnumVal"] = EnumVal
    BY DEF Tables
  <1>16. Tables["Enum"] = Enum
    BY DEF Tables
  <1>17. Tables["Field"] = FieldDef
    BY DEF Tables
  <1>18. Tables["Object"] = Object
    BY DEF Tables
  <1>19. Tables["Schema"] = Schema
    BY DEF Tables
  <1> QED BY <1>1, <1>2, <1>3, <1>4, <1>5, <1>6, <1>7, <1>8, <1>9, <1>10, <1>11, <1>12, <1>13, <1>14,
            <1>15, <1>16, <1>17, <1>18, <1>19, Zenon DEF FieldsOf
-----------------------------------------------------------------------------
\* The tables there may be in a buffer.
Nodes == (DOMAIN Tables) \X Int

\* What a table refers to is a table, or one of a vector of them.
LEMMA Refers ==
  ASSUME NEW b \in Buffers, NEW x \in Nodes, NEW y \in References(b, x)
  PROVE  /\ y \in Nodes
         /\ \E f \in FieldsOf(x[1]) :
              LET p == GetPointer(b, x[2], f.vt)
              IN /\ f.of \in DOMAIN Tables /\ HasField(b, x[2], f.vt)
                 /\ \/ f.type = "table" /\ y = <<f.of, p>>
                    \/ /\ f.type = "vector"
                       /\ \E i \in 1..VectorSize(b, p) : y = <<f.of, Element(b, p, i)>>
  <1> DEFINE at == x[2]
  <1>1. PICK f \in FieldsOf(x[1]) : y \in Range(SubTables(b, at, f))
    BY DEF References
  <1>2. PICK i \in DOMAIN SubTables(b, at, f) : y = SubTables(b, at, f)[i]
    BY <1>1 DEF Range
  <1> DEFINE p == GetPointer(b, at, f.vt)
  <1>3. x[1] \in DOMAIN Tables /\ at \in Int
    BY DEF Nodes
  <1>4. f.vt \in Places /\ (f.of \in DOMAIN Tables => f.type \in {"table", "vector"})
    BY <1>3, FieldsSound DEF Sound
  <1>5. p \in Int
    BY <1>3, <1>4, PointersAreNumbers
  <1>6. f.of \in DOMAIN Tables /\ HasField(b, at, f.vt)
    <2> SUFFICES ASSUME f.of \notin DOMAIN Tables \/ ~HasField(b, at, f.vt) PROVE FALSE
      OBVIOUS
    <2>1. SubTables(b, at, f) = <<>>
      BY DEF SubTables
    <2> QED BY <1>2, <2>1
  <1>7. CASE f.type = "table"
    <2>1. SubTables(b, at, f) = <<<<f.of, p>>>>
      BY <1>6, <1>7 DEF SubTables
    <2>2. y = <<f.of, p>>
      BY <1>2, <2>1
    <2>3. y \in Nodes
      BY <1>5, <1>6, <2>2 DEF Nodes
    <2> QED BY <1>6, <1>7, <2>2, <2>3
  <1>8. CASE f.type = "vector"
    <2> DEFINE g == [k \in 1..VectorSize(b, p) |-> <<f.of, Element(b, p, k)>>]
    <2>1. SubTables(b, at, f) = g
      BY <1>6, <1>8 DEF SubTables
    <2>2. i \in 1..VectorSize(b, p) /\ y = <<f.of, Element(b, p, i)>>
      BY <1>2, <2>1
    <2>3. Element(b, p, i) \in Int
      <3>1. p + 4 * i \in Int
        BY <1>5, <2>2
      <3> QED BY <3>1, NumbersRead DEF Element, Indirect
    <2>4. y \in Nodes
      BY <1>6, <2>2, <2>3 DEF Nodes
    <2> QED BY <1>6, <1>8, <2>2, <2>4
  <1> QED BY <1>4, <1>6, <1>7, <1>8

\* Its Verify() has verified all of it.
LEMMA ReferencesVerified ==
  ASSUME NEW b \in Buffers, NEW x \in Nodes, NEW tables \in [Nodes -> BOOLEAN],
         VerifyTable(b, x[2], FieldsOf(x[1]), tables), NEW y \in References(b, x)
  PROVE  tables[y]
  <1> DEFINE at == x[2]
             P(f) == GetPointer(b, at, f.vt)
  <1>1. PICK f \in FieldsOf(x[1]) :
          /\ f.of \in DOMAIN Tables /\ HasField(b, at, f.vt)
          /\ \/ f.type = "table" /\ y = <<f.of, P(f)>>
             \/ /\ f.type = "vector"
                /\ \E i \in 1..VectorSize(b, P(f)) : y = <<f.of, Element(b, P(f), i)>>
    BY Refers
  <1>2. VerifyField(b, at, f, tables)
    BY DEF VerifyTable
  <1>3. f.of # "string"
    BY <1>1 DEF Tables
  <1>4. VerifyReferred(b, at, f, tables)
    BY <1>1, <1>2 DEF VerifyField, IsScalar
  <1>5. CASE f.type = "table" /\ y = <<f.of, P(f)>>
    <2>1. tables[<<f.of, P(f)>>]
      BY <1>4, <1>5 DEF VerifyReferred
    <2> QED BY <1>5, <2>1
  <1>6. ASSUME f.type = "vector", NEW i \in 1..VectorSize(b, P(f)), y = <<f.of, Element(b, P(f), i)>>
        PROVE  tables[y]
    <2>1. tables[<<f.of, Element(b, P(f), i)>>]
      BY <1>3, <1>4, <1>6 DEF VerifyReferred
    <2> QED BY <1>6, <2>1
  <1> QED BY <1>1, <1>5, <1>6

\* Verified(), depth by depth.
LEMMA VerifiedByDepth ==
  ASSUME NEW b \in Buffers
  PROVE  \E v \in [0..MaxDepth -> [Nodes -> BOOLEAN]] :
           /\ v[0] = [x \in Nodes |-> FALSE]
           /\ \A d \in 1..MaxDepth :
                v[d] = [x \in Nodes |-> VerifyTable(b, x[2], FieldsOf(x[1]), v[d - 1])]
           /\ Verified(b) = v[MaxDepth]
  <1> DEFINE n == MaxDepth
             S == [Nodes -> BOOLEAN]
             base == [x \in Nodes |-> FALSE]
             Level(tables) == [x \in Nodes |-> VerifyTable(b, x[2], FieldsOf(x[1]), tables)]
             step == [p \in S \X (1..n) |-> Level(p[1])]
             Solves(f) == f = [d \in 0..n |-> IF d = 0 THEN base ELSE Level(f[d - 1])]
             verified == CHOOSE f : Solves(f)
  <1>1. n \in Nat /\ base \in S
    BY MaxDepthAssumption
  <1>2. \A tables \in S : Level(tables) \in S
    BY DEF VerifyTable
  <1>3. Verified(b) = verified[n]
    BY DEF Verified, Nodes
  <1> HIDE DEF S, Level, n, base
  <1>4. StaysIn(S, n, step)
    BY <1>2 DEF StaysIn
  <1>5. \E f \in [0..n -> S] : Iterates(f, n, base, step)
    <2> HIDE DEF step
    <2> QED BY <1>1, <1>4, Iteration
  <1>6. PICK f \in [0..n -> S] : Iterates(f, n, base, step)
    BY <1>5
  <1>7. ASSUME NEW d \in 1..n PROVE f[d] = Level(f[d - 1]) /\ f[d - 1] \in S
    <2>1. f[d - 1] \in S
      BY <1>1
    <2>2. step[<<f[d - 1], d>>] = Level(f[d - 1])
      BY <2>1
    <2> QED BY <1>6, <2>1, <2>2 DEF Iterates
  <1>8. f[0] = base
    BY <1>6 DEF Iterates
  <1>9. Solves(f)
    <2>1. DOMAIN f = 0..n
      OBVIOUS
    <2>2. \A d \in 0..n : f[d] = IF d = 0 THEN base ELSE Level(f[d - 1])
      BY <1>1, <1>7, <1>8
    <2> QED BY <2>1, <2>2
  <1>10. Solves(verified)
    BY <1>9
  <1> HIDE DEF verified, step
  <1>11. verified[0] = base /\ \A d \in 1..n : verified[d] = Level(verified[d - 1])
    BY <1>1, <1>10
  <1>12. \A d \in 0..n : f[d] = verified[d]
    <2>1. \A d \in 0..(n - 1) : f[d] = verified[d] => f[d + 1] = verified[d + 1]
      <3> SUFFICES ASSUME NEW d \in 0..(n - 1), f[d] = verified[d]
                   PROVE  f[d + 1] = verified[d + 1]
        OBVIOUS
      <3>1. d + 1 \in 1..n /\ (d + 1) - 1 = d
        BY <1>1
      <3>2. f[d + 1] = Level(f[(d + 1) - 1]) /\ verified[d + 1] = Level(verified[(d + 1) - 1])
        BY <1>7, <1>11, <3>1
      <3> QED BY <3>1, <3>2
    <2>2. f[0] = verified[0] /\ n \in Nat
      BY <1>1, <1>8, <1>11
    <2> QED BY <2>1, <2>2, Agreement, Zenon
  <1>13. verified[n] = f[n]
    BY <1>1, <1>12
  <1> QED BY <1>3, <1>7, <1>8, <1>13 DEF n, S, base, Level

\* Reads(), depth by depth.
LEMMA ReadsByDepth ==
  ASSUME NEW b \in Buffers, NEW depth \in Nat
  PROVE  \E r : /\ r[0] = [x \in Nodes |-> {}]
                /\ \A d \in 1..depth :
                     r[d] = [x \in Nodes |->
                               OwnReads(b, x) \cup UNION {r[d - 1][y] : y \in References(b, x)}]
                /\ TableReads(b, depth) = r[depth]
  <1> DEFINE n == depth
             R == UNION {OwnReads(b, x) : x \in Nodes}
             S == [Nodes -> SUBSET R]
             base == [x \in Nodes |-> {}]
             Level(reads) == [x \in Nodes |-> OwnReads(b, x) \cup UNION {reads[y] : y \in References(b, x)}]
             step == [p \in S \X (1..n) |-> Level(p[1])]
             Solves(f) == f = [d \in 0..n |-> IF d = 0 THEN base ELSE Level(f[d - 1])]
             reads == CHOOSE f : Solves(f)
  <1>1. n \in Nat /\ base \in S
    OBVIOUS
  <1>2. ASSUME NEW u \in S PROVE Level(u) \in S
    <2>1. ASSUME NEW x \in Nodes PROVE OwnReads(b, x) \in SUBSET R
      OBVIOUS
    <2>2. ASSUME NEW x \in Nodes, NEW y \in References(b, x) PROVE u[y] \in SUBSET R
      BY Refers
    <2> HIDE DEF R
    <2> QED BY <2>1, <2>2
  <1>3. TableReads(b, depth) = reads[n]
    BY DEF TableReads, Nodes
  <1> HIDE DEF S, Level, n, base
  <1>4. StaysIn(S, n, step)
    BY <1>2 DEF StaysIn
  <1>5. \E f \in [0..n -> S] : Iterates(f, n, base, step)
    <2> HIDE DEF step
    <2> QED BY <1>1, <1>4, Iteration
  <1>6. PICK f \in [0..n -> S] : Iterates(f, n, base, step)
    BY <1>5
  <1>7. ASSUME NEW d \in 1..n PROVE f[d] = Level(f[d - 1])
    <2>1. f[d - 1] \in S
      BY <1>1
    <2>2. step[<<f[d - 1], d>>] = Level(f[d - 1])
      BY <2>1
    <2> QED BY <1>6, <2>2 DEF Iterates
  <1>8. f[0] = base
    BY <1>6 DEF Iterates
  <1>9. Solves(f)
    <2>1. DOMAIN f = 0..n
      OBVIOUS
    <2>2. \A d \in 0..n : f[d] = IF d = 0 THEN base ELSE Level(f[d - 1])
      BY <1>1, <1>7, <1>8
    <2> QED BY <2>1, <2>2
  <1>10. Solves(reads)
    BY <1>9
  <1> HIDE DEF reads, step
  <1>11. reads[0] = base /\ \A d \in 1..n : reads[d] = Level(reads[d - 1])
    BY <1>1, <1>10
  <1>12. reads[0] = [x \in Nodes |-> {}]
    BY <1>11 DEF base
  <1>13. \A d \in 1..depth :
           reads[d] = [x \in Nodes |->
                         OwnReads(b, x) \cup UNION {reads[d - 1][y] : y \in References(b, x)}]
    BY <1>11, Zenon DEF Level, n
  <1> HIDE DEF Level
  <1> WITNESS reads
  <1> QED BY <1>3, <1>12, <1>13, Zenon DEF n

\* By induction on the depth to which a table is verified: all that is read of it, and
\* of those it refers to, is in the buffer.
LEMMA VerifiedReads ==
  ASSUME NEW b \in Buffers, NEW depth \in Nat,
         NEW v \in [0..MaxDepth -> [Nodes -> BOOLEAN]], v[0] = [x \in Nodes |-> FALSE],
         \A d \in 1..MaxDepth :
           v[d] = [x \in Nodes |-> VerifyTable(b, x[2], FieldsOf(x[1]), v[d - 1])],
         NEW r, r[0] = [x \in Nodes |-> {}],
         \A d \in 1..depth :
           r[d] = [x \in Nodes |-> OwnReads(b, x) \cup UNION {r[d - 1][y] : y \in References(b, x)}]
  PROVE  \A d \in 0..MaxDepth : \A x \in Nodes :
           v[d][x] => \A k \in 0..depth : \A range \in r[k][x] : InBounds(b, range)
  <1> DEFINE Safe(x) == \A k \in 0..depth : \A range \in r[k][x] : InBounds(b, range)
             T == {d \in 0..MaxDepth : \A x \in Nodes : v[d][x] => Safe(x)}
  <1>1. 0 \in T
    BY MaxDepthAssumption
  <1>2. ASSUME NEW d \in 0..(MaxDepth - 1), d \in T, NEW x \in Nodes, v[d + 1][x],
               NEW k \in 0..depth, NEW range \in r[k][x]
        PROVE  InBounds(b, range)
    <2>1. d + 1 \in 1..MaxDepth /\ (d + 1) - 1 = d /\ d \in 0..MaxDepth
      BY MaxDepthAssumption
    <2>2. VerifyTable(b, x[2], FieldsOf(x[1]), v[d])
      <3>1. v[d + 1] = [z \in Nodes |-> VerifyTable(b, z[2], FieldsOf(z[1]), v[d])]
        BY <2>1
      <3> QED BY <1>2, <3>1
    <2>3. k \in 1..depth
      <3>1. k # 0
        <4> SUFFICES ASSUME k = 0 PROVE FALSE
          OBVIOUS
        <4>1. r[k][x] = {}
          OBVIOUS
        <4> QED BY <1>2, <4>1
      <3> QED BY <3>1
    <2>4. r[k][x] = OwnReads(b, x) \cup UNION {r[k - 1][y] : y \in References(b, x)}
      <3>1. r[k] = [z \in Nodes |->
                      OwnReads(b, z) \cup UNION {r[k - 1][y] : y \in References(b, z)}]
        BY <2>3
      <3> QED BY <3>1, Zenon
    <2>5. CASE range \in OwnReads(b, x)
      <3>1. PICK f \in FieldsOf(x[1]) : range \in FieldReads(b, x[2], f)
        BY <2>5 DEF OwnReads
      <3>2. x[1] \in DOMAIN Tables /\ x[2] \in Int
        BY DEF Nodes
      <3>3. f.vt \in Places
        BY <3>2, FieldsSound DEF Sound
      <3> QED BY <2>2, <3>1, <3>2, <3>3, AcceptedTableInBounds
    <2>6. ASSUME NEW y \in References(b, x), range \in r[k - 1][y] PROVE InBounds(b, range)
      <3>1. v[d] \in [Nodes -> BOOLEAN]
        BY <2>1
      <3>2. v[d][y]
        BY <2>2, <3>1, ReferencesVerified
      <3>3. y \in Nodes
        BY Refers
      <3>4. Safe(y)
        BY <1>2, <3>2, <3>3
      <3>5. k - 1 \in 0..depth
        BY <2>3
      <3> QED BY <2>6, <3>4, <3>5
    <2> QED BY <1>2, <2>4, <2>5, <2>6
  <1>3. \A d \in 0..(MaxDepth - 1) : d \in T => d + 1 \in T
    <2>1. ASSUME NEW d \in 0..(MaxDepth - 1), d \in T PROVE d + 1 \in T
      <3>1. d + 1 \in 0..MaxDepth
        BY MaxDepthAssumption
      <3>2. \A x \in Nodes : v[d + 1][x] => Safe(x)
        BY <1>2, <2>1
      <3> HIDE DEF Safe
      <3> QED BY <3>1, <3>2
    <2> QED BY <2>1
  <1> HIDE DEF T
  <1>4. 0..MaxDepth \subseteq T
    BY <1>1, <1>3, MaxDepthAssumption, UpTo
  <1> QED BY <1>4 DEF T

\* Whatever bytes a buffer consists of, and however deep the reader goes: once
\* VerifyBuffer() has accepted it for a type, no accessor reads outside of it.
THEOREM AcceptedBufferInBounds ==
  ASSUME NEW b \in Buffers, NEW type \in DOMAIN Tables, NEW depth \in Nat,
         VerifyBuffer(b, type), NEW range \in Reads(b, type, depth)
  PROVE  InBounds(b, range)
  <1>1. VerifyOffset(b, 0) /\ Verified(b)[<<type, I32(b, 0)>>]
    BY DEF VerifyBuffer
  <1>2. <<type, I32(b, 0)>> \in Nodes
    BY NumbersRead DEF Nodes
  <1>3. PICK v \in [0..MaxDepth -> [Nodes -> BOOLEAN]] :
          /\ v[0] = [x \in Nodes |-> FALSE]
          /\ \A d \in 1..MaxDepth :
               v[d] = [x \in Nodes |-> VerifyTable(b, x[2], FieldsOf(x[1]), v[d - 1])]
          /\ Verified(b) = v[MaxDepth]
    BY VerifiedByDepth
  <1>4. PICK r : /\ r[0] = [x \in Nodes |-> {}]
                 /\ \A d \in 1..depth :
                      r[d] = [x \in Nodes |->
                                OwnReads(b, x) \cup UNION {r[d - 1][y] : y \in References(b, x)}]
                 /\ TableReads(b, depth) = r[depth]
    BY ReadsByDepth
  <1>5. \A d \in 0..MaxDepth : \A x \in Nodes :
          v[d][x] => \A k \in 0..depth : \A s \in r[k][x] : InBounds(b, s)
    BY <1>3, <1>4, VerifiedReads
  <1>6. MaxDepth \in 0..MaxDepth /\ depth \in 0..depth
    BY MaxDepthAssumption
  <1>7. \A s \in TableReads(b, depth)[<<type, I32(b, 0)>>] : InBounds(b, s)
    BY <1>1, <1>2, <1>3, <1>4, <1>5, <1>6
  <1>8. InBounds(b, <<0, 4>>)
    BY <1>1, VerifyIsInBounds DEF VerifyOffset
  <1> QED BY <1>7, <1>8 DEF Reads

-----------------------------------------------------------------------------
(***************************************************************************)
(* Base64: the coders' states after so many bytes, or characters, of a     *)
(* text in closed form.  Every step of a coder leads from one to the next, *)
(* so that it does not matter into which blocks a text is cut.             *)
(***************************************************************************)
Texts == Seq(Octets)

\* The bytes of a text, zeros after them, and the characters they make: four of three.
ByteOf(text, i) == IF i <= Len(text) THEN text[i] ELSE 0
CharAt(text, q, r) ==
  IF r = 0 THEN ByteOf(text, 3 * q + 1) \div 4
  ELSE IF r = 1 THEN (ByteOf(text, 3 * q + 1) % 4) * 16 + ByteOf(text, 3 * q + 2) \div 16
  ELSE IF r = 2 THEN (ByteOf(text, 3 * q + 2) % 16) * 4 + ByteOf(text, 3 * q + 3) \div 64
  ELSE ByteOf(text, 3 * q + 3) % 64
CharOf(text, k) == CharAt(text, (k - 1) \div 4, (k - 1) % 4)

\* How many characters do n bytes make, the last one perhaps of some of its bits only?
CharsOf(n) == (4 * n + 2) \div 3

\* The encoder after i bytes, the decoder after k characters.
EncoderStep(i) == IF i % 3 = 0 THEN "A" ELSE IF i % 3 = 1 THEN "B" ELSE "C"
Left(text, i) ==
  IF i = 0 THEN 0
  ELSE IF i % 3 = 0 THEN text[i] % 64
  ELSE IF i % 3 = 1 THEN (text[i] % 4) * 16 ELSE (text[i] % 16) * 4
Chars(text, n) == [k \in 1..n |-> CharOf(text, k)]
EncoderAt(text, i) ==
  [step |-> EncoderStep(i), result |-> Left(text, i), out |-> Chars(text, (4 * i) \div 3)]

DecoderStep(k) == IF k % 4 = 0 THEN "a" ELSE IF k % 4 = 1 THEN "b" ELSE IF k % 4 = 2 THEN "c" ELSE "d"
Begun(text, k) ==
  IF k % 4 = 0 THEN 0
  ELSE IF k % 4 = 1 THEN CharOf(text, k) * 4
  ELSE IF k % 4 = 2 THEN (CharOf(text, k) % 16) * 16 ELSE (CharOf(text, k) % 4) * 64
Bytes(text, n) == [i \in 1..n |-> ByteOf(text, i)]
DecoderAfter(text, k) ==
  [step |-> DecoderStep(k), plainchar |-> Begun(text, k), out |-> Bytes(text, (3 * k) \div 4)]
DecoderAt(text, k) ==
  DecoderAfter(text, IF k <= CharsOf(Len(text)) THEN k ELSE CharsOf(Len(text)))

\* What the coder writes, and what encode() returns, in closed form.
FilledWith(text, c) ==
  [k \in 1..(4 * ((Len(text) + 2) \div 3)) |->
     IF k <= CharsOf(Len(text)) THEN CharOf(text, k) ELSE c]
Filler(text) == IF Len(text) = 1 THEN Nul ELSE Pad
CodeOf(text) == FilledWith(text, Filler(text))

\* A block is gone through on the only way there is.
LEMMA EncodeBlockEnds ==
  ASSUME NEW s, NEW u, Len(u) \in Nat,
         NEW g, g[0] = s, \A i \in 1..Len(u) : g[i] = encode_byte(g[i - 1], u[i])
  PROVE  base64_encode_block(s, u) = g[Len(u)]
  <1> DEFINE n == Len(u)
             Solves(f) == f = [i \in 0..n |-> IF i = 0 THEN s ELSE encode_byte(f[i - 1], u[i])]
             path == CHOOSE f : Solves(f)
             h == [i \in 0..n |-> g[i]]
  <1>1. base64_encode_block(s, u) = path[n]
    BY DEF base64_encode_block
  <1>2. n \in Nat /\ g[0] = s /\ \A i \in 1..n : g[i] = encode_byte(g[i - 1], u[i])
    OBVIOUS
  <1> HIDE DEF n
  <1>3. Solves(h)
    <2>1. \A i \in 0..n : g[i] = IF i = 0 THEN s ELSE encode_byte(h[i - 1], u[i])
      <3> SUFFICES ASSUME NEW i \in 0..n
                   PROVE  g[i] = IF i = 0 THEN s ELSE encode_byte(h[i - 1], u[i])
        OBVIOUS
      <3>1. CASE i = 0
        BY <1>2, <3>1
      <3>2. CASE i # 0
        <4>1. i \in 1..n /\ i - 1 \in 0..n
          BY <1>2, <3>2
        <4>2. h[i - 1] = g[i - 1]
          BY <4>1
        <4> QED BY <1>2, <3>2, <4>1, <4>2, Zenon
      <3> QED BY <3>1, <3>2
    <2> QED BY <2>1, Zenon
  <1>4. Solves(path)
    BY <1>3, Zenon
  <1> HIDE DEF path, h
  <1>5. ASSUME NEW i \in 0..n
        PROVE  path[i] = IF i = 0 THEN s ELSE encode_byte(path[i - 1], u[i])
    BY <1>4, Zenon
  <1>6. path[0] = g[0]
    <2>1. 0 \in 0..n
      BY <1>2
    <2> QED BY <1>2, <1>5, <2>1, Zenon
  <1>7. \A i \in 0..(n - 1) : path[i] = g[i] => path[i + 1] = g[i + 1]
    <2> SUFFICES ASSUME NEW i \in 0..(n - 1), path[i] = g[i] PROVE path[i + 1] = g[i + 1]
      OBVIOUS
    <2>1. i + 1 \in 1..n /\ i + 1 \in 0..n /\ i + 1 # 0 /\ (i + 1) - 1 = i
      BY <1>2
    <2>2. path[i + 1] = encode_byte(path[i], u[i + 1])
      BY <1>5, <2>1, Zenon
    <2>3. g[i + 1] = encode_byte(g[i], u[i + 1])
      BY <1>2, <2>1, Zenon
    <2> QED BY <2>2, <2>3, Zenon
  <1>8. \A i \in 0..n : path[i] = g[i]
    <2> HIDE DEF Solves
    <2> QED BY <1>2, <1>6, <1>7, Agreement, Zenon
  <1>9. path[n] = g[n]
    BY <1>2, <1>8
  <1> QED BY <1>1, <1>9, Zenon DEF n

LEMMA DecodeBlockEnds ==
  ASSUME NEW s, NEW u, Len(u) \in Nat,
         NEW g, g[0] = s, \A i \in 1..Len(u) : g[i] = decode_char(g[i - 1], u[i])
  PROVE  base64_decode_block(s, u) = g[Len(u)]
  <1> DEFINE n == Len(u)
             Solves(f) == f = [i \in 0..n |-> IF i = 0 THEN s ELSE decode_char(f[i - 1], u[i])]
             path == CHOOSE f : Solves(f)
             h == [i \in 0..n |-> g[i]]
  <1>1. base64_decode_block(s, u) = path[n]
    BY DEF base64_decode_block
  <1>2. n \in Nat /\ g[0] = s /\ \A i \in 1..n : g[i] = decode_char(g[i - 1], u[i])
    OBVIOUS
  <1> HIDE DEF n
  <1>3. Solves(h)
    <2>1. \A i \in 0..n : g[i] = IF i = 0 THEN s ELSE decode_char(h[i - 1], u[i])
      <3> SUFFICES ASSUME NEW i \in 0..n
                   PROVE  g[i] = IF i = 0 THEN s ELSE decode_char(h[i - 1], u[i])
        OBVIOUS
      <3>1. CASE i = 0
        BY <1>2, <3>1
      <3>2. CASE i # 0
        <4>1. i \in 1..n /\ i - 1 \in 0..n
          BY <1>2, <3>2
        <4>2. h[i - 1] = g[i - 1]
          BY <4>1
        <4> QED BY <1>2, <3>2, <4>1, <4>2, Zenon
      <3> QED BY <3>1, <3>2
    <2> QED BY <2>1, Zenon
  <1>4. Solves(path)
    BY <1>3, Zenon
  <1> HIDE DEF path, h
  <1>5. ASSUME NEW i \in 0..n
        PROVE  path[i] = IF i = 0 THEN s ELSE decode_char(path[i - 1], u[i])
    BY <1>4, Zenon
  <1>6. path[0] = g[0]
    <2>1. 0 \in 0..n
      BY <1>2
    <2> QED BY <1>2, <1>5, <2>1, Zenon
  <1>7. \A i \in 0..(n - 1) : path[i] = g[i] => path[i + 1] = g[i + 1]
    <2> SUFFICES ASSUME NEW i \in 0..(n - 1), path[i] = g[i] PROVE path[i + 1] = g[i + 1]
      OBVIOUS
    <2>1. i + 1 \in 1..n /\ i + 1 \in 0..n /\ i + 1 # 0 /\ (i + 1) - 1 = i
      BY <1>2
    <2>2. path[i + 1] = decode_char(path[i], u[i + 1])
      BY <1>5, <2>1, Zenon
    <2>3. g[i + 1] = decode_char(g[i], u[i + 1])
      BY <1>2, <2>1, Zenon
    <2> QED BY <2>2, <2>3, Zenon
  <1>8. \A i \in 0..n : path[i] = g[i]
    <2> HIDE DEF Solves
    <2> QED BY <1>2, <1>6, <1>7, Agreement, Zenon
  <1>9. path[n] = g[n]
    BY <1>2, <1>8
  <1> QED BY <1>1, <1>9, Zenon DEF n

\* The steps of the coders.
LEMMA EncodesA ==
  ASSUME NEW r, NEW o, NEW c
  PROVE  encode_byte([step |-> "A", result |-> r, out |-> o], c)
           = [step |-> "B", result |-> (c % 4) * 16, out |-> Append(o, c \div 4)]
  BY Zenon DEF encode_byte

LEMMA EncodesB ==
  ASSUME NEW r, NEW o, NEW c
  PROVE  encode_byte([step |-> "B", result |-> r, out |-> o], c)
           = [step |-> "C", result |-> (c % 16) * 4, out |-> Append(o, r + c \div 16)]
  BY Zenon DEF encode_byte

LEMMA EncodesC ==
  ASSUME NEW r, NEW o, NEW c
  PROVE  encode_byte([step |-> "C", result |-> r, out |-> o], c)
           = [step |-> "A", result |-> c % 64, out |-> o \o <<r + c \div 64, c % 64>>]
  BY Zenon DEF encode_byte

LEMMA DecodesA ==
  ASSUME NEW r, NEW o, NEW c, c < 64
  PROVE  decode_char([step |-> "a", plainchar |-> r, out |-> o], c)
           = [step |-> "b", plainchar |-> c * 4, out |-> o]
  <1>1. IsValue(c)
    BY DEF IsValue
  <1> QED BY <1>1, Zenon DEF decode_char

LEMMA DecodesB ==
  ASSUME NEW r, NEW o, NEW c, c < 64
  PROVE  decode_char([step |-> "b", plainchar |-> r, out |-> o], c)
           = [step |-> "c", plainchar |-> (c % 16) * 16, out |-> Append(o, r + c \div 16)]
  <1>1. IsValue(c)
    BY DEF IsValue
  <1> QED BY <1>1, Zenon DEF decode_char

LEMMA DecodesC ==
  ASSUME NEW r, NEW o, NEW c, c < 64
  PROVE  decode_char([step |-> "c", plainchar |-> r, out |-> o], c)
           = [step |-> "d", plainchar |-> (c % 4) * 64, out |-> Append(o, r + c \div 4)]
  <1>1. IsValue(c)
    BY DEF IsValue
  <1> QED BY <1>1, Zenon DEF decode_char

LEMMA DecodesD ==
  ASSUME NEW r, NEW o, NEW c, c < 64
  PROVE  decode_char([step |-> "d", plainchar |-> r, out |-> o], c)
           = [step |-> "a", plainchar |-> 0, out |-> Append(o, r + c)]
  <1>1. IsValue(c)
    BY DEF IsValue
  <1> QED BY <1>1, Zenon DEF decode_char

LEMMA DecodeSkips ==
  ASSUME NEW s, NEW c \in Int, c >= 64
  PROVE  decode_char(s, c) = s
  <1>1. ~IsValue(c)
    BY DEF IsValue
  <1> QED BY <1>1, Zenon DEF decode_char

\* Bytes and characters are in their ranges.
LEMMA BytesAndChars ==
  ASSUME NEW text \in Texts, NEW k \in Int, k >= 1
  PROVE  ByteOf(text, k) \in 0..255 /\ CharOf(text, k) \in 0..63
  <1>1. ASSUME NEW i \in Int, i >= 1 PROVE ByteOf(text, i) \in 0..255
    <2>1. CASE i <= Len(text)
      <3>1. i \in 1..Len(text)
        BY <1>1, <2>1, LenProperties DEF Texts
      <3>2. text[i] \in 0..255
        BY <3>1, ElementOfSeq DEF Texts, Octets
      <3> QED BY <2>1, <3>2 DEF ByteOf
    <2>2. CASE ~(i <= Len(text))
      BY <2>2 DEF ByteOf
    <2> QED BY <2>1, <2>2
  <1> DEFINE q == (k - 1) \div 4
             r == (k - 1) % 4
             x == ByteOf(text, 3 * q + 1)
             y == ByteOf(text, 3 * q + 2)
             z == ByteOf(text, 3 * q + 3)
  <1>2. q \in Int /\ q >= 0 /\ r \in 0..3
    OBVIOUS
  <1>3. CharOf(text, k) = CharAt(text, q, r)
    BY DEF CharOf
  <1> HIDE DEF q, r
  <1>4. x \in 0..255 /\ y \in 0..255 /\ z \in 0..255
    BY <1>1, <1>2
  <1>5. CharAt(text, q, r) = IF r = 0 THEN x \div 4
                             ELSE IF r = 1 THEN (x % 4) * 16 + y \div 16
                             ELSE IF r = 2 THEN (y % 16) * 4 + z \div 64
                             ELSE z % 64
    BY DEF CharAt
  <1> HIDE DEF x, y, z
  <1>6. CharAt(text, q, r) \in 0..63
    BY <1>2, <1>4, <1>5
  <1> QED BY <1>1, <1>3, <1>6

\* One element more, or two.
LEMMA OneCharMore ==
  ASSUME NEW text, NEW n \in Nat, NEW c, c = CharOf(text, n + 1)
  PROVE  Append(Chars(text, n), c) = Chars(text, n + 1)
  BY DEF Chars

LEMMA TwoCharsMore ==
  ASSUME NEW text, NEW n \in Nat, NEW c, NEW d, c = CharOf(text, n + 1), d = CharOf(text, n + 2)
  PROVE  Chars(text, n) \o <<c, d>> = Chars(text, n + 2)
  BY DEF Chars

LEMMA OneByteMore ==
  ASSUME NEW text, NEW n \in Nat, NEW c, c = ByteOf(text, n + 1)
  PROVE  Append(Bytes(text, n), c) = Bytes(text, n + 1)
  BY DEF Bytes

\* Where byte i stands among the threes, and the characters before it.
LEMMA Threes ==
  ASSUME NEW i \in Nat
  PROVE  \E q \in Nat : \/ i = 3 * q /\ i % 3 = 0 /\ (i + 1) % 3 = 1
                           /\ (4 * i) \div 3 = 4 * q /\ (4 * (i + 1)) \div 3 = 4 * q + 1
                        \/ i = 3 * q + 1 /\ i % 3 = 1 /\ (i + 1) % 3 = 2
                           /\ (4 * i) \div 3 = 4 * q + 1 /\ (4 * (i + 1)) \div 3 = 4 * q + 2
                        \/ i = 3 * q + 2 /\ i % 3 = 2 /\ (i + 1) % 3 = 0
                           /\ (4 * i) \div 3 = 4 * q + 2 /\ (4 * (i + 1)) \div 3 = 4 * q + 4
  <1> DEFINE q == i \div 3
  <1>1. q \in Nat /\ (i = 3 * q \/ i = 3 * q + 1 \/ i = 3 * q + 2)
    OBVIOUS
  <1> HIDE DEF q
  <1> QED BY <1>1

LEMMA Fours ==
  ASSUME NEW q \in Nat, NEW text
  PROVE  /\ CharOf(text, 4 * q + 1) = CharAt(text, q, 0)
         /\ CharOf(text, 4 * q + 2) = CharAt(text, q, 1)
         /\ CharOf(text, 4 * q + 3) = CharAt(text, q, 2)
         /\ CharOf(text, 4 * q + 4) = CharAt(text, q, 3)
  <1>1. /\ ((4 * q + 1) - 1) \div 4 = q /\ ((4 * q + 1) - 1) % 4 = 0
        /\ ((4 * q + 2) - 1) \div 4 = q /\ ((4 * q + 2) - 1) % 4 = 1
        /\ ((4 * q + 3) - 1) \div 4 = q /\ ((4 * q + 3) - 1) % 4 = 2
        /\ ((4 * q + 4) - 1) \div 4 = q /\ ((4 * q + 4) - 1) % 4 = 3
    OBVIOUS
  <1> QED BY <1>1, Zenon DEF CharOf

\* encode_byte() leads from the state after i bytes to the one after the next.
LEMMA EncoderGoesOn ==
  ASSUME NEW text \in Texts, NEW i \in 0..(Len(text) - 1)
  PROVE  encode_byte(EncoderAt(text, i), text[i + 1]) = EncoderAt(text, i + 1)
  <1> DEFINE c == text[i + 1]
             o == Chars(text, (4 * i) \div 3)
             p == Chars(text, (4 * (i + 1)) \div 3)
  <1>1. i \in Nat /\ Len(text) \in Nat /\ i + 1 \in 1..Len(text)
    BY LenProperties DEF Texts
  <1>2. c \in 0..255 /\ ByteOf(text, i + 1) = c
    <2>1. c \in 0..255
      BY <1>1, ElementOfSeq DEF Texts, Octets
    <2> QED BY <1>1, <2>1 DEF ByteOf
  <1>3. EncoderAt(text, i) = [step |-> EncoderStep(i), result |-> Left(text, i), out |-> o]
    BY Zenon DEF EncoderAt
  <1>4. EncoderAt(text, i + 1)
          = [step |-> EncoderStep(i + 1), result |-> Left(text, i + 1), out |-> p]
    BY Zenon DEF EncoderAt
  <1>5. i + 1 # 0
    BY <1>1
  <1>6. PICK q \in Nat : \/ i = 3 * q /\ i % 3 = 0 /\ (i + 1) % 3 = 1
                            /\ (4 * i) \div 3 = 4 * q /\ (4 * (i + 1)) \div 3 = 4 * q + 1
                         \/ i = 3 * q + 1 /\ i % 3 = 1 /\ (i + 1) % 3 = 2
                            /\ (4 * i) \div 3 = 4 * q + 1 /\ (4 * (i + 1)) \div 3 = 4 * q + 2
                         \/ i = 3 * q + 2 /\ i % 3 = 2 /\ (i + 1) % 3 = 0
                            /\ (4 * i) \div 3 = 4 * q + 2 /\ (4 * (i + 1)) \div 3 = 4 * q + 4
    BY <1>1, Threes
  <1>7. /\ 4 * q \in Nat /\ 4 * q + 1 \in Nat /\ 4 * q + 2 \in Nat
        /\ (4 * q + 1) + 1 = 4 * q + 2 /\ (4 * q + 2) + 1 = 4 * q + 3
        /\ (4 * q + 2) + 2 = 4 * q + 4
    BY <1>6
  <1> HIDE DEF c, o, p
  <1>8. CASE i = 3 * q /\ i % 3 = 0 /\ (i + 1) % 3 = 1
    <2>1. EncoderStep(i) = "A" /\ EncoderStep(i + 1) = "B" /\ Left(text, i + 1) = (c % 4) * 16
      BY <1>5, <1>8 DEF EncoderStep, Left, c
    <2>2. Append(o, c \div 4) = p
      <3>1. (4 * i) \div 3 = 4 * q /\ (4 * (i + 1)) \div 3 = 4 * q + 1
        BY <1>6, <1>8
      <3>2. CharOf(text, 4 * q + 1) = c \div 4
        <4>1. CharAt(text, q, 0) = c \div 4
          BY <1>2, <1>8 DEF CharAt
        <4> QED BY <4>1, Fours
      <3>3. Append(Chars(text, 4 * q), c \div 4) = Chars(text, 4 * q + 1)
        BY <1>7, <3>2, OneCharMore
      <3> QED BY <3>1, <3>3, Zenon DEF o, p
    <2>3. encode_byte([step |-> "A", result |-> Left(text, i), out |-> o], c)
            = [step |-> "B", result |-> (c % 4) * 16, out |-> Append(o, c \div 4)]
      BY EncodesA, Zenon
    <2> QED BY <1>3, <1>4, <2>1, <2>2, <2>3, Zenon DEF c
  <1>9. CASE i = 3 * q + 1 /\ i % 3 = 1 /\ (i + 1) % 3 = 2
    <2>1. EncoderStep(i) = "B" /\ EncoderStep(i + 1) = "C" /\ Left(text, i + 1) = (c % 16) * 4
      BY <1>5, <1>9 DEF EncoderStep, Left, c
    <2>2. Left(text, i) = (text[i] % 4) * 16 /\ ByteOf(text, i) = text[i]
      BY <1>1, <1>9 DEF Left, ByteOf
    <2>3. Append(o, Left(text, i) + c \div 16) = p
      <3>1. (4 * i) \div 3 = 4 * q + 1 /\ (4 * (i + 1)) \div 3 = 4 * q + 2
        BY <1>6, <1>9
      <3>2. CharOf(text, 4 * q + 2) = Left(text, i) + c \div 16
        <4>1. CharAt(text, q, 1) = (ByteOf(text, 3 * q + 1) % 4) * 16 + ByteOf(text, 3 * q + 2) \div 16
          BY DEF CharAt
        <4>2. 3 * q + 1 = i /\ 3 * q + 2 = i + 1
          BY <1>9
        <4>3. CharAt(text, q, 1) = Left(text, i) + c \div 16
          BY <1>2, <2>2, <4>1, <4>2, Zenon
        <4> QED BY <4>3, Fours
      <3>3. Append(Chars(text, 4 * q + 1), Left(text, i) + c \div 16) = Chars(text, 4 * q + 2)
        <4>1. Left(text, i) + c \div 16 = CharOf(text, (4 * q + 1) + 1)
          BY <1>7, <3>2, Zenon
        <4>2. Append(Chars(text, 4 * q + 1), Left(text, i) + c \div 16)
                = Chars(text, (4 * q + 1) + 1)
          BY <1>7, <4>1, OneCharMore, Zenon
        <4> QED BY <1>7, <4>2, Zenon
      <3> QED BY <3>1, <3>3, Zenon DEF o, p
    <2>4. encode_byte([step |-> "B", result |-> Left(text, i), out |-> o], c)
            = [step |-> "C", result |-> (c % 16) * 4, out |-> Append(o, Left(text, i) + c \div 16)]
      BY EncodesB, Zenon
    <2> QED BY <1>3, <1>4, <2>1, <2>3, <2>4, Zenon DEF c
  <1>10. CASE i = 3 * q + 2 /\ i % 3 = 2 /\ (i + 1) % 3 = 0
    <2>1. EncoderStep(i) = "C" /\ EncoderStep(i + 1) = "A" /\ Left(text, i + 1) = c % 64
      BY <1>5, <1>10 DEF EncoderStep, Left, c
    <2>2. Left(text, i) = (text[i] % 16) * 4 /\ ByteOf(text, i) = text[i]
      BY <1>1, <1>10 DEF Left, ByteOf
    <2>3. o \o <<Left(text, i) + c \div 64, c % 64>> = p
      <3>1. (4 * i) \div 3 = 4 * q + 2 /\ (4 * (i + 1)) \div 3 = 4 * q + 4
        BY <1>6, <1>10
      <3>2. CharOf(text, 4 * q + 3) = Left(text, i) + c \div 64
        <4>1. CharAt(text, q, 2) = (ByteOf(text, 3 * q + 2) % 16) * 4 + ByteOf(text, 3 * q + 3) \div 64
          BY DEF CharAt
        <4>2. 3 * q + 2 = i /\ 3 * q + 3 = i + 1
          BY <1>10
        <4>3. CharAt(text, q, 2) = Left(text, i) + c \div 64
          BY <1>2, <2>2, <4>1, <4>2, Zenon
        <4> QED BY <4>3, Fours
      <3>3. CharOf(text, 4 * q + 4) = c % 64
        <4>1. CharAt(text, q, 3) = c % 64
          BY <1>2, <1>10 DEF CharAt
        <4> QED BY <4>1, Fours
      <3>4. Chars(text, 4 * q + 2) \o <<Left(text, i) + c \div 64, c % 64>> = Chars(text, 4 * q + 4)
        <4>1. /\ Left(text, i) + c \div 64 = CharOf(text, (4 * q + 2) + 1)
              /\ c % 64 = CharOf(text, (4 * q + 2) + 2)
          BY <1>7, <3>2, <3>3, Zenon
        <4>2. Chars(text, 4 * q + 2) \o <<Left(text, i) + c \div 64, c % 64>>
                = Chars(text, (4 * q + 2) + 2)
          BY <1>7, <4>1, TwoCharsMore
        <4> QED BY <1>7, <4>2, Zenon
      <3> QED BY <3>1, <3>4, Zenon DEF o, p
    <2>4. encode_byte([step |-> "C", result |-> Left(text, i), out |-> o], c)
            = [step |-> "A", result |-> c % 64, out |-> o \o <<Left(text, i) + c \div 64, c % 64>>]
      BY EncodesC, Zenon
    <2> QED BY <1>3, <1>4, <2>1, <2>3, <2>4, Zenon DEF c
  <1> QED BY <1>6, <1>8, <1>9, <1>10, Zenon

\* So a block from byte i + 1 to byte j leads from the state after i to the one after j.
LEMMA EncodesPart ==
  ASSUME NEW text \in Texts, NEW i \in 0..Len(text), NEW j \in i..Len(text)
  PROVE  base64_encode_block(EncoderAt(text, i), SubSeq(text, i + 1, j)) = EncoderAt(text, j)
  <1> DEFINE u == SubSeq(text, i + 1, j)
             g == [k \in 0..(j - i) |-> EncoderAt(text, i + k)]
  <1>1. Len(text) \in Nat
    BY LenProperties DEF Texts
  <1>2. Len(u) = j - i /\ \A k \in 1..(j - i) : u[k] = text[i + k]
    BY <1>1 DEF Texts
  <1>3. Len(u) \in Nat /\ i + (j - i) = j /\ i + 0 = i
    BY <1>1, <1>2
  <1> HIDE DEF u
  <1>4. g[0] = EncoderAt(text, i) /\ g[j - i] = EncoderAt(text, j)
    <2>1. 0 \in 0..(j - i) /\ j - i \in 0..(j - i)
      BY <1>1
    <2> QED BY <1>3, <2>1
  <1>5. ASSUME NEW k \in 1..(j - i) PROVE g[k] = encode_byte(g[k - 1], u[k])
    <2>1. /\ k \in 0..(j - i) /\ k - 1 \in 0..(j - i) /\ i + (k - 1) \in 0..(Len(text) - 1)
          /\ (i + (k - 1)) + 1 = i + k
      BY <1>1
    <2>2. encode_byte(EncoderAt(text, i + (k - 1)), text[i + k]) = EncoderAt(text, i + k)
      BY <2>1, EncoderGoesOn
    <2>3. g[k] = EncoderAt(text, i + k) /\ g[k - 1] = EncoderAt(text, i + (k - 1))
      BY <2>1, Zenon
    <2>4. u[k] = text[i + k]
      BY <1>2
    <2> QED BY <2>2, <2>3, <2>4, Zenon
  <1> HIDE DEF g
  <1>6. base64_encode_block(EncoderAt(text, i), u) = g[Len(u)]
    <2>1. \A k \in 1..Len(u) : g[k] = encode_byte(g[k - 1], u[k])
      BY <1>2, <1>5, Zenon
    <2> QED BY <1>3, <1>4, <2>1, EncodeBlockEnds
  <1> QED BY <1>2, <1>4, <1>6, Zenon DEF u

\* The encoder begins with the state after no byte.
LEMMA EncoderBegins ==
  ASSUME NEW text
  PROVE  NewEncoder = EncoderAt(text, 0)
  <1>1. EncoderStep(0) = "A" /\ Left(text, 0) = 0
    BY DEF EncoderStep, Left
  <1>2. Chars(text, (4 * 0) \div 3) = <<>>
    BY DEF Chars
  <1> QED BY <1>1, <1>2, Zenon DEF EncoderAt, NewEncoder

\* What the coder writes of a text is the closed form.
LEMMA Coded ==
  ASSUME NEW text \in Texts
  PROVE  /\ coded(text) = FilledWith(text, Pad)
         /\ base64_encode_blockend(EncoderAt(text, Len(text))) = FilledWith(text, Pad)
  <1> DEFINE n == Len(text)
             o == Chars(text, (4 * n) \div 3)
             r == Left(text, n)
  <1>1. n \in Nat /\ text \in Seq(Octets)
    BY LenProperties DEF Texts
  <1>2. NewEncoder = EncoderAt(text, 0)
    BY EncoderBegins
  <1>3. SubSeq(text, 1, n) = text
    BY <1>1
  <1>4. base64_encode_block(NewEncoder, text) = EncoderAt(text, n)
    <2>1. 0 \in 0..n /\ n \in 0..n /\ 0 + 1 = 1
      BY <1>1
    <2>2. base64_encode_block(EncoderAt(text, 0), SubSeq(text, 0 + 1, n)) = EncoderAt(text, n)
      BY <2>1, EncodesPart
    <2> QED BY <1>2, <1>3, <2>1, <2>2, Zenon
  <1>5. base64_encode_blockend(EncoderAt(text, n)) = FilledWith(text, Pad)
    <2>1. EncoderAt(text, n) = [step |-> EncoderStep(n), result |-> r, out |-> o]
      BY Zenon DEF EncoderAt
    <2>2. PICK q \in Nat : n = 3 * q \/ n = 3 * q + 1 \/ n = 3 * q + 2
      BY <1>1, Threes
    <2> HIDE DEF n
    <2>3. FilledWith(text, Pad) = [k \in 1..(4 * ((n + 2) \div 3)) |->
                            IF k <= CharsOf(n) THEN CharOf(text, k) ELSE Pad]
      BY Zenon DEF FilledWith, n
    <2>4. CASE n = 3 * q
      <3>1. /\ EncoderStep(n) = "A" /\ (4 * n) \div 3 = 4 * q /\ 4 * ((n + 2) \div 3) = 4 * q
            /\ CharsOf(n) = 4 * q
        BY <2>4 DEF EncoderStep, CharsOf
      <3>2. base64_encode_blockend([step |-> "A", result |-> r, out |-> o]) = o
        BY Zenon DEF base64_encode_blockend
      <3>3. FilledWith(text, Pad) = [k \in 1..(4 * q) |-> CharOf(text, k)]
        BY <2>3, <3>1
      <3>4. o = [k \in 1..(4 * q) |-> CharOf(text, k)]
        BY <3>1 DEF Chars
      <3> QED BY <2>1, <3>1, <3>2, <3>3, <3>4, Zenon
    <2>5. CASE n = 3 * q + 1
      <3>1. /\ EncoderStep(n) = "B" /\ (4 * n) \div 3 = 4 * q + 1 /\ (n + 2) \div 3 = q + 1
            /\ CharsOf(n) = 4 * q + 2
        BY <2>5 DEF EncoderStep, CharsOf
      <3>2. base64_encode_blockend([step |-> "B", result |-> r, out |-> o]) = o \o <<r, Pad, Pad>>
        BY Zenon DEF base64_encode_blockend
      <3>3. CharOf(text, 4 * q + 2) = r
        <4>1. ByteOf(text, 3 * q + 1) = text[n] /\ ByteOf(text, 3 * q + 2) = 0
          BY <2>5 DEF ByteOf, n
        <4>2. r = (text[n] % 4) * 16
          BY <2>5 DEF Left
        <4>3. CharAt(text, q, 1) = (ByteOf(text, 3 * q + 1) % 4) * 16 + ByteOf(text, 3 * q + 2) \div 16
          BY DEF CharAt
        <4>4. text[n] \in Int
          <5>1. n \in 1..Len(text)
            BY <2>5 DEF n
          <5>2. text[n] \in 0..255
            BY <1>1, <5>1, ElementOfSeq DEF Octets
          <5> QED BY <5>2
        <4>5. CharAt(text, q, 1) = r
          BY <4>1, <4>2, <4>3, <4>4
        <4> QED BY <4>5, Fours
      <3>4. o = Chars(text, 4 * q + 1)
        BY <3>1
      <3> HIDE DEF o, r
      <3>5. Chars(text, 4 * q + 1) \o <<r, Pad, Pad>>
              = [k \in 1..(4 * (q + 1)) |-> IF k <= 4 * q + 2 THEN CharOf(text, k) ELSE Pad]
        BY <3>3 DEF Chars
      <3>6. FilledWith(text, Pad) = [k \in 1..(4 * (q + 1)) |->
                              IF k <= 4 * q + 2 THEN CharOf(text, k) ELSE Pad]
        BY <2>3, <3>1, Zenon
      <3> QED BY <2>1, <3>1, <3>2, <3>4, <3>5, <3>6, Zenon
    <2>6. CASE n = 3 * q + 2
      <3>1. /\ EncoderStep(n) = "C" /\ (4 * n) \div 3 = 4 * q + 2 /\ (n + 2) \div 3 = q + 1
            /\ CharsOf(n) = 4 * q + 3
        BY <2>6 DEF EncoderStep, CharsOf
      <3>2. base64_encode_blockend([step |-> "C", result |-> r, out |-> o]) = o \o <<r, Pad>>
        BY Zenon DEF base64_encode_blockend
      <3>3. CharOf(text, 4 * q + 3) = r
        <4>1. ByteOf(text, 3 * q + 2) = text[n] /\ ByteOf(text, 3 * q + 3) = 0
          BY <2>6 DEF ByteOf, n
        <4>2. r = (text[n] % 16) * 4
          BY <2>6 DEF Left
        <4>3. CharAt(text, q, 2) = (ByteOf(text, 3 * q + 2) % 16) * 4 + ByteOf(text, 3 * q + 3) \div 64
          BY DEF CharAt
        <4>4. text[n] \in Int
          <5>1. n \in 1..Len(text)
            BY <2>6 DEF n
          <5>2. text[n] \in 0..255
            BY <1>1, <5>1, ElementOfSeq DEF Octets
          <5> QED BY <5>2
        <4>5. CharAt(text, q, 2) = r
          BY <4>1, <4>2, <4>3, <4>4
        <4> QED BY <4>5, Fours
      <3>4. o = Chars(text, 4 * q + 2)
        BY <3>1
      <3> HIDE DEF o, r
      <3>5. Chars(text, 4 * q + 2) \o <<r, Pad>>
              = [k \in 1..(4 * (q + 1)) |-> IF k <= 4 * q + 3 THEN CharOf(text, k) ELSE Pad]
        BY <3>3 DEF Chars
      <3>6. FilledWith(text, Pad) = [k \in 1..(4 * (q + 1)) |->
                              IF k <= 4 * q + 3 THEN CharOf(text, k) ELSE Pad]
        BY <2>3, <3>1, Zenon
      <3> QED BY <2>1, <3>1, <3>2, <3>4, <3>5, <3>6, Zenon
    <2> QED BY <2>2, <2>4, <2>5, <2>6
  <1> QED BY <1>4, <1>5, Zenon DEF coded

\* What the code's places hold.
LEMMA FilledIs ==
  ASSUME NEW text \in Texts, NEW c
  PROVE  /\ Len(FilledWith(text, c)) = 4 * ((Len(text) + 2) \div 3)
         /\ CharsOf(Len(text)) \in Nat /\ CharsOf(Len(text)) <= 4 * ((Len(text) + 2) \div 3)
         /\ (3 * CharsOf(Len(text))) \div 4 = Len(text)
         /\ \A k \in 1..(4 * ((Len(text) + 2) \div 3)) :
              FilledWith(text, c)[k] = IF k <= CharsOf(Len(text)) THEN CharOf(text, k) ELSE c
  <1> DEFINE n == Len(text)
             m == 4 * ((n + 2) \div 3)
             v == CharsOf(n)
  <1>1. n \in Nat
    BY LenProperties DEF Texts
  <1>2. FilledWith(text, c) = [k \in 1..m |-> IF k <= v THEN CharOf(text, k) ELSE c]
    BY Zenon DEF FilledWith
  <1> HIDE DEF n
  <1>3. m \in Nat /\ v \in Nat /\ v <= m /\ (3 * v) \div 4 = n
    <2>1. PICK q \in Nat : n = 3 * q \/ n = 3 * q + 1 \/ n = 3 * q + 2
      BY <1>1, Threes
    <2> QED BY <2>1 DEF CharsOf
  <1> HIDE DEF m, v
  <1> QED BY <1>2, <1>3 DEF n, m, v

\* encode() returns the closed form: of a text of two bytes or more the code is no
\* longer than twice the text.
LEMMA Encoded ==
  ASSUME NEW text \in Texts
  PROVE  encode(text) = CodeOf(text)
  <1> DEFINE n == Len(text)
             m == 4 * ((n + 2) \div 3)
             v == CharsOf(n)
             pads == FilledWith(text, Pad)
             full == FilledWith(text, Filler(text))
  <1>1. n \in Nat
    BY LenProperties DEF Texts
  <1>2. /\ Len(pads) = m
        /\ \A k \in 1..m : pads[k] = IF k <= v THEN CharOf(text, k) ELSE Pad
    BY FilledIs, Zenon
  <1>3. full = [k \in 1..m |-> IF k <= v THEN CharOf(text, k) ELSE Filler(text)]
    BY Zenon DEF FilledWith
  <1>4. encode(text) = [k \in 1..m |-> IF k <= 2 * n THEN pads[k] ELSE Nul]
    BY <1>2, Coded, Zenon DEF encode
  <1> HIDE DEF pads, full
  <1>5. ASSUME NEW k \in 1..m
        PROVE  (IF k <= 2 * n THEN pads[k] ELSE Nul)
                 = IF k <= v THEN CharOf(text, k) ELSE Filler(text)
    <2>1. pads[k] = IF k <= v THEN CharOf(text, k) ELSE Pad
      BY <1>2
    <2>2. Filler(text) = IF n = 1 THEN Nul ELSE Pad
      BY Zenon DEF Filler
    <2>3. k <= v => k <= 2 * n
      <3> HIDE DEF n
      <3> QED BY <1>1 DEF CharsOf
    <2>4. n = 1 /\ ~(k <= v) => ~(k <= 2 * n)
      <3> HIDE DEF n
      <3> QED BY <1>1 DEF CharsOf
    <2>5. n # 1 => k <= 2 * n
      <3>1. PICK q \in Nat : n = 3 * q \/ n = 3 * q + 1 \/ n = 3 * q + 2
        BY <1>1, Threes
      <3> HIDE DEF n
      <3>2. n # 1 => m <= 2 * n
        BY <3>1
      <3> QED BY <1>1, <3>1, <3>2
    <2> HIDE DEF n, v, m
    <2> QED BY <2>1, <2>2, <2>3, <2>4, <2>5, Zenon
  <1> HIDE DEF m, n, v
  <1>6. [k \in 1..m |-> IF k <= 2 * n THEN pads[k] ELSE Nul]
          = [k \in 1..m |-> IF k <= v THEN CharOf(text, k) ELSE Filler(text)]
    BY <1>5
  <1> QED BY <1>3, <1>4, <1>6, Zenon DEF CodeOf, full

\* What is filled in is a character that is not a value, and not a dot.
LEMMA FillerIs == \A text : Filler(text) \in {Pad, Nul} /\ Filler(text) \in 64..65
  BY DEF Filler, Pad, Nul

\* Where character k stands among the fours, and the bytes before it.
LEMMA PlaceInFour ==
  ASSUME NEW k \in Nat
  PROVE  \E q \in Nat : \/ k = 4 * q /\ k % 4 = 0 /\ (k + 1) % 4 = 1
                           /\ (3 * k) \div 4 = 3 * q /\ (3 * (k + 1)) \div 4 = 3 * q
                        \/ k = 4 * q + 1 /\ k % 4 = 1 /\ (k + 1) % 4 = 2
                           /\ (3 * k) \div 4 = 3 * q /\ (3 * (k + 1)) \div 4 = 3 * q + 1
                        \/ k = 4 * q + 2 /\ k % 4 = 2 /\ (k + 1) % 4 = 3
                           /\ (3 * k) \div 4 = 3 * q + 1 /\ (3 * (k + 1)) \div 4 = 3 * q + 2
                        \/ k = 4 * q + 3 /\ k % 4 = 3 /\ (k + 1) % 4 = 0
                           /\ (3 * k) \div 4 = 3 * q + 2 /\ (3 * (k + 1)) \div 4 = 3 * q + 3
  <1> DEFINE q == k \div 4
  <1>1. q \in Nat /\ (k = 4 * q \/ k = 4 * q + 1 \/ k = 4 * q + 2 \/ k = 4 * q + 3)
    OBVIOUS
  <1> HIDE DEF q
  <1> QED BY <1>1

\* decode_char() leads from the state after k characters to the one after the next.
LEMMA DecoderGoesOn ==
  ASSUME NEW text \in Texts, NEW k \in Nat
  PROVE  decode_char(DecoderAfter(text, k), CharOf(text, k + 1)) = DecoderAfter(text, k + 1)
  <1> DEFINE c == CharOf(text, k + 1)
             b == Begun(text, k)
             o == Bytes(text, (3 * k) \div 4)
             p == Bytes(text, (3 * (k + 1)) \div 4)
  <1>1. DecoderAfter(text, k) = [step |-> DecoderStep(k), plainchar |-> b, out |-> o]
    BY Zenon DEF DecoderAfter
  <1>2. DecoderAfter(text, k + 1)
          = [step |-> DecoderStep(k + 1), plainchar |-> Begun(text, k + 1), out |-> p]
    BY Zenon DEF DecoderAfter
  <1>3. PICK q \in Nat : \/ k = 4 * q /\ k % 4 = 0 /\ (k + 1) % 4 = 1
                            /\ (3 * k) \div 4 = 3 * q /\ (3 * (k + 1)) \div 4 = 3 * q
                         \/ k = 4 * q + 1 /\ k % 4 = 1 /\ (k + 1) % 4 = 2
                            /\ (3 * k) \div 4 = 3 * q /\ (3 * (k + 1)) \div 4 = 3 * q + 1
                         \/ k = 4 * q + 2 /\ k % 4 = 2 /\ (k + 1) % 4 = 3
                            /\ (3 * k) \div 4 = 3 * q + 1 /\ (3 * (k + 1)) \div 4 = 3 * q + 2
                         \/ k = 4 * q + 3 /\ k % 4 = 3 /\ (k + 1) % 4 = 0
                            /\ (3 * k) \div 4 = 3 * q + 2 /\ (3 * (k + 1)) \div 4 = 3 * q + 3
    BY PlaceInFour
  <1> DEFINE x == ByteOf(text, 3 * q + 1)
             y == ByteOf(text, 3 * q + 2)
             z == ByteOf(text, 3 * q + 3)
  <1>4. x \in 0..255 /\ y \in 0..255 /\ z \in 0..255
    <2>1. 3 * q + 1 \in Int /\ 3 * q + 1 >= 1 /\ 3 * q + 2 \in Int /\ 3 * q + 2 >= 1
          /\ 3 * q + 3 \in Int /\ 3 * q + 3 >= 1
      BY <1>3
    <2> QED BY <2>1, BytesAndChars
  <1>5. c < 64
    <2>1. k + 1 \in Int /\ k + 1 >= 1
      OBVIOUS
    <2>2. c \in 0..63
      BY <2>1, BytesAndChars
    <2> QED BY <2>2
  <1>6. /\ CharOf(text, 4 * q + 1) = x \div 4
        /\ CharOf(text, 4 * q + 2) = (x % 4) * 16 + y \div 16
        /\ CharOf(text, 4 * q + 3) = (y % 16) * 4 + z \div 64
        /\ CharOf(text, 4 * q + 4) = z % 64
    <2>1. /\ CharAt(text, q, 0) = x \div 4
          /\ CharAt(text, q, 1) = (x % 4) * 16 + y \div 16
          /\ CharAt(text, q, 2) = (y % 16) * 4 + z \div 64
          /\ CharAt(text, q, 3) = z % 64
      BY DEF CharAt
    <2> QED BY <1>3, <2>1, Fours
  <1>7. /\ 3 * q \in Nat /\ 3 * q + 1 \in Nat /\ 3 * q + 2 \in Nat
        /\ (3 * q + 1) + 1 = 3 * q + 2 /\ (3 * q + 2) + 1 = 3 * q + 3
        /\ (4 * q + 1) + 1 = 4 * q + 2 /\ (4 * q + 2) + 1 = 4 * q + 3
        /\ (4 * q + 3) + 1 = 4 * q + 4
    BY <1>3
  <1>8. /\ (x \div 4) * 4 + ((x % 4) * 16 + y \div 16) \div 16 = x
        /\ (((x % 4) * 16 + y \div 16) % 16) * 16 + ((y % 16) * 4 + z \div 64) \div 4 = y
        /\ (((y % 16) * 4 + z \div 64) % 4) * 64 + (z % 64) = z
    <2> HIDE DEF x, y, z
    <2>1. /\ ((x % 4) * 16 + y \div 16) \div 16 = x % 4
          /\ ((x % 4) * 16 + y \div 16) % 16 = y \div 16
      BY <1>4
    <2>2. /\ ((y % 16) * 4 + z \div 64) \div 4 = y % 16
          /\ ((y % 16) * 4 + z \div 64) % 4 = z \div 64
      BY <1>4
    <2>3. /\ (x \div 4) * 4 + (x % 4) = x /\ (y \div 16) * 16 + (y % 16) = y
          /\ (z \div 64) * 64 + (z % 64) = z
      BY <1>4
    <2> QED BY <1>4, <2>1, <2>2, <2>3
  <1> HIDE DEF b, o, p, x, y, z
  <1>9. CASE k = 4 * q /\ k % 4 = 0 /\ (k + 1) % 4 = 1
    <2>1. DecoderStep(k) = "a" /\ DecoderStep(k + 1) = "b" /\ Begun(text, k + 1) = c * 4
      BY <1>9 DEF DecoderStep, Begun
    <2>2. o = p
      <3>1. (3 * k) \div 4 = 3 * q /\ (3 * (k + 1)) \div 4 = 3 * q
        BY <1>3, <1>9
      <3> QED BY <3>1, Zenon DEF o, p
    <2> HIDE DEF c
    <2>3. decode_char([step |-> "a", plainchar |-> b, out |-> o], c)
            = [step |-> "b", plainchar |-> c * 4, out |-> o]
      BY <1>5, DecodesA, Zenon
    <2> QED BY <1>1, <1>2, <2>1, <2>2, <2>3, Zenon DEF c
  <1>10. CASE k = 4 * q + 1 /\ k % 4 = 1 /\ (k + 1) % 4 = 2
    <2>1. DecoderStep(k) = "b" /\ DecoderStep(k + 1) = "c" /\ Begun(text, k + 1) = (c % 16) * 16
      BY <1>10 DEF DecoderStep, Begun
    <2>2. b = (x \div 4) * 4
      <3>1. b = CharOf(text, k) * 4
        BY <1>10 DEF Begun, b
      <3> QED BY <1>6, <1>10, <3>1, Zenon
    <2>3. c = (x % 4) * 16 + y \div 16
      BY <1>6, <1>7, <1>10, Zenon
    <2> HIDE DEF c
    <2>4. b + c \div 16 = x
      BY <1>8, <2>2, <2>3, Zenon
    <2>5. Append(o, b + c \div 16) = p
      <3>1. o = Bytes(text, 3 * q) /\ p = Bytes(text, 3 * q + 1)
        <4>1. (3 * k) \div 4 = 3 * q /\ (3 * (k + 1)) \div 4 = 3 * q + 1
          BY <1>3, <1>10
        <4> QED BY <4>1, Zenon DEF o, p
      <3>2. Append(Bytes(text, 3 * q), x) = Bytes(text, 3 * q + 1)
        BY <1>7, OneByteMore DEF x
      <3> QED BY <2>4, <3>1, <3>2, Zenon
    <2>6. decode_char([step |-> "b", plainchar |-> b, out |-> o], c)
            = [step |-> "c", plainchar |-> (c % 16) * 16, out |-> Append(o, b + c \div 16)]
      BY <1>5, DecodesB, Zenon
    <2> QED BY <1>1, <1>2, <2>1, <2>5, <2>6, Zenon DEF c
  <1>11. CASE k = 4 * q + 2 /\ k % 4 = 2 /\ (k + 1) % 4 = 3
    <2>1. DecoderStep(k) = "c" /\ DecoderStep(k + 1) = "d" /\ Begun(text, k + 1) = (c % 4) * 64
      BY <1>11 DEF DecoderStep, Begun
    <2>2. b = (((x % 4) * 16 + y \div 16) % 16) * 16
      <3>1. b = (CharOf(text, k) % 16) * 16
        BY <1>11 DEF Begun, b
      <3> QED BY <1>6, <1>11, <3>1, Zenon
    <2>3. c = (y % 16) * 4 + z \div 64
      BY <1>6, <1>7, <1>11, Zenon
    <2> HIDE DEF c
    <2>4. b + c \div 4 = y
      BY <1>8, <2>2, <2>3, Zenon
    <2>5. Append(o, b + c \div 4) = p
      <3>1. o = Bytes(text, 3 * q + 1) /\ p = Bytes(text, 3 * q + 2)
        <4>1. (3 * k) \div 4 = 3 * q + 1 /\ (3 * (k + 1)) \div 4 = 3 * q + 2
          BY <1>3, <1>11
        <4> QED BY <4>1, Zenon DEF o, p
      <3>2. Append(Bytes(text, 3 * q + 1), y) = Bytes(text, 3 * q + 2)
        <4>1. y = ByteOf(text, (3 * q + 1) + 1)
          BY <1>7, Zenon DEF y
        <4>2. Append(Bytes(text, 3 * q + 1), y) = Bytes(text, (3 * q + 1) + 1)
          BY <1>7, <4>1, OneByteMore
        <4> QED BY <1>7, <4>2, Zenon
      <3> QED BY <2>4, <3>1, <3>2, Zenon
    <2>6. decode_char([step |-> "c", plainchar |-> b, out |-> o], c)
            = [step |-> "d", plainchar |-> (c % 4) * 64, out |-> Append(o, b + c \div 4)]
      BY <1>5, DecodesC, Zenon
    <2> QED BY <1>1, <1>2, <2>1, <2>5, <2>6, Zenon DEF c
  <1>12. CASE k = 4 * q + 3 /\ k % 4 = 3 /\ (k + 1) % 4 = 0
    <2>1. DecoderStep(k) = "d" /\ DecoderStep(k + 1) = "a" /\ Begun(text, k + 1) = 0
      BY <1>12 DEF DecoderStep, Begun
    <2>2. b = (((y % 16) * 4 + z \div 64) % 4) * 64
      <3>1. b = (CharOf(text, k) % 4) * 64
        BY <1>12 DEF Begun, b
      <3> QED BY <1>6, <1>12, <3>1, Zenon
    <2>3. c = z % 64
      BY <1>6, <1>7, <1>12, Zenon
    <2> HIDE DEF c
    <2>4. b + c = z
      BY <1>8, <2>2, <2>3, Zenon
    <2>5. Append(o, b + c) = p
      <3>1. o = Bytes(text, 3 * q + 2) /\ p = Bytes(text, 3 * q + 3)
        <4>1. (3 * k) \div 4 = 3 * q + 2 /\ (3 * (k + 1)) \div 4 = 3 * q + 3
          BY <1>3, <1>12
        <4> QED BY <4>1, Zenon DEF o, p
      <3>2. Append(Bytes(text, 3 * q + 2), z) = Bytes(text, 3 * q + 3)
        <4>1. z = ByteOf(text, (3 * q + 2) + 1)
          BY <1>7, Zenon DEF z
        <4>2. Append(Bytes(text, 3 * q + 2), z) = Bytes(text, (3 * q + 2) + 1)
          BY <1>7, <4>1, OneByteMore
        <4> QED BY <1>7, <4>2, Zenon
      <3> QED BY <2>4, <3>1, <3>2, Zenon
    <2>6. decode_char([step |-> "d", plainchar |-> b, out |-> o], c)
            = [step |-> "a", plainchar |-> 0, out |-> Append(o, b + c)]
      BY <1>5, DecodesD, Zenon
    <2> QED BY <1>1, <1>2, <2>1, <2>5, <2>6, Zenon DEF c
  <1> QED BY <1>3, <1>9, <1>10, <1>11, <1>12, Zenon

\* Padding is passed over.
LEMMA DecoderGoesOver ==
  ASSUME NEW text \in Texts, NEW k \in 1..Len(CodeOf(text))
  PROVE  decode_char(DecoderAt(text, k - 1), CodeOf(text)[k]) = DecoderAt(text, k)
  <1> DEFINE n == CharsOf(Len(text))
             m == 4 * ((Len(text) + 2) \div 3)
  <1>1. Len(text) \in Nat
    BY LenProperties DEF Texts
  <1>2. n \in Nat /\ m \in Nat
    BY <1>1 DEF CharsOf
  <1>3. CodeOf(text) = [i \in 1..m |-> IF i <= n THEN CharOf(text, i) ELSE Filler(text)]
    BY Zenon DEF CodeOf, FilledWith
  <1> HIDE DEF n, m
  <1>4. Len(CodeOf(text)) = m
    BY <1>2, <1>3
  <1>5. k \in 1..m /\ k \in Nat /\ k - 1 \in Nat /\ (k - 1) + 1 = k
    BY <1>2, <1>4
  <1>6. CodeOf(text)[k] = IF k <= n THEN CharOf(text, k) ELSE Filler(text)
    BY <1>3, <1>5, Zenon
  <1>7. CASE k <= n
    <2>1. CodeOf(text)[k] = CharOf(text, k)
      BY <1>6, <1>7, Zenon
    <2>2. k - 1 <= n
      BY <1>2, <1>5, <1>7
    <2>3. /\ DecoderAt(text, k - 1) = DecoderAfter(text, k - 1)
          /\ DecoderAt(text, k) = DecoderAfter(text, k)
      BY <1>7, <2>2, Zenon DEF DecoderAt, n
    <2>4. decode_char(DecoderAfter(text, k - 1), CharOf(text, (k - 1) + 1))
            = DecoderAfter(text, (k - 1) + 1)
      BY <1>5, DecoderGoesOn
    <2> QED BY <1>5, <2>1, <2>3, <2>4, Zenon
  <1>8. CASE ~(k <= n)
    <2>1. CodeOf(text)[k] = Filler(text)
      BY <1>6, <1>8, Zenon
    <2>2. DecoderAt(text, k - 1) = DecoderAfter(text, n)
      <3>1. CASE k - 1 <= n
        <4>1. k - 1 = n
          BY <1>2, <1>5, <1>8, <3>1
        <4> QED BY <4>1, Zenon DEF DecoderAt, n
      <3>2. CASE ~(k - 1 <= n)
        BY <3>2, Zenon DEF DecoderAt, n
      <3> QED BY <3>1, <3>2
    <2>3. DecoderAt(text, k) = DecoderAfter(text, n)
      BY <1>8, Zenon DEF DecoderAt, n
    <2>4. Filler(text) \in Int /\ Filler(text) >= 64
      <3>1. Filler(text) \in 64..65
        BY FillerIs, Zenon
      <3> HIDE DEF n
      <3> QED BY <3>1
    <2>5. decode_char(DecoderAfter(text, n), Filler(text)) = DecoderAfter(text, n)
      BY <2>4, DecodeSkips, Zenon
    <2> QED BY <2>1, <2>2, <2>3, <2>5, Zenon
  <1> QED BY <1>7, <1>8

\* So a block of the code leads from the state after i characters to the one after j,
\* also when a line end comes first.
LEMMA DecodesPart ==
  ASSUME NEW text \in Texts, NEW i \in 0..Len(CodeOf(text)), NEW j \in i..Len(CodeOf(text))
  PROVE  /\ base64_decode_block(DecoderAt(text, i), SubSeq(CodeOf(text), i + 1, j))
              = DecoderAt(text, j)
         /\ base64_decode_block(DecoderAt(text, i), <<LineEnd>> \o SubSeq(CodeOf(text), i + 1, j))
              = DecoderAt(text, j)
  <1> DEFINE code == CodeOf(text)
             u == SubSeq(code, i + 1, j)
             w == <<LineEnd>> \o u
             g == [k \in 0..(j - i) |-> DecoderAt(text, i + k)]
             h == [k \in 0..(j - i + 1) |-> DecoderAt(text, IF k = 0 THEN i ELSE i + k - 1)]
  <1>1. Len(code) \in Nat
    <2>1. Len(text) \in Nat
      BY LenProperties DEF Texts
    <2>2. 4 * ((Len(text) + 2) \div 3) \in Nat
      BY <2>1
    <2> QED BY <2>2 DEF CodeOf, FilledWith
  <1>2. i \in Nat /\ j \in Nat /\ i <= j /\ j <= Len(code)
    BY <1>1
  <1>3. Len(u) = j - i /\ (\A k \in 1..(j - i) : u[k] = code[i + k]) /\ u \in Seq({code[k] : k \in 1..Len(code)})
    <2>1. code \in Seq({code[k] : k \in 1..Len(code)})
      <3>1. code = [k \in 1..(4 * ((Len(text) + 2) \div 3)) |->
                      IF k <= CharsOf(Len(text)) THEN CharOf(text, k) ELSE Filler(text)]
        BY Zenon DEF CodeOf, FilledWith
      <3>2. code = [k \in 1..Len(code) |-> code[k]]
        BY <1>1, <3>1
      <3> HIDE DEF code
      <3> QED BY <1>1, <3>2
    <2> HIDE DEF code
    <2> QED BY <1>1, <1>2, <2>1
  <1> HIDE DEF u
  <1>4. Len(w) = j - i + 1 /\ w[1] = LineEnd /\ \A k \in 2..(j - i + 1) : w[k] = u[k - 1]
    BY <1>2, <1>3
  <1>5. ASSUME NEW k \in 1..(j - i)
        PROVE  decode_char(DecoderAt(text, i + k - 1), u[k]) = DecoderAt(text, i + k)
    <2>1. i + k \in 1..Len(code)
      BY <1>2
    <2>2. decode_char(DecoderAt(text, i + k - 1), code[i + k]) = DecoderAt(text, i + k)
      BY <2>1, DecoderGoesOver
    <2>3. u[k] = code[i + k]
      BY <1>3
    <2> QED BY <2>2, <2>3, Zenon
  <1> HIDE DEF code, w
  <1>6. base64_decode_block(DecoderAt(text, i), u) = DecoderAt(text, j)
    <2>1. \A k \in 1..Len(u) : g[k] = decode_char(g[k - 1], u[k])
      <3> SUFFICES ASSUME NEW k \in 1..(j - i) PROVE g[k] = decode_char(g[k - 1], u[k])
        BY <1>3
      <3>1. k \in 0..(j - i) /\ k - 1 \in 0..(j - i) /\ i + (k - 1) = i + k - 1
        BY <1>2
      <3>2. g[k] = DecoderAt(text, i + k) /\ g[k - 1] = DecoderAt(text, i + (k - 1))
        BY <3>1, Zenon
      <3> QED BY <1>5, <3>1, <3>2, Zenon
    <2>2. g[0] = DecoderAt(text, i) /\ g[j - i] = DecoderAt(text, j)
      <3>1. 0 \in 0..(j - i) /\ j - i \in 0..(j - i) /\ i + 0 = i /\ i + (j - i) = j
        BY <1>2
      <3>2. g[0] = DecoderAt(text, i + 0) /\ g[j - i] = DecoderAt(text, i + (j - i))
        BY <3>1, Zenon
      <3> QED BY <3>1, <3>2, Zenon
    <2>3. Len(u) \in Nat
      BY <1>2, <1>3
    <2> HIDE DEF g
    <2>4. base64_decode_block(DecoderAt(text, i), u) = g[Len(u)]
      BY <2>1, <2>2, <2>3, DecodeBlockEnds
    <2> QED BY <1>3, <2>2, <2>4, Zenon
  <1>7. base64_decode_block(DecoderAt(text, i), w) = DecoderAt(text, j)
    <2>1. \A k \in 1..Len(w) : h[k] = decode_char(h[k - 1], w[k])
      <3> SUFFICES ASSUME NEW k \in 1..(j - i + 1) PROVE h[k] = decode_char(h[k - 1], w[k])
        BY <1>4
      <3>1. CASE k = 1
        <4>1. 0 \in 0..(j - i + 1) /\ 1 \in 0..(j - i + 1) /\ 1 # 0 /\ i + 1 - 1 = i /\ 1 - 1 = 0
          BY <1>2
        <4>2. h[0] = DecoderAt(text, i) /\ h[1] = DecoderAt(text, i)
          BY <4>1, Zenon
        <4>3. LineEnd \in Int /\ LineEnd >= 64
          BY DEF LineEnd
        <4>4. decode_char(DecoderAt(text, i), LineEnd) = DecoderAt(text, i)
          BY <4>3, DecodeSkips, Zenon
        <4> QED BY <1>4, <3>1, <4>1, <4>2, <4>4, Zenon
      <3>2. CASE k # 1
        <4>1. /\ k \in 0..(j - i + 1) /\ k - 1 \in 0..(j - i + 1) /\ k # 0 /\ k - 1 # 0
              /\ k - 1 \in 1..(j - i) /\ i + k - 1 = i + (k - 1) /\ k \in 2..(j - i + 1)
          BY <1>2, <3>2
        <4>2. h[k] = DecoderAt(text, i + k - 1) /\ h[k - 1] = DecoderAt(text, i + (k - 1) - 1)
          BY <4>1, Zenon
        <4>3. w[k] = u[k - 1]
          BY <1>4, <4>1
        <4>4. decode_char(DecoderAt(text, i + (k - 1) - 1), u[k - 1]) = DecoderAt(text, i + (k - 1))
          BY <1>5, <4>1
        <4> QED BY <4>1, <4>2, <4>3, <4>4, Zenon
      <3> QED BY <3>1, <3>2
    <2>2. h[0] = DecoderAt(text, i) /\ h[j - i + 1] = DecoderAt(text, j)
      <3>1. /\ 0 \in 0..(j - i + 1) /\ j - i + 1 \in 0..(j - i + 1) /\ j - i + 1 # 0
            /\ i + (j - i + 1) - 1 = j
        BY <1>2
      <3>2. h[0] = DecoderAt(text, i) /\ h[j - i + 1] = DecoderAt(text, i + (j - i + 1) - 1)
        BY <3>1, Zenon
      <3> QED BY <3>1, <3>2, Zenon
    <2>3. Len(w) \in Nat
      BY <1>2, <1>4
    <2> HIDE DEF h
    <2>4. base64_decode_block(DecoderAt(text, i), w) = h[Len(w)]
      BY <2>1, <2>2, <2>3, DecodeBlockEnds
    <2> QED BY <1>4, <2>2, <2>4, Zenon
  <1> QED BY <1>6, <1>7, Zenon DEF u, w, code

\* What a code consists of.
LEMMA CodeIs ==
  ASSUME NEW text \in Texts
  PROVE  /\ Len(CodeOf(text)) = 4 * ((Len(text) + 2) \div 3)
         /\ CharsOf(Len(text)) \in Nat /\ CharsOf(Len(text)) <= Len(CodeOf(text))
         /\ (3 * CharsOf(Len(text))) \div 4 = Len(text)
         /\ CodeOf(text) \in Seq(0..65)
         /\ \A k \in 1..Len(CodeOf(text)) :
              CodeOf(text)[k] = IF k <= CharsOf(Len(text)) THEN CharOf(text, k) ELSE Filler(text)
  <1> DEFINE n == Len(text)
             m == 4 * ((n + 2) \div 3)
             v == CharsOf(n)
             code == CodeOf(text)
  <1>1. n \in Nat
    BY LenProperties DEF Texts
  <1>2. code = [k \in 1..m |-> IF k <= v THEN CharOf(text, k) ELSE Filler(text)]
    BY Zenon DEF CodeOf, FilledWith
  <1> HIDE DEF n, code
  <1>3. m \in Nat /\ v \in Nat /\ v <= m /\ (3 * v) \div 4 = n
    <2>1. PICK q \in Nat : n = 3 * q \/ n = 3 * q + 1 \/ n = 3 * q + 2
      BY <1>1, Threes
    <2> QED BY <2>1 DEF CharsOf
  <1> HIDE DEF m, v
  <1>4. Len(code) = m /\ \A k \in 1..m : code[k] = IF k <= v THEN CharOf(text, k) ELSE Filler(text)
    BY <1>2, <1>3
  <1>5. ASSUME NEW k \in 1..m PROVE (IF k <= v THEN CharOf(text, k) ELSE Filler(text)) \in 0..65
    <2>1. CharOf(text, k) \in 0..63
      BY <1>3, BytesAndChars
    <2>2. Filler(text) \in 0..65
      BY FillerIs
    <2> QED BY <2>1, <2>2
  <1>6. code \in Seq(0..65)
    BY <1>2, <1>3, <1>5
  <1> QED BY <1>3, <1>4, <1>6, Zenon DEF n, m, v, code

\* The decoder begins with the state after no character, and the one after all of them
\* holds the text.
LEMMA DecoderEnds ==
  ASSUME NEW text \in Texts
  PROVE  NewDecoder = DecoderAt(text, 0) /\ DecoderAt(text, Len(CodeOf(text))).out = text
  <1> DEFINE n == Len(text)
             v == CharsOf(n)
             m == Len(CodeOf(text))
  <1>1. n \in Nat /\ text \in Seq(Octets)
    BY LenProperties DEF Texts
  <1>2. v \in Nat /\ v <= m /\ m \in Nat /\ (3 * v) \div 4 = n
    <2>1. m = 4 * ((n + 2) \div 3)
      BY CodeIs
    <2>2. m \in Nat
      BY <1>1, <2>1
    <2> QED BY <2>2, CodeIs
  <1> HIDE DEF m, v
  <1>3. NewDecoder = DecoderAt(text, 0)
    <2>1. DecoderStep(0) = "a" /\ Begun(text, 0) = 0 /\ Bytes(text, (3 * 0) \div 4) = <<>>
      BY DEF DecoderStep, Begun, Bytes
    <2>2. NewDecoder = DecoderAfter(text, 0)
      BY <2>1, Zenon DEF NewDecoder, DecoderAfter
    <2>3. 0 <= v
      BY <1>2
    <2> QED BY <2>2, <2>3, Zenon DEF DecoderAt, v
  <1>4. DecoderAt(text, m) = DecoderAfter(text, v)
    <2>1. CASE m <= v
      <3>1. m = v
        BY <1>2, <2>1
      <3> QED BY <2>1, <3>1, Zenon DEF DecoderAt, v
    <2>2. CASE ~(m <= v)
      BY <2>2, Zenon DEF DecoderAt, v
    <2> QED BY <2>1, <2>2
  <1>5. DecoderAfter(text, v).out = Bytes(text, n)
    BY <1>2, Zenon DEF DecoderAfter
  <1>6. Bytes(text, n) = text
    BY <1>1 DEF Bytes, ByteOf
  <1> QED BY <1>3, <1>4, <1>5, <1>6, Zenon DEF m

\* decode() is the inverse of encode().
THEOREM DecodesWhatWasEncoded ==
  ASSUME NEW text \in Texts
  PROVE  decode(encode(text)) = text
  <1> DEFINE code == CodeOf(text)
             m == Len(code)
  <1>1. m \in Nat /\ code \in Seq(0..65)
    <2>1. code \in Seq(0..65)
      BY CodeIs
    <2> QED BY <2>1, LenProperties
  <1> HIDE DEF code
  <1>2. SubSeq(code, 0 + 1, m) = code
    BY <1>1
  <1>3. 0 \in 0..m /\ m \in 0..m
    BY <1>1
  <1>4. base64_decode_block(DecoderAt(text, 0), SubSeq(code, 0 + 1, m)) = DecoderAt(text, m)
    BY <1>3, DecodesPart DEF code
  <1>5. base64_decode_block(NewDecoder, code).out = text
    BY <1>2, <1>4, DecoderEnds, Zenon DEF code
  <1>6. encode(text) = code
    BY Encoded DEF code
  <1> QED BY <1>5, <1>6, Zenon DEF decode

\* The bits of the characters are those of the bytes: 24 of each three.
FirstAgrees(x) ==
  /\ ((x \div 4) \div 32) % 2 = (x \div 128) % 2 /\ ((x \div 4) \div 16) % 2 = (x \div 64) % 2
  /\ ((x \div 4) \div 8) % 2 = (x \div 32) % 2 /\ ((x \div 4) \div 4) % 2 = (x \div 16) % 2
  /\ ((x \div 4) \div 2) % 2 = (x \div 8) % 2 /\ ((x \div 4) \div 1) % 2 = (x \div 4) % 2

LEMMA FirstBits ==
  ASSUME NEW x \in 0..255
  PROVE  FirstAgrees(x)
  <1>1. ((x \div 4) \div 32) % 2 = (x \div 128) % 2 /\ ((x \div 4) \div 16) % 2 = (x \div 64) % 2
    OBVIOUS
  <1>2. ((x \div 4) \div 8) % 2 = (x \div 32) % 2 /\ ((x \div 4) \div 4) % 2 = (x \div 16) % 2
    OBVIOUS
  <1>3. ((x \div 4) \div 2) % 2 = (x \div 8) % 2 /\ ((x \div 4) \div 1) % 2 = (x \div 4) % 2
    OBVIOUS
  <1> QED BY <1>1, <1>2, <1>3, Zenon DEF FirstAgrees

SecondAgrees(x, y) ==
  LET t == (x % 4) * 16 + y \div 16
  IN /\ (t \div 32) % 2 = (x \div 2) % 2 /\ (t \div 16) % 2 = (x \div 1) % 2
     /\ (t \div 8) % 2 = (y \div 128) % 2 /\ (t \div 4) % 2 = (y \div 64) % 2
     /\ (t \div 2) % 2 = (y \div 32) % 2 /\ (t \div 1) % 2 = (y \div 16) % 2

LEMMA SecondBits ==
  ASSUME NEW x \in 0..255, NEW y \in 0..255
  PROVE  SecondAgrees(x, y)
  <1> DEFINE t == (x % 4) * 16 + y \div 16
             v == x % 4
             w == y \div 16
  <1>1. v \in 0..3 /\ w \in 0..15 /\ t = v * 16 + w
    OBVIOUS
  <1>2. (v \div 2) % 2 = (x \div 2) % 2 /\ v % 2 = (x \div 1) % 2
    OBVIOUS
  <1>3. /\ (w \div 8) % 2 = (y \div 128) % 2 /\ (w \div 4) % 2 = (y \div 64) % 2
        /\ (w \div 2) % 2 = (y \div 32) % 2 /\ w % 2 = (y \div 16) % 2
    OBVIOUS
  <1> HIDE DEF v, w, t
  <1>4. (t \div 32) % 2 = (v \div 2) % 2 /\ (t \div 16) % 2 = v % 2
    BY <1>1
  <1>5. (t \div 8) % 2 = (w \div 8) % 2 /\ (t \div 4) % 2 = (w \div 4) % 2
    BY <1>1
  <1>6. (t \div 2) % 2 = (w \div 2) % 2 /\ (t \div 1) % 2 = w % 2
    BY <1>1
  <1> QED BY <1>2, <1>3, <1>4, <1>5, <1>6, Zenon DEF t, SecondAgrees

ThirdAgrees(y, z) ==
  LET u == (y % 16) * 4 + z \div 64
  IN /\ (u \div 32) % 2 = (y \div 8) % 2 /\ (u \div 16) % 2 = (y \div 4) % 2
     /\ (u \div 8) % 2 = (y \div 2) % 2 /\ (u \div 4) % 2 = (y \div 1) % 2
     /\ (u \div 2) % 2 = (z \div 128) % 2 /\ (u \div 1) % 2 = (z \div 64) % 2

LEMMA ThirdBits ==
  ASSUME NEW y \in 0..255, NEW z \in 0..255
  PROVE  ThirdAgrees(y, z)
  <1> DEFINE u == (y % 16) * 4 + z \div 64
             v == y % 16
             w == z \div 64
  <1>1. v \in 0..15 /\ w \in 0..3 /\ u = v * 4 + w
    OBVIOUS
  <1>2. /\ (v \div 8) % 2 = (y \div 8) % 2 /\ (v \div 4) % 2 = (y \div 4) % 2
        /\ (v \div 2) % 2 = (y \div 2) % 2 /\ v % 2 = (y \div 1) % 2
    OBVIOUS
  <1>3. (w \div 2) % 2 = (z \div 128) % 2 /\ w % 2 = (z \div 64) % 2
    OBVIOUS
  <1> HIDE DEF v, w, u
  <1>4. (u \div 32) % 2 = (v \div 8) % 2 /\ (u \div 16) % 2 = (v \div 4) % 2
    BY <1>1
  <1>5. (u \div 8) % 2 = (v \div 2) % 2 /\ (u \div 4) % 2 = v % 2
    BY <1>1
  <1>6. (u \div 2) % 2 = (w \div 2) % 2 /\ (u \div 1) % 2 = w % 2
    BY <1>1
  <1> QED BY <1>2, <1>3, <1>4, <1>5, <1>6, Zenon DEF u, ThirdAgrees

FourthAgrees(z) ==
  /\ ((z % 64) \div 32) % 2 = (z \div 32) % 2 /\ ((z % 64) \div 16) % 2 = (z \div 16) % 2
  /\ ((z % 64) \div 8) % 2 = (z \div 8) % 2 /\ ((z % 64) \div 4) % 2 = (z \div 4) % 2
  /\ ((z % 64) \div 2) % 2 = (z \div 2) % 2 /\ ((z % 64) \div 1) % 2 = (z \div 1) % 2

LEMMA FourthBits ==
  ASSUME NEW z \in 0..255
  PROVE  FourthAgrees(z)
  <1>1. ((z % 64) \div 32) % 2 = (z \div 32) % 2 /\ ((z % 64) \div 16) % 2 = (z \div 16) % 2
    OBVIOUS
  <1>2. ((z % 64) \div 8) % 2 = (z \div 8) % 2 /\ ((z % 64) \div 4) % 2 = (z \div 4) % 2
    OBVIOUS
  <1>3. ((z % 64) \div 2) % 2 = (z \div 2) % 2 /\ ((z % 64) \div 1) % 2 = (z \div 1) % 2
    OBVIOUS
  <1> QED BY <1>1, <1>2, <1>3, Zenon DEF FourthAgrees

\* Bit p of three bytes is in this character, and in this byte.
WithBit(p, x, y, z) ==
  IF p < 6 THEN x \div 4
  ELSE IF p < 12 THEN (x % 4) * 16 + y \div 16
  ELSE IF p < 18 THEN (y % 16) * 4 + z \div 64 ELSE z % 64
OfBit(p, x, y, z) == IF p < 8 THEN x ELSE IF p < 16 THEN y ELSE z

BitAgrees(p, x, y, z) ==
  (WithBit(p, x, y, z) \div Powers[6 - (p % 6)]) % 2
    = (OfBit(p, x, y, z) \div Powers[8 - (p % 8)]) % 2

LEMMA SameBits ==
  ASSUME NEW x \in 0..255, NEW y \in 0..255, NEW z \in 0..255, NEW p \in 0..23
  PROVE  BitAgrees(p, x, y, z)
  <1> DEFINE c == WithBit(p, x, y, z)
             b == OfBit(p, x, y, z)
  <1> SUFFICES (c \div Powers[6 - (p % 6)]) % 2 = (b \div Powers[8 - (p % 8)]) % 2
    BY Zenon DEF BitAgrees
  <1> HIDE DEF c, b
  <1>1. /\ Powers[1] = 1 /\ Powers[2] = 2 /\ Powers[3] = 4 /\ Powers[4] = 8 /\ Powers[5] = 16
        /\ Powers[6] = 32 /\ Powers[7] = 64 /\ Powers[8] = 128
    BY DEF Powers
  <1>2. CASE p \in 0..5
    <2>1. c = x \div 4
      BY <1>2 DEF c, WithBit
    <2>0. FirstAgrees(x)
      BY FirstBits, Zenon
    <2>2. CASE p = 0
      <3>1. b = x /\ Powers[6 - (p % 6)] = 32 /\ Powers[8 - (p % 8)] = 128
        BY <1>1, <2>2 DEF b, OfBit
      <3>2. ((x \div 4) \div 32) % 2 = (x \div 128) % 2
        BY <2>0, Zenon DEF FirstAgrees
      <3> QED BY <2>1, <3>1, <3>2, Zenon
    <2>3. CASE p = 1
      <3>1. b = x /\ Powers[6 - (p % 6)] = 16 /\ Powers[8 - (p % 8)] = 64
        BY <1>1, <2>3 DEF b, OfBit
      <3>2. ((x \div 4) \div 16) % 2 = (x \div 64) % 2
        BY <2>0, Zenon DEF FirstAgrees
      <3> QED BY <2>1, <3>1, <3>2, Zenon
    <2>4. CASE p = 2
      <3>1. b = x /\ Powers[6 - (p % 6)] = 8 /\ Powers[8 - (p % 8)] = 32
        BY <1>1, <2>4 DEF b, OfBit
      <3>2. ((x \div 4) \div 8) % 2 = (x \div 32) % 2
        BY <2>0, Zenon DEF FirstAgrees
      <3> QED BY <2>1, <3>1, <3>2, Zenon
    <2>5. CASE p = 3
      <3>1. b = x /\ Powers[6 - (p % 6)] = 4 /\ Powers[8 - (p % 8)] = 16
        BY <1>1, <2>5 DEF b, OfBit
      <3>2. ((x \div 4) \div 4) % 2 = (x \div 16) % 2
        BY <2>0, Zenon DEF FirstAgrees
      <3> QED BY <2>1, <3>1, <3>2, Zenon
    <2>6. CASE p = 4
      <3>1. b = x /\ Powers[6 - (p % 6)] = 2 /\ Powers[8 - (p % 8)] = 8
        BY <1>1, <2>6 DEF b, OfBit
      <3>2. ((x \div 4) \div 2) % 2 = (x \div 8) % 2
        BY <2>0, Zenon DEF FirstAgrees
      <3> QED BY <2>1, <3>1, <3>2, Zenon
    <2>7. CASE p = 5
      <3>1. b = x /\ Powers[6 - (p % 6)] = 1 /\ Powers[8 - (p % 8)] = 4
        BY <1>1, <2>7 DEF b, OfBit
      <3>2. ((x \div 4) \div 1) % 2 = (x \div 4) % 2
        BY <2>0, Zenon DEF FirstAgrees
      <3> QED BY <2>1, <3>1, <3>2, Zenon
    <2> QED BY <1>2, <2>2, <2>3, <2>4, <2>5, <2>6, <2>7
  <1>3. CASE p \in 6..11
    <2>1. c = (x % 4) * 16 + y \div 16
      BY <1>3 DEF c, WithBit
    <2>0. SecondAgrees(x, y)
      BY SecondBits, Zenon
    <2>2. CASE p = 6
      <3>1. b = x /\ Powers[6 - (p % 6)] = 32 /\ Powers[8 - (p % 8)] = 2
        BY <1>1, <2>2 DEF b, OfBit
      <3>2. (((x % 4) * 16 + y \div 16) \div 32) % 2 = (x \div 2) % 2
        BY <2>0, Zenon DEF SecondAgrees
      <3> QED BY <2>1, <3>1, <3>2, Zenon
    <2>3. CASE p = 7
      <3>1. b = x /\ Powers[6 - (p % 6)] = 16 /\ Powers[8 - (p % 8)] = 1
        BY <1>1, <2>3 DEF b, OfBit
      <3>2. (((x % 4) * 16 + y \div 16) \div 16) % 2 = (x \div 1) % 2
        BY <2>0, Zenon DEF SecondAgrees
      <3> QED BY <2>1, <3>1, <3>2, Zenon
    <2>4. CASE p = 8
      <3>1. b = y /\ Powers[6 - (p % 6)] = 8 /\ Powers[8 - (p % 8)] = 128
        BY <1>1, <2>4 DEF b, OfBit
      <3>2. (((x % 4) * 16 + y \div 16) \div 8) % 2 = (y \div 128) % 2
        BY <2>0, Zenon DEF SecondAgrees
      <3> QED BY <2>1, <3>1, <3>2, Zenon
    <2>5. CASE p = 9
      <3>1. b = y /\ Powers[6 - (p % 6)] = 4 /\ Powers[8 - (p % 8)] = 64
        BY <1>1, <2>5 DEF b, OfBit
      <3>2. (((x % 4) * 16 + y \div 16) \div 4) % 2 = (y \div 64) % 2
        BY <2>0, Zenon DEF SecondAgrees
      <3> QED BY <2>1, <3>1, <3>2, Zenon
    <2>6. CASE p = 10
      <3>1. b = y /\ Powers[6 - (p % 6)] = 2 /\ Powers[8 - (p % 8)] = 32
        BY <1>1, <2>6 DEF b, OfBit
      <3>2. (((x % 4) * 16 + y \div 16) \div 2) % 2 = (y \div 32) % 2
        BY <2>0, Zenon DEF SecondAgrees
      <3> QED BY <2>1, <3>1, <3>2, Zenon
    <2>7. CASE p = 11
      <3>1. b = y /\ Powers[6 - (p % 6)] = 1 /\ Powers[8 - (p % 8)] = 16
        BY <1>1, <2>7 DEF b, OfBit
      <3>2. (((x % 4) * 16 + y \div 16) \div 1) % 2 = (y \div 16) % 2
        BY <2>0, Zenon DEF SecondAgrees
      <3> QED BY <2>1, <3>1, <3>2, Zenon
    <2> QED BY <1>3, <2>2, <2>3, <2>4, <2>5, <2>6, <2>7
  <1>4. CASE p \in 12..17
    <2>1. c = (y % 16) * 4 + z \div 64
      BY <1>4 DEF c, WithBit
    <2>0. ThirdAgrees(y, z)
      BY ThirdBits, Zenon
    <2>2. CASE p = 12
      <3>1. b = y /\ Powers[6 - (p % 6)] = 32 /\ Powers[8 - (p % 8)] = 8
        BY <1>1, <2>2 DEF b, OfBit
      <3>2. (((y % 16) * 4 + z \div 64) \div 32) % 2 = (y \div 8) % 2
        BY <2>0, Zenon DEF ThirdAgrees
      <3> QED BY <2>1, <3>1, <3>2, Zenon
    <2>3. CASE p = 13
      <3>1. b = y /\ Powers[6 - (p % 6)] = 16 /\ Powers[8 - (p % 8)] = 4
        BY <1>1, <2>3 DEF b, OfBit
      <3>2. (((y % 16) * 4 + z \div 64) \div 16) % 2 = (y \div 4) % 2
        BY <2>0, Zenon DEF ThirdAgrees
      <3> QED BY <2>1, <3>1, <3>2, Zenon
    <2>4. CASE p = 14
      <3>1. b = y /\ Powers[6 - (p % 6)] = 8 /\ Powers[8 - (p % 8)] = 2
        BY <1>1, <2>4 DEF b, OfBit
      <3>2. (((y % 16) * 4 + z \div 64) \div 8) % 2 = (y \div 2) % 2
        BY <2>0, Zenon DEF ThirdAgrees
      <3> QED BY <2>1, <3>1, <3>2, Zenon
    <2>5. CASE p = 15
      <3>1. b = y /\ Powers[6 - (p % 6)] = 4 /\ Powers[8 - (p % 8)] = 1
        BY <1>1, <2>5 DEF b, OfBit
      <3>2. (((y % 16) * 4 + z \div 64) \div 4) % 2 = (y \div 1) % 2
        BY <2>0, Zenon DEF ThirdAgrees
      <3> QED BY <2>1, <3>1, <3>2, Zenon
    <2>6. CASE p = 16
      <3>1. b = z /\ Powers[6 - (p % 6)] = 2 /\ Powers[8 - (p % 8)] = 128
        BY <1>1, <2>6 DEF b, OfBit
      <3>2. (((y % 16) * 4 + z \div 64) \div 2) % 2 = (z \div 128) % 2
        BY <2>0, Zenon DEF ThirdAgrees
      <3> QED BY <2>1, <3>1, <3>2, Zenon
    <2>7. CASE p = 17
      <3>1. b = z /\ Powers[6 - (p % 6)] = 1 /\ Powers[8 - (p % 8)] = 64
        BY <1>1, <2>7 DEF b, OfBit
      <3>2. (((y % 16) * 4 + z \div 64) \div 1) % 2 = (z \div 64) % 2
        BY <2>0, Zenon DEF ThirdAgrees
      <3> QED BY <2>1, <3>1, <3>2, Zenon
    <2> QED BY <1>4, <2>2, <2>3, <2>4, <2>5, <2>6, <2>7
  <1>5. CASE p \in 18..23
    <2>1. c = z % 64
      BY <1>5 DEF c, WithBit
    <2>0. FourthAgrees(z)
      BY FourthBits, Zenon
    <2>2. CASE p = 18
      <3>1. b = z /\ Powers[6 - (p % 6)] = 32 /\ Powers[8 - (p % 8)] = 32
        BY <1>1, <2>2 DEF b, OfBit
      <3>2. ((z % 64) \div 32) % 2 = (z \div 32) % 2
        BY <2>0, Zenon DEF FourthAgrees
      <3> QED BY <2>1, <3>1, <3>2, Zenon
    <2>3. CASE p = 19
      <3>1. b = z /\ Powers[6 - (p % 6)] = 16 /\ Powers[8 - (p % 8)] = 16
        BY <1>1, <2>3 DEF b, OfBit
      <3>2. ((z % 64) \div 16) % 2 = (z \div 16) % 2
        BY <2>0, Zenon DEF FourthAgrees
      <3> QED BY <2>1, <3>1, <3>2, Zenon
    <2>4. CASE p = 20
      <3>1. b = z /\ Powers[6 - (p % 6)] = 8 /\ Powers[8 - (p % 8)] = 8
        BY <1>1, <2>4 DEF b, OfBit
      <3>2. ((z % 64) \div 8) % 2 = (z \div 8) % 2
        BY <2>0, Zenon DEF FourthAgrees
      <3> QED BY <2>1, <3>1, <3>2, Zenon
    <2>5. CASE p = 21
      <3>1. b = z /\ Powers[6 - (p % 6)] = 4 /\ Powers[8 - (p % 8)] = 4
        BY <1>1, <2>5 DEF b, OfBit
      <3>2. ((z % 64) \div 4) % 2 = (z \div 4) % 2
        BY <2>0, Zenon DEF FourthAgrees
      <3> QED BY <2>1, <3>1, <3>2, Zenon
    <2>6. CASE p = 22
      <3>1. b = z /\ Powers[6 - (p % 6)] = 2 /\ Powers[8 - (p % 8)] = 2
        BY <1>1, <2>6 DEF b, OfBit
      <3>2. ((z % 64) \div 2) % 2 = (z \div 2) % 2
        BY <2>0, Zenon DEF FourthAgrees
      <3> QED BY <2>1, <3>1, <3>2, Zenon
    <2>7. CASE p = 23
      <3>1. b = z /\ Powers[6 - (p % 6)] = 1 /\ Powers[8 - (p % 8)] = 1
        BY <1>1, <2>7 DEF b, OfBit
      <3>2. ((z % 64) \div 1) % 2 = (z \div 1) % 2
        BY <2>0, Zenon DEF FourthAgrees
      <3> QED BY <2>1, <3>1, <3>2, Zenon
    <2> QED BY <1>5, <2>2, <2>3, <2>4, <2>5, <2>6, <2>7
  <1> QED BY <1>2, <1>3, <1>4, <1>5

LEMMA BitsAreThose ==
  ASSUME NEW text \in Texts, NEW i \in 1..(6 * CharsOf(Len(text)))
  PROVE  Bits(SubSeq(CodeOf(text), 1, CharsOf(Len(text))), 6)[i]
           = IF i <= 8 * Len(text) THEN Bits(text, 8)[i] ELSE 0
  <1> DEFINE n == Len(text)
             v == CharsOf(n)
             code == CodeOf(text)
             values == SubSeq(code, 1, v)
             e == i - 1
             q == e \div 24
             p == e % 24
             k == e \div 6 + 1
             j == e \div 8 + 1
             x == ByteOf(text, 3 * q + 1)
             y == ByteOf(text, 3 * q + 2)
             z == ByteOf(text, 3 * q + 3)
             c == WithBit(p, x, y, z)
             b == OfBit(p, x, y, z)
  <1>1. n \in Nat /\ v \in Nat /\ v <= Len(code) /\ code \in Seq(0..65)
    <2>1. n \in Nat
      BY LenProperties DEF Texts
    <2> QED BY <2>1, CodeIs
  <1>2. Len(values) = v /\ \A m \in 1..v : values[m] = code[m]
    <2> HIDE DEF v, code
    <2> QED BY <1>1
  <1>3. i \in 1..(6 * v)
    OBVIOUS
  <1> HIDE DEF n, v, values, code
  <1>4. q \in Nat /\ p \in 0..23 /\ e = 24 * q + p /\ k \in 1..v /\ j \in Nat \ {0}
    <2>1. e \in Nat /\ e < 6 * v
      BY <1>1, <1>3
    <2> HIDE DEF e
    <2>2. q \in Nat /\ p \in 0..23 /\ e = 24 * q + p
      BY <2>1
    <2>3. k \in 1..v
      BY <1>1, <2>1
    <2>4. j \in Nat \ {0}
      BY <2>1
    <2> QED BY <2>2, <2>3, <2>4
  <1>5. /\ (k - 1) \div 4 = q /\ (k - 1) % 4 = p \div 6 /\ e % 6 = p % 6
        /\ j = 3 * q + p \div 8 + 1 /\ e % 8 = p % 8 /\ (j <= n <=> i <= 8 * n)
    <2>1. e \in Nat /\ i = e + 1
      BY <1>1, <1>3
    <2> HIDE DEF e
    <2>2. q \in Nat /\ p \in 0..23 /\ e = 24 * q + p
      BY <2>1
    <2>3. k - 1 = e \div 6 /\ j <= n <=> e < 8 * n
      BY <1>1, <2>1
    <2>4. j <= n <=> i <= 8 * n
      BY <1>1, <2>1
    <2> HIDE DEF q, p
    <2>5. e % 6 = p % 6 /\ e % 8 = p % 8 /\ j = 3 * q + p \div 8 + 1
      BY <2>2
    <2>6. k - 1 = 4 * q + p \div 6
      BY <2>2
    <2>7. (k - 1) \div 4 = q /\ (k - 1) % 4 = p \div 6
      BY <2>2, <2>6
    <2> QED BY <2>4, <2>5, <2>7
  <1> HIDE DEF e, q, p, k, j
  <1>6. x \in 0..255 /\ y \in 0..255 /\ z \in 0..255
    <2>1. 3 * q + 1 \in Int /\ 3 * q + 1 >= 1 /\ 3 * q + 2 \in Int /\ 3 * q + 2 >= 1
          /\ 3 * q + 3 \in Int /\ 3 * q + 3 >= 1
      BY <1>4
    <2> QED BY <2>1, BytesAndChars
  <1>7. code[k] = c
    <2>1. code[k] = CharOf(text, k)
      <3>1. k \in 1..Len(code) /\ k <= v
        BY <1>1, <1>4
      <3>2. code[k] = IF k <= v THEN CharOf(text, k) ELSE Filler(text)
        BY <3>1, CodeIs DEF code, v, n
      <3> QED BY <3>1, <3>2
    <2>2. CharOf(text, k) = CharAt(text, q, p \div 6)
      BY <1>5, Zenon DEF CharOf
    <2>3. CharAt(text, q, p \div 6)
            = IF p \div 6 = 0 THEN x \div 4
              ELSE IF p \div 6 = 1 THEN (x % 4) * 16 + y \div 16
              ELSE IF p \div 6 = 2 THEN (y % 16) * 4 + z \div 64 ELSE z % 64
      BY Zenon DEF CharAt
    <2>4. (p \div 6 = 0 <=> p < 6) /\ (p \div 6 = 1 <=> p >= 6 /\ p < 12)
          /\ (p \div 6 = 2 <=> p >= 12 /\ p < 18)
      BY <1>4
    <2>5. CharAt(text, q, p \div 6) = c
      <3> HIDE DEF x, y, z
      <3> QED BY <1>4, <2>3, <2>4 DEF WithBit
    <2> QED BY <2>1, <2>2, <2>5, Zenon
  <1>8. ByteOf(text, j) = b
    <2>1. CASE p < 8
      <3>1. j = 3 * q + 1
        BY <1>4, <1>5, <2>1
      <3> QED BY <2>1, <3>1, Zenon DEF OfBit
    <2>2. CASE p >= 8 /\ p < 16
      <3>1. j = 3 * q + 2 /\ ~(p < 8)
        BY <1>4, <1>5, <2>2
      <3> QED BY <2>2, <3>1, Zenon DEF OfBit
    <2>3. CASE p >= 16
      <3>1. j = 3 * q + 3 /\ ~(p < 8) /\ ~(p < 16)
        BY <1>4, <1>5, <2>3
      <3> QED BY <3>1, Zenon DEF OfBit
    <2> QED BY <1>4, <2>1, <2>2, <2>3
  <1>9. (c \div Powers[6 - (p % 6)]) % 2 = (b \div Powers[8 - (p % 8)]) % 2
    <2> HIDE DEF x, y, z
    <2>1. x \in 0..255 /\ y \in 0..255 /\ z \in 0..255 /\ p \in 0..23
      BY <1>4, <1>6
    <2> HIDE DEF p
    <2>2. BitAgrees(p, x, y, z)
      BY <2>1, SameBits, Zenon
    <2> QED BY <2>2, Zenon DEF BitAgrees
  <1> HIDE DEF b, c
  <1>10. Bits(values, 6)[i] = (values[k] \div Powers[6 - (e % 6)]) % 2
    <2>1. Bits(values, 6) = [m \in 1..(6 * v) |->
                               (values[(m - 1) \div 6 + 1] \div Powers[6 - ((m - 1) % 6)]) % 2]
      BY <1>2, Zenon DEF Bits
    <2> QED BY <1>3, <2>1, Zenon DEF e, k
  <1>11. Bits(values, 6)[i] = (ByteOf(text, j) \div Powers[8 - (e % 8)]) % 2
    BY <1>2, <1>4, <1>5, <1>7, <1>8, <1>9, <1>10, Zenon
  <1>12. CASE i <= 8 * n
    <2>1. ByteOf(text, j) = text[j]
      BY <1>5, <1>12, Zenon DEF ByteOf, n
    <2>2. Bits(text, 8) = [m \in 1..(8 * n) |->
                             (text[(m - 1) \div 8 + 1] \div Powers[8 - ((m - 1) % 8)]) % 2]
      BY Zenon DEF Bits, n
    <2>3. i \in 1..(8 * n)
      BY <1>1, <1>3, <1>12
    <2>4. Bits(text, 8)[i] = (text[j] \div Powers[8 - (e % 8)]) % 2
      BY <2>2, <2>3, Zenon DEF e, j
    <2> QED BY <1>11, <1>12, <2>1, <2>4, Zenon DEF n, v, values, code
  <1>13. CASE ~(i <= 8 * n)
    <2>1. ByteOf(text, j) = 0
      BY <1>5, <1>13, Zenon DEF ByteOf, n
    <2>2. Powers[8 - (e % 8)] \in Nat \ {0}
      <3>1. 8 - (e % 8) \in 1..8
        BY <1>4, <1>5
      <3>2. \A m \in 1..8 : Powers[m] \in Nat \ {0}
        BY DEF Powers
      <3> QED BY <3>1, <3>2
    <2>3. (0 \div Powers[8 - (e % 8)]) % 2 = 0
      BY <2>2
    <2> QED BY <1>11, <1>13, <2>1, <2>3, Zenon DEF n, v, values, code
  <1> QED BY <1>12, <1>13

\* Base64 for every text, cut anywhere.
THEOREM CodesAlwaysFaithfully ==
  ASSUME NEW text \in Texts, NEW cut \in 0..Len(text)
  PROVE  CodesFaithfully(text, cut)
  <1> DEFINE n == Len(text)
             v == CharsOf(n)
             code == CodeOf(text)
             values == SubSeq(code, 1, v)
             m == Len(code)
             at == (cut * 4) \div 3
             rest == SubSeq(code, at + 1, m)
  <1>1. n \in Nat /\ text \in Seq(Octets)
    BY LenProperties DEF Texts
  <1>2. encode(text) = code
    BY Encoded
  <1>3. /\ m = 4 * ((n + 2) \div 3) /\ m \in Nat /\ v \in Nat /\ v <= m /\ code \in Seq(0..65)
        /\ \A k \in 1..m : code[k] = IF k <= v THEN CharOf(text, k) ELSE Filler(text)
    BY <1>1, CodeIs
  <1>4. at \in 0..m
    <2>1. cut \in 0..n
      OBVIOUS
    <2> HIDE DEF n, m
    <2> QED BY <1>1, <1>3, <2>1
  <1>5. Len(values) = v
    BY <1>3
  <1>6. \A k \in 1..m : IF k <= v THEN code[k] \in 0..63 ELSE code[k] = Filler(text)
    <2> SUFFICES ASSUME NEW k \in 1..m PROVE IF k <= v THEN code[k] \in 0..63 ELSE code[k] = Filler(text)
      OBVIOUS
    <2>1. CharOf(text, k) \in 0..63
      <3>1. k \in Int /\ k >= 1
        <4> HIDE DEF m
        <4> QED BY <1>3
      <3> QED BY <3>1, BytesAndChars
    <2>2. code[k] = IF k <= v THEN CharOf(text, k) ELSE Filler(text)
      BY <1>3
    <2> HIDE DEF v, code, m
    <2> QED BY <2>1, <2>2
  <1>7. \A i \in 1..(6 * v) :
          Bits(values, 6)[i] = IF i <= 8 * n THEN Bits(text, 8)[i] ELSE 0
    BY BitsAreThose
  <1>8. base64_encode_blockend(base64_encode_block(base64_encode_block(NewEncoder,
          SubSeq(text, 1, cut)), SubSeq(text, cut + 1, n))) = coded(text)
    <2>1. 0 \in 0..n /\ cut \in 0..n /\ n \in cut..n /\ cut \in 0..n /\ 0 + 1 = 1
      BY <1>1
    <2>2. base64_encode_block(EncoderAt(text, 0), SubSeq(text, 0 + 1, cut)) = EncoderAt(text, cut)
      BY <2>1, EncodesPart
    <2>3. base64_encode_block(EncoderAt(text, cut), SubSeq(text, cut + 1, n)) = EncoderAt(text, n)
      BY <2>1, EncodesPart
    <2>4. NewEncoder = EncoderAt(text, 0)
      BY EncoderBegins
    <2>5. base64_encode_blockend(EncoderAt(text, n)) = coded(text)
      BY Coded
    <2> QED BY <2>1, <2>2, <2>3, <2>4, <2>5, Zenon
  <1>9. decode(code) = text
    BY <1>2, DecodesWhatWasEncoded, Zenon
  <1>10. base64_decode_block(base64_decode_block(NewDecoder, SubSeq(code, 1, at)),
                             <<LineEnd>> \o rest).out = text
    <2>1. 0 \in 0..m /\ at \in 0..m /\ m \in at..m /\ 0 + 1 = 1
      BY <1>3, <1>4
    <2> HIDE DEF at, m
    <2>2. base64_decode_block(DecoderAt(text, 0), SubSeq(code, 0 + 1, at)) = DecoderAt(text, at)
      BY <2>1, DecodesPart DEF m
    <2>3. base64_decode_block(DecoderAt(text, at), <<LineEnd>> \o SubSeq(code, at + 1, m))
            = DecoderAt(text, m)
      BY <2>1, DecodesPart DEF m
    <2>4. NewDecoder = DecoderAt(text, 0) /\ DecoderAt(text, m).out = text
      BY DecoderEnds DEF m
    <2> QED BY <2>1, <2>2, <2>3, <2>4, Zenon
  <1>11. m = 4 * ((n + 2) \div 3)
    BY <1>3
  <1>12. DOMAIN code = 1..m /\ v = (4 * n + 2) \div 3
    BY <1>3 DEF CharsOf
  <1> HIDE DEF n, v, code, values, m, at, rest
  <1> QED BY <1>2, <1>5, <1>6, <1>7, <1>8, <1>9, <1>10, <1>11, <1>12, Zenon
          DEF CodesFaithfully, Filler, values, m, at, rest, n

-----------------------------------------------------------------------------
(***************************************************************************)
(* Jwt: no part of a token has a dot in it, so that a reader finds them    *)
(* again.                                                                  *)
(***************************************************************************)
\* mbedtls_pk_sign()'s stand-in gives bytes.
LEMMA SignatureIsText ==
  ASSUME NEW text \in Seq(Nat)
  PROVE  pk_sign(text) \in Texts
  <1> DEFINE n == Len(text)
             Base == <<7, 1>>
             Pairs == Octets \X Octets
             Next(r, i) == <<(31 * r[1] + r[2] + text[i]) % 256, r[1]>>
             Solves(f) == f = [i \in 0..n |-> IF i = 0 THEN <<7, 1>>
                                ELSE <<(31 * f[i - 1][1] + f[i - 1][2] + text[i]) % 256, f[i - 1][1]>>]
             path == CHOOSE f : Solves(f)
             step == [p \in Pairs \X (1..n) |-> Next(p[1], p[2])]
  <1>1. n \in Nat /\ \A i \in 1..n : text[i] \in Nat
    BY LenProperties, ElementOfSeq
  <1>2. pk_sign(text) = path[n]
    BY Zenon DEF pk_sign
  <1> HIDE DEF n
  <1>3. ASSUME NEW r \in Pairs, NEW i \in 1..n PROVE Next(r, i) \in Pairs
    <2>1. r[1] \in 0..255 /\ r[2] \in 0..255 /\ text[i] \in Nat
      BY <1>1 DEF Octets
    <2> DEFINE g == r[1]
               h == r[2]
               k == text[i]
               d == 31 * r[1] + r[2] + text[i]
    <2>2. d \in Nat
      <3>1. g \in 0..255 /\ h \in 0..255 /\ k \in Nat /\ d = 31 * g + h + k
        BY <2>1, Zenon
      <3> HIDE DEF d, g, h, k
      <3> QED BY <3>1
    <2> HIDE DEF d
    <2>3. d % 256 \in 0..255
      BY <2>2
    <2> QED BY <2>1, <2>3 DEF Octets, d
  <1>4. Base \in Pairs
    BY DEF Octets
  <1> HIDE DEF Next, Pairs, Base
  <1>5. StaysIn(Pairs, n, step)
    <2>1. ASSUME NEW r \in Pairs, NEW i \in 1..n PROVE step[<<r, i>>] \in Pairs
      BY <1>3
    <2> HIDE DEF step
    <2> QED BY <2>1 DEF StaysIn
  <1>6. PICK f \in [0..n -> Pairs] : Iterates(f, n, Base, step)
    <2> HIDE DEF step
    <2> QED BY <1>1, <1>4, <1>5, Iteration
  <1>7. f[0] = Base /\ \A i \in 1..n : f[i] = Next(f[i - 1], i)
    <2>1. ASSUME NEW i \in 1..n PROVE f[i] = Next(f[i - 1], i)
      <3>1. f[i - 1] \in Pairs
        BY <1>1
      <3>2. step[<<f[i - 1], i>>] = Next(f[i - 1], i)
        BY <3>1
      <3> QED BY <1>6, <3>2 DEF Iterates
    <2> QED BY <1>6, <2>1 DEF Iterates
  <1>8. Solves(f)
    <2>1. \A i \in 0..n : f[i] = IF i = 0 THEN Base ELSE Next(f[i - 1], i)
      BY <1>1, <1>7
    <2>2. f = [i \in 0..n |-> f[i]]
      OBVIOUS
    <2>3. f = [i \in 0..n |-> IF i = 0 THEN Base ELSE Next(f[i - 1], i)]
      BY <2>1, <2>2, Zenon
    <2> QED BY <2>3, Zenon DEF Base, Next
  <1>9. Solves(path)
    BY <1>8, Zenon
  <1> HIDE DEF path
  <1>10. path[0] = Base /\ \A i \in 1..n : path[i] = Next(path[i - 1], i)
    <2>1. ASSUME NEW i \in 0..n PROVE path[i] = IF i = 0 THEN Base ELSE Next(path[i - 1], i)
      BY <1>9, Zenon DEF Base, Next
    <2>2. \A i \in 1..n : i \in 0..n /\ i # 0
      BY <1>1
    <2>3. 0 \in 0..n
      BY <1>1
    <2> QED BY <2>1, <2>2, <2>3, Zenon
  <1>11. path[n] = f[n]
    <2>1. \A i \in 0..(n - 1) : path[i] = f[i] => path[i + 1] = f[i + 1]
      <3> SUFFICES ASSUME NEW i \in 0..(n - 1), path[i] = f[i] PROVE path[i + 1] = f[i + 1]
        OBVIOUS
      <3>1. i + 1 \in 1..n /\ (i + 1) - 1 = i
        BY <1>1
      <3>2. path[i + 1] = Next(path[i], i + 1) /\ f[i + 1] = Next(f[i], i + 1)
        BY <1>7, <1>10, <3>1, Zenon
      <3> QED BY <3>2, Zenon
    <2>2. path[0] = f[0]
      BY <1>7, <1>10
    <2>3. \A i \in 0..n : path[i] = f[i]
      BY <1>1, <2>1, <2>2, Agreement, Zenon
    <2> QED BY <1>1, <2>3
  <1>12. f[n] \in Pairs
    BY <1>1
  <1>13. ASSUME NEW r \in Pairs PROVE r \in Texts
    <2>1. r = <<r[1], r[2]>> /\ r[1] \in Octets /\ r[2] \in Octets
      BY <1>13 DEF Pairs
    <2>2. <<r[1], r[2]>> \in Seq(Octets)
      BY <2>1
    <2> QED BY <2>1, <2>2, Zenon DEF Texts
  <1> QED BY <1>2, <1>11, <1>12, <1>13, Zenon

\* Parts without a dot, put together with dots between them.
Codes == Seq(0..65)

WithDots(u, v, w) == u \o <<Dot>> \o v \o <<Dot>> \o w

TellsParts(token, u, v, w) ==
  /\ {i \in 1..Len(token) : token[i] = Dot} = {Len(u) + 1, Len(u) + Len(v) + 2}
  /\ SubSeq(token, 1, Len(u)) = u
  /\ SubSeq(token, Len(u) + 2, Len(u) + Len(v) + 1) = v
  /\ SubSeq(token, Len(u) + Len(v) + 3, Len(token)) = w
  /\ SubSeq(token, 1, Len(u) + Len(v) + 1) = u \o <<Dot>> \o v

LEMMA PartsBetweenDots ==
  ASSUME NEW u \in Codes, NEW v \in Codes, NEW w \in Codes
  PROVE  TellsParts(WithDots(u, v, w), u, v, w)
  <1> DEFINE token == WithDots(u, v, w)
             a == Len(u)
             b == Len(v)
             c == Len(w)
             x == u \o <<Dot>>
             y == x \o v
             z == y \o <<Dot>>
             V == 0..67
  <1>1. a \in Nat /\ b \in Nat /\ c \in Nat
    BY LenProperties DEF Codes
  <1>2. u \in Seq(V) /\ v \in Seq(V) /\ w \in Seq(V) /\ <<Dot>> \in Seq(V) /\ Len(<<Dot>>) = 1
        /\ <<Dot>>[1] = Dot
    BY DEF Dot, Codes
  <1>3. /\ \A i \in 1..a : u[i] # Dot
        /\ \A i \in 1..b : v[i] # Dot
        /\ \A i \in 1..c : w[i] # Dot
    <2>1. /\ \A i \in 1..a : u[i] \in 0..65
          /\ \A i \in 1..b : v[i] \in 0..65
          /\ \A i \in 1..c : w[i] \in 0..65
      BY ElementOfSeq, Zenon DEF Codes
    <2>2. \A i \in 0..65 : i # Dot
      BY DEF Dot
    <2> QED BY <2>1, <2>2, Zenon
  <1> HIDE DEF V
  <1>4. x \in Seq(V) /\ y \in Seq(V) /\ z \in Seq(V) /\ z \o w \in Seq(V)
    <2>1. x \in Seq(V)
      BY <1>2, ConcatProperties, Zenon
    <2>2. y \in Seq(V)
      BY <1>2, <2>1, ConcatProperties, Zenon
    <2>3. z \in Seq(V)
      BY <1>2, <2>2, ConcatProperties, Zenon
    <2> HIDE DEF x, y, z
    <2> QED BY <1>2, <2>1, <2>2, <2>3, ConcatProperties, Zenon
  <1> HIDE DEF token
  <1>5. Joins(x, u, <<Dot>>, a, 1)
    <2>1. Joins(x, u, <<Dot>>, a, Len(<<Dot>>))
      BY <1>2, PutTogether, Zenon
    <2> QED BY <1>2, <2>1, Zenon
  <1>6. Joins(y, x, v, a + 1, b)
    <2>1. Joins(y, x, v, Len(x), b)
      BY <1>2, <1>4, PutTogether, Zenon
    <2>2. Len(x) = a + 1
      BY <1>5, Zenon DEF Joins
    <2> QED BY <2>1, <2>2, Zenon
  <1>7. Joins(z, y, <<Dot>>, (a + 1) + b, 1)
    <2>1. Joins(z, y, <<Dot>>, Len(y), Len(<<Dot>>))
      BY <1>2, <1>4, PutTogether, Zenon
    <2>2. Len(y) = (a + 1) + b
      BY <1>6, Zenon DEF Joins
    <2> QED BY <1>2, <2>1, <2>2, Zenon
  <1>8. token = z \o w
    BY Zenon DEF WithDots, token
  <1>9. Joins(token, z, w, ((a + 1) + b) + 1, c)
    <2>1. Joins(z \o w, z, w, Len(z), c)
      <3> HIDE DEF z
      <3> QED BY <1>2, <1>4, PutTogether, Zenon
    <2>2. Len(z) = ((a + 1) + b) + 1
      BY <1>7, Zenon DEF Joins
    <2> QED BY <1>8, <2>1, <2>2, Zenon
  <1>10. token \in Seq(V)
    BY <1>8, <1>4, Zenon
  <1> HIDE DEF a, b, c, x, y, z
  <1> USE DEF Joins
  <1>11. ((a + 1) + b) + 1 = a + b + 2 /\ (a + 1) + b = a + b + 1
    BY <1>1
  <1>12. \A i \in 1..a : token[i] = u[i]
    <2> TAKE i \in 1..a
    <2>1. i \in 1..(a + 1) /\ i \in 1..(a + b + 1) /\ i \in 1..(a + b + 2)
      BY <1>1
    <2> QED BY <1>5, <1>6, <1>7, <1>9, <1>11, <2>1, Zenon
  <1>13. token[a + 1] = Dot
    <2>1. /\ a + 1 \in 1..(a + 1) /\ a + 1 \in 1..(a + b + 1) /\ a + 1 \in 1..(a + b + 2)
          /\ 1 \in 1..1
      BY <1>1
    <2>2. x[a + 1] = Dot
      BY <1>2, <1>5, <2>1, Zenon
    <2>3. token[a + 1] = z[a + 1] /\ z[a + 1] = y[a + 1] /\ y[a + 1] = x[a + 1]
      BY <1>6, <1>7, <1>9, <1>11, <2>1, Zenon
    <2> QED BY <2>2, <2>3, Zenon
  <1>14. \A i \in 1..b : token[a + 1 + i] = v[i]
    <2> TAKE i \in 1..b
    <2>1. a + 1 + i \in 1..(a + b + 1) /\ a + 1 + i \in 1..(a + b + 2)
      BY <1>1
    <2> QED BY <1>6, <1>7, <1>9, <1>11, <2>1, Zenon
  <1>15. token[a + b + 2] = Dot
    <2>1. a + b + 2 \in 1..(a + b + 2) /\ 1 \in 1..1 /\ (a + b + 1) + 1 = a + b + 2
      BY <1>1
    <2>2. z[(a + b + 1) + 1] = Dot
      BY <1>2, <1>7, <1>11, <2>1, Zenon
    <2>3. token[a + b + 2] = z[a + b + 2]
      BY <1>9, <1>11, <2>1, Zenon
    <2> QED BY <2>1, <2>2, <2>3, Zenon
  <1> HIDE DEF V
  <1>16. {i \in 1..Len(token) : token[i] = Dot} = {a + 1, a + b + 2}
    <2>1. ASSUME NEW i \in 1..(a + b + 2 + c), i # a + 1, i # a + b + 2 PROVE token[i] # Dot
      <3>1. CASE i \in 1..a
        BY <1>3, <1>12, <3>1
      <3>2. CASE i \in (a + 2)..(a + b + 1)
        <4>1. i - a - 1 \in 1..b /\ a + 1 + (i - a - 1) = i
          BY <1>1, <3>2
        <4>2. token[i] = v[i - a - 1]
          BY <1>14, <4>1
        <4> QED BY <1>3, <4>1, <4>2
      <3>3. CASE i \in (a + b + 3)..(a + b + 2 + c)
        <4>1. i - a - b - 2 \in 1..c /\ a + b + 2 + (i - a - b - 2) = i
          BY <1>1, <3>3
        <4>2. token[i] = w[i - a - b - 2]
          BY <1>9, <1>11, <4>1, Zenon
        <4> QED BY <1>3, <4>1, <4>2
      <3>4. i \in 1..a \/ i \in (a + 2)..(a + b + 1) \/ i \in (a + b + 3)..(a + b + 2 + c)
        BY <1>1, <2>1
      <3> QED BY <3>1, <3>2, <3>3, <3>4, Zenon
    <2>2. a + 1 \in 1..(a + b + 2 + c) /\ a + b + 2 \in 1..(a + b + 2 + c)
      BY <1>1
    <2>3. Len(token) = a + b + 2 + c
      BY <1>9, <1>11
    <2> DEFINE k == a + 1
               l == a + b + 2
               all == 1..(a + b + 2 + c)
    <2> HIDE DEF token, k, l, all
    <2>4. {i \in all : token[i] = Dot} = {k, l}
      <3>1. \A i \in all : token[i] = Dot => i = k \/ i = l
        BY <2>1, Zenon DEF k, l, all
      <3>2. k \in all /\ l \in all /\ token[k] = Dot /\ token[l] = Dot
        BY <1>13, <1>15, <2>2, Zenon DEF k, l, all
      <3> QED BY <3>1, <3>2, Zenon
    <2> QED BY <2>3, <2>4, Zenon DEF k, l, all
  <1>17. SubSeq(token, 1, a) = u
    <2>1. 0 + a = a /\ 0 + 1 = 1 /\ a <= Len(token) /\ \A i \in 1..a : 0 + i = i
      BY <1>1, <1>9
    <2>2. \A i \in 1..a : token[0 + i] = u[i]
      BY <1>12, <2>1, Zenon
    <2>3. SubSeq(token, 0 + 1, 0 + a) = u
      BY <1>2, <1>9, <2>1, <2>2, <1>10, PartIs DEF a
    <2> QED BY <2>1, <2>3, Zenon
  <1>18. SubSeq(token, a + 2, a + b + 1) = v
    <2>1. a + 1 \in Nat /\ (a + 1) + 1 = a + 2 /\ (a + 1) + b = a + b + 1 /\ (a + 1) + b <= Len(token)
      BY <1>1, <1>9
    <2>2. SubSeq(token, (a + 1) + 1, (a + 1) + b) = v
      <3>1. b = Len(v) /\ \A i \in 1..b : token[(a + 1) + i] = v[i]
        BY <1>14, Zenon DEF b
      <3>2. v \in Seq(V) /\ token \in Seq(V)
        BY <1>2, <1>10
      <3> QED BY <2>1, <3>1, <3>2, PartIs
    <2> QED BY <2>1, <2>2, Zenon
  <1>19. SubSeq(token, a + b + 3, Len(token)) = w
    <2>1. /\ a + b + 2 \in Nat /\ (a + b + 2) + 1 = a + b + 3 /\ (a + b + 2) + c = Len(token)
          /\ (a + b + 2) + c <= Len(token)
      BY <1>1, <1>9
    <2>2. \A i \in 1..c : token[(a + b + 2) + i] = w[i]
      BY <1>9, <1>11, Zenon
    <2>3. SubSeq(token, (a + b + 2) + 1, (a + b + 2) + c) = w
      <3>1. c = Len(w)
        BY DEF c
      <3>2. w \in Seq(V) /\ token \in Seq(V)
        BY <1>2, <1>10
      <3> QED BY <2>1, <2>2, <3>1, <3>2, PartIs
    <2> QED BY <2>1, <2>3, Zenon
  <1>20. SubSeq(token, 1, a + b + 1) = y
    <2>1. /\ 0 + (a + b + 1) = a + b + 1 /\ 0 + 1 = 1 /\ a + b + 1 <= Len(token)
          /\ \A i \in 1..(a + b + 1) : 0 + i = i /\ i \in 1..(a + b + 2)
      BY <1>1, <1>9
    <2>2. \A i \in 1..(a + b + 1) : token[0 + i] = y[i]
      BY <1>7, <1>9, <1>11, <2>1, Zenon
    <2>3. a + b + 1 = Len(y)
      BY <1>6, <1>11, Zenon
    <2>4. SubSeq(token, 0 + 1, 0 + (a + b + 1)) = y
      BY <1>4, <1>10, <2>1, <2>2, <2>3, PartIs
    <2> QED BY <2>1, <2>4, Zenon
  <1> QED BY <1>16, <1>17, <1>18, <1>19, <1>20, Zenon DEF TellsParts, a, b, x, y, token

\* A code has no dot.
LEMMA CodesWithoutDots ==
  ASSUME NEW text \in Texts
  PROVE  encode(text) \in Codes
  <1>1. CodeOf(text) \in Codes
    BY CodeIs DEF Codes
  <1> QED BY <1>1, Encoded

LEMMA LeastAndGreatest ==
  ASSUME NEW m \in Int, NEW n \in Int, m < n
  PROVE  Min({m, n}) = m /\ Max({m, n}) = n /\ Cardinality({m, n}) = 2
  <1>1. Min({m, n}) = m
    <2>1. \A x \in {m, n} : (\A y \in {m, n} : x <= y) => x = m
      OBVIOUS
    <2>2. m \in {m, n} /\ \A y \in {m, n} : m <= y
      OBVIOUS
    <2> QED BY <2>1, <2>2, Zenon DEF Min
  <1>2. Max({m, n}) = n
    <2>1. \A x \in {m, n} : (\A y \in {m, n} : x >= y) => x = n
      OBVIOUS
    <2>2. n \in {m, n} /\ \A y \in {m, n} : n >= y
      OBVIOUS
    <2> QED BY <2>1, <2>2, Zenon DEF Max
  <1>3. Cardinality({m, n}) = 2
    <2>1. IsFiniteSet({n}) /\ Cardinality({n}) = 1
      BY FS_Singleton
    <2>2. m \notin {n} /\ {n} \cup {m} = {m, n}
      OBVIOUS
    <2>3. Cardinality({n} \cup {m}) = Cardinality({n}) + 1
      BY <2>1, <2>2, FS_AddElement
    <2> QED BY <2>1, <2>2, <2>3
  <1> QED BY <1>1, <1>2, <1>3

\* What sign() gives is bytes: the signature, or nothing when it did not sign.
LEMMA SignedText ==
  ASSUME NEW alg, NEW key, NEW text \in Seq(Nat), NEW fails, fails \subseteq {"md", "sign"}
  PROVE  /\ sign(new_jwt(alg, key), text, fails) \in Texts
         /\ sign(new_jwt(alg, key), text, fails)
              = IF alg = "RS256" /\ key = "rsa" /\ fails = {} THEN pk_sign(text) ELSE <<>>
  <1> DEFINE jwt == new_jwt(alg, key)
             signed == alg = "RS256" /\ key = "rsa" /\ fails = {}
  <1>1. jwt.alg = alg /\ (jwt.valid <=> key = "rsa" /\ alg = "RS256")
    BY Zenon DEF new_jwt
  <1>2. fails = {} <=> ~("md" \in fails \/ "sign" \in fails)
    OBVIOUS
  <1> HIDE DEF jwt
  <1>3. sign(jwt, text, fails) = IF signed THEN pk_sign(text) ELSE <<>>
    <2>1. CASE signed
      <3>1. sign_RS256(jwt, text, fails) = pk_sign(text)
        BY <1>1, <1>2, <2>1, Zenon DEF sign_RS256
      <3> QED BY <1>1, <2>1, <3>1, Zenon DEF sign
    <2>2. CASE ~signed
      <3>1. CASE alg = "RS256"
        <4>1. sign_RS256(jwt, text, fails) = <<>>
          BY <1>1, <1>2, <2>2, <3>1, Zenon DEF sign_RS256
        <4> QED BY <1>1, <2>2, <3>1, <4>1, Zenon DEF sign
      <3>2. CASE alg # "RS256"
        BY <1>1, <2>2, <3>2, Zenon DEF sign
      <3> QED BY <3>1, <3>2
    <2> QED BY <2>1, <2>2
  <1>4. <<>> \in Texts
    BY DEF Texts
  <1>5. sign(jwt, text, fails) \in Texts
    BY <1>3, <1>4, SignatureIsText
  <1> QED BY <1>3, <1>5, Zenon DEF jwt

\* Jwt, for every header and payload.
THEOREM TokenAlwaysSays ==
  ASSUME NEW alg, NEW key, NEW header \in Texts, NEW payload \in Texts,
         NEW fails, fails \subseteq {"md", "sign"}
  PROVE  TokenSays(alg, key, header, payload, fails)
  <1> DEFINE jwt == new_jwt(alg, key)
             u == encode(header)
             v == encode(payload)
             text == u \o <<Dot>> \o v
             sig == sign(jwt, text, fails)
             w == encode(sig)
             token == mint(jwt, header, payload, fails)
             dots == {i \in 1..Len(token) : token[i] = Dot}
             first == Len(u) + 1
             second == Len(u) + Len(v) + 2
             signed == alg = "RS256" /\ key = "rsa" /\ fails = {}
  <1>1. u \in Codes /\ v \in Codes
    BY CodesWithoutDots
  <1>2. text \in Seq(Nat)
    <2> HIDE DEF u, v
    <2>1. u \in Seq(Nat) /\ v \in Seq(Nat) /\ <<Dot>> \in Seq(Nat)
      <3>1. 0..65 \subseteq Nat
        OBVIOUS
      <3>2. u \in Seq(Nat) /\ v \in Seq(Nat)
        BY <1>1, <3>1, SeqMonotonic, Zenon DEF Codes
      <3>3. <<Dot>> \in Seq(Nat)
        BY DEF Dot
      <3> QED BY <3>2, <3>3
    <2> QED BY <2>1
  <1>3. sig \in Texts /\ sig = IF signed THEN pk_sign(text) ELSE <<>>
    <2> HIDE DEF text
    <2> QED BY <1>2, SignedText
  <1>4. w \in Codes
    <2> HIDE DEF sig
    <2> QED BY <1>3, CodesWithoutDots
  <1>5. token = WithDots(u, v, w)
    BY Zenon DEF mint, WithDots
  <1>6. decode(u) = header /\ decode(v) = payload /\ decode(w) = sig
    <2> HIDE DEF sig
    <2> QED BY <1>3, DecodesWhatWasEncoded
  <1>7. Len(u) \in Nat /\ Len(v) \in Nat
    <2> HIDE DEF u, v
    <2> QED BY <1>1, LenProperties DEF Codes
  <1> HIDE DEF u, v, w, token
  <1>8. /\ dots = {first, second}
        /\ SubSeq(token, 1, Len(u)) = u
        /\ SubSeq(token, Len(u) + 2, Len(u) + Len(v) + 1) = v
        /\ SubSeq(token, Len(u) + Len(v) + 3, Len(token)) = w
        /\ SubSeq(token, 1, Len(u) + Len(v) + 1) = text
    <2> HIDE DEF dots, first, second, text
    <2>1. TellsParts(token, u, v, w)
      BY <1>1, <1>4, <1>5, PartsBetweenDots, Zenon
    <2> QED BY <2>1, Zenon DEF TellsParts, dots, first, second, text
  <1>9. /\ first - 1 = Len(u) /\ first + 1 = Len(u) + 2 /\ second - 1 = Len(u) + Len(v) + 1
        /\ second + 1 = Len(u) + Len(v) + 3 /\ first \in Int /\ second \in Int /\ first < second
    BY <1>7
  <1> HIDE DEF first, second, dots, text, sig
  <1>10. Min(dots) = first /\ Max(dots) = second /\ Cardinality(dots) = 2
    BY <1>8, <1>9, LeastAndGreatest, Zenon
  <1>11. /\ decode(SubSeq(token, 1, first - 1)) = header
         /\ decode(SubSeq(token, first + 1, second - 1)) = payload
         /\ decode(SubSeq(token, second + 1, Len(token))) = sig
         /\ SubSeq(token, 1, second - 1) = text
    BY <1>6, <1>8, <1>9, Zenon
  <1> QED BY <1>3, <1>10, <1>11, Zenon DEF TokenSays, token, jwt, dots

-----------------------------------------------------------------------------
(***************************************************************************)
(* HttpText: the head of a response, whatever its lines.                   *)
(***************************************************************************)
CR == "CR"
LF == "LF"
EndOfLine == <<CR, LF>>
Reading(p) == [delim_pos |-> p, body_was_found |-> FALSE, body |-> <<>>]
Found(body) == [delim_pos |-> 4, body_was_found |-> TRUE, body |-> body]

\* One character more of the head.
LEMMA ReadsDelim ==
  /\ \A c : Http!read_char(Reading(0), c) = IF c = CR THEN Reading(1) ELSE Reading(0)
  /\ \A c : Http!read_char(Reading(1), c) = IF c = LF THEN Reading(2) ELSE Reading(0)
  /\ \A c : Http!read_char(Reading(2), c) = IF c = CR THEN Reading(3) ELSE Reading(0)
  /\ \A c : Http!read_char(Reading(3), c) = IF c = LF THEN Found(<<>>) ELSE Reading(0)
  /\ \A b, c : Http!read_char(Found(b), c) = Found(Append(b, c))
  <1>1. /\ Len(Http!delim) = 4 /\ Http!delim[1] = CR /\ Http!delim[2] = LF
        /\ Http!delim[3] = CR /\ Http!delim[4] = LF
    BY DEF Http!delim, CR, LF
  <1>2. ASSUME NEW p \in 0..3, NEW c
        PROVE  Http!read_char(Reading(p), c)
                 = LET q == IF c = Http!delim[p + 1] THEN p + 1 ELSE 0
                   IN [delim_pos |-> q, body_was_found |-> q = 4, body |-> <<>>]
    BY <1>1, Zenon DEF Http!read_char, Http!delim_step, Reading
  <1>3. ASSUME NEW p \in 0..2, NEW c
        PROVE  Http!read_char(Reading(p), c)
                 = IF c = Http!delim[p + 1] THEN Reading(p + 1) ELSE Reading(0)
    <2>1. p + 1 # 4 /\ 0 # 4 /\ p \in 0..3
      OBVIOUS
    <2>2. (p + 1 = 4) = FALSE /\ (0 = 4) = FALSE
      OBVIOUS
    <2> QED BY <1>2, <2>1, <2>2, Zenon DEF Reading
  <1>4. ASSUME NEW c
        PROVE  Http!read_char(Reading(3), c) = IF c = LF THEN Found(<<>>) ELSE Reading(0)
    <2>1. 3 + 1 = 4 /\ 3 \in 0..3 /\ (4 = 4) = TRUE /\ (0 = 4) = FALSE
      OBVIOUS
    <2>2. Http!delim[3 + 1] = LF
      BY <1>1, <2>1, Zenon
    <2>3. Http!read_char(Reading(3), c)
            = LET q == IF c = Http!delim[3 + 1] THEN 3 + 1 ELSE 0
              IN [delim_pos |-> q, body_was_found |-> q = 4, body |-> <<>>]
      BY <1>2, <2>1, Zenon
    <2>4. (IF c = Http!delim[3 + 1] THEN 3 + 1 ELSE 0) = IF c = LF THEN 4 ELSE 0
      BY <2>1, <2>2, Zenon
    <2> QED BY <2>1, <2>3, <2>4, Zenon DEF Reading, Found
  <1>5. ASSUME NEW b, NEW c PROVE Http!read_char(Found(b), c) = Found(Append(b, c))
    BY Zenon DEF Http!read_char, Found
  <1>6. /\ 0 \in 0..2 /\ 1 \in 0..2 /\ 2 \in 0..2 /\ 0 + 1 = 1 /\ 1 + 1 = 2 /\ 2 + 1 = 3
    OBVIOUS
  <1> QED
    BY <1>1, <1>3, <1>4, <1>5, <1>6, Zenon

\* The reader in state s is led by the first n characters of u, or by all, to state t.
Through(s, u, n, t) ==
  \E g : /\ g[0] = s /\ g[n] = t
         /\ \A i \in 1..n : g[i] = Http!read_char(g[i - 1], u[i])
Leads(s, u, t) == Through(s, u, Len(u), t)

\* The way to a state is the only one.
LEMMA SkippedTo ==
  ASSUME NEW u, Len(u) \in Nat, NEW t, Leads(Reading(0), u, t)
  PROVE  Http!skip_headers(u) = t
  <1> DEFINE n == Len(u)
             s == Reading(0)
             Solves(f) == f = [i \in 0..n |-> IF i = 0 THEN s ELSE Http!read_char(f[i - 1], u[i])]
             path == CHOOSE f : Solves(f)
  <1>1. Http!skip_headers(u) = path[n]
    BY Zenon DEF Http!skip_headers, Reading
  <1> HIDE DEF s
  <1>2. n \in Nat /\ Through(s, u, n, t)
    BY Zenon DEF Leads, s
  <1> HIDE DEF n
  <1>3. PICK g : /\ g[0] = s /\ g[n] = t
                 /\ \A i \in 1..n : g[i] = Http!read_char(g[i - 1], u[i])
    BY <1>2, Zenon DEF Through
  <1> DEFINE h == [i \in 0..n |-> g[i]]
  <1>4. Solves(h)
    <2>1. \A i \in 0..n : g[i] = IF i = 0 THEN s ELSE Http!read_char(h[i - 1], u[i])
      <3> SUFFICES ASSUME NEW i \in 0..n
                   PROVE  g[i] = IF i = 0 THEN s ELSE Http!read_char(h[i - 1], u[i])
        OBVIOUS
      <3>1. CASE i = 0
        BY <1>3, <3>1
      <3>2. CASE i # 0
        <4>1. i \in 1..n /\ i - 1 \in 0..n
          BY <1>2, <3>2
        <4>2. h[i - 1] = g[i - 1]
          BY <4>1
        <4> QED BY <1>3, <3>2, <4>1, <4>2, Zenon
      <3> QED BY <3>1, <3>2
    <2> QED BY <2>1, Zenon
  <1>5. Solves(path)
    BY <1>4, Zenon
  <1> HIDE DEF path, h
  <1>6. ASSUME NEW i \in 0..n
        PROVE  path[i] = IF i = 0 THEN s ELSE Http!read_char(path[i - 1], u[i])
    BY <1>5, Zenon
  <1>7. path[0] = g[0]
    <2>1. 0 \in 0..n
      BY <1>2
    <2> QED BY <1>3, <1>6, <2>1, Zenon
  <1>8. \A i \in 0..(n - 1) : path[i] = g[i] => path[i + 1] = g[i + 1]
    <2> SUFFICES ASSUME NEW i \in 0..(n - 1), path[i] = g[i] PROVE path[i + 1] = g[i + 1]
      OBVIOUS
    <2>1. i + 1 \in 1..n /\ i + 1 \in 0..n /\ i + 1 # 0 /\ (i + 1) - 1 = i
      BY <1>2
    <2>2. path[i + 1] = Http!read_char(path[i], u[i + 1])
      BY <1>6, <2>1, Zenon
    <2>3. g[i + 1] = Http!read_char(g[i], u[i + 1])
      BY <1>3, <2>1, Zenon
    <2> QED BY <2>2, <2>3, Zenon
  <1>9. \A i \in 0..n : path[i] = g[i]
    <2> HIDE DEF Solves
    <2> QED BY <1>2, <1>7, <1>8, Agreement, Zenon
  <1>10. path[n] = g[n]
    BY <1>2, <1>9
  <1> QED BY <1>1, <1>3, <1>10, Zenon

\* No character leads nowhere, one more goes on, and so does one text after another.
LEMMA ThroughNone ==
  ASSUME NEW s, NEW u
  PROVE  Through(s, u, 0, s)
  <1> DEFINE g == [i \in 0..0 |-> s]
  <1>1. g[0] = s /\ \A i \in 1..0 : g[i] = Http!read_char(g[i - 1], u[i])
    OBVIOUS
  <1> QED BY <1>1 DEF Through

LEMMA ThroughMore ==
  ASSUME NEW s, NEW u, NEW n \in Nat, NEW t, Through(s, u, n, t)
  PROVE  Through(s, u, n + 1, Http!read_char(t, u[n + 1]))
  <1>1. PICK g : /\ g[0] = s /\ g[n] = t
                 /\ \A i \in 1..n : g[i] = Http!read_char(g[i - 1], u[i])
    BY Zenon DEF Through
  <1> DEFINE last == Http!read_char(t, u[n + 1])
             h == [i \in 0..(n + 1) |-> IF i = n + 1 THEN last ELSE g[i]]
  <1>2. n + 1 \in 0..(n + 1) /\ 0 \in 0..(n + 1) /\ 0 # n + 1
    OBVIOUS
  <1>3. h[n + 1] = last /\ h[0] = g[0]
    BY <1>2, Zenon
  <1>4. ASSUME NEW i \in 1..(n + 1) PROVE h[i] = Http!read_char(h[i - 1], u[i])
    <2>1. CASE i = n + 1
      <3>1. i - 1 = n /\ n \in 0..(n + 1) /\ n # n + 1
        BY <2>1
      <3>2. h[n] = t
        BY <1>1, <3>1, Zenon
      <3> QED BY <1>3, <2>1, <3>1, <3>2, Zenon
    <2>2. CASE i # n + 1
      <3>1. /\ i \in 1..n /\ i \in 0..(n + 1) /\ i - 1 \in 0..(n + 1) /\ i - 1 # n + 1
        BY <2>2
      <3>2. h[i] = g[i] /\ h[i - 1] = g[i - 1]
        BY <2>2, <3>1, Zenon
      <3> QED BY <1>1, <3>1, <3>2, Zenon
    <2> QED BY <2>1, <2>2
  <1> HIDE DEF h
  <1> QED BY <1>1, <1>3, <1>4, Zenon DEF Through

LEMMA LeadsOn ==
  ASSUME NEW V, NEW u \in Seq(V), NEW v \in Seq(V), NEW s, NEW t, NEW w,
         Leads(s, u, t), Leads(t, v, w)
  PROVE  Leads(s, u \o v, w)
  <1> DEFINE m == Len(u)
             n == Len(v)
             z == u \o v
  <1>1. m \in Nat /\ n \in Nat
    BY LenProperties
  <1>2. Joins(z, u, v, m, n)
    BY PutTogether, Zenon
  <1>3. PICK g : /\ g[0] = s /\ g[m] = t
                 /\ \A i \in 1..m : g[i] = Http!read_char(g[i - 1], u[i])
    BY Zenon DEF Leads, Through
  <1>4. PICK k : /\ k[0] = t /\ k[n] = w
                 /\ \A i \in 1..n : k[i] = Http!read_char(k[i - 1], v[i])
    BY Zenon DEF Leads, Through
  <1> HIDE DEF m, n, z
  <1> DEFINE h == [i \in 0..(m + n) |-> IF i <= m THEN g[i] ELSE k[i - m]]
  <1>5. ASSUME NEW i \in 0..m PROVE h[i] = g[i]
    <2>1. i \in 0..(m + n) /\ i <= m
      BY <1>1
    <2> QED BY <2>1, Zenon
  <1>6. ASSUME NEW i \in 0..n PROVE h[m + i] = k[i]
    <2>1. CASE i = 0
      <3>1. m \in 0..m /\ m + 0 = m
        BY <1>1
      <3> QED BY <1>3, <1>4, <1>5, <2>1, <3>1, Zenon
    <2>2. CASE i # 0
      <3>1. m + i \in 0..(m + n) /\ ~(m + i <= m) /\ (m + i) - m = i
        BY <1>1, <2>2
      <3> QED BY <3>1, Zenon
    <2> QED BY <2>1, <2>2
  <1> HIDE DEF h
  <1>7. h[0] = s /\ h[m + n] = w
    <2>1. 0 \in 0..m /\ n \in 0..n
      BY <1>1
    <2> QED BY <1>3, <1>4, <1>5, <1>6, <2>1, Zenon
  <1>8. ASSUME NEW i \in 1..(m + n) PROVE h[i] = Http!read_char(h[i - 1], z[i])
    <2>1. CASE i <= m
      <3>1. i \in 1..m /\ i \in 0..m /\ i - 1 \in 0..m
        BY <1>1, <2>1
      <3>2. z[i] = u[i]
        BY <1>2, <3>1, Zenon DEF Joins
      <3>3. h[i] = g[i] /\ h[i - 1] = g[i - 1]
        BY <1>5, <3>1, Zenon
      <3> QED BY <1>3, <3>1, <3>2, <3>3, Zenon
    <2>2. CASE ~(i <= m)
      <3> DEFINE j == i - m
      <3>1. j \in 1..n /\ j \in 0..n /\ j - 1 \in 0..n /\ i = m + j /\ i - 1 = m + (j - 1)
        BY <1>1, <2>2
      <3> HIDE DEF j
      <3>2. z[i] = v[j]
        BY <1>2, <3>1, Zenon DEF Joins
      <3>3. h[i] = k[j] /\ h[i - 1] = k[j - 1]
        BY <1>6, <3>1, Zenon
      <3> QED BY <1>4, <3>1, <3>2, <3>3, Zenon
    <2> QED BY <2>1, <2>2
  <1>9. Len(z) = m + n
    BY <1>2, Zenon DEF Joins
  <1>10. Through(s, z, m + n, w)
    BY <1>7, <1>8, Zenon DEF Through
  <1> QED BY <1>9, <1>10, Zenon DEF Leads, z

LEMMA EndLeads ==
  /\ Leads(Reading(0), EndOfLine, Reading(2))
  /\ Leads(Reading(2), EndOfLine, Found(<<>>))
  <1>1. /\ Len(EndOfLine) = 2 /\ EndOfLine[0 + 1] = CR /\ EndOfLine[1 + 1] = LF
        /\ 0 + 1 = 1 /\ 1 + 1 = 2
    BY DEF EndOfLine
  <1>2. ASSUME NEW s, NEW t, NEW w,
               Http!read_char(s, CR) = t, Http!read_char(t, LF) = w
        PROVE  Leads(s, EndOfLine, w)
    <2>1. Through(s, EndOfLine, 0, s)
      BY ThroughNone
    <2>2. Through(s, EndOfLine, 0 + 1, Http!read_char(s, EndOfLine[0 + 1]))
      BY <2>1, ThroughMore
    <2>3. Through(s, EndOfLine, 1, t)
      BY <1>1, <1>2, <2>2, Zenon
    <2>4. Through(s, EndOfLine, 1 + 1, Http!read_char(t, EndOfLine[1 + 1]))
      BY <2>3, ThroughMore
    <2>5. Through(s, EndOfLine, 2, w)
      BY <1>1, <1>2, <2>4, Zenon
    <2> QED BY <1>1, <2>5, Zenon DEF Leads
  <1>3. /\ Http!read_char(Reading(0), CR) = Reading(1) /\ Http!read_char(Reading(1), LF) = Reading(2)
        /\ Http!read_char(Reading(2), CR) = Reading(3) /\ Http!read_char(Reading(3), LF) = Found(<<>>)
    BY ReadsDelim, Zenon
  <1> QED BY <1>2, <1>3, Zenon

\* A line leads back to the beginning of delim, wherever in it it is begun.
LEMMA LineLeads ==
  ASSUME NEW V, NEW l \in Seq(V), Http!IsLine(l), NEW p \in {0, 2}, l # <<>> \/ p = 0
  PROVE  Leads(Reading(p), l, Reading(0))
  <1> DEFINE n == Len(l)
             Fits(q, i) == IF i = 0 THEN q = p ELSE q # 2 /\ (l[i] # CR => q = 0)
             S == {i \in 0..n : \E q \in 0..3 : Through(Reading(p), l, i, Reading(q)) /\ Fits(q, i)}
  <1>1. n \in Nat /\ (n = 0 => l = <<>>)
    BY LenProperties, EmptySeq
  <1>2. \A i \in 1..n : l[i] = CR => i < n /\ l[i + 1] # LF
    BY Zenon DEF Http!IsLine, CR, LF
  <1> HIDE DEF n
  <1>3. 0 \in S
    <2>1. Through(Reading(p), l, 0, Reading(p))
      BY ThroughNone
    <2>2. p \in 0..3 /\ 0 \in 0..n
      BY <1>1
    <2> QED BY <2>1, <2>2, Zenon
  <1>4. ASSUME NEW i \in 0..(n - 1), i \in S PROVE i + 1 \in S
    <2> DEFINE c == l[i + 1]
    <2>1. PICK q \in 0..3 : Through(Reading(p), l, i, Reading(q)) /\ Fits(q, i)
      BY <1>4, Zenon
    <2>2. i \in Nat /\ i + 1 \in 0..n /\ i + 1 # 0
      BY <1>1
    <2>3. Through(Reading(p), l, i + 1, Http!read_char(Reading(q), c))
      BY <2>1, <2>2, ThroughMore
    <2>4. CR # LF
      BY DEF CR, LF
    <2>5. q = 1 \/ q = 3 => c # LF
      <3>1. SUFFICES ASSUME q = 1 \/ q = 3 PROVE c # LF
        OBVIOUS
      <3>2. i # 0
        BY <2>1, <3>1
      <3>3. l[i] = CR /\ i \in 1..n
        BY <1>1, <2>1, <3>1, <3>2
      <3> QED BY <1>2, <3>3, Zenon
    <2>6. q = 0 \/ q = 1 \/ q = 2 \/ q = 3
      OBVIOUS
    <2>7. \E r \in 0..3 : Http!read_char(Reading(q), c) = Reading(r) /\ r # 2 /\ (c # CR => r = 0)
      <3>1. 0 \in 0..3 /\ 1 \in 0..3 /\ 3 \in 0..3 /\ 0 # 2 /\ 1 # 2 /\ 3 # 2
        OBVIOUS
      <3>2. CASE q = 0
        BY <3>1, <3>2, ReadsDelim, Zenon
      <3>3. CASE q = 1
        BY <2>5, <3>1, <3>3, ReadsDelim, Zenon
      <3>4. CASE q = 2
        BY <3>1, <3>4, ReadsDelim, Zenon
      <3>5. CASE q = 3
        BY <2>5, <3>1, <3>5, ReadsDelim, Zenon
      <3> QED BY <2>6, <3>2, <3>3, <3>4, <3>5, Zenon
    <2>8. PICK r \in 0..3 : Http!read_char(Reading(q), c) = Reading(r) /\ r # 2 /\ (c # CR => r = 0)
      BY <2>7, Zenon
    <2>9. Fits(r, i + 1)
      BY <2>2, <2>8, Zenon
    <2>10. Through(Reading(p), l, i + 1, Reading(r))
      BY <2>3, <2>8, Zenon
    <2> QED BY <2>2, <2>9, <2>10, Zenon
  <1>5. n \in S
    <2> HIDE DEF S
    <2>1. 0..n \subseteq S
      BY <1>1, <1>3, <1>4, UpTo
    <2> QED BY <1>1, <2>1
  <1>6. PICK q \in 0..3 : Through(Reading(p), l, n, Reading(q)) /\ Fits(q, n)
    BY <1>5, Zenon
  <1>7. q = 0
    <2>1. CASE n = 0
      BY <1>1, <1>6, <2>1
    <2>2. CASE n # 0
      <3>1. n \in 1..n /\ ~(n < n)
        BY <1>1, <2>2
      <3>2. l[n] # CR
        BY <1>2, <3>1, Zenon
      <3> QED BY <1>6, <2>2, <3>2, Zenon
    <2> QED BY <2>1, <2>2
  <1> QED BY <1>6, <1>7, Zenon DEF Leads, n

\* A body is taken as it is.
LEMMA BodyLeads ==
  ASSUME NEW V, NEW b \in Seq(V)
  PROVE  Leads(Found(<<>>), b, Found(b))
  <1> DEFINE n == Len(b)
             g == [i \in 0..n |-> Found(SubSeq(b, 1, i))]
  <1>1. n \in Nat /\ SubSeq(b, 1, 0) = <<>> /\ SubSeq(b, 1, n) = b
    BY LenProperties, SubSeqFull
  <1>2. ASSUME NEW i \in 1..n
        PROVE  SubSeq(b, 1, i) = Append(SubSeq(b, 1, i - 1), b[i])
    OBVIOUS
  <1> HIDE DEF n
  <1>3. 0 \in 0..n /\ n \in 0..n
    BY <1>1
  <1>4. g[0] = Found(<<>>) /\ g[n] = Found(b)
    BY <1>1, <1>3, Zenon
  <1>5. ASSUME NEW i \in 1..n PROVE g[i] = Http!read_char(g[i - 1], b[i])
    <2>1. i \in 0..n /\ i - 1 \in 0..n
      BY <1>1
    <2>2. g[i] = Found(SubSeq(b, 1, i)) /\ g[i - 1] = Found(SubSeq(b, 1, i - 1))
      BY <2>1, Zenon
    <2>3. Http!read_char(Found(SubSeq(b, 1, i - 1)), b[i])
            = Found(Append(SubSeq(b, 1, i - 1), b[i]))
      BY ReadsDelim, Zenon
    <2> QED BY <1>2, <2>2, <2>3, Zenon
  <1> HIDE DEF g
  <1>6. Through(Found(<<>>), b, n, Found(b))
    BY <1>4, <1>5, Zenon DEF Through
  <1> QED BY <1>6, Zenon DEF Leads, n

\* Texts one after another, put together step by step.
Flattens(f, V, texts, n) ==
  /\ f \in [0..n -> Seq(V)] /\ f[0] = <<>>
  /\ \A i \in 1..n : f[i] = f[i - 1] \o texts[i]

FlattensTo(V, texts, n) ==
  \E f : Flattens(f, V, texts, n) /\ Http!FlattenSeq(texts) = f[n]

LEMMA Flattened ==
  ASSUME NEW V, NEW texts, Len(texts) \in Nat, Len(texts) = 0 => texts = <<>>,
         \A i \in 1..Len(texts) : texts[i] \in Seq(V)
  PROVE  FlattensTo(V, texts, Len(texts))
  <1> DEFINE n == Len(texts)
  <1>10. /\ n \in Nat /\ n = Len(texts) /\ (n = 0 => texts = <<>>)
         /\ \A i \in 1..n : texts[i] \in Seq(V)
    OBVIOUS
  <1> HIDE DEF n
  <1> DEFINE step == [r \in Seq(V) \X (1..n) |-> r[1] \o texts[r[2]]]
  <1>11. \A i \in 1..n : texts[i] \in Seq(V)
    BY <1>10, Zenon
  <1>1. ASSUME NEW r \in Seq(V), NEW i \in 1..n
        PROVE  step[<<r, i>>] = r \o texts[i] /\ step[<<r, i>>] \in Seq(V)
    <2>1. <<r, i>> \in Seq(V) \X (1..n)
      OBVIOUS
    <2>2. step[<<r, i>>] = r \o texts[i]
      BY <2>1
    <2> QED BY <1>11, <2>2, ConcatProperties, Zenon
  <1> HIDE DEF step
  <1>2. StaysIn(Seq(V), n, step) /\ <<>> \in Seq(V)
    <2>1. <<>> \in Seq(V)
      OBVIOUS
    <2> QED BY <1>1, <2>1, Zenon DEF StaysIn
  <1>3. PICK f \in [0..n -> Seq(V)] : Iterates(f, n, <<>>, step)
    BY <1>2, <1>10, Iteration, Zenon
  <1>4. f[0] = <<>> /\ \A i \in 1..n : f[i] = step[<<f[i - 1], i>>]
    BY <1>3, Zenon DEF Iterates
  <1>5. ASSUME NEW i \in 1..n PROVE f[i] = f[i - 1] \o texts[i]
    <2>1. i - 1 \in 0..n
      BY <1>10
    <2>2. f[i - 1] \in Seq(V)
      BY <2>1, Zenon
    <2> QED BY <1>1, <1>4, <2>2, Zenon
  <1>6. Flattens(f, V, texts, n)
    BY <1>4, <1>5, Zenon DEF Flattens
  <1>7. CASE n = 0
    <2>1. Http!FlattenSeq(texts) = texts
      BY <1>7, <1>10, Zenon DEF Http!FlattenSeq
    <2> QED BY <1>4, <1>6, <1>7, <2>1, Zenon DEF FlattensTo, n
  <1>8. CASE n # 0
    <2> DEFINE Solves(h) == h = [i \in 1..n |-> IF i = 1 THEN texts[i] ELSE h[i - 1] \o texts[i]]
               path == CHOOSE h : Solves(h)
               g == [i \in 1..n |-> f[i]]
    <2>1. Http!FlattenSeq(texts) = path[n]
      BY <1>8, <1>10, Zenon DEF Http!FlattenSeq
    <2>2. \A i \in 1..n : f[i] = IF i = 1 THEN texts[i] ELSE g[i - 1] \o texts[i]
      <3> TAKE i \in 1..n
      <3>1. CASE i = 1
        <4>1. f[1] = f[0] \o texts[1] /\ 1 - 1 = 0 /\ texts[1] \in Seq(V)
          <5>1. 1 \in 1..n /\ 1 - 1 = 0
            BY <3>1
          <5> QED BY <1>5, <1>11, <5>1, Zenon
        <4>2. <<>> \o texts[1] = texts[1]
          BY <4>1, ConcatEmptySeq, Zenon
        <4> QED BY <1>4, <3>1, <4>1, <4>2, Zenon
      <3>2. CASE i # 1
        <4>1. i - 1 \in 1..n
          BY <1>10, <3>2
        <4>2. g[i - 1] = f[i - 1]
          BY <4>1
        <4> QED BY <1>5, <3>2, <4>2, Zenon
      <3> QED BY <3>1, <3>2
    <2>3. Solves(g)
      BY <2>2, Zenon
    <2>4. Solves(path)
      BY <2>3, Zenon
    <2> HIDE DEF path, g
    <2>5. ASSUME NEW i \in 1..n
          PROVE  path[i] = IF i = 1 THEN texts[i] ELSE path[i - 1] \o texts[i]
      BY <2>4, Zenon
    <2> DEFINE S == {i \in 0..(n - 1) : path[i + 1] = f[i + 1]}
    <2>6. 0 \in S
      <3>1. 1 \in 1..n /\ 0 + 1 = 1 /\ 0 \in 0..(n - 1)
        BY <1>8, <1>10
      <3>2. path[1] = texts[1]
        BY <2>5, <3>1, Zenon
      <3>3. f[1] = texts[1]
        BY <2>2, <3>1, Zenon
      <3> QED BY <3>1, <3>2, <3>3, Zenon
    <2>7. ASSUME NEW i \in 0..((n - 1) - 1), i \in S PROVE i + 1 \in S
      <3>1. (i + 1) + 1 \in 1..n /\ (i + 1) + 1 # 1 /\ ((i + 1) + 1) - 1 = i + 1 /\ i + 1 \in 0..(n - 1)
        BY <1>8, <1>10
      <3>2. path[(i + 1) + 1] = path[i + 1] \o texts[(i + 1) + 1]
        BY <2>5, <3>1, Zenon
      <3>3. f[(i + 1) + 1] = f[i + 1] \o texts[(i + 1) + 1]
        BY <1>5, <3>1, Zenon
      <3>4. path[i + 1] = f[i + 1]
        BY <2>7, Zenon
      <3> QED BY <3>1, <3>2, <3>3, <3>4, Zenon
    <2>8. n - 1 \in S
      <3> HIDE DEF S
      <3>1. n - 1 \in Nat
        BY <1>8, <1>10
      <3>2. 0..(n - 1) \subseteq S
        BY <2>6, <2>7, <3>1, UpTo
      <3> QED BY <3>1, <3>2
    <2>9. path[n] = f[n]
      <3>1. (n - 1) + 1 = n
        BY <1>10
      <3> QED BY <2>8, <3>1, Zenon
    <2> QED BY <1>6, <2>1, <2>9, Zenon DEF FlattensTo, n
  <1> QED BY <1>7, <1>8, Zenon

\* The lines of the headers lead from the end of a line to the end of a line.
LEMMA HeadersLead ==
  ASSUME NEW V, CR \in V, LF \in V, NEW headers, NEW n \in Nat, n = Len(headers),
         \A i \in 1..n : headers[i] \in Seq(V) \ {<<>>} /\ Http!IsLine(headers[i])
  PROVE  LET text == Http!FlattenSeq([i \in 1..Len(headers) |-> headers[i] \o EndOfLine])
         IN text \in Seq(V) /\ Leads(Reading(2), text, Reading(2))
  <1> DEFINE texts == [i \in 1..n |-> headers[i] \o EndOfLine]
  <1>1. EndOfLine \in Seq(V)
    BY DEF EndOfLine
  <1>2. ASSUME NEW i \in 1..n
        PROVE  texts[i] \in Seq(V) /\ Leads(Reading(2), texts[i], Reading(2))
    <2>1. headers[i] \in Seq(V) /\ headers[i] # <<>> /\ Http!IsLine(headers[i])
      OBVIOUS
    <2>2. texts[i] = headers[i] \o EndOfLine
      OBVIOUS
    <2>3. Leads(Reading(2), headers[i], Reading(0))
      <3>1. 2 \in {0, 2}
        OBVIOUS
      <3> QED BY <2>1, <3>1, LineLeads, Zenon
    <2>4. headers[i] \o EndOfLine \in Seq(V)
      BY <1>1, <2>1, ConcatProperties, Zenon
    <2>5. Leads(Reading(2), headers[i] \o EndOfLine, Reading(2))
      BY <1>1, <2>1, <2>3, EndLeads, LeadsOn, Zenon
    <2> QED BY <2>2, <2>4, <2>5, Zenon
  <1>3. n = Len(texts) /\ (n = 0 => texts = <<>>)
    OBVIOUS
  <1> HIDE DEF texts
  <1>4. PICK f : Flattens(f, V, texts, n) /\ Http!FlattenSeq(texts) = f[n]
    <2>1. \A i \in 1..n : texts[i] \in Seq(V)
      BY <1>2, Zenon
    <2>2. FlattensTo(V, texts, Len(texts))
      BY <1>3, <2>1, Flattened, Zenon
    <2> QED BY <1>3, <2>2, Zenon DEF FlattensTo
  <1>5. /\ f[0] = <<>> /\ \A i \in 0..n : f[i] \in Seq(V)
        /\ \A i \in 1..n : f[i] = f[i - 1] \o texts[i]
    BY <1>4, Zenon DEF Flattens
  <1> DEFINE S == {i \in 0..n : Leads(Reading(2), f[i], Reading(2))}
  <1>6. 0 \in S
    <2>1. Len(<<>>) = 0 /\ 0 \in 0..n
      OBVIOUS
    <2>2. Through(Reading(2), <<>>, 0, Reading(2))
      BY ThroughNone
    <2> QED BY <1>5, <2>1, <2>2, Zenon DEF Leads
  <1>7. ASSUME NEW i \in 0..(n - 1), i \in S PROVE i + 1 \in S
    <2>1. i + 1 \in 1..n /\ i + 1 \in 0..n /\ (i + 1) - 1 = i /\ i \in 0..n
      OBVIOUS
    <2>2. f[i + 1] = f[i] \o texts[i + 1]
      BY <1>5, <2>1, Zenon
    <2>3. f[i] \in Seq(V) /\ texts[i + 1] \in Seq(V)
      BY <1>2, <1>5, <2>1, Zenon
    <2>4. Leads(Reading(2), f[i], Reading(2)) /\ Leads(Reading(2), texts[i + 1], Reading(2))
      BY <1>2, <1>7, <2>1, Zenon
    <2>5. Leads(Reading(2), f[i] \o texts[i + 1], Reading(2))
      BY <2>3, <2>4, LeadsOn, Zenon
    <2> QED BY <2>1, <2>2, <2>5, Zenon
  <1>8. n \in S
    <2> HIDE DEF S
    <2>1. 0..n \subseteq S
      BY <1>6, <1>7, UpTo
    <2> QED BY <2>1
  <1>9. Leads(Reading(2), f[n], Reading(2)) /\ f[n] \in Seq(V)
    <2>1. n \in 0..n
      OBVIOUS
    <2> QED BY <1>5, <1>8, <2>1, Zenon
  <1> QED BY <1>4, <1>9, Zenon DEF texts

\* So what is left of the first line, the headers, an empty line and the body are
\* skipped up to the body.
SkipsTo(text, body) == Http!skip_headers(text) = Found(body)

LEMMA Skips ==
  ASSUME NEW V, CR \in V, LF \in V, NEW rest \in Seq(V), Http!IsLine(rest),
         NEW fields \in Seq(V), Leads(Reading(2), fields, Reading(2)), NEW body \in Seq(V)
  PROVE  SkipsTo(rest \o (EndOfLine \o (fields \o (EndOfLine \o body))), body)
  <1> DEFINE t4 == EndOfLine \o body
             t3 == fields \o t4
             t2 == EndOfLine \o t3
             t1 == rest \o t2
  <1>1. EndOfLine \in Seq(V)
    BY DEF EndOfLine
  <1>2. t4 \in Seq(V) /\ Leads(Reading(2), t4, Found(body))
    BY <1>1, EndLeads, BodyLeads, LeadsOn, ConcatProperties, Zenon
  <1> HIDE DEF t4
  <1>3. t3 \in Seq(V) /\ Leads(Reading(2), t3, Found(body))
    BY <1>2, LeadsOn, ConcatProperties, Zenon
  <1> HIDE DEF t3
  <1>4. t2 \in Seq(V) /\ Leads(Reading(0), t2, Found(body))
    BY <1>1, <1>3, EndLeads, LeadsOn, ConcatProperties, Zenon
  <1> HIDE DEF t2
  <1>5. t1 \in Seq(V) /\ Leads(Reading(0), t1, Found(body))
    <2>1. Leads(Reading(0), rest, Reading(0))
      <3>1. 0 \in {0, 2}
        OBVIOUS
      <3> QED BY <3>1, LineLeads, Zenon
    <2> QED BY <1>4, <2>1, LeadsOn, ConcatProperties, Zenon
  <1> HIDE DEF t1
  <1>6. Len(t1) \in Nat
    BY <1>5, LenProperties
  <1>7. Http!skip_headers(t1) = Found(body)
    BY <1>5, <1>6, SkippedTo, Zenon
  <1> QED BY <1>7, Zenon DEF SkipsTo, t1, t2, t3, t4

\* A stream that has not failed: a word was extracted, the rest is left.
Extracted(word, rest) == [word |-> word, rest |-> rest, failed |-> FALSE]

\* Extraction skips the whitespace and takes the word, if what follows it does not go on.
Extractable(sp, word, tail, taken) ==
  /\ \A i \in 1..Len(sp) : sp[i] \in Http!Whitespace
  /\ word # <<>> /\ word[1] \notin Http!Whitespace
  /\ \A i \in 1..Len(word) : word[i] \in taken
  /\ tail[1] \notin taken

Extracts(text, taken, word, rest) ==
  \A last : Http!Extract(Extracted(last, text), taken) = Extracted(word, rest)

LEMMA WordExtracted ==
  ASSUME NEW V, NEW sp \in Seq(V), NEW word \in Seq(V), NEW tail \in Seq(V), NEW taken,
         Extractable(sp, word, tail, taken)
  PROVE  Extracts(sp \o (word \o tail), taken, word, tail)
  <1> SUFFICES ASSUME NEW last
               PROVE  Http!Extract(Extracted(last, sp \o (word \o tail)), taken) = Extracted(word, tail)
    BY Zenon DEF Extracts
  <1> USE DEF Extractable
  <1> DEFINE a == Len(sp)
             b == Len(word)
             c == Len(tail)
             t == sp \o (word \o tail)
             WS == Http!Whitespace
  <1>1. a \in Nat /\ b \in Nat /\ c \in Nat /\ b # 0
    BY LenProperties, EmptySeq
  <1>2. word \o tail \in Seq(V) /\ t \in Seq(V)
    BY ConcatProperties, Zenon
  <1>3. Joins(word \o tail, word, tail, b, c)
    BY PutTogether, Zenon
  <1>4. Joins(t, sp, word \o tail, a, b + c)
    <2> DEFINE u == word \o tail
    <2>1. Joins(sp \o u, sp, u, Len(sp), Len(u))
      <3> HIDE DEF u
      <3> QED BY <1>2, PutTogether, Zenon DEF u
    <2>2. Len(u) = b + c
      BY <1>3, Zenon DEF Joins
    <2> QED BY <2>1, <2>2, Zenon
  <1>15. \A i \in 1..a : sp[i] \in WS
    OBVIOUS
  <1>16. \A i \in 1..b : word[i] \in taken
    OBVIOUS
  <1> HIDE DEF a, b, c, t, WS
  <1>5. Len(t) = a + b + c
    BY <1>1, <1>4 DEF Joins
  <1>6. \A i \in 1..a : t[i] \in WS
    BY <1>4, <1>15, Zenon DEF Joins
  <1>7. ASSUME NEW i \in 1..b PROVE t[a + i] = word[i]
    <2>1. i \in 1..(b + c)
      BY <1>1
    <2> QED BY <1>3, <1>4, <2>1, Zenon DEF Joins
  <1>8. ASSUME NEW i \in 1..c PROVE t[(a + b) + i] = tail[i]
    <2>1. b + i \in 1..(b + c) /\ (a + b) + i = a + (b + i)
      BY <1>1
    <2>2. t[a + (b + i)] = (word \o tail)[b + i]
      BY <1>4, <2>1, Zenon DEF Joins
    <2>3. (word \o tail)[b + i] = tail[i]
      BY <1>3, Zenon DEF Joins
    <2> QED BY <2>1, <2>2, <2>3, Zenon
  <1>9. t[a + 1] \notin WS
    <2>1. 1 \in 1..b
      BY <1>1
    <2> QED BY <1>7, <2>1, Zenon DEF WS
  <1> DEFINE P(i) == /\ \A j \in 1..i : t[j] \in WS
                     /\ i < Len(t) => t[i + 1] \notin WS
             Q(i) == /\ \A j \in (a + 1)..i : t[j] \in taken
                     /\ i < Len(t) => t[i + 1] \notin taken
  <1>10. (CHOOSE i \in 0..Len(t) : P(i)) = a
    <2>1. a \in 0..Len(t) /\ P(a)
      BY <1>1, <1>5, <1>6, <1>9
    <2>2. ASSUME NEW i \in 0..Len(t), P(i) PROVE i = a
      <3>1. CASE i < a
        <4>1. i < Len(t) /\ i + 1 \in 1..a
          BY <1>1, <1>5, <3>1
        <4> QED BY <1>6, <2>2, <4>1
      <3>2. CASE i > a
        <4>1. a + 1 \in 1..i
          BY <1>1, <3>2
        <4> QED BY <1>9, <2>2, <4>1
      <3> QED BY <1>1, <1>5, <3>1, <3>2
    <2> HIDE DEF P
    <2> QED BY <2>1, <2>2, Zenon
  <1>11. (CHOOSE i \in a..Len(t) : Q(i)) = a + b
    <2>1. ASSUME NEW i \in (a + 1)..(a + b) PROVE t[i] \in taken
      <3>1. i - a \in 1..b /\ a + (i - a) = i
        BY <1>1
      <3> QED BY <1>7, <1>16, <3>1, Zenon
    <2>2. ASSUME a + b < Len(t) PROVE t[(a + b) + 1] \notin taken
      <3>1. 1 \in 1..c
        BY <1>1, <1>5, <2>2
      <3> QED BY <1>8, <3>1, Zenon
    <2>3. a + b \in a..Len(t) /\ Q(a + b)
      BY <1>1, <1>5, <2>1, <2>2
    <2>4. ASSUME NEW i \in a..Len(t), Q(i) PROVE i = a + b
      <3>1. CASE i < a + b
        <4>1. i < Len(t) /\ i + 1 \in (a + 1)..(a + b)
          BY <1>1, <1>5, <3>1
        <4> QED BY <2>1, <2>4, <4>1
      <3>2. CASE i > a + b
        <4>1. (a + b) + 1 \in (a + 1)..i /\ a + b < Len(t)
          BY <1>1, <1>5, <3>2
        <4> QED BY <2>2, <2>4, <4>1
      <3> QED BY <1>1, <1>5, <3>1, <3>2
    <2> HIDE DEF Q
    <2> QED BY <2>3, <2>4, Zenon
  <1>12. SubSeq(t, a + 1, a + b) = word
    <2>1. \A i \in 1..b : t[a + i] = word[i]
      BY <1>7
    <2>2. a + b <= Len(t) /\ b = Len(word)
      BY <1>1, <1>5 DEF b
    <2> QED BY <1>1, <1>2, <2>1, <2>2, PartIs
  <1>13. SubSeq(t, (a + b) + 1, Len(t)) = tail
    <2>1. \A i \in 1..c : t[(a + b) + i] = tail[i]
      BY <1>8
    <2>2. (a + b) + c <= Len(t) /\ c = Len(tail) /\ a + b \in Nat /\ (a + b) + c = Len(t)
      BY <1>1, <1>5 DEF c
    <2>3. SubSeq(t, (a + b) + 1, (a + b) + c) = tail
      BY <1>2, <2>1, <2>2, PartIs
    <2> QED BY <2>2, <2>3, Zenon
  <1>14. (a = a + b) = FALSE
    BY <1>1
  <1> HIDE DEF P, Q
  <1>17. Http!Extract(Extracted(last, t), taken) = Http!extract(t, taken)
    BY Zenon DEF Http!Extract, Extracted
  <1>18. Http!extract(t, taken)
           = LET n == CHOOSE i \in 0..Len(t) : P(i)
                 m == CHOOSE i \in n..Len(t) :
                        /\ \A j \in (n + 1)..i : t[j] \in taken
                        /\ i < Len(t) => t[i + 1] \notin taken
             IN [word |-> SubSeq(t, n + 1, m), rest |-> SubSeq(t, m + 1, Len(t)), failed |-> n = m]
    BY Zenon DEF Http!extract, P, WS
  <1>19. Http!extract(t, taken)
           = [word |-> SubSeq(t, a + 1, a + b), rest |-> SubSeq(t, (a + b) + 1, Len(t)),
              failed |-> a = a + b]
    BY <1>10, <1>11, <1>18, Zenon DEF Q
  <1> QED BY <1>12, <1>13, <1>14, <1>17, <1>19, Zenon DEF Extracted, t

\* The first character of two texts put together.
LEMMA FirstOf ==
  ASSUME NEW V, NEW u \in Seq(V), NEW v \in Seq(V)
  PROVE  (u \o v)[1] = IF u = <<>> THEN v[1] ELSE u[1]
  <1>1. CASE u = <<>>
    <2>1. u \o v = v
      BY <1>1, ConcatEmptySeq, Zenon
    <2> QED BY <1>1, <2>1, Zenon
  <1>2. CASE u # <<>>
    <2>1. 1 \in 1..Len(u)
      BY <1>2, LenProperties, EmptySeq
    <2>2. Joins(u \o v, u, v, Len(u), Len(v))
      BY PutTogether, Zenon
    <2> QED BY <1>2, <2>1, <2>2, Zenon DEF Joins
  <1> QED BY <1>1, <1>2, Zenon

\* A reason begins with a word, and what follows in the line is a line.
LEMMA ReasonSplits ==
  ASSUME NEW V, NEW reason \in Seq(V), reason # <<>>, Http!IsLine(reason),
         NEW characters, reason[1] \in characters
  PROVE  \E word \in Seq(V), more \in Seq(V) :
           /\ reason = word \o more /\ word # <<>> /\ word[1] = reason[1]
           /\ \A i \in 1..Len(word) : word[i] \in characters
           /\ more = <<>> \/ more[1] \notin characters
           /\ Http!IsLine(more)
  <1> DEFINE n == Len(reason)
             T == {i \in 1..n : reason[i] \notin characters} \cup {n + 1}
  <1>1. n \in Nat /\ n # 0
    BY LenProperties, EmptySeq
  <1>2. PICK k \in T : \A i \in T : k <= i
    <2>1. T \subseteq Nat /\ T # {}
      BY <1>1
    <2> HIDE DEF T
    <2> QED BY <2>1, LeastNumber, Zenon
  <1> DEFINE m == k - 1
             word == SubSeq(reason, 1, m)
             more == SubSeq(reason, m + 1, n)
  <1>3. m \in 1..n /\ (m < n => reason[m + 1] \notin characters)
    BY <1>1, <1>2
  <1>4. ASSUME NEW i \in 1..m PROVE reason[i] \in characters
    BY <1>1, <1>2, <1>3
  <1> HIDE DEF m
  <1>5. /\ word \in Seq(V) /\ Len(word) = m /\ \A i \in 1..m : word[i] = reason[i]
        /\ more \in Seq(V) /\ Len(more) = n - m /\ \A i \in 1..(n - m) : more[i] = reason[m + i]
    BY <1>1, <1>3
  <1>6. reason = word \o more
    BY <1>1, <1>3
  <1>14. \A i \in 1..n : reason[i] = "CR" => i < n /\ reason[i + 1] # "LF"
    BY Zenon DEF Http!IsLine
  <1> HIDE DEF word, more, n
  <1>7. word # <<>> /\ word[1] = reason[1]
    <2>1. 1 \in 1..m /\ m # 0 /\ Len(<<>>) = 0
      BY <1>3
    <2> QED BY <1>5, <2>1, Zenon
  <1>8. \A i \in 1..Len(word) : word[i] \in characters
    BY <1>4, <1>5, Zenon
  <1>9. more = <<>> \/ more[1] \notin characters
    <2>1. CASE m = n
      <3>1. Len(more) = 0
        BY <1>1, <1>5, <2>1
      <3> QED BY <1>5, <3>1, EmptySeq
    <2>2. CASE m # n
      <3>1. m < n /\ 1 \in 1..(n - m)
        BY <1>1, <1>3, <2>2
      <3> QED BY <1>3, <1>5, <3>1, Zenon
    <2> QED BY <2>1, <2>2, Zenon
  <1>10. ASSUME NEW i \in 1..(n - m), more[i] = "CR"
         PROVE  i < n - m /\ more[i + 1] # "LF"
    <2>1. m + i \in 1..n
      BY <1>1, <1>3
    <2>2. reason[m + i] = "CR"
      BY <1>5, <1>10, Zenon
    <2>3. m + i < n /\ reason[(m + i) + 1] # "LF"
      BY <1>14, <2>1, <2>2, Zenon
    <2>4. i < n - m /\ i + 1 \in 1..(n - m) /\ (m + i) + 1 = m + (i + 1)
      BY <1>1, <1>3, <2>3
    <2> QED BY <1>5, <2>3, <2>4, Zenon
  <1>11. Http!IsLine(more)
    BY <1>5, <1>10, Zenon DEF Http!IsLine
  <1> QED BY <1>5, <1>6, <1>7, <1>8, <1>9, <1>11, Zenon

\* HttpText, for every code, reason, headers and body, and whatever the characters of
\* words are, as long as they are not whitespace.
THEOREM HeadIsRead ==
  ASSUME NEW characters, "H" \in characters, Http!Digits \subseteq characters,
         \A c \in Http!Whitespace : c \notin characters,
         NEW code \in Seq(Http!Digits), code # <<>>,
         NEW reason \in Seq(characters \cup Http!Whitespace), reason # <<>>,
         Http!IsLine(reason), reason[1] \in characters,
         NEW headers, Len(headers) \in Nat,
         \A i \in 1..Len(headers) :
           /\ headers[i] \in Seq(characters \cup Http!Whitespace) \ {<<>>}
           /\ Http!IsLine(headers[i]),
         NEW body \in Seq(characters \cup Http!Whitespace)
  PROVE  Http!HeadReads(code, reason, headers, body, characters)
  <1> DEFINE V == characters \cup Http!Whitespace
             SP == "SP"
             H == "H"
             fields == Http!FlattenSeq([i \in 1..Len(headers) |-> headers[i] \o EndOfLine])
             response == <<H, SP>> \o code \o <<SP>> \o reason \o EndOfLine \o fields \o EndOfLine \o body
  <1>1. CR \in V /\ LF \in V /\ SP \in V /\ H \in V /\ SP \in Http!Whitespace /\ CR \in Http!Whitespace
    BY DEF Http!Whitespace, CR, LF
  <1>2. code \in Seq(V)
    <2>1. Http!Digits \subseteq V
      BY Zenon
    <2> HIDE DEF V
    <2> QED BY <2>1, SeqMonotonic, Zenon
  <1>3. SP \notin characters /\ CR \notin characters /\ SP \notin Http!Digits
    BY <1>1, Zenon
  <1>16. reason \in Seq(V) /\ body \in Seq(V)
    BY Zenon
  <1>17. fields \in Seq(V) /\ Leads(Reading(2), fields, Reading(2))
    BY <1>1, HeadersLead, Zenon
  <1>18. H \notin Http!Whitespace /\ H \in characters
    BY Zenon
  <1>19. ASSUME NEW i \in 1..Len(code) PROVE code[i] \in Http!Digits
    BY ElementOfSeq, Zenon
  <1>20. code[1] \notin Http!Whitespace
    <2>1. 1 \in 1..Len(code)
      BY LenProperties, EmptySeq
    <2> QED BY <1>19, <2>1, Zenon
  <1>21. reason[1] \notin Http!Whitespace
    BY Zenon
  <1> HIDE DEF V, fields
  <1>4. PICK word \in Seq(V), more \in Seq(V) :
           /\ reason = word \o more /\ word # <<>> /\ word[1] = reason[1]
           /\ \A i \in 1..Len(word) : word[i] \in characters
           /\ more = <<>> \/ more[1] \notin characters
           /\ Http!IsLine(more)
    BY <1>16, ReasonSplits
  <1> DEFINE e == EndOfLine
             sp == <<SP>>
             hh == <<H>>
             hs == <<H, SP>>
             none == <<>>
             t7 == e \o body
             t6 == fields \o t7
             t5 == e \o t6
             t4 == more \o t5
             t3 == sp \o (word \o t4)
             t2 == sp \o (code \o t3)
  <1>5. e \in Seq(V) /\ sp \in Seq(V) /\ hh \in Seq(V) /\ none \in Seq(V) /\ e[1] = CR /\ sp[1] = SP
        /\ e # <<>> /\ sp # <<>> /\ hh # <<>> /\ hh[1] = H /\ Len(hh) = 1 /\ Len(sp) = 1
        /\ hs = hh \o sp
    BY <1>1 DEF EndOfLine
  <1>24. /\ \A i \in 1..Len(sp) : sp[i] \in Http!Whitespace
         /\ \A i \in 1..Len(none) : none[i] \in Http!Whitespace
         /\ \A i \in 1..Len(hh) : hh[i] \in characters
    BY <1>1, <1>5, <1>18
  <1>25. none = <<>>
    OBVIOUS
  <1> HIDE DEF e, SP, H, sp, hh, hs, none
  <1>6. t7 \in Seq(V) /\ t6 \in Seq(V) /\ t5 \in Seq(V)
    <2>1. t7 \in Seq(V)
      BY <1>5, <1>16, ConcatProperties, Zenon
    <2>2. t6 \in Seq(V)
      BY <1>17, <2>1, ConcatProperties, Zenon
    <2> HIDE DEF t6, t7
    <2>3. t5 \in Seq(V)
      BY <1>5, <2>2, ConcatProperties, Zenon
    <2> QED BY <2>1, <2>2, <2>3
  <1>7. Http!skip_headers(t4) = Found(body)
    <2>1. CR \in V /\ LF \in V /\ Http!IsLine(more)
      BY <1>1, <1>4, Zenon
    <2>2. SkipsTo(more \o (EndOfLine \o (fields \o (EndOfLine \o body))), body)
      BY <1>16, <1>17, <2>1, Skips, Zenon
    <2> QED BY <2>2, Zenon DEF e, SkipsTo
  <1>22. t5[1] = CR
    <2> HIDE DEF t6
    <2> QED BY <1>5, <1>6, FirstOf, Zenon
  <1> HIDE DEF t5
  <1>8. t4 \in Seq(V) /\ t4[1] \notin characters
    <2>1. t4[1] = IF more = <<>> THEN t5[1] ELSE more[1]
      BY <1>6, FirstOf, Zenon
    <2>2. t4 \in Seq(V)
      BY <1>6, ConcatProperties, Zenon
    <2> QED BY <1>3, <1>4, <1>22, <2>1, <2>2, Zenon
  <1> HIDE DEF t4
  <1>9. word \o t4 \in Seq(V) /\ t3 \in Seq(V) /\ t3[1] = SP
    <2>1. word \o t4 \in Seq(V)
      BY <1>8, ConcatProperties, Zenon
    <2>2. t3 \in Seq(V)
      BY <1>5, <2>1, ConcatProperties, Zenon
    <2> DEFINE u == word \o t4
    <2> HIDE DEF u
    <2>3. (sp \o u)[1] = SP
      BY <1>5, <2>1, FirstOf, Zenon DEF u
    <2> QED BY <2>1, <2>2, <2>3, Zenon DEF u
  <1>10. Http!Extract(Extracted(code, t3), characters) = Extracted(word, t4)
    <2>1. \A i \in 1..Len(sp) : sp[i] \in Http!Whitespace
      BY <1>24, Zenon
    <2>2. word[1] \notin Http!Whitespace
      BY <1>4, <1>21, Zenon
    <2>3. Extractable(sp, word, t4, characters)
      BY <1>4, <1>8, <2>1, <2>2, Zenon DEF Extractable
    <2>4. Extracts(sp \o (word \o t4), characters, word, t4)
      BY <1>5, <1>8, <2>3, WordExtracted, Zenon
    <2> QED BY <2>4, Zenon DEF Extracts
  <1> HIDE DEF t3
  <1>11. code \o t3 \in Seq(V) /\ t2 \in Seq(V) /\ t2[1] = SP
    <2>1. code \o t3 \in Seq(V)
      BY <1>2, <1>9, ConcatProperties, Zenon
    <2>2. t2 \in Seq(V)
      BY <1>5, <2>1, ConcatProperties, Zenon
    <2> DEFINE u == code \o t3
    <2> HIDE DEF u
    <2>3. (sp \o u)[1] = SP
      BY <1>5, <2>1, FirstOf, Zenon DEF u
    <2> QED BY <2>1, <2>2, <2>3, Zenon DEF u
  <1>12. Http!Extract(Extracted(hh, t2), Http!Digits) = Extracted(code, t3)
    <2>1. \A i \in 1..Len(sp) : sp[i] \in Http!Whitespace
      BY <1>24, Zenon
    <2>2. \A i \in 1..Len(code) : code[i] \in Http!Digits
      BY <1>19, Zenon
    <2>3. t3[1] \notin Http!Digits
      BY <1>3, <1>9, Zenon
    <2>4. Extractable(sp, code, t3, Http!Digits)
      BY <1>20, <2>1, <2>2, <2>3, Zenon DEF Extractable
    <2>5. Extracts(sp \o (code \o t3), Http!Digits, code, t3)
      BY <1>2, <1>5, <1>9, <2>4, WordExtracted, Zenon
    <2> QED BY <2>5, Zenon DEF Extracts
  <1> HIDE DEF t2
  <1>13. Http!Extract(Extracted(none, hh \o t2), characters) = Extracted(hh, t2)
    <2>1. \A i \in 1..Len(none) : none[i] \in Http!Whitespace
      BY <1>24, Zenon
    <2>2. \A i \in 1..Len(hh) : hh[i] \in characters
      BY <1>24, Zenon
    <2>3. t2[1] \notin characters
      BY <1>3, <1>11, Zenon
    <2>4. hh[1] \notin Http!Whitespace
      BY <1>5, <1>18, Zenon
    <2>5. Http!Extract(Extracted(none, none \o (hh \o t2)), characters) = Extracted(hh, t2)
      <3>1. Extractable(none, hh, t2, characters)
        BY <1>5, <2>1, <2>2, <2>3, <2>4, Zenon DEF Extractable
      <3>2. Extracts(none \o (hh \o t2), characters, hh, t2)
        BY <1>5, <1>11, <3>1, WordExtracted, Zenon
      <3> QED BY <3>2, Zenon DEF Extracts
    <2>6. hh \o t2 \in Seq(V)
      BY <1>5, <1>11, ConcatProperties, Zenon
    <2>7. none \o (hh \o t2) = hh \o t2
      BY <1>25, <2>6, ConcatEmptySeq, Zenon
    <2> QED BY <2>5, <2>7, Zenon
  <1>14. response = hh \o t2
    <2> DEFINE p3 == hs \o code
               p4 == p3 \o sp
               p5 == p4 \o reason
    <2>1. p3 \in Seq(V) /\ p4 \in Seq(V) /\ p5 \in Seq(V) /\ hs \in Seq(V)
      <3>1. hs \in Seq(V)
        BY <1>5, ConcatProperties, Zenon
      <3>2. p3 \in Seq(V)
        BY <1>2, <3>1, ConcatProperties, Zenon
      <3> HIDE DEF p3
      <3>3. p4 \in Seq(V)
        BY <1>5, <3>2, ConcatProperties, Zenon
      <3> HIDE DEF p4
      <3>4. p5 \in Seq(V)
        BY <1>16, <3>3, ConcatProperties, Zenon
      <3> QED BY <3>1, <3>2, <3>3, <3>4
    <2>8. response = ((p5 \o e) \o fields \o e) \o body
      BY Zenon DEF e, SP, H, sp, hs
    <2> HIDE DEF response, p5
    <2>9. p5 \o e \in Seq(V) /\ p5 \o e \o fields \in Seq(V)
      <3>1. p5 \o e \in Seq(V)
        BY <1>5, <2>1, ConcatProperties, Zenon
      <3> QED BY <1>17, <3>1, ConcatProperties, Zenon
    <2>2. Associates(p5 \o e \o fields, e, body) /\ Associates(p5 \o e, fields, t7)
          /\ Associates(p5, e, t6)
      <3> HIDE DEF t6, t7
      <3> QED BY <1>5, <1>6, <1>16, <1>17, <2>1, <2>9, Associative, Zenon
    <2>4. response = p5 \o t5
      <3>1. response = (p5 \o e \o fields) \o t7
        BY <2>2, <2>8, Zenon DEF Associates
      <3>2. response = (p5 \o e) \o t6
        BY <2>2, <3>1, Zenon DEF Associates
      <3> QED BY <2>2, <3>2, Zenon DEF Associates, t5
    <2>5. p5 \o t5 = p4 \o (word \o t4)
      <3>1. Associates(p4, reason, t5) /\ Associates(word, more, t5)
        <4> HIDE DEF p4, t6
        <4> QED BY <1>4, <1>6, <1>16, <2>1, Associative, Zenon
      <3> HIDE DEF p4
      <3>2. p5 \o t5 = p4 \o (reason \o t5)
        BY <3>1, Zenon DEF Associates, p5
      <3>3. reason \o t5 = word \o t4
        BY <1>4, <3>1, Zenon DEF Associates, t4
      <3> QED BY <3>2, <3>3, Zenon
    <2>6. p4 \o (word \o t4) = hs \o (code \o t3)
      <3>1. Associates(p3, sp, word \o t4) /\ Associates(hs, code, t3)
        <4> HIDE DEF p3
        <4> QED BY <1>2, <1>5, <1>9, <2>1, Associative, Zenon
      <3> HIDE DEF p3
      <3>2. p4 \o (word \o t4) = p3 \o t3
        BY <3>1, Zenon DEF Associates, t3
      <3> QED BY <3>1, <3>2, Zenon DEF Associates, p3
    <2>7. hs \o (code \o t3) = hh \o t2
      <3>1. Associates(hh, sp, code \o t3)
        BY <1>5, <1>11, Associative, Zenon
      <3> QED BY <1>5, <3>1, Zenon DEF Associates, t2
    <2> HIDE DEF p4
    <2> QED BY <2>4, <2>5, <2>6, <2>7, Zenon
  <1> HIDE DEF response
  <1>15. Http!status_line(response, characters) = [code |-> code, rest |-> t4, failed |-> FALSE]
    <2>1. Http!Extract([word |-> <<>>, rest |-> response, failed |-> FALSE], characters)
            = Extracted(hh, t2)
      <3>1. Http!Extract(Extracted(none, response), characters) = Extracted(hh, t2)
        BY <1>13, <1>14, Zenon
      <3> QED BY <3>1, Zenon DEF Extracted, none
    <2> DEFINE protocol == Extracted(hh, t2)
               number == Extracted(code, t3)
               status == Extracted(word, t4)
    <2>2. /\ ~protocol.failed /\ ~number.failed /\ number.word = code
          /\ status.rest = t4 /\ status.failed = FALSE
      BY Zenon DEF Extracted
    <2>3. /\ Http!Extract(protocol, Http!Digits) = number
          /\ Http!Extract(number, characters) = status
      BY <1>10, <1>12, Zenon
    <2> HIDE DEF protocol, number, status
    <2>4. Http!Extract([word |-> <<>>, rest |-> response, failed |-> FALSE], characters) = protocol
      BY <2>1, Zenon DEF protocol
    <2> QED BY <2>2, <2>3, <2>4, Zenon DEF Http!status_line
  <1>23. Http!read_head(response, characters) = [code |-> code, body_was_found |-> TRUE, body |-> body]
    <2> DEFINE line == [code |-> code, rest |-> t4, failed |-> FALSE]
    <2>1. line.code = code /\ line.rest = t4 /\ line.failed = FALSE
      OBVIOUS
    <2>2. Found(body).body_was_found = TRUE /\ Found(body).body = body
      BY Zenon DEF Found
    <2> HIDE DEF line
    <2>3. Http!status_line(response, characters) = line
      BY <1>15, Zenon DEF line
    <2> QED BY <1>7, <2>1, <2>2, <2>3, Zenon DEF Http!read_head
  <1> QED BY <1>23, Zenon DEF Http!HeadReads, response, fields, EndOfLine, CR, LF, SP, H

-----------------------------------------------------------------------------
(***************************************************************************)
(* UriParser: the parts of a URI are found where the grammar put them.     *)
(***************************************************************************)
\* The first character of a part of a text.
LEMMA FirstOfPart ==
  ASSUME NEW V, NEW t \in Seq(V), NEW i \in Int, NEW j \in Int, i >= 1, i <= j, j <= Len(t)
  PROVE  SubSeq(t, i, j)[1] = t[i]
  OBVIOUS

\* A text is cut at the first place of a delimiter.
CutsAt(text, delim, a, b) ==
  /\ find(text, delim) = Len(a) + 1 /\ contains(text, delim)
  /\ before(text, delim) = a /\ after(text, delim) = b

LEMMA DelimiterFound ==
  ASSUME NEW V, NEW a \in Seq(V), NEW b \in Seq(V), NEW delim \in Seq(V), delim # <<>>,
         Without(a, {delim[1]})
  PROVE  CutsAt(a \o (delim \o b), delim, a, b)
  <1> DEFINE m == Len(a)
             k == Len(delim)
             n == Len(b)
             u == delim \o b
             t == a \o u
             at == {i \in 1..(Len(t) - k + 1) : SubSeq(t, i, i + k - 1) = delim}
  <1>1. m \in Nat /\ k \in Nat /\ n \in Nat /\ k # 0
    BY LenProperties, EmptySeq
  <1>2. u \in Seq(V) /\ t \in Seq(V)
    BY ConcatProperties, Zenon
  <1>3. Joins(u, delim, b, k, n)
    BY PutTogether, Zenon
  <1>4. Joins(t, a, u, m, k + n)
    <2>1. Joins(a \o u, a, u, Len(a), Len(u))
      <3> HIDE DEF u
      <3> QED BY <1>2, PutTogether, Zenon
    <2>2. Len(u) = k + n
      BY <1>3, Zenon DEF Joins
    <2> QED BY <2>1, <2>2, Zenon
  <1>5. ASSUME NEW i \in 1..m PROVE a[i] # delim[1]
    BY Zenon DEF Without
  <1> HIDE DEF m, k, n, u, t
  <1>6. Len(t) = m + (k + n)
    BY <1>4, Zenon DEF Joins
  <1>7. \A i \in 1..m : t[i] = a[i]
    BY <1>4, Zenon DEF Joins
  <1>8. ASSUME NEW i \in 1..k PROVE t[m + i] = delim[i]
    <2>1. i \in 1..(k + n)
      BY <1>1
    <2> QED BY <1>3, <1>4, <2>1, Zenon DEF Joins
  <1>9. ASSUME NEW i \in 1..n PROVE t[(m + k) + i] = b[i]
    <2>1. k + i \in 1..(k + n) /\ (m + k) + i = m + (k + i)
      BY <1>1
    <2>2. t[m + (k + i)] = u[k + i]
      BY <1>4, <2>1, Zenon DEF Joins
    <2>3. u[k + i] = b[i]
      BY <1>3, Zenon DEF Joins
    <2> QED BY <2>1, <2>2, <2>3, Zenon
  <1>10. SubSeq(t, m + 1, m + k) = delim
    <2>1. m + k <= Len(t) /\ k = Len(delim) /\ \A i \in 1..k : t[m + i] = delim[i]
      BY <1>1, <1>6, <1>8 DEF k
    <2> QED BY <1>1, <1>2, <2>1, PartIs
  <1>11. m + 1 \in at
    <2>1. m + 1 \in 1..(Len(t) - k + 1) /\ (m + 1) + k - 1 = m + k
      BY <1>1, <1>6
    <2> QED BY <1>10, <2>1, Zenon
  <1>12. ASSUME NEW i \in at PROVE m + 1 <= i
    <2>1. SUFFICES ASSUME i <= m PROVE FALSE
      BY <1>1
    <2>2. i \in 1..m /\ SubSeq(t, i, i + k - 1) = delim /\ i \in Int /\ i + k - 1 \in Int
          /\ i + k - 1 <= Len(t) /\ 1 \in 1..((i + k - 1) - i + 1) /\ i + 1 - 1 = i /\ i >= 1
      BY <1>1, <1>6, <1>12, <2>1
    <2>3. SubSeq(t, i, i + k - 1)[1] = t[i]
      <3> DEFINE j == i + k - 1
      <3>1. j \in Int /\ i <= j /\ j <= Len(t) /\ i \in Int /\ i >= 1
        BY <1>1, <2>2
      <3> HIDE DEF j
      <3>2. SubSeq(t, i, j)[1] = t[i]
        BY <1>2, <3>1, FirstOfPart
      <3> QED BY <3>2, Zenon DEF j
    <2> QED BY <1>5, <1>7, <2>2, <2>3, Zenon
  <1>13. find(t, delim) = m + 1
    <2>1. at # {} /\ Min(at) = m + 1
      <3>1. \A x \in at : (\A y \in at : x <= y) => x = m + 1
        <4> SUFFICES ASSUME NEW x \in at, \A y \in at : x <= y PROVE x = m + 1
          OBVIOUS
        <4>1. x <= m + 1 /\ m + 1 <= x /\ x \in Int
          <5>1. x \in 1..(Len(t) - k + 1)
            OBVIOUS
          <5> HIDE DEF at
          <5>2. x <= m + 1 /\ m + 1 <= x
            BY <1>11, <1>12
          <5> QED BY <1>1, <1>6, <5>1, <5>2
        <4> QED BY <1>1, <4>1
      <3> HIDE DEF at
      <3> QED BY <1>11, <1>12, <3>1, Zenon DEF Min
    <2> QED BY <2>1, Zenon DEF find, k
  <1>14. contains(t, delim)
    <2>1. m + 1 # 0
      BY <1>1
    <2> QED BY <1>13, <2>1, Zenon DEF contains
  <1>15. before(t, delim) = a
    <2>1. (m + 1) - 1 = m /\ 0 + 1 = 1 /\ 0 + m = m /\ 0 + m <= Len(t) /\ \A i \in 1..m : 0 + i = i
      BY <1>1, <1>6
    <2>2. \A i \in 1..m : t[0 + i] = a[i]
      BY <1>7, <2>1, Zenon
    <2>3. SubSeq(t, 0 + 1, 0 + m) = a
      BY <1>1, <1>2, <2>1, <2>2, PartIs DEF m
    <2> QED BY <1>13, <2>1, <2>3, Zenon DEF before
  <1>16. after(t, delim) = b
    <2>1. (m + 1) + k = (m + k) + 1 /\ (m + k) + n = Len(t) /\ (m + k) + n <= Len(t) /\ m + k \in Nat
      BY <1>1, <1>6
    <2>2. SubSeq(t, (m + k) + 1, (m + k) + n) = b
      BY <1>1, <1>2, <1>9, <2>1, PartIs DEF n
    <2> QED BY <1>13, <2>1, <2>2, Zenon DEF after, k
  <1> QED BY <1>13, <1>14, <1>15, <1>16, Zenon DEF CutsAt, m, t, u

\* A text without the first character of a delimiter does not contain it.
LEMMA DelimiterMissing ==
  ASSUME NEW V, NEW a \in Seq(V), NEW delim \in Seq(V), delim # <<>>,
         Without(a, {delim[1]})
  PROVE  ~contains(a, delim)
  <1> DEFINE m == Len(a)
             k == Len(delim)
             at == {i \in 1..(m - k + 1) : SubSeq(a, i, i + k - 1) = delim}
  <1>1. m \in Nat /\ k \in Nat /\ k # 0
    BY LenProperties, EmptySeq
  <1>2. ASSUME NEW i \in 1..m PROVE a[i] # delim[1]
    BY Zenon DEF Without
  <1>3. ASSUME NEW i \in at PROVE FALSE
    <2> HIDE DEF m, k
    <2>1. i \in 1..m /\ SubSeq(a, i, i + k - 1) = delim /\ i \in Int /\ i + k - 1 \in Int
          /\ i + k - 1 <= m /\ 1 \in 1..((i + k - 1) - i + 1) /\ i + 1 - 1 = i /\ i >= 1
      BY <1>1, <1>3
    <2>2. SubSeq(a, i, i + k - 1)[1] = a[i]
      <3> DEFINE j == i + k - 1
      <3>1. j \in Int /\ i <= j /\ j <= Len(a) /\ i \in Int /\ i >= 1
        BY <1>1, <2>1 DEF m
      <3> HIDE DEF j
      <3>2. SubSeq(a, i, j)[1] = a[i]
        BY <3>1, FirstOfPart
      <3> QED BY <3>2, Zenon DEF j
    <2> QED BY <1>2, <2>1, <2>2, Zenon
  <1>4. at = {}
    BY <1>3, Zenon
  <1>5. find(a, delim) = 0
    BY <1>4, Zenon DEF find
  <1> QED BY <1>5, Zenon DEF contains

\* A character that is not found is nowhere.
LEMMA NotFound ==
  ASSUME NEW V, NEW text \in Seq(V), NEW c \in V, ~contains(text, <<c>>)
  PROVE  Without(text, {c})
  <1> DEFINE n == Len(text)
             at == {i \in 1..(Len(text) - Len(<<c>>) + 1) :
                      SubSeq(text, i, i + Len(<<c>>) - 1) = <<c>>}
  <1>1. n \in Nat /\ Len(<<c>>) = 1
    BY LenProperties
  <1>2. at = {}
    <2>1. SUFFICES ASSUME at # {} PROVE FALSE
      OBVIOUS
    <2>2. at \subseteq Nat /\ 0 \notin at
      BY <1>1
    <2>3. find(text, <<c>>) = Min(at)
      BY <2>1, Zenon DEF find
    <2> HIDE DEF at
    <2>4. \E x \in at : \A y \in at : x <= y
      BY <2>1, <2>2, LeastNumber, Zenon
    <2>5. Min(at) \in at
      BY <2>4, Zenon DEF Min
    <2> QED BY <2>2, <2>3, <2>5, Zenon DEF contains
  <1>3. ASSUME NEW i \in 1..n PROVE text[i] # c
    <2>1. SUFFICES ASSUME text[i] = c PROVE i \in at
      BY <1>2
    <2>2. i \in 1..(Len(text) - Len(<<c>>) + 1) /\ i + Len(<<c>>) - 1 = i
      BY <1>1
    <2>3. SubSeq(text, i, i) = <<c>>
      <3> HIDE DEF at
      <3> DEFINE v == <<c>>
      <3>1. v \in Seq(V) /\ 1 = Len(v) /\ v[1] = c
        OBVIOUS
      <3> HIDE DEF v
      <3>2. /\ i - 1 \in Nat /\ (i - 1) + 1 = i /\ (i - 1) + 1 <= Len(text)
            /\ \A x \in 1..1 : text[(i - 1) + x] = v[x]
        BY <1>1, <2>1, <3>1
      <3>3. SubSeq(text, (i - 1) + 1, (i - 1) + 1) = v
        BY <3>1, <3>2, PartIs
      <3> QED BY <3>2, <3>3, Zenon DEF v
    <2> QED BY <2>2, <2>3, Zenon
  <1> QED BY <1>3, Zenon DEF Without

\* Texts without some characters.
LEMMA WithoutBoth ==
  ASSUME NEW V, NEW u \in Seq(V), NEW v \in Seq(V), NEW D, Without(u, D), Without(v, D)
  PROVE  Without(u \o v, D)
  <1> DEFINE m == Len(u)
             n == Len(v)
             t == u \o v
  <1>1. m \in Nat /\ n \in Nat
    BY LenProperties
  <1>2. Joins(t, u, v, m, n)
    BY PutTogether, Zenon
  <1>3. (\A i \in 1..m : u[i] \notin D) /\ (\A i \in 1..n : v[i] \notin D)
    BY Zenon DEF Without
  <1> HIDE DEF m, n, t
  <1>4. ASSUME NEW i \in 1..(m + n) PROVE t[i] \notin D
    <2>1. CASE i <= m
      <3>1. i \in 1..m
        BY <1>1, <2>1
      <3> QED BY <1>2, <1>3, <3>1, Zenon DEF Joins
    <2>2. CASE ~(i <= m)
      <3> DEFINE j == i - m
      <3>1. j \in 1..n /\ i = m + j
        BY <1>1, <2>2
      <3> HIDE DEF j
      <3>2. t[m + j] = v[j]
        BY <1>2, <3>1, Zenon DEF Joins
      <3> QED BY <1>3, <3>1, <3>2, Zenon
    <2> QED BY <2>1, <2>2
  <1> QED BY <1>2, <1>4, Zenon DEF Joins, Without, t

LEMMA WithoutMark ==
  ASSUME NEW c, NEW D, c \notin D
  PROVE  Without(<<c>>, D) /\ Without(<<>>, D)
  BY DEF Without

LEMMA WithoutFewer ==
  ASSUME NEW u, NEW D, Without(u, D), NEW E, E \subseteq D
  PROVE  Without(u, E)
  BY Zenon DEF Without

\* A part with a mark before it is split off.
SplitsOff(text, delim, a, b) ==
  IF b = <<>> THEN ~contains(text, delim) /\ text = a
  ELSE contains(text, delim) /\ before(text, delim) = a /\ after(text, delim) = b

LEMMA MarkedSplits ==
  ASSUME NEW V, NEW a \in Seq(V), NEW b \in Seq(V), NEW d \in V, Without(a, {d})
  PROVE  SplitsOff(a \o Marked(<<d>>, b), <<d>>, a, b)
  <1> DEFINE delim == <<d>>
  <1>1. delim \in Seq(V) /\ delim # <<>> /\ delim[1] = d
    OBVIOUS
  <1> HIDE DEF delim
  <1>2. CASE b = <<>>
    <2>1. a \o <<>> = a
      BY ConcatEmptySeq, Zenon
    <2>2. ~contains(a, delim)
      BY <1>1, DelimiterMissing
    <2> QED BY <1>2, <2>1, <2>2, Zenon DEF SplitsOff, Marked, delim
  <1>3. CASE b # <<>>
    <2>1. CutsAt(a \o (delim \o b), delim, a, b)
      BY <1>1, DelimiterFound
    <2>2. a \o Marked(delim, b) = a \o (delim \o b)
      BY <1>3, Zenon DEF Marked
    <2> QED BY <1>3, <2>1, <2>2, Zenon DEF SplitsOff, CutsAt, delim
  <1> QED BY <1>2, <1>3

LEMMA MarkedIsText ==
  ASSUME NEW V, NEW b \in Seq(V), NEW d \in V
  PROVE  Marked(<<d>>, b) \in Seq(V)
  <1>1. <<d>> \o b \in Seq(V) /\ <<>> \in Seq(V)
    OBVIOUS
  <1> QED BY <1>1, Zenon DEF Marked

LEMMA MarkedWithout ==
  ASSUME NEW V, NEW b \in Seq(V), NEW d \in V, NEW D, d \notin D, Without(b, D)
  PROVE  Without(Marked(<<d>>, b), D)
  <1>1. <<d>> \in Seq(V)
    OBVIOUS
  <1>2. Without(<<d>>, D) /\ Without(<<>>, D)
    BY WithoutMark
  <1> DEFINE delim == <<d>>
  <1> HIDE DEF delim
  <1>3. Without(delim \o b, D)
    BY <1>1, <1>2, WithoutBoth, Zenon DEF delim
  <1> QED BY <1>2, <1>3, Zenon DEF Marked, delim

\* The digits of a port, one after another, and what they are the value of.
ValuesOf(f, digits, n) ==
  f[0] = 0 /\ \A i \in 1..n : f[i] = f[i - 1] * 10 + digit(digits[i])

LEMMA DigitIsDigit ==
  ASSUME NEW c, IsDigit(c)
  PROVE  digit(c) \in 0..9
  BY Zenon DEF digit, IsDigit

\* The value of the first digits, for as many as there are.
LEMMA ValuesGrow ==
  ASSUME NEW n \in Nat, NEW digits, \A i \in 1..n : digit(digits[i]) \in 0..9
  PROVE  \E f \in [0..n -> Nat] : ValuesOf(f, digits, n) /\ \A i \in 0..n : f[i] <= f[n]
  <1> DEFINE step == [r \in Nat \X (1..n) |-> r[1] * 10 + digit(digits[r[2]])]
  <1>1. ASSUME NEW r \in Nat, NEW i \in 1..n
        PROVE  step[<<r, i>>] = r * 10 + digit(digits[i]) /\ step[<<r, i>>] \in Nat
    <2>1. <<r, i>> \in Nat \X (1..n)
      OBVIOUS
    <2>2. step[<<r, i>>] = r * 10 + digit(digits[i])
      BY <2>1
    <2> HIDE DEF step
    <2>3. digit(digits[i]) \in 0..9
      OBVIOUS
    <2> QED BY <2>2, <2>3
  <1> HIDE DEF step
  <1>2. StaysIn(Nat, n, step) /\ 0 \in Nat
    BY <1>1, Zenon DEF StaysIn
  <1>3. PICK f \in [0..n -> Nat] : Iterates(f, n, 0, step)
    BY <1>2, Iteration, Zenon
  <1>4. f[0] = 0 /\ \A i \in 1..n : f[i] = step[<<f[i - 1], i>>]
    BY <1>3, Zenon DEF Iterates
  <1>5. ASSUME NEW i \in 1..n PROVE f[i] = f[i - 1] * 10 + digit(digits[i]) /\ f[i - 1] <= f[i]
    <2>1. i - 1 \in 0..n
      OBVIOUS
    <2>2. f[i - 1] \in Nat
      BY <2>1
    <2>3. f[i] = f[i - 1] * 10 + digit(digits[i])
      BY <1>1, <1>4, <2>2, Zenon
    <2>4. digit(digits[i]) \in 0..9
      OBVIOUS
    <2>5. ASSUME NEW a \in Nat, NEW d \in 0..9, NEW b, b = a * 10 + d PROVE a <= b
      BY <2>5
    <2> QED BY <2>2, <2>3, <2>4, <2>5, Zenon
  <1> DEFINE S == {i \in 0..n : f[n - i] <= f[n]}
  <1>6. 0 \in S
    <2>1. n - 0 = n /\ n \in 0..n
      OBVIOUS
    <2>2. f[n] <= f[n]
      BY <2>1
    <2> QED BY <2>1, <2>2
  <1>7. ASSUME NEW i \in 0..(n - 1), i \in S PROVE i + 1 \in S
    <2>1. n - i \in 1..n /\ (n - i) - 1 = n - (i + 1) /\ n - (i + 1) \in 0..n /\ n \in 0..n /\ n - i \in 0..n
      OBVIOUS
    <2>2. f[n - (i + 1)] <= f[n - i]
      BY <1>5, <2>1, Zenon
    <2>3. f[n - i] <= f[n]
      BY <1>7
    <2>4. f[n - (i + 1)] \in Nat /\ f[n - i] \in Nat /\ f[n] \in Nat
      BY <2>1
    <2>5. f[n - (i + 1)] <= f[n]
      BY <2>2, <2>3, <2>4
    <2> QED BY <2>5
  <1>8. \A i \in 0..n : f[i] <= f[n]
    <2> HIDE DEF S
    <2>1. 0..n \subseteq S
      BY <1>6, <1>7, UpTo
    <2> TAKE i \in 0..n
    <2>2. n - i \in 0..n /\ n - (n - i) = i
      OBVIOUS
    <2>3. n - i \in S
      BY <2>1, <2>2
    <2> QED BY <2>2, <2>3 DEF S
  <1>9. ValuesOf(f, digits, n)
    BY <1>4, <1>5, Zenon DEF ValuesOf
  <1> QED BY <1>8, <1>9, Zenon

\* A function like ValuesOf() is the recursive one.
LEMMA ValueIs ==
  ASSUME NEW digits, Len(digits) \in Nat, NEW f, ValuesOf(f, digits, Len(digits))
  PROVE  ValueOf(digits) = f[Len(digits)]
  <1> DEFINE n == Len(digits)
             Solves(h) == h = [i \in 0..n |-> IF i = 0 THEN 0 ELSE h[i - 1] * 10 + digit(digits[i])]
             path == CHOOSE h : Solves(h)
             g == [i \in 0..n |-> f[i]]
  <1>1. ValueOf(digits) = path[n]
    BY Zenon DEF ValueOf
  <1>2. n \in Nat /\ f[0] = 0 /\ \A i \in 1..n : f[i] = f[i - 1] * 10 + digit(digits[i])
    BY Zenon DEF ValuesOf
  <1> HIDE DEF n
  <1>3. \A i \in 0..n : f[i] = IF i = 0 THEN 0 ELSE g[i - 1] * 10 + digit(digits[i])
    <2> TAKE i \in 0..n
    <2>1. CASE i = 0
      BY <1>2, <2>1, Zenon
    <2>2. CASE i # 0
      <3>1. i \in 1..n /\ i - 1 \in 0..n
        BY <1>2, <2>2
      <3>2. g[i - 1] = f[i - 1]
        BY <3>1
      <3> QED BY <1>2, <2>2, <3>1, <3>2, Zenon
    <2> QED BY <2>1, <2>2
  <1>4. Solves(g)
    BY <1>3, Zenon
  <1>5. Solves(path)
    BY <1>4, Zenon
  <1> HIDE DEF path, g
  <1>6. ASSUME NEW i \in 0..n
        PROVE  path[i] = IF i = 0 THEN 0 ELSE path[i - 1] * 10 + digit(digits[i])
    BY <1>5, Zenon
  <1>7. path[0] = f[0]
    <2>1. 0 \in 0..n
      BY <1>2
    <2> QED BY <1>2, <1>6, <2>1, Zenon
  <1>8. \A i \in 0..(n - 1) : path[i] = f[i] => path[i + 1] = f[i + 1]
    <2> SUFFICES ASSUME NEW i \in 0..(n - 1), path[i] = f[i] PROVE path[i + 1] = f[i + 1]
      OBVIOUS
    <2>1. i + 1 \in 1..n /\ i + 1 \in 0..n /\ i + 1 # 0 /\ (i + 1) - 1 = i
      BY <1>2
    <2>2. path[i + 1] = path[i] * 10 + digit(digits[i + 1])
      BY <1>6, <2>1, Zenon
    <2>3. f[i + 1] = f[i] * 10 + digit(digits[i + 1])
      BY <1>2, <2>1, Zenon
    <2> QED BY <2>2, <2>3, Zenon
  <1>9. \A i \in 0..n : path[i] = f[i]
    <2> HIDE DEF Solves
    <2> QED BY <1>2, <1>7, <1>8, Agreement, Zenon
  <1>10. path[n] = f[n]
    BY <1>2, <1>9
  <1> QED BY <1>1, <1>10, Zenon DEF n

Shorts == {x \in Nat : x <= MaxPort}

LEMMA ShortIs ==
  ASSUME NEW x \in Shorts
  PROVE  short(x) = x
  <1>1. x \in Int /\ 0 <= x /\ x <= 32767
    BY DEF Shorts, MaxPort
  <1>2. ((x + 32768) % 65536) - 32768 = x
    BY <1>1
  <1> QED BY <1>2 DEF short

\* So is the port, as long as it is a short.
LEMMA PortIs ==
  ASSUME NEW digits, Len(digits) \in Nat, NEW f, ValuesOf(f, digits, Len(digits)),
         \A i \in 0..Len(digits) : f[i] \in Shorts
  PROVE  port_of(digits) = f[Len(digits)]
  <1> DEFINE n == Len(digits)
             Solves(h) ==
               h = [i \in 0..n |-> IF i = 0 THEN 0 ELSE short(h[i - 1] * 10 + digit(digits[i]))]
             path == CHOOSE h : Solves(h)
             g == [i \in 0..n |-> f[i]]
  <1>1. port_of(digits) = path[n]
    BY Zenon DEF port_of
  <1>2. n \in Nat /\ f[0] = 0 /\ \A i \in 1..n : f[i] = f[i - 1] * 10 + digit(digits[i])
    BY Zenon DEF ValuesOf
  <1>12. \A i \in 0..n : f[i] \in Shorts
    OBVIOUS
  <1> HIDE DEF n
  <1>13. ASSUME NEW i \in 1..n PROVE f[i] = short(f[i - 1] * 10 + digit(digits[i]))
    <2>1. i \in 0..n
      BY <1>2
    <2>2. short(f[i]) = f[i]
      BY ShortIs, <1>12, <2>1, Zenon
    <2> QED BY <1>2, <2>2, Zenon
  <1>3. \A i \in 0..n : f[i] = IF i = 0 THEN 0 ELSE short(g[i - 1] * 10 + digit(digits[i]))
    <2> TAKE i \in 0..n
    <2>1. CASE i = 0
      BY <1>2, <2>1, Zenon
    <2>2. CASE i # 0
      <3>1. i \in 1..n /\ i - 1 \in 0..n
        BY <1>2, <2>2
      <3>2. g[i - 1] = f[i - 1]
        BY <3>1
      <3> QED BY <1>13, <2>2, <3>1, <3>2, Zenon
    <2> QED BY <2>1, <2>2
  <1>4. Solves(g)
    BY <1>3, Zenon
  <1>5. Solves(path)
    BY <1>4, Zenon
  <1> HIDE DEF path, g
  <1>6. ASSUME NEW i \in 0..n
        PROVE  path[i] = IF i = 0 THEN 0 ELSE short(path[i - 1] * 10 + digit(digits[i]))
    BY <1>5, Zenon
  <1>7. path[0] = f[0]
    <2>1. 0 \in 0..n
      BY <1>2
    <2> QED BY <1>2, <1>6, <2>1, Zenon
  <1>8. \A i \in 0..(n - 1) : path[i] = f[i] => path[i + 1] = f[i + 1]
    <2> SUFFICES ASSUME NEW i \in 0..(n - 1), path[i] = f[i] PROVE path[i + 1] = f[i + 1]
      OBVIOUS
    <2>1. i + 1 \in 1..n /\ i + 1 \in 0..n /\ i + 1 # 0 /\ (i + 1) - 1 = i
      BY <1>2
    <2>2. path[i + 1] = short(path[i] * 10 + digit(digits[i + 1]))
      BY <1>6, <2>1, Zenon
    <2>3. f[i + 1] = short(f[i] * 10 + digit(digits[i + 1]))
      BY <1>13, <2>1, Zenon
    <2> QED BY <2>2, <2>3, Zenon
  <1>9. \A i \in 0..n : path[i] = f[i]
    <2> HIDE DEF Solves
    <2> QED BY <1>2, <1>7, <1>8, Agreement, Zenon
  <1>10. path[n] = f[n]
    BY <1>2, <1>9
  <1> QED BY <1>1, <1>10, Zenon DEF n

LEMMA PortIsValue ==
  ASSUME NEW digits \in Seq(STRING), \A i \in 1..Len(digits) : IsDigit(digits[i]),
         ValueOf(digits) <= MaxPort
  PROVE  port_of(digits) = ValueOf(digits)
  <1> DEFINE n == Len(digits)
  <1>1. n \in Nat
    BY LenProperties
  <1>2. \A i \in 1..n : digit(digits[i]) \in 0..9
    BY DigitIsDigit, Zenon
  <1> HIDE DEF n
  <1>3. PICK f \in [0..n -> Nat] : ValuesOf(f, digits, n) /\ \A i \in 0..n : f[i] <= f[n]
    BY <1>1, <1>2, ValuesGrow, Zenon
  <1>4. ValueOf(digits) = f[n]
    <2>1. Len(digits) \in Nat /\ ValuesOf(f, digits, Len(digits))
      BY <1>1, <1>3, Zenon DEF n
    <2>2. ValueOf(digits) = f[Len(digits)]
      BY <2>1, ValueIs
    <2> QED BY <2>2, Zenon DEF n
  <1>5. \A i \in 0..n : f[i] \in Shorts
    <2> TAKE i \in 0..n
    <2>1. n \in 0..n /\ f[i] <= f[n]
      BY <1>1, <1>3
    <2>2. f[i] \in Nat /\ f[n] \in Nat /\ f[n] <= MaxPort
      BY <1>4, <2>1
    <2>3. ASSUME NEW x \in Nat, NEW y \in Nat, x <= y, y <= MaxPort PROVE x \in Shorts
      BY <2>3 DEF Shorts, MaxPort
    <2> QED BY <2>1, <2>2, <2>3, Zenon
  <1>6. port_of(digits) = f[n]
    <2>1. Len(digits) \in Nat /\ ValuesOf(f, digits, Len(digits))
          /\ \A i \in 0..Len(digits) : f[i] \in Shorts
      BY <1>1, <1>3, <1>5, Zenon DEF n
    <2>2. port_of(digits) = f[Len(digits)]
      BY <2>1, PortIs
    <2> QED BY <2>2, Zenon DEF n
  <1> QED BY <1>4, <1>6, Zenon

UriChars == STRING \cup {":", "@", "/", "?", "#"}
UriText == Seq(UriChars)

LEMMA UriCharsAre == ":" \in UriChars /\ "@" \in UriChars /\ "/" \in UriChars /\ "?" \in UriChars /\ "#" \in UriChars
  BY DEF UriChars

\* "a[:b]" is split into a and b.
SplitsTo(text, a, b) == split(text) = <<a, b>> /\ (contains(text, <<":">>) <=> b # <<>>)

LEMMA SplitIs ==
  ASSUME NEW a \in UriText, NEW b \in UriText, Without(a, {":"})
  PROVE  SplitsTo(a \o Marked(<<":">>, b), a, b)
  <1> DEFINE text == a \o Marked(<<":">>, b)
             colon == <<":">>
  <1>1. SplitsOff(text, colon, a, b)
    BY MarkedSplits, UriCharsAre, Zenon DEF UriText
  <1>2. split(text) = IF contains(text, colon) THEN <<before(text, colon), after(text, colon)>>
                      ELSE <<text, <<>>>>
    BY Zenon DEF split
  <1> HIDE DEF text, colon
  <1>3. CASE b = <<>>
    <2>1. ~contains(text, colon) /\ text = a
      BY <1>1, <1>3, Zenon DEF SplitsOff
    <2> QED BY <1>2, <1>3, <2>1, Zenon DEF SplitsTo, text, colon
  <1>4. CASE b # <<>>
    <2>1. contains(text, colon) /\ before(text, colon) = a /\ after(text, colon) = b
      BY <1>1, <1>4, Zenon DEF SplitsOff
    <2> QED BY <1>2, <1>4, <2>1, Zenon DEF SplitsTo, text, colon
  <1> QED BY <1>3, <1>4, Zenon

\* What the grammar says of the parts before the path, and of those from it on.
AuthorityParts(p) ==
  /\ p.user \in UriText /\ p.password \in UriText /\ p.host \in UriText /\ p.port \in UriText
  /\ Without(p.user, {":", "@", "/"}) /\ Without(p.password, {"@", "/"})
  /\ Without(p.host, {":", "@", "/"}) /\ Without(p.port, {"@", "/"})
  /\ p.user = <<>> => p.password = <<>>
RequestParts(p) ==
  /\ p.path \in UriText /\ p.query \in UriText /\ p.fragment \in UriText
  /\ Without(p.path, {"?", "#"}) /\ Without(p.query, {"#"})
  /\ contains(p.fragment, <<"?">>) => p.query # <<>>

Login(p) == p.user \o Marked(<<":">>, p.password)
Place(p) == p.host \o Marked(<<":">>, p.port)

LEMMA FewerDelimiters ==
  ASSUME NEW u
  PROVE  /\ Without(u, {":", "@", "/"}) => Without(u, {":"}) /\ Without(u, {"@"}) /\ Without(u, {"/"})
         /\ Without(u, {"@", "/"}) => Without(u, {"@"}) /\ Without(u, {"/"})
         /\ Without(u, {"?", "#"}) => Without(u, {"?"}) /\ Without(u, {"#"})
  <1>1. /\ {":"} \subseteq {":", "@", "/"} /\ {"@"} \subseteq {":", "@", "/"}
        /\ {"/"} \subseteq {":", "@", "/"} /\ {"@"} \subseteq {"@", "/"} /\ {"/"} \subseteq {"@", "/"}
        /\ {"?"} \subseteq {"?", "#"} /\ {"#"} \subseteq {"?", "#"}
    OBVIOUS
  <1>2. \A D, E : E \subseteq D /\ Without(u, D) => Without(u, E)
    BY WithoutFewer, Zenon
  <1>3. Without(u, {":", "@", "/"}) => Without(u, {":"}) /\ Without(u, {"@"}) /\ Without(u, {"/"})
    BY <1>1, <1>2, Zenon
  <1>4. Without(u, {"@", "/"}) => Without(u, {"@"}) /\ Without(u, {"/"})
    BY <1>1, <1>2, Zenon
  <1>5. Without(u, {"?", "#"}) => Without(u, {"?"}) /\ Without(u, {"#"})
    BY <1>1, <1>2, Zenon
  <1> QED BY <1>3, <1>4, <1>5, Zenon

LEMMA PlaceIs ==
  ASSUME NEW p, AuthorityParts(p), NEW d \in {"@", "/"}
  PROVE  Login(p) \in UriText /\ Place(p) \in UriText /\ Without(Login(p), {d}) /\ Without(Place(p), {d})
  <1>1. d # ":" /\ ":" \notin {d} /\ ":" \in UriChars
    BY UriCharsAre
  <1>2. ASSUME NEW a \in UriText, NEW b \in UriText, Without(a, {d}), Without(b, {d})
        PROVE  a \o Marked(<<":">>, b) \in UriText /\ Without(a \o Marked(<<":">>, b), {d})
    <2> DEFINE m == Marked(<<":">>, b)
    <2>1. m \in UriText /\ Without(m, {d})
      BY <1>1, <1>2, MarkedIsText, MarkedWithout, Zenon DEF UriText
    <2> HIDE DEF m
    <2>2. a \o m \in UriText /\ Without(a \o m, {d})
      BY <1>2, <2>1, WithoutBoth, ConcatProperties, Zenon DEF UriText
    <2> QED BY <2>2, Zenon DEF m
  <1>3. /\ p.user \in UriText /\ p.password \in UriText /\ p.host \in UriText /\ p.port \in UriText
    BY Zenon DEF AuthorityParts
  <1>4. /\ Without(p.user, {d}) /\ Without(p.password, {d})
        /\ Without(p.host, {d}) /\ Without(p.port, {d})
    <2>1. CASE d = "@"
      BY <2>1, FewerDelimiters, Zenon DEF AuthorityParts
    <2>2. CASE d = "/"
      BY <2>2, FewerDelimiters, Zenon DEF AuthorityParts
    <2> QED BY <2>1, <2>2
  <1> QED BY <1>2, <1>3, <1>4, Zenon DEF Login, Place

\* "[user[:password]@]host[:port]" is read.
LEMMA AuthorityIs ==
  ASSUME NEW p, AuthorityParts(p)
  PROVE  authority(AuthorityOf(p))
           = [user |-> p.user, password |-> p.password, host |-> p.host,
              port |-> IF p.port = <<>> THEN -1 ELSE port_of(p.port)]
  <1> DEFINE text == AuthorityOf(p)
             at == <<"@">>
             L == Login(p)
             H == Place(p)
             login == IF contains(text, at) THEN before(text, at) ELSE <<>>
             place == IF contains(text, at) THEN after(text, at) ELSE text
  <1>1. L \in UriText /\ H \in UriText /\ Without(L, {"@"}) /\ Without(H, {"@"})
    <2>1. "@" \in {"@", "/"}
      OBVIOUS
    <2> QED BY <2>1, PlaceIs
  <1>2. at \in UriText /\ at # <<>> /\ at[1] = "@" /\ <<>> \in UriText
    BY UriCharsAre DEF UriText
  <1>10. /\ p.user \in UriText /\ p.password \in UriText /\ p.host \in UriText /\ p.port \in UriText
         /\ Without(p.user, {":"}) /\ Without(p.host, {":"})
    BY FewerDelimiters, Zenon DEF AuthorityParts
  <1>3. SplitsTo(L, p.user, p.password)
    BY <1>10, SplitIs, Zenon DEF Login
  <1>4. SplitsTo(H, p.host, p.port)
    BY <1>10, SplitIs, Zenon DEF Place
  <1> HIDE DEF at, L, H
  <1>5. split(login) = <<p.user, p.password>> /\ place = H
    <2>1. CASE p.user = <<>>
      <3>1. text = H
        <4>1. text = <<>> \o H
          BY <2>1, Zenon DEF AuthorityOf, H, Place
        <4>2. <<>> \o H = H
          BY <1>1, ConcatEmptySeq, Zenon DEF UriText
        <4> QED BY <4>1, <4>2, Zenon
      <3> HIDE DEF text
      <3>2. ~contains(H, at)
        BY <1>1, <1>2, DelimiterMissing, Zenon DEF UriText
      <3>3. L = <<>>
        <4>1. p.password = <<>>
          BY <2>1, Zenon DEF AuthorityParts
        <4>2. Marked(<<":">>, <<>>) = <<>>
          BY Zenon DEF Marked
        <4>3. <<>> \o <<>> = <<>>
          OBVIOUS
        <4> QED BY <2>1, <4>1, <4>2, <4>3, Zenon DEF L, Login
      <3> QED BY <1>3, <3>1, <3>2, <3>3, Zenon DEF SplitsTo
    <2>2. CASE p.user # <<>>
      <3>1. text = (L \o at) \o H
        BY <2>2, Zenon DEF AuthorityOf, L, H, at, Login, Place
      <3>2. Associates(L, at, H)
        BY <1>1, <1>2, Associative, Zenon DEF UriText
      <3>3. text = L \o (at \o H)
        BY <3>1, <3>2, Zenon DEF Associates
      <3>4. CutsAt(L \o (at \o H), at, L, H)
        BY <1>1, <1>2, DelimiterFound, Zenon DEF UriText
      <3> HIDE DEF text
      <3>5. contains(text, at) /\ before(text, at) = L /\ after(text, at) = H
        BY <3>3, <3>4, Zenon DEF CutsAt
      <3> QED BY <1>3, <3>5, Zenon DEF SplitsTo
    <2> QED BY <2>1, <2>2
  <1>6. /\ <<p.user, p.password>>[1] = p.user /\ <<p.user, p.password>>[2] = p.password
        /\ <<p.host, p.port>>[1] = p.host /\ <<p.host, p.port>>[2] = p.port
    OBVIOUS
  <1>7. authority(text) = [user |-> split(login)[1], password |-> split(login)[2],
                           host |-> split(place)[1],
                           port |-> IF contains(place, <<":">>) THEN port_of(split(place)[2]) ELSE -1]
    BY Zenon DEF authority, at
  <1> HIDE DEF login, place, text
  <1>8. split(place) = <<p.host, p.port>> /\ (contains(place, <<":">>) <=> p.port # <<>>)
    BY <1>4, <1>5, Zenon DEF SplitsTo
  <1>9. (IF contains(place, <<":">>) THEN port_of(p.port) ELSE -1)
          = IF p.port = <<>> THEN -1 ELSE port_of(p.port)
    BY <1>8, Zenon
  <1> QED BY <1>5, <1>6, <1>7, <1>8, <1>9, Zenon DEF text

\* "[path][?query][#fragment]" is read.
LEMMA RequestIs ==
  ASSUME NEW p, RequestParts(p)
  PROVE  /\ request(RequestOf(p))
              = [path |-> p.path, query |-> p.query, fragment |-> p.fragment]
         /\ RequestOf(p) \in UriText
  <1> DEFINE text == RequestOf(p)
             q == <<"?">>
             s == <<"#">>
             F == Marked(s, p.fragment)
             rest == IF contains(text, q) THEN after(text, q) ELSE text
             cut == IF contains(rest, s) THEN before(rest, s) ELSE rest
  <1>1. /\ p.path \in UriText /\ p.query \in UriText /\ p.fragment \in UriText
        /\ Without(p.path, {"?"}) /\ Without(p.path, {"#"}) /\ Without(p.query, {"#"})
    BY FewerDelimiters, Zenon DEF RequestParts
  <1>2. F \in UriText /\ Marked(q, p.query) \in UriText
    BY <1>1, UriCharsAre, MarkedIsText, Zenon DEF UriText
  <1>3. q \in UriText /\ q # <<>> /\ q[1] = "?"
    BY UriCharsAre DEF UriText
  <1>4. /\ SplitsOff(p.query \o F, s, p.query, p.fragment)
        /\ SplitsOff(p.path \o F, s, p.path, p.fragment)
    BY <1>1, UriCharsAre, MarkedSplits, Zenon DEF UriText
  <1>5. ~contains(p.fragment, q) => Without(F, {"?"})
    <2>1. SUFFICES ASSUME ~contains(p.fragment, q) PROVE Without(F, {"?"})
      OBVIOUS
    <2>2. Without(p.fragment, {"?"})
      BY <1>1, <2>1, UriCharsAre, NotFound, Zenon DEF UriText
    <2>3. "#" \notin {"?"}
      OBVIOUS
    <2> QED BY <1>1, <2>2, <2>3, UriCharsAre, MarkedWithout, Zenon DEF UriText
  <1>6. text = p.path \o (Marked(q, p.query) \o F)
    BY Zenon DEF RequestOf
  <1>7. request(text) = [path |-> IF contains(text, q) THEN before(text, q) ELSE cut,
                         query |-> IF contains(text, q) THEN cut ELSE <<>>,
                         fragment |-> IF contains(rest, s) THEN after(rest, s) ELSE <<>>]
    BY Zenon DEF request
  <1>8. contains(p.fragment, q) => p.query # <<>>
    BY Zenon DEF RequestParts
  <1> HIDE DEF q, s, F, text
  <1>9. text \in UriText
    <2> DEFINE m == Marked(q, p.query)
    <2> HIDE DEF m
    <2>1. m \in UriText
      BY <1>2, Zenon DEF m
    <2>2. m \o F \in UriText
      BY <1>2, <2>1, ConcatProperties, Zenon DEF UriText
    <2>3. p.path \o (m \o F) \in UriText
      BY <1>1, <2>2, ConcatProperties, Zenon DEF UriText
    <2> QED BY <1>6, <2>3, Zenon DEF m
  <1>10. ASSUME NEW a, rest = a \o F, SplitsOff(a \o F, s, a, p.fragment)
         PROVE  cut = a /\ (IF contains(rest, s) THEN after(rest, s) ELSE <<>>) = p.fragment
    <2> HIDE DEF rest
    <2>1. CASE p.fragment = <<>>
      BY <1>10, <2>1, Zenon DEF SplitsOff
    <2>2. CASE p.fragment # <<>>
      BY <1>10, <2>2, Zenon DEF SplitsOff
    <2> QED BY <2>1, <2>2
  <1>11. CASE p.query = <<>>
    <2>1. text = p.path \o F
      <3>1. Marked(q, p.query) = <<>>
        BY <1>11, Zenon DEF Marked
      <3>2. <<>> \o F = F
        BY <1>2, ConcatEmptySeq, Zenon DEF UriText
      <3> QED BY <1>6, <3>1, <3>2, Zenon
    <2>2. ~contains(text, q)
      <3>1. Without(p.path \o F, {"?"}) /\ p.path \o F \in UriText
        BY <1>1, <1>2, <1>5, <1>8, <1>11, WithoutBoth, ConcatProperties, Zenon DEF UriText
      <3>2. ~contains(p.path \o F, q)
        BY <1>3, <3>1, DelimiterMissing, Zenon DEF UriText
      <3> QED BY <2>1, <3>2, Zenon
    <2>3. rest = p.path \o F
      BY <2>1, <2>2, Zenon
    <2>4. cut = p.path /\ (IF contains(rest, s) THEN after(rest, s) ELSE <<>>) = p.fragment
      BY <1>4, <1>10, <2>3, Zenon
    <2> HIDE DEF rest, cut
    <2> QED BY <1>7, <1>9, <1>11, <2>2, <2>4, Zenon DEF text
  <1>12. CASE p.query # <<>>
    <2> DEFINE b == p.query \o F
    <2>1. b \in UriText
      BY <1>1, <1>2, ConcatProperties, Zenon DEF UriText
    <2>2. text = p.path \o (q \o b)
      <3>1. Marked(q, p.query) = q \o p.query
        BY <1>12, Zenon DEF Marked
      <3>2. Associates(q, p.query, F)
        BY <1>1, <1>2, <1>3, Associative, Zenon DEF UriText
      <3> QED BY <1>6, <3>1, <3>2, Zenon DEF Associates
    <2> HIDE DEF b
    <2>3. CutsAt(p.path \o (q \o b), q, p.path, b)
      BY <1>1, <1>3, <2>1, DelimiterFound, Zenon DEF UriText
    <2>4. contains(text, q) /\ before(text, q) = p.path /\ after(text, q) = b
      BY <2>2, <2>3, Zenon DEF CutsAt
    <2>5. rest = p.query \o F
      BY <2>4, Zenon DEF b
    <2>6. cut = p.query /\ (IF contains(rest, s) THEN after(rest, s) ELSE <<>>) = p.fragment
      BY <1>4, <1>10, <2>5, Zenon
    <2> HIDE DEF rest, cut
    <2> QED BY <1>7, <1>9, <2>4, <2>6, Zenon DEF text
  <1> QED BY <1>11, <1>12

\* What comes before the path has no "/".
LEMMA AuthorityWithout ==
  ASSUME NEW p, AuthorityParts(p)
  PROVE  AuthorityOf(p) \in UriText /\ Without(AuthorityOf(p), {"/"})
  <1> DEFINE L == Login(p)
             H == Place(p)
             at == <<"@">>
  <1>1. L \in UriText /\ H \in UriText /\ Without(L, {"/"}) /\ Without(H, {"/"})
    <2>1. "/" \in {"@", "/"}
      OBVIOUS
    <2> QED BY <2>1, PlaceIs
  <1>2. at \in UriText /\ Without(at, {"/"})
    <2>1. "@" \notin {"/"} /\ at \in UriText
      BY UriCharsAre DEF UriText
    <2> QED BY <2>1, WithoutMark, Zenon
  <1>3. AuthorityOf(p) = (IF p.user = <<>> THEN <<>> ELSE L \o at) \o H
    BY Zenon DEF AuthorityOf, Login, Place
  <1> HIDE DEF L, H, at
  <1>4. L \o at \in UriText /\ Without(L \o at, {"/"})
    BY <1>1, <1>2, ConcatProperties, WithoutBoth, Zenon DEF UriText
  <1>5. (L \o at) \o H \in UriText /\ Without((L \o at) \o H, {"/"})
    <2> DEFINE u == L \o at
    <2>1. u \in UriText /\ Without(u, {"/"})
      BY <1>4, Zenon
    <2> HIDE DEF u
    <2>2. u \o H \in UriText /\ Without(u \o H, {"/"})
      BY <1>1, <2>1, ConcatProperties, WithoutBoth, Zenon DEF UriText
    <2> QED BY <2>2, Zenon DEF u
  <1>6. <<>> \o H = H
    BY <1>1, ConcatEmptySeq, Zenon DEF UriText
  <1> QED BY <1>1, <1>3, <1>5, <1>6, Zenon

\* The request begins where the authority ends.
PathAt(t, a, r) ==
  IF r = <<>> THEN ~contains(t, <<"/">>) /\ t = a
  ELSE contains(t, <<"/">>) /\ before(t, <<"/">>) = a /\ SubSeq(t, find(t, <<"/">>), Len(t)) = r

LEMMA PathIs ==
  ASSUME NEW a \in UriText, Without(a, {"/"}), NEW r \in UriText, r # <<>> => r[1] = "/"
  PROVE  PathAt(a \o r, a, r)
  <1> DEFINE mark == <<"/">>
             t == a \o r
             m == Len(a)
             n == Len(r)
  <1>1. mark \in UriText /\ mark # <<>> /\ mark[1] = "/"
    BY UriCharsAre DEF UriText
  <1>2. CASE r = <<>>
    <2> HIDE DEF mark
    <2>1. t = a
      BY <1>2, ConcatEmptySeq, Zenon DEF UriText
    <2>2. ~contains(a, mark)
      BY <1>1, DelimiterMissing, Zenon DEF UriText
    <2> HIDE DEF t
    <2>3. ~contains(t, mark) /\ t = a
      BY <2>1, <2>2, Zenon
    <2> QED BY <1>2, <2>3, Zenon DEF PathAt, mark, t
  <1>3. CASE r # <<>>
    <2> DEFINE b == Tail(r)
    <2>1. b \in UriText /\ r = mark \o b
      <3>1. Len(r) >= 1 /\ r[1] = "/" /\ r \in Seq(UriChars)
        BY <1>3 DEF UriText
      <3>2. Tail(r) \in Seq(UriChars) /\ r = <<r[1]>> \o Tail(r)
        BY <1>3, <3>1
      <3>3. <<r[1]>> = mark
        BY <3>1
      <3> HIDE DEF mark
      <3> QED BY <3>2, <3>3, Zenon DEF UriText
    <2> HIDE DEF mark, b
    <2>2. CutsAt(a \o (mark \o b), mark, a, b)
      BY <1>1, <2>1, DelimiterFound, Zenon DEF UriText
    <2>3. find(t, mark) = m + 1 /\ contains(t, mark) /\ before(t, mark) = a
      BY <2>1, <2>2, Zenon DEF CutsAt
    <2>4. Joins(t, a, r, m, n)
      BY PutTogether, Zenon DEF UriText
    <2>5. m \in Nat /\ n \in Nat /\ t \in Seq(UriChars)
      BY LenProperties, ConcatProperties, Zenon DEF UriText
    <2> HIDE DEF t, m, n
    <2>6. Len(t) = m + n /\ \A i \in 1..n : t[m + i] = r[i]
      BY <2>4, Zenon DEF Joins
    <2>7. SubSeq(t, m + 1, m + n) = r
      <3>1. m + n <= Len(t) /\ r \in Seq(UriChars) /\ n = Len(r)
        BY <2>5, <2>6, SMT DEF UriText, n
      <3> QED BY <2>5, <2>6, <3>1, PartIs
    <2>8. SubSeq(t, find(t, mark), Len(t)) = r
      BY <2>3, <2>6, <2>7, Zenon
    <2> QED BY <1>3, <2>3, <2>8, Zenon DEF PathAt, mark, t
  <1> QED BY <1>2, <1>3

\* What the grammar says of the scheme and of the path.
Begins(p) ==
  /\ p.scheme \in UriText /\ Without(p.scheme, {":"})
  /\ p.path # <<>> => p.path[1] = "/"
  /\ p.path = <<>> => p.query = <<>> /\ p.fragment = <<>>
  /\ p.scheme = <<>> => ~contains(Compose(p), <<":", "/", "/">>)

\* The scheme, and what is left after it.
SchemeAt(t, scheme, rest) ==
  LET mark == <<":", "/", "/">>
  IN IF scheme = <<>> THEN ~contains(t, mark) /\ t = rest
     ELSE contains(t, mark) /\ before(t, mark) = scheme /\ after(t, mark) = rest

LEMMA SchemeIs ==
  ASSUME NEW p, Begins(p), AuthorityOf(p) \in UriText, RequestOf(p) \in UriText
  PROVE  SchemeAt(Compose(p), p.scheme, AuthorityOf(p) \o RequestOf(p))
  <1> DEFINE mark == <<":", "/", "/">>
             t == Compose(p)
             rest == AuthorityOf(p) \o RequestOf(p)
  <1>1. mark \in UriText /\ mark # <<>> /\ mark[1] = ":"
    BY UriCharsAre DEF UriText
  <1>2. rest \in UriText
    BY ConcatProperties, Zenon DEF UriText
  <1>3. p.scheme \in UriText /\ Without(p.scheme, {":"})
    BY Zenon DEF Begins
  <1>4. t = (IF p.scheme = <<>> THEN <<>> ELSE p.scheme \o mark) \o rest
    BY Zenon DEF Compose
  <1>5. p.scheme = <<>> => ~contains(t, mark)
    BY Zenon DEF Begins
  <1> HIDE DEF mark, t, rest
  <1>6. CASE p.scheme = <<>>
    <2>1. t = rest
      BY <1>2, <1>4, <1>6, ConcatEmptySeq, Zenon DEF UriText
    <2> QED BY <1>5, <1>6, <2>1, Zenon DEF SchemeAt, mark, t, rest
  <1>7. CASE p.scheme # <<>>
    <2>1. t = (p.scheme \o mark) \o rest
      BY <1>4, <1>7, Zenon
    <2>2. Associates(p.scheme, mark, rest)
      BY <1>1, <1>2, <1>3, Associative, Zenon DEF UriText
    <2>3. t = p.scheme \o (mark \o rest)
      BY <2>1, <2>2, Zenon DEF Associates
    <2>4. CutsAt(p.scheme \o (mark \o rest), mark, p.scheme, rest)
      BY <1>1, <1>2, <1>3, DelimiterFound, Zenon DEF UriText
    <2>5. contains(t, mark) /\ before(t, mark) = p.scheme /\ after(t, mark) = rest
      BY <2>3, <2>4, Zenon DEF CutsAt
    <2> QED BY <1>7, <2>5, Zenon DEF SchemeAt, mark, t, rest
  <1> QED BY <1>6, <1>7

\* The constructor reads the parts.
UriIs(p, uri) ==
  /\ uri.scheme = p.scheme /\ uri.user = p.user /\ uri.password = p.password
  /\ uri.host = p.host /\ uri.port = IF p.port = <<>> THEN -1 ELSE port_of(p.port)
  /\ uri.path = p.path /\ uri.query = p.query /\ uri.fragment = p.fragment
  /\ uri.request_uri = RequestOf(p)

LEMMA PartsAre ==
  ASSUME NEW p, AuthorityParts(p), RequestParts(p), Begins(p)
  PROVE  UriIs(p, Uri(Compose(p)))
  <1> DEFINE t == Compose(p)
             A == AuthorityOf(p)
             R == RequestOf(p)
             mark == <<":", "/", "/">>
             slash == <<"/">>
             scheme == IF contains(t, mark) THEN before(t, mark) ELSE <<>>
             rest == IF contains(t, mark) THEN after(t, mark) ELSE t
             path_found == contains(rest, slash)
             place == authority(IF path_found THEN before(rest, slash) ELSE rest)
             request_uri == IF path_found THEN SubSeq(rest, find(rest, slash), Len(rest)) ELSE <<>>
             parts == IF path_found THEN request(request_uri)
                      ELSE [path |-> <<>>, query |-> <<>>, fragment |-> <<>>]
             port == IF p.port = <<>> THEN -1 ELSE port_of(p.port)
  <1>1. Uri(t) = [scheme |-> scheme, user |-> place.user, password |-> place.password,
                  host |-> place.host, port |-> place.port, path |-> parts.path,
                  query |-> parts.query, fragment |-> parts.fragment, request_uri |-> request_uri]
    BY Zenon DEF Uri
  <1>2. A \in UriText /\ Without(A, {"/"})
    BY AuthorityWithout, Zenon
  <1>3. R \in UriText /\ request(R) = [path |-> p.path, query |-> p.query, fragment |-> p.fragment]
    BY RequestIs, Zenon
  <1>4. authority(A) = [user |-> p.user, password |-> p.password, host |-> p.host, port |-> port]
    BY AuthorityIs, Zenon
  <1>5. SchemeAt(t, p.scheme, A \o R)
    BY <1>2, <1>3, SchemeIs, Zenon
  <1>6. /\ p.path = <<>> => R = <<>> /\ p.query = <<>> /\ p.fragment = <<>>
        /\ p.path # <<>> => R # <<>> /\ R[1] = "/"
    <2>1. CASE p.path = <<>>
      <3>1. p.query = <<>> /\ p.fragment = <<>>
        BY <2>1, Zenon DEF Begins
      <3>2. Marked(<<"?">>, <<>>) = <<>> /\ Marked(<<"#">>, <<>>) = <<>>
        BY Zenon DEF Marked
      <3>3. <<>> \o (<<>> \o <<>>) = <<>>
        OBVIOUS
      <3> QED BY <2>1, <3>1, <3>2, <3>3, Zenon DEF RequestOf
    <2>2. CASE p.path # <<>>
      <3> DEFINE m == Marked(<<"?">>, p.query) \o Marked(<<"#">>, p.fragment)
      <3>1. m \in UriText
        <4>1. Marked(<<"?">>, p.query) \in UriText /\ Marked(<<"#">>, p.fragment) \in UriText
          BY UriCharsAre, MarkedIsText, Zenon DEF UriText, RequestParts
        <4> QED BY <4>1, ConcatProperties, Zenon DEF UriText
      <3>2. p.path \in UriText /\ p.path[1] = "/"
        BY <2>2, Zenon DEF Begins, RequestParts
      <3>3. R = p.path \o m
        BY Zenon DEF RequestOf
      <3> HIDE DEF m, R
      <3>4. Joins(p.path \o m, p.path, m, Len(p.path), Len(m))
        BY <3>1, <3>2, PutTogether, Zenon DEF UriText
      <3>5. Len(p.path) \in Nat /\ Len(m) \in Nat /\ 1 \in 1..Len(p.path) /\ Len(p.path) + Len(m) # 0
        <4> DEFINE a == p.path
        <4>1. a \in Seq(UriChars) /\ a # <<>> /\ m \in Seq(UriChars)
          BY <2>2, <3>1, <3>2, Zenon DEF UriText
        <4> HIDE DEF a
        <4>2. Len(a) \in Nat /\ Len(m) \in Nat /\ 1 \in 1..Len(a) /\ Len(a) + Len(m) # 0
          BY <4>1
        <4> QED BY <4>2, Zenon DEF a
      <3>6. Len(R) = Len(p.path) + Len(m) /\ R[1] = p.path[1]
        BY <3>3, <3>4, <3>5, Zenon DEF Joins
      <3>7. R # <<>>
        <4>1. Len(R) # 0
          BY <3>5, <3>6, Zenon
        <4> QED BY <4>1
      <3> QED BY <2>2, <3>2, <3>6, <3>7, Zenon
    <2> HIDE DEF R
    <2> QED BY <2>1, <2>2, Zenon
  <1> HIDE DEF t, A, R, mark, slash, port
  <1>7. scheme = p.scheme /\ rest = A \o R
    <2>1. CASE p.scheme = <<>>
      BY <1>5, <2>1, Zenon DEF SchemeAt, mark
    <2>2. CASE p.scheme # <<>>
      BY <1>5, <2>2, Zenon DEF SchemeAt, mark
    <2> QED BY <2>1, <2>2
  <1>8. PathAt(A \o R, A, R)
    <2>1. R # <<>> => R[1] = "/"
      BY <1>6, Zenon
    <2> QED BY <1>2, <1>3, <2>1, PathIs, Zenon
  <1> HIDE DEF scheme, rest
  <1>9. /\ place = [user |-> p.user, password |-> p.password, host |-> p.host, port |-> port]
        /\ parts = [path |-> p.path, query |-> p.query, fragment |-> p.fragment]
        /\ request_uri = R
    <2>1. CASE R = <<>>
      <3>1. ~path_found /\ rest = A
        BY <1>7, <1>8, <2>1, Zenon DEF PathAt, slash
      <3>2. p.path = <<>> /\ p.query = <<>> /\ p.fragment = <<>>
        BY <1>6, <2>1, Zenon
      <3> QED BY <1>4, <2>1, <3>1, <3>2, Zenon
    <2>2. CASE R # <<>>
      <3>1. path_found /\ before(rest, slash) = A /\ SubSeq(rest, find(rest, slash), Len(rest)) = R
        BY <1>7, <1>8, <2>2, Zenon DEF PathAt, slash
      <3> QED BY <1>3, <1>4, <3>1, Zenon
    <2> QED BY <2>1, <2>2
  <1> HIDE DEF place, parts, request_uri
  <1>10. /\ place.user = p.user /\ place.password = p.password /\ place.host = p.host
         /\ place.port = port
    BY <1>9
  <1>11. parts.path = p.path /\ parts.query = p.query /\ parts.fragment = p.fragment
    BY <1>9
  <1> DEFINE uri == Uri(t)
  <1>12. /\ uri.scheme = p.scheme /\ uri.user = p.user /\ uri.password = p.password
         /\ uri.host = p.host /\ uri.port = port
         /\ uri.path = p.path /\ uri.query = p.query /\ uri.fragment = p.fragment
         /\ uri.request_uri = R
    BY <1>1, <1>7, <1>9, <1>10, <1>11
  <1> QED BY <1>12, Zenon DEF UriIs, t, R, port

\* The parts of a URI of the grammar are found again, in any characters.
THEOREM UriIsRead ==
  ASSUME NEW p, WellFormed(p), PartsOf(p) \subseteq Seq(STRING)
  PROVE  PartsFound(p)
  <1>1. /\ p.scheme \in Seq(STRING) /\ p.user \in Seq(STRING) /\ p.password \in Seq(STRING)
        /\ p.host \in Seq(STRING) /\ p.port \in Seq(STRING) /\ p.path \in Seq(STRING)
        /\ p.query \in Seq(STRING) /\ p.fragment \in Seq(STRING)
    BY Zenon DEF PartsOf
  <1>2. Seq(STRING) \subseteq UriText
    BY SeqMonotonic, Zenon DEF UriText, UriChars
  <1>3. /\ p.scheme \in UriText /\ p.user \in UriText /\ p.password \in UriText
        /\ p.host \in UriText /\ p.port \in UriText /\ p.path \in UriText
        /\ p.query \in UriText /\ p.fragment \in UriText
    BY <1>1, <1>2, Zenon
  <1>4. SUFFICES ASSUME p.user = <<>> => p.password = <<>>,
                        p.path = <<>> => p.query = <<>> /\ p.fragment = <<>>,
                        ValueOf(p.port) <= MaxPort,
                        p.scheme = <<>> => ~contains(Compose(p), <<":", "/", "/">>),
                        contains(p.fragment, <<"?">>) => p.query # <<>>
                 PROVE  LET uri == Uri(Compose(p))
                        IN /\ uri.scheme = p.scheme /\ uri.user = p.user /\ uri.password = p.password
                           /\ uri.host = p.host
                           /\ uri.port = IF p.port = <<>> THEN -1 ELSE ValueOf(p.port)
                           /\ uri.path = p.path /\ uri.query = p.query /\ uri.fragment = p.fragment
                           /\ uri.request_uri = RequestOf(p)
    BY Zenon DEF PartsFound
  <1>5. AuthorityParts(p) /\ RequestParts(p) /\ Begins(p)
    BY <1>3, <1>4, Zenon DEF AuthorityParts, RequestParts, Begins, WellFormed
  <1>6. UriIs(p, Uri(Compose(p)))
    BY <1>5, PartsAre, Zenon
  <1>7. port_of(p.port) = ValueOf(p.port)
    <2>1. \A i \in 1..Len(p.port) : IsDigit(p.port[i])
      BY Zenon DEF WellFormed
    <2> QED BY <1>1, <1>4, <2>1, PortIsValue, Zenon
  <1> QED BY <1>6, <1>7, Zenon DEF UriIs

-----------------------------------------------------------------------------
(***************************************************************************)
(* The text of a request, as a server reads it.                            *)
(***************************************************************************)
\* The four pieces of an entry, from a place of a text on.
Quad(t, p, a, b, c, d) == t[p] = a /\ t[p + 1] = b /\ t[p + 2] = c /\ t[p + 3] = d

\* Entries of a map, their names and values.
EntriesOf(map, names) == [i \in 1..Len(names) |-> <<names[i], map[names[i]]>>]

\* A text is that of entries.
Lists(e, ps, first, sep) ==
  /\ Len(e) = 4 * Len(ps)
  /\ \A i \in 1..Len(ps) : Quad(e, 4 * i - 3, first, ps[i][1], sep, ps[i][2])

\* What is in either of two texts is in them put together.
LEMMA QuadLeft ==
  ASSUME NEW u, NEW s, NEW t, NEW m \in Nat, NEW n \in Nat, Joins(u, s, t, m, n),
         NEW p \in 1..m, p + 3 <= m, NEW a, NEW b, NEW c, NEW d, Quad(s, p, a, b, c, d)
  PROVE  Quad(u, p, a, b, c, d)
  <1>1. p \in 1..m /\ p + 1 \in 1..m /\ p + 2 \in 1..m /\ p + 3 \in 1..m
    OBVIOUS
  <1>2. \A i \in 1..m : u[i] = s[i]
    BY Zenon DEF Joins
  <1>3. s[p] = a /\ s[p + 1] = b /\ s[p + 2] = c /\ s[p + 3] = d
    BY Zenon DEF Quad
  <1> QED BY <1>1, <1>2, <1>3, Zenon DEF Quad

LEMMA QuadRight ==
  ASSUME NEW u, NEW s, NEW t, NEW m \in Nat, NEW n \in Nat, Joins(u, s, t, m, n),
         NEW p \in 1..n, p + 3 <= n, NEW a, NEW b, NEW c, NEW d, Quad(t, p, a, b, c, d)
  PROVE  Quad(u, m + p, a, b, c, d)
  <1>1. /\ p \in 1..n /\ p + 1 \in 1..n /\ p + 2 \in 1..n /\ p + 3 \in 1..n
        /\ m + (p + 1) = (m + p) + 1 /\ m + (p + 2) = (m + p) + 2 /\ m + (p + 3) = (m + p) + 3
    OBVIOUS
  <1>2. \A i \in 1..n : u[m + i] = t[i]
    BY Zenon DEF Joins
  <1>3. t[p] = a /\ t[p + 1] = b /\ t[p + 2] = c /\ t[p + 3] = d
    BY Zenon DEF Quad
  <1>4. u[m + p] = a /\ u[m + (p + 1)] = b /\ u[m + (p + 2)] = c /\ u[m + (p + 3)] = d
    BY <1>1, <1>2, <1>3, Zenon
  <1> QED BY <1>1, <1>4, Zenon DEF Quad

LEMMA EntriesList ==
  ASSUME NEW V, NEW W, V \subseteq W, NEW first \in W, NEW sep \in W, NEW map, NEW names \in Seq(V),
         \A i \in 1..Len(names) : map[names[i]] \in V
  PROVE  /\ Http!Entries(map, names, first, sep) \in Seq(W)
         /\ EntriesOf(map, names) \in Seq(V \X V) /\ Len(EntriesOf(map, names)) = Len(names)
         /\ Lists(Http!Entries(map, names, first, sep), EntriesOf(map, names), first, sep)
  <1> DEFINE n == Len(names)
             texts == [i \in 1..n |-> <<first, names[i], sep, map[names[i]]>>]
             ps == EntriesOf(map, names)
             e == Http!Entries(map, names, first, sep)
  <1>1. n \in Nat /\ \A i \in 1..n : names[i] \in V /\ map[names[i]] \in V
    BY LenProperties, ElementOfSeq
  <1>2. ps \in Seq(V \X V) /\ Len(ps) = n /\ \A i \in 1..n : ps[i][1] = names[i] /\ ps[i][2] = map[names[i]]
    BY <1>1 DEF EntriesOf
  <1>3. n = Len(texts) /\ (n = 0 => texts = <<>>)
    BY <1>1
  <1>4. ASSUME NEW i \in 1..n
        PROVE  texts[i] \in Seq(W) /\ Len(texts[i]) = 4 /\ Quad(texts[i], 1, first, names[i], sep, map[names[i]])
    <2> DEFINE a == names[i]
               b == map[names[i]]
               x == <<first, a, sep, b>>
    <2>1. texts[i] = x /\ a \in W /\ b \in W
      BY <1>1
    <2> HIDE DEF a, b
    <2>2. x \in Seq(W) /\ Len(x) = 4 /\ x[1] = first /\ x[2] = a /\ x[3] = sep /\ x[4] = b
      BY <2>1
    <2>3. 1 + 1 = 2 /\ 1 + 2 = 3 /\ 1 + 3 = 4
      OBVIOUS
    <2> HIDE DEF x
    <2>4. Quad(x, 1, first, a, sep, b)
      BY <2>2, <2>3, Zenon DEF Quad
    <2> HIDE DEF texts
    <2> QED BY <2>1, <2>2, <2>4, Zenon DEF a, b
  <1>5. e = Http!FlattenSeq(texts)
    BY Zenon DEF Http!Entries
  <1> HIDE DEF texts, e, ps, n
  <1>6. PICK f : Flattens(f, W, texts, n) /\ Http!FlattenSeq(texts) = f[n]
    <2>1. \A i \in 1..n : texts[i] \in Seq(W)
      BY <1>4, Zenon
    <2>2. FlattensTo(W, texts, Len(texts))
      BY <1>1, <1>3, <2>1, Flattened, Zenon
    <2> QED BY <1>3, <2>2, Zenon DEF FlattensTo
  <1>7. /\ f[0] = <<>> /\ \A i \in 0..n : f[i] \in Seq(W)
        /\ \A i \in 1..n : f[i] = f[i - 1] \o texts[i]
    BY <1>6, Zenon DEF Flattens
  <1> DEFINE Spelt(j) == /\ Len(f[j]) = 4 * j
                           /\ \A i \in 1..j : Quad(f[j], 4 * i - 3, first, names[i], sep, map[names[i]])
             S == {j \in 0..n : Spelt(j)}
  <1>8. 0 \in S
    <2>1. Len(<<>>) = 0 /\ 4 * 0 = 0 /\ 1..0 = {} /\ 0 \in 0..n
      BY <1>1
    <2>2. Len(f[0]) = 4 * 0
      BY <1>7, <2>1, Zenon
    <2> QED BY <2>1, <2>2, Zenon
  <1>9. ASSUME NEW j \in 0..(n - 1), j \in S PROVE j + 1 \in S
    <2> DEFINE k == j + 1
               m == 4 * j
    <2>1. k \in 1..n /\ k \in 0..n /\ k - 1 = j /\ j \in 0..n /\ m \in Nat /\ 4 * k = m + 4 /\ 4 \in Nat
      BY <1>1
    <2>2. Len(f[j]) = m /\ \A i \in 1..j : Quad(f[j], 4 * i - 3, first, names[i], sep, map[names[i]])
      BY <1>9, Zenon
    <2>3. \A i \in 1..k : i \in 1..j \/ i = k
      BY <2>1
    <2>4. \A i \in 1..j : 4 * i - 3 \in 1..m /\ 4 * i - 3 + 3 <= m
      BY <2>1
    <2>5. m + 1 = 4 * k - 3 /\ 1 \in 1..4 /\ 1 + 3 <= 4
      BY <2>1
    <2> HIDE DEF k, m
    <2>6. f[k] = f[j] \o texts[k] /\ f[j] \in Seq(W) /\ texts[k] \in Seq(W) /\ Len(texts[k]) = 4
      BY <1>4, <1>7, <2>1, Zenon
    <2>7. Joins(f[k], f[j], texts[k], m, 4)
      BY <2>2, <2>6, PutTogether, Zenon
    <2>8. Len(f[k]) = 4 * k
      <3>1. Len(f[k]) = m + 4
        BY <2>7, Zenon DEF Joins
      <3> QED BY <2>1, <3>1, Zenon
    <2>9. ASSUME NEW i \in 1..j PROVE Quad(f[k], 4 * i - 3, first, names[i], sep, map[names[i]])
      <3> DEFINE p == 4 * i - 3
      <3>1. p \in 1..m /\ p + 3 <= m /\ Quad(f[j], p, first, names[i], sep, map[names[i]])
        BY <2>2, <2>4, Zenon
      <3> HIDE DEF p
      <3>2. Quad(f[k], p, first, names[i], sep, map[names[i]])
        BY <2>1, <2>7, <3>1, QuadLeft, Zenon
      <3> QED BY <3>2, Zenon DEF p
    <2>10. Quad(f[k], 4 * k - 3, first, names[k], sep, map[names[k]])
      <3>1. Quad(texts[k], 1, first, names[k], sep, map[names[k]])
        BY <1>4, <2>1, Zenon
      <3>2. Quad(f[k], m + 1, first, names[k], sep, map[names[k]])
        BY <2>1, <2>5, <2>7, <3>1, QuadRight, Zenon
      <3> QED BY <2>5, <3>2, Zenon
    <2>11. Spelt(k)
      BY <2>3, <2>8, <2>9, <2>10, Zenon
    <2> HIDE DEF Spelt
    <2> QED BY <2>1, <2>11, Zenon DEF k
  <1>10. Spelt(n)
    <2> HIDE DEF Spelt
    <2>1. 0..n \subseteq S
      <3> HIDE DEF S
      <3> QED BY <1>1, <1>8, <1>9, UpTo, Zenon
    <2>2. n \in 0..n
      BY <1>1
    <2> QED BY <2>1, <2>2, Zenon
  <1>11. e = f[n] /\ f[n] \in Seq(W)
    <2>1. n \in 0..n
      BY <1>1
    <2> QED BY <1>5, <1>6, <1>7, <2>1, Zenon
  <1>12. Lists(e, ps, first, sep)
    BY <1>2, <1>10, <1>11, Zenon DEF Lists
  <1> QED BY <1>2, <1>11, <1>12, Zenon DEF e, ps, n

\* The texts of entries, one after the other, are that of all of them.
LEMMA ListsBoth ==
  ASSUME NEW V, NEW W, NEW e \in Seq(W), NEW f \in Seq(W), NEW ps \in Seq(V), NEW qs \in Seq(V),
         NEW first, NEW sep, Lists(e, ps, first, sep), Lists(f, qs, first, sep)
  PROVE  e \o f \in Seq(W) /\ ps \o qs \in Seq(V) /\ Lists(e \o f, ps \o qs, first, sep)
  <1> DEFINE m == Len(ps)
             n == Len(qs)
             u == e \o f
             rs == ps \o qs
  <1>1. m \in Nat /\ n \in Nat
    BY LenProperties
  <1>2. u \in Seq(W) /\ rs \in Seq(V)
    BY ConcatProperties, Zenon
  <1>3. /\ Len(e) = 4 * m /\ Len(f) = 4 * n
        /\ \A i \in 1..m : Quad(e, 4 * i - 3, first, ps[i][1], sep, ps[i][2])
        /\ \A i \in 1..n : Quad(f, 4 * i - 3, first, qs[i][1], sep, qs[i][2])
    BY Zenon DEF Lists
  <1>4. Joins(u, e, f, 4 * m, 4 * n)
    BY <1>3, PutTogether, Zenon
  <1>5. Joins(rs, ps, qs, m, n)
    BY PutTogether, Zenon
  <1> HIDE DEF m, n, u, rs
  <1>6. Len(rs) = m + n /\ Len(u) = 4 * (m + n)
    <2>1. Len(rs) = m + n /\ Len(u) = 4 * m + 4 * n
      BY <1>4, <1>5, Zenon DEF Joins
    <2>2. 4 * m + 4 * n = 4 * (m + n)
      BY <1>1
    <2> QED BY <2>1, <2>2, Zenon
  <1>7. ASSUME NEW i \in 1..m PROVE Quad(u, 4 * i - 3, first, rs[i][1], sep, rs[i][2])
    <2> DEFINE p == 4 * i - 3
    <2>1. p \in 1..(4 * m) /\ p + 3 <= 4 * m /\ 4 * m \in Nat /\ 4 * n \in Nat
      BY <1>1
    <2>2. rs[i] = ps[i] /\ Quad(e, p, first, ps[i][1], sep, ps[i][2])
      BY <1>3, <1>5, Zenon DEF Joins
    <2> HIDE DEF p
    <2>3. Quad(u, p, first, ps[i][1], sep, ps[i][2])
      BY <1>4, <2>1, <2>2, QuadLeft, Zenon
    <2> QED BY <2>2, <2>3, Zenon DEF p
  <1>8. ASSUME NEW i \in 1..n PROVE Quad(u, 4 * (m + i) - 3, first, rs[m + i][1], sep, rs[m + i][2])
    <2> DEFINE p == 4 * i - 3
    <2>1. /\ p \in 1..(4 * n) /\ p + 3 <= 4 * n /\ 4 * m \in Nat /\ 4 * n \in Nat
          /\ 4 * m + p = 4 * (m + i) - 3
      BY <1>1
    <2>2. rs[m + i] = qs[i] /\ Quad(f, p, first, qs[i][1], sep, qs[i][2])
      BY <1>3, <1>5, Zenon DEF Joins
    <2> HIDE DEF p
    <2>3. Quad(u, 4 * m + p, first, qs[i][1], sep, qs[i][2])
      BY <1>4, <2>1, <2>2, QuadRight, Zenon
    <2> QED BY <2>1, <2>2, <2>3, Zenon
  <1>9. ASSUME NEW i \in 1..(m + n) PROVE Quad(u, 4 * i - 3, first, rs[i][1], sep, rs[i][2])
    <2>1. i \in 1..m \/ \E k \in 1..n : i = m + k
      <3>1. CASE i <= m
        BY <1>1, <3>1
      <3>2. CASE i > m
        <4>1. i - m \in 1..n /\ i = m + (i - m)
          BY <1>1, <3>2
        <4> QED BY <4>1, Zenon
      <3> QED BY <1>1, <3>1, <3>2
    <2> QED BY <1>7, <1>8, <2>1, Zenon
  <1>10. Lists(u, rs, first, sep)
    BY <1>6, <1>9, Zenon DEF Lists
  <1> QED BY <1>2, <1>10, Zenon DEF u, rs

\* The names of a finite set in a sequence, each once.
LEMMA NamesOnce ==
  ASSUME NEW D, IsFiniteSet(D)
  PROVE  /\ Http!SetToSeq(D) \in Seq(D)
         /\ \A i, j \in 1..Len(Http!SetToSeq(D)) :
              Http!SetToSeq(D)[i] = Http!SetToSeq(D)[j] => i = j
         /\ \A d \in D : \E i \in 1..Len(Http!SetToSeq(D)) : Http!SetToSeq(D)[i] = d
  <1> DEFINE c == Cardinality(D)
             Once(f) == f \in [1..c -> D] /\ \A i, j \in 1..c : f[i] = f[j] => i = j
             s == CHOOSE f \in [1..c -> D] : Http!IsInjective(f)
  <1>1. c \in Nat /\ ExistsBijection(1..c, D)
    BY FS_CardinalityType, Zenon
  <1>2. PICK f : f \in Bijection(1..c, D)
    BY <1>1, Zenon DEF ExistsBijection
  <1>3. f \in [1..c -> D] /\ \A i, j \in 1..c : f[i] = f[j] => i = j
    BY <1>2 DEF Bijection, Injection, Surjection, IsInjective
  <1>4. \A g \in [1..c -> D] : Http!IsInjective(g) <=> \A i, j \in 1..c : g[i] = g[j] => i = j
    BY DEF Http!IsInjective
  <1>5. Http!Cardinality(D) = c
    BY DEF Http!Cardinality, Cardinality
  <1>6. Http!SetToSeq(D) = s
    BY <1>5, Zenon DEF Http!SetToSeq
  <1>7. Once(s)
    <2>1. Http!IsInjective(f)
      BY <1>3, <1>4, Zenon
    <2>2. s \in [1..c -> D] /\ Http!IsInjective(s)
      BY <1>3, <2>1, Zenon
    <2> QED BY <1>4, <2>2, Zenon
  <1> HIDE DEF s
  <1>8. s \in Seq(D) /\ Len(s) = c
    BY <1>1, <1>7
  <1>9. \A d \in D : \E i \in 1..c : s[i] = d
    <2>1. IsFiniteSet(1..c) /\ Cardinality(1..c) = c
      BY <1>1, FS_Interval
    <2>2. s \in Injection(1..c, D)
      BY <1>7 DEF Injection, IsInjective
    <2>3. s \in Surjection(1..c, D)
      BY <2>1, <2>2, FS_Injection
    <2> QED BY <2>3 DEF Surjection
  <1> QED BY <1>6, <1>7, <1>8, <1>9, Zenon

\* An entry of a map.
Entry(map, k) == <<k, map[k]>>

\* Each entry of a map once, and no others.
Represents(ps, map) ==
  /\ \A i, j \in 1..Len(ps) : ps[i][1] = ps[j][1] => i = j
  /\ \A i \in 1..Len(ps) : ps[i][1] \in DOMAIN map /\ ps[i] = Entry(map, ps[i][1])
  /\ \A k \in DOMAIN map : \E i \in 1..Len(ps) : ps[i][1] = k

\* What a server makes of the entries of a map are the entries of the map.
LEMMA RepresentsPairs ==
  ASSUME NEW ps, NEW map, Represents(ps, map)
  PROVE  {ps[i] : i \in 1..Len(ps)} = Http!PairsOf(map)
  <1>1. Http!PairsOf(map) = {Entry(map, k) : k \in DOMAIN map}
    BY Zenon DEF Http!PairsOf, Entry
  <1>2. ASSUME NEW i \in 1..Len(ps) PROVE ps[i] \in {Entry(map, k) : k \in DOMAIN map}
    <2>1. ps[i][1] \in DOMAIN map /\ ps[i] = Entry(map, ps[i][1])
      BY Zenon DEF Represents
    <2> QED BY <2>1, Zenon
  <1>3. ASSUME NEW k \in DOMAIN map PROVE Entry(map, k) \in {ps[i] : i \in 1..Len(ps)}
    <2>1. PICK i \in 1..Len(ps) : ps[i][1] = k
      BY Zenon DEF Represents
    <2>2. ps[i] = Entry(map, ps[i][1])
      BY Zenon DEF Represents
    <2>3. ps[i] = Entry(map, k)
      BY <2>1, <2>2, Zenon
    <2> QED BY <2>3, Zenon
  <1> QED BY <1>1, <1>2, <1>3, Zenon

\* Some of the entries of a map.
Part(map, D) == [k \in D |-> map[k]]

LEMMA PartRepresented ==
  ASSUME NEW map, NEW D, IsFiniteSet(D)
  PROVE  Represents(EntriesOf(map, Http!SetToSeq(D)), Part(map, D))
  <1> DEFINE names == Http!SetToSeq(D)
             n == Len(names)
             ps == EntriesOf(map, names)
             part == Part(map, D)
  <1>1. /\ names \in Seq(D) /\ \A i, j \in 1..n : names[i] = names[j] => i = j
        /\ \A d \in D : \E i \in 1..n : names[i] = d
    BY NamesOnce, Zenon
  <1> HIDE DEF names
  <1>2. n \in Nat /\ \A i \in 1..n : names[i] \in D
    BY <1>1, LenProperties, ElementOfSeq
  <1>3. Len(ps) = n /\ \A i \in 1..n : ps[i] = Entry(map, names[i]) /\ ps[i][1] = names[i]
    BY <1>2 DEF EntriesOf, Entry
  <1>4. DOMAIN part = D /\ \A k \in D : part[k] = map[k]
    BY DEF Part
  <1>m. \A k \in D : Entry(part, k) = Entry(map, k)
    BY <1>4, Zenon DEF Entry
  <1> HIDE DEF ps, part, n
  <1>5. ASSUME NEW i \in 1..n, NEW j \in 1..n, ps[i][1] = ps[j][1] PROVE i = j
    <2>1. ps[i][1] = names[i] /\ ps[j][1] = names[j]
      BY <1>3, Zenon
    <2>2. names[i] = names[j]
      BY <1>5, <2>1, Zenon
    <2> QED BY <1>1, <2>2, Zenon
  <1>6. ASSUME NEW i \in 1..n PROVE ps[i][1] \in DOMAIN part /\ ps[i] = Entry(part, ps[i][1])
    <2>1. names[i] \in D /\ ps[i] = Entry(map, names[i]) /\ ps[i][1] = names[i]
      BY <1>2, <1>3, Zenon
    <2>2. Entry(part, names[i]) = Entry(map, names[i])
      BY <1>m, <2>1, Zenon
    <2> QED BY <1>4, <2>1, <2>2, Zenon
  <1>7. ASSUME NEW k \in DOMAIN part PROVE \E i \in 1..n : ps[i][1] = k
    <2>1. PICK i \in 1..n : names[i] = k
      BY <1>1, <1>4, Zenon
    <2>2. ps[i][1] = k
      BY <1>3, <2>1, Zenon
    <2> QED BY <2>2, Zenon
  <1>8. Represents(ps, part)
    BY <1>3, <1>5, <1>6, <1>7, Zenon DEF Represents
  <1> QED BY <1>8, Zenon DEF ps, part, names

\* Two maps without a name in common, together.
Both(a, b) == [k \in DOMAIN a \cup DOMAIN b |-> IF k \in DOMAIN a THEN a[k] ELSE b[k]]

LEMMA BothRepresented ==
  ASSUME NEW V, NEW ps \in Seq(V), NEW qs \in Seq(V), NEW a, NEW b,
         Represents(ps, a), Represents(qs, b), \A k \in DOMAIN a : k \notin DOMAIN b
  PROVE  Represents(ps \o qs, Both(a, b))
  <1> DEFINE m == Len(ps)
             n == Len(qs)
             rs == ps \o qs
             c == Both(a, b)
  <1>1. m \in Nat /\ n \in Nat
    BY LenProperties
  <1>2. Joins(rs, ps, qs, m, n)
    BY PutTogether, Zenon
  <1>3. /\ DOMAIN c = DOMAIN a \cup DOMAIN b
        /\ \A k \in DOMAIN a : c[k] = a[k]
        /\ \A k \in DOMAIN b : c[k] = b[k]
    BY DEF Both
  <1>e. /\ \A k \in DOMAIN a : Entry(c, k) = Entry(a, k)
        /\ \A k \in DOMAIN b : Entry(c, k) = Entry(b, k)
    BY <1>3, Zenon DEF Entry
  <1>4. /\ \A i, j \in 1..m : ps[i][1] = ps[j][1] => i = j
        /\ \A i \in 1..m : ps[i][1] \in DOMAIN a /\ ps[i] = Entry(a, ps[i][1])
        /\ \A k \in DOMAIN a : \E i \in 1..m : ps[i][1] = k
    BY Zenon DEF Represents
  <1>5. /\ \A i, j \in 1..n : qs[i][1] = qs[j][1] => i = j
        /\ \A i \in 1..n : qs[i][1] \in DOMAIN b /\ qs[i] = Entry(b, qs[i][1])
        /\ \A k \in DOMAIN b : \E i \in 1..n : qs[i][1] = k
    BY Zenon DEF Represents
  <1> HIDE DEF m, n, rs, c
  <1>6. /\ Len(rs) = m + n /\ \A i \in 1..m : rs[i] = ps[i]
        /\ \A i \in 1..n : rs[m + i] = qs[i]
    BY <1>2, Zenon DEF Joins
  <1>7. \A i \in 1..(m + n) : i \in 1..m \/ \E k \in 1..n : i = m + k
    <2> TAKE i \in 1..(m + n)
    <2>1. CASE i <= m
      BY <1>1, <2>1
    <2>2. CASE i > m
      <3>1. i - m \in 1..n /\ i = m + (i - m)
        BY <1>1, <2>2
      <3> QED BY <3>1, Zenon
    <2> QED BY <1>1, <2>1, <2>2
  <1>8. \A i \in 1..m : i \in 1..(m + n)
    BY <1>1
  <1>9. \A i \in 1..n : m + i \in 1..(m + n)
    BY <1>1
  <1>10. ASSUME NEW i \in 1..(m + n), NEW j \in 1..(m + n), rs[i][1] = rs[j][1] PROVE i = j
    <2>1. CASE i \in 1..m /\ j \in 1..m
      <3>1. rs[i] = ps[i] /\ rs[j] = ps[j]
        BY <1>6, <2>1, Zenon
      <3>2. ps[i][1] = ps[j][1]
        BY <1>10, <3>1, Zenon
      <3> QED BY <1>4, <2>1, <3>2, Zenon
    <2>2. ASSUME i \in 1..m, NEW k \in 1..n, j = m + k PROVE FALSE
      <3>1. rs[i] = ps[i] /\ rs[j] = qs[k]
        BY <1>6, <2>2, Zenon
      <3>2. ps[i][1] = qs[k][1]
        BY <1>10, <3>1, Zenon
      <3>3. ps[i][1] \in DOMAIN a /\ qs[k][1] \in DOMAIN b
        BY <1>4, <1>5, <2>2, Zenon
      <3>4. ps[i][1] \notin DOMAIN b
        BY <3>3, Zenon
      <3> QED BY <3>2, <3>3, <3>4, Zenon
    <2>3. ASSUME j \in 1..m, NEW k \in 1..n, i = m + k PROVE FALSE
      <3>1. rs[j] = ps[j] /\ rs[i] = qs[k]
        BY <1>6, <2>3, Zenon
      <3>2. ps[j][1] = qs[k][1]
        BY <1>10, <3>1, Zenon
      <3>3. ps[j][1] \in DOMAIN a /\ qs[k][1] \in DOMAIN b
        BY <1>4, <1>5, <2>3, Zenon
      <3>4. ps[j][1] \notin DOMAIN b
        BY <3>3, Zenon
      <3> QED BY <3>2, <3>3, <3>4, Zenon
    <2>4. ASSUME NEW k \in 1..n, i = m + k, NEW l \in 1..n, j = m + l PROVE i = j
      <3>1. rs[i] = qs[k] /\ rs[j] = qs[l]
        BY <1>6, <2>4, Zenon
      <3>2. qs[k][1] = qs[l][1]
        BY <1>10, <3>1, Zenon
      <3>3. k = l
        BY <1>5, <3>2, Zenon
      <3> QED BY <2>4, <3>3, Zenon
    <2> QED BY <1>7, <2>1, <2>2, <2>3, <2>4, Zenon
  <1>11. ASSUME NEW i \in 1..(m + n) PROVE rs[i][1] \in DOMAIN c /\ rs[i] = Entry(c, rs[i][1])
    <2>1. CASE i \in 1..m
      <3>1. rs[i] = ps[i] /\ ps[i][1] \in DOMAIN a /\ ps[i] = Entry(a, ps[i][1])
        BY <1>4, <1>6, <2>1, Zenon
      <3>2. ps[i][1] \in DOMAIN c /\ Entry(c, ps[i][1]) = Entry(a, ps[i][1])
        BY <1>3, <1>e, <3>1, Zenon
      <3> QED BY <3>1, <3>2, Zenon
    <2>2. ASSUME NEW k \in 1..n, i = m + k
          PROVE  rs[i][1] \in DOMAIN c /\ rs[i] = Entry(c, rs[i][1])
      <3>1. rs[i] = qs[k] /\ qs[k][1] \in DOMAIN b /\ qs[k] = Entry(b, qs[k][1])
        BY <1>5, <1>6, <2>2, Zenon
      <3>2. qs[k][1] \in DOMAIN c /\ Entry(c, qs[k][1]) = Entry(b, qs[k][1])
        BY <1>3, <1>e, <3>1, Zenon
      <3> QED BY <3>1, <3>2, Zenon
    <2> QED BY <1>7, <2>1, <2>2, Zenon
  <1>12. ASSUME NEW k \in DOMAIN c PROVE \E i \in 1..(m + n) : rs[i][1] = k
    <2>1. CASE k \in DOMAIN a
      <3>1. PICK i \in 1..m : ps[i][1] = k
        BY <1>4, <2>1, Zenon
      <3> QED BY <1>6, <1>8, <3>1, Zenon
    <2>2. CASE k \in DOMAIN b
      <3>1. PICK i \in 1..n : qs[i][1] = k
        BY <1>5, <2>2, Zenon
      <3> QED BY <1>6, <1>9, <3>1, Zenon
    <2> QED BY <1>3, <2>1, <2>2, Zenon
  <1>13. Represents(rs, c)
    BY <1>6, <1>10, <1>11, <1>12, Zenon DEF Represents
  <1> QED BY <1>13, Zenon DEF rs, c

\* The text of a query: a first piece of its own, then as the entries of a map.
Queries(q, ps, mark, first, sep) ==
  /\ Len(q) = 4 * Len(ps)
  /\ \A i \in 1..Len(ps) :
       Quad(q, 4 * i - 3, IF i = 1 THEN mark ELSE first, ps[i][1], sep, ps[i][2])

LEMMA QueryText ==
  ASSUME NEW V, NEW W, NEW e \in Seq(W), NEW ps \in Seq(V), NEW first, NEW sep, NEW mark \in W,
         Lists(e, ps, first, sep)
  PROVE  /\ (IF e = <<>> THEN <<>> ELSE <<mark>> \o Tail(e)) \in Seq(W)
         /\ Queries(IF e = <<>> THEN <<>> ELSE <<mark>> \o Tail(e), ps, mark, first, sep)
  <1> DEFINE n == Len(ps)
             q == IF e = <<>> THEN <<>> ELSE <<mark>> \o Tail(e)
  <1>1. n \in Nat
    BY LenProperties
  <1>2. Len(e) = 4 * n /\ \A i \in 1..n : Quad(e, 4 * i - 3, first, ps[i][1], sep, ps[i][2])
    BY Zenon DEF Lists
  <1>3. /\ q \in Seq(W) /\ Len(q) = 4 * n /\ (n # 0 => q[1] = mark)
        /\ \A j \in 2..(4 * n) : q[j] = e[j]
    <2>0. Len(e) = 4 * n
      BY <1>2, Zenon
    <2>1. CASE e = <<>>
      BY <1>1, <2>0, <2>1
    <2>2. CASE e # <<>>
      <3>1. /\ Tail(e) \in Seq(W) /\ Len(Tail(e)) = 4 * n - 1 /\ n > 0
            /\ \A j \in 1..(4 * n - 1) : Tail(e)[j] = e[j + 1]
        BY <1>1, <2>0, <2>2
      <3>2. q = <<mark>> \o Tail(e)
        BY <2>2, Zenon
      <3> DEFINE u == Tail(e)
      <3> HIDE DEF u, q
      <3>3. q \in Seq(W) /\ Len(q) = 4 * n /\ q[1] = mark /\ \A j \in 2..(4 * n) : q[j] = u[j - 1]
        BY <1>1, <3>1, <3>2 DEF u
      <3>4. ASSUME NEW j \in 2..(4 * n) PROVE q[j] = e[j]
        <4>1. j - 1 \in 1..(4 * n - 1) /\ (j - 1) + 1 = j
          BY <1>1
        <4>2. q[j] = u[j - 1] /\ u[j - 1] = e[(j - 1) + 1]
          BY <3>1, <3>3, <4>1, Zenon DEF u
        <4> QED BY <4>1, <4>2, Zenon
      <3> QED BY <3>3, <3>4, Zenon
    <2> QED BY <2>1, <2>2, Zenon
  <1> HIDE DEF q, n
  <1>4. ASSUME NEW i \in 1..n
        PROVE  Quad(q, 4 * i - 3, IF i = 1 THEN mark ELSE first, ps[i][1], sep, ps[i][2])
    <2> DEFINE p == 4 * i - 3
               x == IF i = 1 THEN mark ELSE first
    <2>1. /\ p + 1 \in 2..(4 * n) /\ p + 2 \in 2..(4 * n) /\ p + 3 \in 2..(4 * n)
          /\ (i = 1 => p = 1) /\ (i # 1 => p \in 2..(4 * n)) /\ n # 0
      BY <1>1
    <2>2. Quad(e, p, first, ps[i][1], sep, ps[i][2])
      BY <1>2, Zenon
    <2> HIDE DEF p
    <2>3. q[p + 1] = ps[i][1] /\ q[p + 2] = sep /\ q[p + 3] = ps[i][2]
      BY <1>3, <2>1, <2>2, Zenon DEF Quad
    <2>4. q[p] = x
      <3>1. CASE i = 1
        BY <1>3, <2>1, <3>1, Zenon
      <3>2. CASE i # 1
        BY <1>3, <2>1, <2>2, <3>2, Zenon DEF Quad
      <3> QED BY <3>1, <3>2, Zenon
    <2> HIDE DEF x
    <2>5. Quad(q, p, x, ps[i][1], sep, ps[i][2])
      BY <2>3, <2>4, Zenon DEF Quad
    <2> QED BY <2>5, Zenon DEF p, x
  <1>5. Queries(q, ps, mark, first, sep)
    BY <1>3, <1>4, Zenon DEF Queries, n
  <1> QED BY <1>3, <1>5, Zenon DEF q

ReadAt(t, k) == <<t[k + 1], t[k + 3]>>

\* The places where entries are laid, and their names are not said twice.
Spaced(t, ps, c, at) ==
  /\ c \in Nat /\ at = {c + 4 * i : i \in 1..Len(ps)}
  /\ \A i \in 1..Len(ps) : t[(c + 4 * i) + 1] = ps[i][1] /\ t[(c + 4 * i) + 3] = ps[i][2]
  /\ \A i, j \in 1..Len(ps) : ps[i][1] = ps[j][1] => i = j

\* What is read at evenly spaced places: the entries written there, each name once.
LEMMA MarksRead ==
  ASSUME NEW t, NEW V, NEW ps \in Seq(V \X V), NEW c, NEW at, Spaced(t, ps, c, at)
  PROVE  Http!PairsAt(t, at) = {ps[i] : i \in 1..Len(ps)} /\ Http!EachOnce(t, at)
  <1> DEFINE n == Len(ps)
             names == {t[k + 1] : k \in at}
             name == [k \in at |-> t[k + 1]]
  <1>0. /\ c \in Nat /\ at = {c + 4 * i : i \in 1..n}
        /\ \A i \in 1..n : t[(c + 4 * i) + 1] = ps[i][1] /\ t[(c + 4 * i) + 3] = ps[i][2]
        /\ \A i, j \in 1..n : ps[i][1] = ps[j][1] => i = j
    BY Zenon DEF Spaced
  <1>1. n \in Nat /\ \A i \in 1..n : ps[i] \in V \X V
    BY LenProperties, ElementOfSeq
  <1>2. \A i \in 1..n : ps[i] = <<ps[i][1], ps[i][2]>>
    BY <1>1
  <1> HIDE DEF n
  <1>3. ASSUME NEW i \in 1..n PROVE ReadAt(t, c + 4 * i) = ps[i]
    <2>1. t[(c + 4 * i) + 1] = ps[i][1] /\ t[(c + 4 * i) + 3] = ps[i][2]
      BY <1>0, Zenon
    <2> QED BY <1>2, <2>1, Zenon DEF ReadAt
  <1>4. at = {c + 4 * i : i \in 1..n}
    BY <1>0, Zenon
  <1>5. Http!PairsAt(t, at) = {ReadAt(t, k) : k \in at}
    BY Zenon DEF Http!PairsAt, ReadAt
  <1>6. {ReadAt(t, k) : k \in at} = {ps[i] : i \in 1..n}
    <2> DEFINE reads == {ReadAt(t, k) : k \in at}
               entries == {ps[i] : i \in 1..n}
    <2>1. ASSUME NEW k \in at PROVE ReadAt(t, k) \in entries
      <3>1. PICK i \in 1..n : k = c + 4 * i
        BY <1>4, Zenon
      <3> QED BY <1>3, <3>1, Zenon
    <2>2. ASSUME NEW i \in 1..n PROVE ps[i] \in reads
      <3>1. c + 4 * i \in at
        BY <1>4, Zenon
      <3> QED BY <1>3, <3>1, Zenon
    <2>3. \A x \in reads : x \in entries
      BY <2>1, Zenon
    <2>4. \A x \in entries : x \in reads
      BY <2>2, Zenon
    <2> HIDE DEF reads, entries
    <2>5. reads = entries
      BY <2>3, <2>4, Zenon
    <2> QED BY <2>5, Zenon DEF reads, entries
  <1>7. IsFiniteSet(at)
    <2> DEFINE place == [i \in 1..n |-> c + 4 * i]
    <2>0. 1 \in Int /\ n \in Int
      BY <1>1
    <2>1. IsFiniteSet(1..n)
      BY <2>0, FS_Interval, Zenon
    <2>2. place \in Surjection(1..n, at)
      BY <1>0, <1>1, <1>4 DEF Surjection
    <2> HIDE DEF place
    <2> QED BY <2>1, <2>2, FS_Surjection
  <1>8. name \in Bijection(at, names)
    <2>1. ASSUME NEW k \in at, NEW l \in at, t[k + 1] = t[l + 1] PROVE k = l
      <3>1. PICK i \in 1..n : k = c + 4 * i
        BY <1>4, Zenon
      <3>2. PICK j \in 1..n : l = c + 4 * j
        BY <1>4, Zenon
      <3>3. t[k + 1] = ps[i][1] /\ t[l + 1] = ps[j][1]
        BY <1>0, <3>1, <3>2, Zenon
      <3>4. ps[i][1] = ps[j][1]
        BY <2>1, <3>3, Zenon
      <3>5. i = j
        BY <1>0, <3>4, Zenon
      <3> QED BY <3>1, <3>2, <3>5, Zenon
    <2>2. name \in [at -> names] /\ \A k \in at : name[k] = t[k + 1]
      BY Zenon
    <2>3. \A k, l \in at : name[k] = name[l] => k = l
      BY <2>1, <2>2, Zenon
    <2>4. \A x \in names : \E k \in at : name[k] = x
      BY <2>2, Zenon
    <2> HIDE DEF name, names
    <2> QED BY <2>2, <2>3, <2>4, Zenon DEF Bijection, Injection, Surjection, IsInjective
  <1>9. Cardinality(names) = Cardinality(at)
    BY <1>7, <1>8, FS_Bijection, Zenon DEF ExistsBijection
  <1>10. Http!Cardinality(names) = Cardinality(names) /\ Http!Cardinality(at) = Cardinality(at)
    BY DEF Http!Cardinality, Cardinality
  <1>11. Http!EachOnce(t, at)
    BY <1>9, <1>10, Zenon DEF Http!EachOnce
  <1> QED BY <1>5, <1>6, <1>11, Zenon DEF n

\* None of the pieces that are names or values is one of the others.
Plain(V) == \A v \in V : v \notin Http!Separators

\* Where the pieces of a request are: n parameters, k headers.
Laid(t, m, p, ps, hs, body, n, k) ==
  /\ t[1] = m /\ t[2] = " " /\ t[3] = p
  /\ \A i \in 1..n : Quad(t, 4 * i, IF i = 1 THEN "?" ELSE "&", ps[i][1], "=", ps[i][2])
  /\ t[4 * n + 4] = " HTTP/1.0"
  /\ \A i \in 1..k : Quad(t, 4 * n + 1 + 4 * i, "CRLF", hs[i][1], ": ", hs[i][2])
  /\ t[4 * n + 4 * k + 5] = "CRLF" /\ t[4 * n + 4 * k + 6] = "CRLF"
  /\ \A i \in 1..Len(body) : t[4 * n + 4 * k + 6 + i] = body[i]

LaidPlainly(V, t, m, p, ps, hs, body, n, k) ==
  /\ Plain(V) /\ m \in V /\ p \in V /\ n \in Nat /\ k \in Nat
  /\ Len(body) \in Nat /\ Len(t) = 4 * n + 4 * k + 6 + Len(body)
  /\ \A i \in 1..n : ps[i][1] \in V /\ ps[i][2] \in V
  /\ \A i \in 1..k : hs[i][1] \in V /\ hs[i][2] \in V
  /\ Laid(t, m, p, ps, hs, body, n, k)

\* A parameter begins at a place of the first line.
ParameterAt(t, j, n) == t[j] \in {"?", "&"} <=> \E i \in 1..n : j = 4 * i

LEMMA PlainDiffers ==
  ASSUME NEW V, Plain(V), NEW v \in V
  PROVE  v # " " /\ v # "?" /\ v # "&" /\ v # "=" /\ v # " HTTP/1.0" /\ v # "CRLF" /\ v # ": "
  BY DEF Plain, Http!Separators

\* In the first line: no end of it before its end, and parameters where they are laid.
LEMMA FirstLine ==
  ASSUME NEW V, NEW t, NEW m, NEW p, NEW ps, NEW hs, NEW body, NEW n, NEW k,
         LaidPlainly(V, t, m, p, ps, hs, body, n, k), NEW j \in 1..(4 * n + 3)
  PROVE  t[j] # " HTTP/1.0" /\ t[j] # "CRLF" /\ ParameterAt(t, j, n)
  <1>0. /\ Plain(V) /\ m \in V /\ p \in V /\ n \in Nat
        /\ \A i \in 1..n : ps[i][1] \in V /\ ps[i][2] \in V
        /\ Laid(t, m, p, ps, hs, body, n, k)
    BY Zenon DEF LaidPlainly
  <1> DEFINE Fine(x) == x # " HTTP/1.0" /\ x # "CRLF"
             Other(x) == Fine(x) /\ x \notin {"?", "&"}
             Param(i) == i \in 1..n /\ j = 4 * i
  <1>1. \A v \in V : Other(v)
    BY <1>0, PlainDiffers
  <1>2. t[1] = m /\ t[2] = " " /\ t[3] = p
    BY <1>0, Zenon DEF Laid
  <1>3. ASSUME NEW i \in 1..n
        PROVE  /\ t[4 * i] = "?" \/ t[4 * i] = "&"
               /\ t[4 * i + 1] = ps[i][1] /\ t[4 * i + 2] = "=" /\ t[4 * i + 3] = ps[i][2]
    <2>1. Quad(t, 4 * i, IF i = 1 THEN "?" ELSE "&", ps[i][1], "=", ps[i][2])
      BY <1>0, Zenon DEF Laid
    <2> QED BY <2>1, Zenon DEF Quad
  <1>4. Other(" ") /\ Other("=") /\ Fine("?") /\ Fine("&")
    BY <1>0
  <1>5. \/ j = 1 \/ j = 2 \/ j = 3
        \/ \E i \in 1..n : j = 4 * i \/ j = 4 * i + 1 \/ j = 4 * i + 2 \/ j = 4 * i + 3
    <2>1. CASE j >= 4
      <3> DEFINE i == j \div 4
      <3>1. i \in 1..n /\ (j = 4 * i \/ j = 4 * i + 1 \/ j = 4 * i + 2 \/ j = 4 * i + 3)
        BY <1>0, <2>1
      <3> QED BY <3>1, Zenon
    <2> QED BY <1>0, <2>1
  <1>6. CASE \E i \in 1..n : j = 4 * i
    <2>1. PICK i \in 1..n : j = 4 * i
      BY <1>6, Zenon
    <2>2. t[j] = "?" \/ t[j] = "&"
      BY <1>3, <2>1, Zenon
    <2>3. Fine(t[j]) /\ t[j] \in {"?", "&"}
      BY <1>4, <2>2, Zenon
    <2> QED BY <1>6, <2>3, Zenon DEF ParameterAt
  <1>7. CASE ~ \E i \in 1..n : j = 4 * i
    <2>1. Other(t[j])
      <3> HIDE DEF Other
      <3>1. CASE j = 1 \/ j = 2 \/ j = 3
        BY <1>0, <1>1, <1>2, <1>4, <3>1, Zenon
      <3>2. ASSUME NEW i \in 1..n, j = 4 * i + 1 \/ j = 4 * i + 2 \/ j = 4 * i + 3
            PROVE  Other(t[j])
        <4>1. ps[i][1] \in V /\ ps[i][2] \in V
          BY <1>0, Zenon
        <4>2. t[j] = ps[i][1] \/ t[j] = "=" \/ t[j] = ps[i][2]
          BY <1>3, <3>2, Zenon
        <4> QED BY <1>1, <1>4, <4>1, <4>2, Zenon
      <3> QED BY <1>5, <1>7, <3>1, <3>2, Zenon
    <2> QED BY <1>7, <2>1, Zenon DEF ParameterAt
  <1> QED BY <1>6, <1>7, Zenon

\* After the first line: an end of line where a header is laid and nowhere else, and
\* one follows another at the empty line only.
LEMMA HeaderLines ==
  ASSUME NEW V, NEW t, NEW m, NEW p, NEW ps, NEW hs, NEW body, NEW n, NEW k,
         LaidPlainly(V, t, m, p, ps, hs, body, n, k), NEW j \in (4 * n + 4)..(4 * n + 4 * k + 5)
  PROVE  /\ j <= 4 * n + 4 * k + 4 =>
              (t[j] = "CRLF") <=> (\E i \in 1..k : j = 4 * n + 1 + 4 * i)
         /\ t[j] = "CRLF" => t[j - 1] # "CRLF"
  <1>0. /\ Plain(V) /\ n \in Nat /\ k \in Nat
        /\ \A i \in 1..k : hs[i][1] \in V /\ hs[i][2] \in V
        /\ Laid(t, m, p, ps, hs, body, n, k)
    BY Zenon DEF LaidPlainly
  <1> DEFINE c == 4 * n + 1
  <1>1. ASSUME NEW i \in 1..k
        PROVE  /\ t[c + 4 * i] = "CRLF" /\ t[c + 4 * i + 1] = hs[i][1]
               /\ t[c + 4 * i + 2] = ": " /\ t[c + 4 * i + 3] = hs[i][2]
    <2>1. Quad(t, c + 4 * i, "CRLF", hs[i][1], ": ", hs[i][2])
      BY <1>0, Zenon DEF Laid
    <2> QED BY <2>1, Zenon DEF Quad
  <1>c. c \in Nat
    BY <1>0
  <1>2. t[c + 3] = " HTTP/1.0"
    <2>1. t[4 * n + 4] = " HTTP/1.0"
      BY <1>0, Zenon DEF Laid
    <2>2. 4 * n + 4 = c + 3
      BY <1>0
    <2> QED BY <2>1, <2>2, Zenon
  <1>3. j \in (c + 3)..(c + 4 * k + 4) /\ (j <= 4 * n + 4 * k + 4 => j <= c + 4 * k + 3)
    BY <1>0
  <1>4. \A v \in V : v # "CRLF"
    BY <1>0, PlainDiffers, Zenon
  <1>5. \A i \in 1..k : c + 4 * i = 4 * n + 1 + 4 * i
    BY <1>0
  <1> HIDE DEF c
  <1>6. ASSUME NEW i \in 0..k PROVE t[c + 4 * i + 3] # "CRLF"
    <2>1. CASE i = 0
      <3>1. c + 4 * i + 3 = c + 3
        BY <1>0, <1>c, <2>1
      <3> QED BY <1>2, <3>1, Zenon
    <2>2. CASE i # 0
      <3>1. i \in 1..k
        BY <1>0, <2>2
      <3> QED BY <1>0, <1>1, <1>4, <3>1, Zenon
    <2> QED BY <2>1, <2>2, Zenon
  <1>7. ASSUME NEW i \in 1..k PROVE t[c + 4 * i + 1] # "CRLF" /\ t[c + 4 * i + 2] # "CRLF"
    <2>1. hs[i][1] # "CRLF"
      BY <1>0, <1>4, Zenon
    <2>2. ": " # "CRLF"
      BY <1>0
    <2> QED BY <1>1, <2>1, <2>2, Zenon
  <1>8. \/ j = c + 3
        \/ \E i \in 1..k : \/ j = c + 4 * i \/ j = c + 4 * i + 1
                           \/ j = c + 4 * i + 2 \/ j = c + 4 * i + 3
        \/ j = c + 4 * k + 4
    <2>1. CASE j >= c + 4 /\ j <= c + 4 * k + 3
      <3> DEFINE i == (j - c) \div 4
      <3>1. i \in 1..k /\ (j = c + 4 * i \/ j = c + 4 * i + 1 \/ j = c + 4 * i + 2 \/ j = c + 4 * i + 3)
        BY <1>0, <1>c, <2>1
      <3> QED BY <3>1, Zenon
    <2> QED BY <1>0, <1>c, <1>3, <2>1
  <1>9. t[c + 3] # "CRLF"
    BY <1>2
  <1>10. ASSUME j <= c + 4 * k + 3, t[j] = "CRLF" PROVE \E i \in 1..k : j = c + 4 * i
    <2>1. j # c + 4 * k + 4
      BY <1>0, <1>c, <1>3, <1>10
    <2>2. ASSUME NEW i \in 1..k, j = c + 4 * i + 3 PROVE FALSE
      <3>1. i \in 0..k
        BY <1>0
      <3> QED BY <1>6, <1>10, <2>2, <3>1, Zenon
    <2> QED BY <1>7, <1>8, <1>9, <1>10, <2>1, <2>2, Zenon
  <1>11. ASSUME t[j] = "CRLF" PROVE t[j - 1] # "CRLF"
    <2>1. ASSUME NEW i \in 1..k, j = c + 4 * i PROVE t[j - 1] # "CRLF"
      <3>1. i - 1 \in 0..k /\ j - 1 = c + 4 * (i - 1) + 3
        BY <1>0, <1>c, <2>1
      <3> QED BY <1>6, <3>1, Zenon
    <2>2. CASE j = c + 4 * k + 4
      <3>1. k \in 0..k /\ j - 1 = c + 4 * k + 3
        BY <1>0, <1>c, <2>2
      <3> QED BY <1>6, <3>1, Zenon
    <2>3. CASE j # c + 4 * k + 4
      <3>1. j <= c + 4 * k + 3
        BY <1>0, <1>c, <1>3, <2>3
      <3> QED BY <1>10, <1>11, <2>1, <3>1, Zenon
    <2> QED BY <2>2, <2>3, Zenon
  <1>12. j <= c + 4 * k + 3 => (t[j] = "CRLF") <=> (\E i \in 1..k : j = c + 4 * i)
    <2>1. ASSUME NEW i \in 1..k, j = c + 4 * i PROVE t[j] = "CRLF"
      BY <1>1, <2>1, Zenon
    <2> QED BY <1>10, <2>1, Zenon
  <1>13. (\E i \in 1..k : j = c + 4 * i) <=> (\E i \in 1..k : j = 4 * n + 1 + 4 * i)
    BY <1>5, Zenon
  <1> QED BY <1>3, <1>11, <1>12, <1>13, Zenon

\* What a server finds of the lines and of the entries.
LinesAt(t, n, k) ==
  Http!RequestLineEnd(t) = 4 * n + 4 /\ Http!EmptyLine(t) = 4 * n + 4 * k + 6
MarksAt(t, n, k) ==
  /\ Http!Marked(t, {"?", "&"}, 1, 4 * n + 4) = {0 + 4 * i : i \in 1..n}
  /\ Http!Marked(t, {"CRLF"}, 4 * n + 4, 4 * n + 4 * k + 4) = {4 * n + 1 + 4 * i : i \in 1..k}

\* The end of the first line, and the empty line, are found where they are laid.
LEMMA LinesFound ==
  ASSUME NEW V, NEW t, NEW m, NEW p, NEW ps, NEW hs, NEW body, NEW n, NEW k,
         LaidPlainly(V, t, m, p, ps, hs, body, n, k)
  PROVE  LinesAt(t, n, k)
  <1> DEFINE b == Len(body)
  <1>0. /\ n \in Nat /\ k \in Nat /\ b \in Nat /\ Len(t) = 4 * n + 4 * k + 6 + b
        /\ Laid(t, m, p, ps, hs, body, n, k)
    BY Zenon DEF LaidPlainly
  <1> HIDE DEF b
  <1> DEFINE l == 4 * n + 4
             e == 4 * n + 4 * k + 6
             IsEnd(i) == t[i] = " HTTP/1.0"
             EndsFirst(i) == IsEnd(i) /\ \A j \in 1..(i - 1) : ~IsEnd(j)
             EmptyFirst(i) == Http!Empty(t, i) /\ \A j \in 2..(i - 1) : ~Http!Empty(t, j)
  <1>1. l \in 1..Len(t) /\ e \in 2..Len(t) /\ l \in Nat /\ e \in Nat
    BY <1>0
  <1>2. ASSUME NEW j \in 1..(l - 1) PROVE ~IsEnd(j) /\ t[j] # "CRLF"
    <2>1. j \in 1..(4 * n + 3)
      BY <1>0
    <2> QED BY <2>1, FirstLine, Zenon
  <1>3. IsEnd(l)
    BY <1>0, Zenon DEF Laid
  <1>4. t[e - 1] = "CRLF" /\ t[e] = "CRLF"
    <2>1. t[4 * n + 4 * k + 5] = "CRLF" /\ t[4 * n + 4 * k + 6] = "CRLF"
      BY <1>0, Zenon DEF Laid
    <2>2. e - 1 = 4 * n + 4 * k + 5
      BY <1>0
    <2> QED BY <2>1, <2>2, Zenon
  <1>5. ASSUME NEW j \in 2..(e - 1) PROVE ~Http!Empty(t, j)
    <2>1. CASE j < l
      <3>1. j \in 1..(l - 1)
        BY <1>0, <1>1, <2>1
      <3> QED BY <1>2, <3>1, Zenon DEF Http!Empty
    <2>2. CASE j >= l
      <3>1. j \in (4 * n + 4)..(4 * n + 4 * k + 5)
        BY <1>0, <2>2
      <3>2. t[j] = "CRLF" => t[j - 1] # "CRLF"
        BY <3>1, HeaderLines
      <3> QED BY <3>2, Zenon DEF Http!Empty
    <2> QED BY <1>0, <1>1, <2>1, <2>2
  <1> DEFINE N == Len(t)
  <1>6. N \in Nat
    BY <1>0
  <1>7. Http!RequestLineEnd(t) = (CHOOSE i \in 1..N : EndsFirst(i))
    BY Zenon DEF Http!RequestLineEnd
  <1>8. Http!EmptyLine(t) = (CHOOSE i \in 2..N : EmptyFirst(i))
    BY Zenon DEF Http!EmptyLine
  <1>9. EndsFirst(l)
    BY <1>2, <1>3, Zenon
  <1>10. EmptyFirst(e)
    BY <1>4, <1>5, Zenon DEF Http!Empty
  <1>11. \A i, j \in 1..N : i = j \/ i \in 1..(j - 1) \/ j \in 1..(i - 1)
    BY <1>0, <1>6
  <1>12. \A i, j \in 2..N : i = j \/ i \in 2..(j - 1) \/ j \in 2..(i - 1)
    BY <1>0, <1>6
  <1> HIDE DEF l, e, N, IsEnd
  <1>13. ASSUME NEW i \in 1..N, EndsFirst(i) PROVE i = l
    <2>1. l \in 1..N
      BY <1>1, Zenon DEF N
    <2> QED BY <1>9, <1>11, <1>13, <2>1, Zenon
  <1>14. ASSUME NEW i \in 2..N, EmptyFirst(i) PROVE i = e
    <2>1. e \in 2..N
      BY <1>1, Zenon DEF N
    <2> QED BY <1>10, <1>12, <1>14, <2>1, Zenon
  <1> HIDE DEF EndsFirst, EmptyFirst
  <1>15. (CHOOSE i \in 1..N : EndsFirst(i)) = l
    BY <1>1, <1>9, <1>13, Zenon DEF N
  <1>16. (CHOOSE i \in 2..N : EmptyFirst(i)) = e
    BY <1>1, <1>10, <1>14, Zenon DEF N
  <1> QED BY <1>7, <1>8, <1>15, <1>16, Zenon DEF LinesAt, l, e

\* So are the parameters and the headers.
LEMMA MarksFound ==
  ASSUME NEW V, NEW t, NEW m, NEW p, NEW ps, NEW hs, NEW body, NEW n, NEW k,
         LaidPlainly(V, t, m, p, ps, hs, body, n, k)
  PROVE  MarksAt(t, n, k)
  <1> DEFINE b == Len(body)
  <1>0. /\ n \in Nat /\ k \in Nat /\ b \in Nat /\ Len(t) = 4 * n + 4 * k + 6 + b
        /\ Laid(t, m, p, ps, hs, body, n, k)
    BY Zenon DEF LaidPlainly
  <1> HIDE DEF b
  <1> DEFINE l == 4 * n + 4
             e == 4 * n + 4 * k + 4
             N == Len(t)
             IsParam(j) == t[j] \in {"?", "&"}
             IsField(j) == t[j] \in {"CRLF"}
             params == {0 + 4 * i : i \in 1..n}
             fields == {4 * n + 1 + 4 * i : i \in 1..k}
  <1>1. /\ N = 4 * n + 4 * k + 6 + b
        /\ l \in Nat /\ e \in Nat /\ \A j \in 1..l : j = l \/ j \in 1..(4 * n + 3)
    BY <1>0
  <1>2. ASSUME NEW j \in 1..l PROVE IsParam(j) <=> \E i \in 1..n : j = 4 * i
    <2>1. CASE j = l
      <3>1. t[j] = " HTTP/1.0"
        BY <1>0, <2>1, Zenon DEF Laid
      <3>2. ~ IsParam(j)
        BY <1>0, <3>1
      <3>3. ~ \E i \in 1..n : j = 4 * i
        BY <1>0, <2>1
      <3> QED BY <3>2, <3>3, Zenon
    <2>2. CASE j \in 1..(4 * n + 3)
      <3>1. ParameterAt(t, j, n)
        BY <2>2, FirstLine, Zenon
      <3> QED BY <3>1, Zenon DEF ParameterAt
    <2> QED BY <1>1, <2>1, <2>2, Zenon
  <1>3. ASSUME NEW j \in l..e PROVE IsField(j) <=> \E i \in 1..k : j = 4 * n + 1 + 4 * i
    <2>1. j \in (4 * n + 4)..(4 * n + 4 * k + 5) /\ j <= 4 * n + 4 * k + 4
      BY <1>0
    <2>2. (t[j] = "CRLF") <=> (\E i \in 1..k : j = 4 * n + 1 + 4 * i)
      BY <2>1, HeaderLines
    <2> QED BY <2>2, Zenon
  <1>4. Http!Marked(t, {"?", "&"}, 1, l) = {j \in 1..l : IsParam(j) /\ j + 3 <= N}
    BY Zenon DEF Http!Marked
  <1>5. Http!Marked(t, {"CRLF"}, l, e) = {j \in l..e : IsField(j) /\ j + 3 <= N}
    BY Zenon DEF Http!Marked
  <1> HIDE DEF IsParam, IsField, N
  <1>6. {j \in 1..l : IsParam(j) /\ j + 3 <= N} = params
    <2>1. ASSUME NEW j \in 1..l, IsParam(j), j + 3 <= N PROVE j \in params
      <3>1. PICK i \in 1..n : j = 4 * i
        BY <1>2, <2>1, Zenon
      <3>2. j = 0 + 4 * i
        BY <1>0, <3>1
      <3> QED BY <3>2, Zenon
    <2>2. ASSUME NEW i \in 1..n PROVE 0 + 4 * i \in {j \in 1..l : IsParam(j) /\ j + 3 <= N}
      <3>1. 4 * i \in 1..l /\ 4 * i + 3 <= N /\ 0 + 4 * i = 4 * i
        BY <1>0, <1>1
      <3>2. IsParam(4 * i)
        BY <1>2, <3>1, Zenon
      <3> QED BY <3>1, <3>2, Zenon
    <2> DEFINE found == {j \in 1..l : IsParam(j) /\ j + 3 <= N}
    <2>3. \A j \in found : j \in params
      BY <2>1, Zenon
    <2>4. \A j \in params : j \in found
      BY <2>2, Zenon
    <2> HIDE DEF found, params
    <2>5. found = params
      BY <2>3, <2>4, Zenon
    <2> QED BY <2>5, Zenon DEF found, params
  <1>7. {j \in l..e : IsField(j) /\ j + 3 <= N} = fields
    <2>1. ASSUME NEW j \in l..e, IsField(j), j + 3 <= N PROVE j \in fields
      <3>1. PICK i \in 1..k : j = 4 * n + 1 + 4 * i
        BY <1>3, <2>1, Zenon
      <3> QED BY <3>1, Zenon
    <2>2. ASSUME NEW i \in 1..k
          PROVE  4 * n + 1 + 4 * i \in {j \in l..e : IsField(j) /\ j + 3 <= N}
      <3>1. 4 * n + 1 + 4 * i \in l..e /\ 4 * n + 1 + 4 * i + 3 <= N
        BY <1>0, <1>1
      <3>2. IsField(4 * n + 1 + 4 * i)
        BY <1>3, <3>1, Zenon
      <3> QED BY <3>1, <3>2, Zenon
    <2> DEFINE found == {j \in l..e : IsField(j) /\ j + 3 <= N}
    <2>3. \A j \in found : j \in fields
      BY <2>1, Zenon
    <2>4. \A j \in fields : j \in found
      BY <2>2, Zenon
    <2> HIDE DEF found, fields
    <2>5. found = fields
      BY <2>3, <2>4, Zenon
    <2> QED BY <2>5, Zenon DEF found, fields
  <1> HIDE DEF params, fields, l, e
  <1>8. /\ Http!Marked(t, {"?", "&"}, 1, l) = params
        /\ Http!Marked(t, {"CRLF"}, l, e) = fields
    BY <1>4, <1>5, <1>6, <1>7, Zenon
  <1> QED BY <1>8, Zenon DEF MarksAt, params, fields, l, e

\* A request as it is laid, with each parameter and header once, is read as it was meant.
ReadAs(r, m, p, query, headers, body) ==
  /\ r.once /\ r.method = m /\ r.path = p /\ r.body = body
  /\ r.query = Http!PairsOf(query) /\ r.headers = Http!PairsOf(headers)

LEMMA LaidIsRead ==
  ASSUME NEW V, NEW W, NEW t \in Seq(W), NEW m, NEW p, NEW ps \in Seq(V \X V), NEW hs \in Seq(V \X V),
         NEW body \in Seq(W), NEW query, NEW headers,
         LaidPlainly(V, t, m, p, ps, hs, body, Len(ps), Len(hs)),
         Represents(ps, query), Represents(hs, headers)
  PROVE  ReadAs(Http!ServerReads(t), m, p, query, headers, body)
  <1> DEFINE n == Len(ps)
             k == Len(hs)
             l == 4 * n + 4
             e == 4 * n + 4 * k + 6
             c == 4 * n + 1
             params == {0 + 4 * i : i \in 1..n}
             fields == {c + 4 * i : i \in 1..k}
             marks == {"?", "&"}
             ends == {"CRLF"}
             once == /\ Http!EachOnce(t, params) /\ Http!EachOnce(t, fields)
                     /\ \A i \in params : (t[i] = "?") = (i = 4)
             b == Len(body)
             r == Http!ServerReads(t)
  <1>0. LaidPlainly(V, t, m, p, ps, hs, body, n, k)
    BY Zenon
  <1> HIDE DEF n, k
  <1>1. n \in Nat /\ k \in Nat /\ b \in Nat /\ Len(t) = 4 * n + 4 * k + 6 + b
    BY <1>0, LenProperties, Zenon DEF LaidPlainly
  <1>2. Laid(t, m, p, ps, hs, body, n, k)
    BY <1>0, Zenon DEF LaidPlainly
  <1>3. Http!RequestLineEnd(t) = l /\ Http!EmptyLine(t) = e
    <2>1. LinesAt(t, n, k)
      BY <1>0, LinesFound, Zenon
    <2> QED BY <2>1, Zenon DEF LinesAt
  <1>4. /\ Http!Marked(t, marks, 1, 4 * n + 4) = params
        /\ Http!Marked(t, ends, 4 * n + 4, 4 * n + 4 * k + 4) = fields
    <2>1. MarksAt(t, n, k)
      BY <1>0, MarksFound, Zenon
    <2> QED BY <2>1, Zenon DEF MarksAt
  <1>5. e - 2 = 4 * n + 4 * k + 4 /\ c \in Nat /\ 0 \in Nat
    BY <1>1
  <1>6. Http!PairsAt(t, params) = Http!PairsOf(query) /\ Http!EachOnce(t, params)
    <2>1. ASSUME NEW i \in 1..n PROVE t[(0 + 4 * i) + 1] = ps[i][1] /\ t[(0 + 4 * i) + 3] = ps[i][2]
      <3>1. Quad(t, 4 * i, IF i = 1 THEN "?" ELSE "&", ps[i][1], "=", ps[i][2])
        BY <1>2, Zenon DEF Laid
      <3>2. 0 + 4 * i = 4 * i
        BY <1>1
      <3> QED BY <3>1, <3>2, Zenon DEF Quad
    <2>2. \A i, j \in 1..n : ps[i][1] = ps[j][1] => i = j
      BY Zenon DEF Represents, n, k
    <2>3. Http!PairsAt(t, params) = {ps[i] : i \in 1..Len(ps)} /\ Http!EachOnce(t, params)
      <3> HIDE DEF params
      <3>1. params = {0 + 4 * i : i \in 1..Len(ps)}
        BY Zenon DEF params, n
      <3>2. Spaced(t, ps, 0, params)
        BY <1>5, <2>1, <2>2, <3>1, Zenon DEF Spaced, n, k
      <3> QED BY <3>2, MarksRead, Zenon
    <2> QED BY <2>3, RepresentsPairs, Zenon
  <1>7. Http!PairsAt(t, fields) = Http!PairsOf(headers) /\ Http!EachOnce(t, fields)
    <2>1. ASSUME NEW i \in 1..k PROVE t[(c + 4 * i) + 1] = hs[i][1] /\ t[(c + 4 * i) + 3] = hs[i][2]
      <3>1. Quad(t, c + 4 * i, "CRLF", hs[i][1], ": ", hs[i][2])
        BY <1>2, Zenon DEF Laid
      <3> QED BY <3>1, Zenon DEF Quad
    <2>2. \A i, j \in 1..k : hs[i][1] = hs[j][1] => i = j
      BY Zenon DEF Represents, n, k
    <2>3. Http!PairsAt(t, fields) = {hs[i] : i \in 1..Len(hs)} /\ Http!EachOnce(t, fields)
      <3> HIDE DEF fields, c
      <3>1. fields = {c + 4 * i : i \in 1..Len(hs)}
        BY Zenon DEF fields, k
      <3>2. Spaced(t, hs, c, fields)
        BY <1>5, <2>1, <2>2, <3>1, Zenon DEF Spaced, n, k
      <3> QED BY <3>2, MarksRead, Zenon
    <2> QED BY <2>3, RepresentsPairs, Zenon
  <1>8. ASSUME NEW i \in params PROVE (t[i] = "?") = (i = 4)
    <2>1. PICK j \in 1..n : i = 0 + 4 * j
      BY Zenon
    <2>2. i = 4 * j /\ (i = 4 <=> j = 1)
      BY <1>1, <2>1
    <2>3. t[i] = IF j = 1 THEN "?" ELSE "&"
      <3>1. Quad(t, 4 * j, IF j = 1 THEN "?" ELSE "&", ps[j][1], "=", ps[j][2])
        BY <1>2, Zenon DEF Laid
      <3> QED BY <2>2, <3>1, Zenon DEF Quad
    <2>4. CASE j = 1
      <3>1. t[i] = "?" /\ i = 4
        BY <2>2, <2>3, <2>4, Zenon
      <3> QED BY <3>1, Zenon
    <2>5. CASE j # 1
      <3>1. t[i] = "&" /\ i # 4
        BY <2>2, <2>3, <2>5, Zenon
      <3>2. "&" # "?"
        OBVIOUS
      <3> QED BY <3>1, <3>2, Zenon
    <2> QED BY <2>4, <2>5, Zenon
  <1>9. once
    BY <1>6, <1>7, <1>8, Zenon
  <1>10. t[1] = m /\ t[3] = p
    BY <1>2, Zenon DEF Laid
  <1>11. SubSeq(t, e + 1, Len(t)) = body
    <2> DEFINE s == SubSeq(t, e + 1, Len(t))
    <2>1. s \in Seq(W) /\ Len(s) = b /\ \A i \in 1..b : s[i] = t[e + i]
      BY <1>1
    <2>2. \A i \in 1..b : t[e + i] = body[i]
      BY <1>2, Zenon DEF Laid
    <2>3. Len(body) = b
      BY Zenon
    <2> HIDE DEF s, e
    <2>4. s = body
      BY <2>1, <2>2, <2>3, SeqEqual
    <2> QED BY <2>4, Zenon DEF s
  <1> HIDE DEF l, e, c, params, fields, marks, ends, once, r
  <1>12. r = [method |-> t[1], path |-> t[3],
              query |-> Http!PairsAt(t, params), headers |-> Http!PairsAt(t, fields),
              once |-> once, body |-> SubSeq(t, e + 1, Len(t))]
    <2>1. Http!Marked(t, marks, 1, l) = params /\ Http!Marked(t, ends, l, e - 2) = fields
      BY <1>4, <1>5, Zenon DEF l
    <2> QED BY <1>3, <2>1, Zenon DEF r, Http!ServerReads, marks, ends, once
  <1>13. /\ r.once = once /\ r.method = t[1] /\ r.path = t[3] /\ r.body = SubSeq(t, e + 1, Len(t))
         /\ r.query = Http!PairsAt(t, params) /\ r.headers = Http!PairsAt(t, fields)
    BY <1>12, Zenon
  <1>14. r.once
    BY <1>9, <1>13, Zenon
  <1>15. ReadAs(r, m, p, query, headers, body)
    BY <1>6, <1>7, <1>10, <1>11, <1>13, <1>14, Zenon DEF ReadAs
  <1> QED BY <1>15, Zenon DEF r

Parameters(q, ps) == Queries(q, ps, "?", "&", "=")
Headers(f, hs) == Lists(f, hs, "CRLF", ": ")
RequestText(m, p, q, f, body) ==
  <<m, " ", p>> \o q \o <<" HTTP/1.0">> \o f \o <<"CRLF", "CRLF">> \o body

\* Its parts, put together, are laid as a request is.
LEMMA RequestLaid ==
  ASSUME NEW V, NEW W, V \subseteq W, Http!Separators \subseteq W, Plain(V), NEW m \in V, NEW p \in V,
         NEW ps \in Seq(V \X V), NEW hs \in Seq(V \X V), NEW q \in Seq(W), NEW f \in Seq(W),
         NEW body \in Seq(W), Parameters(q, ps), Headers(f, hs), NEW t,
         t = RequestText(m, p, q, f, body)
  PROVE  t \in Seq(W) /\ LaidPlainly(V, t, m, p, ps, hs, body, Len(ps), Len(hs))
  <1> DEFINE n == Len(ps)
             k == Len(hs)
             b == Len(body)
             space == " "
             version == " HTTP/1.0"
             crlf == "CRLF"
             x == <<m, space, p>>
             y == <<version>>
             z == <<crlf, crlf>>
             u == x \o q
             v == u \o y
             w == v \o f
             r == w \o z
  <1>1. n \in Nat /\ k \in Nat /\ b \in Nat
    BY LenProperties, Zenon
  <1>2. /\ \A i \in 1..n : ps[i] \in V \X V
        /\ \A i \in 1..k : hs[i] \in V \X V
    BY ElementOfSeq, Zenon
  <1>3. /\ \A i \in 1..n : ps[i][1] \in V /\ ps[i][2] \in V
        /\ \A i \in 1..k : hs[i][1] \in V /\ hs[i][2] \in V
    BY <1>2
  <1>4. Len(q) = 4 * n /\ Len(f) = 4 * k
    BY Zenon DEF Parameters, Headers, Queries, Lists
  <1>5. m \in W /\ p \in W /\ space \in W /\ version \in W /\ crlf \in W
    BY DEF Http!Separators
  <1>9. t = r \o body
    BY Zenon DEF RequestText
  <1> HIDE DEF n, k, b, space, version, crlf
  <1>6. x \in Seq(W) /\ Len(x) = 3 /\ x[1] = m /\ x[2] = space /\ x[3] = p
    BY <1>5
  <1>7. y \in Seq(W) /\ Len(y) = 1 /\ y[1] = version
    BY <1>5
  <1>8. z \in Seq(W) /\ Len(z) = 2 /\ z[1] = crlf /\ z[2] = crlf
    BY <1>5
  <1> HIDE DEF x, y, z, u, v, w, r
  <1>10. u \in Seq(W) /\ Joins(u, x, q, 3, 4 * n) /\ Len(u) = 3 + 4 * n
    <2>1. Joins(u, x, q, Len(x), Len(q)) /\ u \in Seq(W)
      BY <1>6, ConcatProperties, PutTogether, Zenon DEF u
    <2> QED BY <1>4, <1>6, <2>1, Zenon DEF Joins
  <1>11. v \in Seq(W) /\ Joins(v, u, y, 3 + 4 * n, 1) /\ Len(v) = 4 * n + 4
    <2>1. Joins(v, u, y, Len(u), Len(y)) /\ v \in Seq(W)
      BY <1>7, <1>10, ConcatProperties, PutTogether, Zenon DEF v
    <2>2. (3 + 4 * n) + 1 = 4 * n + 4
      BY <1>1
    <2> QED BY <1>7, <1>10, <2>1, <2>2, Zenon DEF Joins
  <1>12. w \in Seq(W) /\ Joins(w, v, f, 4 * n + 4, 4 * k) /\ Len(w) = 4 * n + 4 * k + 4
    <2>1. Joins(w, v, f, Len(v), Len(f)) /\ w \in Seq(W)
      BY <1>11, ConcatProperties, PutTogether, Zenon DEF w
    <2>2. (4 * n + 4) + 4 * k = 4 * n + 4 * k + 4
      BY <1>1
    <2> QED BY <1>4, <1>11, <2>1, <2>2, Zenon DEF Joins
  <1>13. r \in Seq(W) /\ Joins(r, w, z, 4 * n + 4 * k + 4, 2) /\ Len(r) = 4 * n + 4 * k + 6
    <2>1. Joins(r, w, z, Len(w), Len(z)) /\ r \in Seq(W)
      BY <1>8, <1>12, ConcatProperties, PutTogether, Zenon DEF r
    <2>2. (4 * n + 4 * k + 4) + 2 = 4 * n + 4 * k + 6
      BY <1>1
    <2> QED BY <1>8, <1>12, <2>1, <2>2, Zenon DEF Joins
  <1>14. /\ t \in Seq(W) /\ Joins(t, r, body, 4 * n + 4 * k + 6, b)
         /\ Len(t) = 4 * n + 4 * k + 6 + b
    <2>1. Joins(t, r, body, Len(r), Len(body)) /\ t \in Seq(W)
      BY <1>9, <1>13, ConcatProperties, PutTogether, Zenon
    <2> QED BY <1>13, <2>1, Zenon DEF Joins, b
  <1>15. ASSUME NEW i \in 1..(4 * n + 4 * k + 4) PROVE t[i] = w[i]
    <2>1. i \in 1..(4 * n + 4 * k + 6)
      BY <1>1
    <2> QED BY <1>13, <1>14, <2>1, Zenon DEF Joins
  <1>16. ASSUME NEW i \in 1..(4 * n + 4) PROVE t[i] = v[i]
    <2>1. i \in 1..(4 * n + 4 * k + 4)
      BY <1>1
    <2> QED BY <1>12, <1>15, <2>1, Zenon DEF Joins
  <1>17. ASSUME NEW i \in 1..(3 + 4 * n) PROVE t[i] = u[i]
    <2>1. i \in 1..(4 * n + 4)
      BY <1>1
    <2> QED BY <1>11, <1>16, <2>1, Zenon DEF Joins
  <1>18. t[1] = m /\ t[2] = " " /\ t[3] = p
    <2>1. 1 \in 1..(3 + 4 * n) /\ 2 \in 1..(3 + 4 * n) /\ 3 \in 1..(3 + 4 * n)
      BY <1>1
    <2>2. 1 \in 1..3 /\ 2 \in 1..3 /\ 3 \in 1..3
      OBVIOUS
    <2>3. u[1] = x[1] /\ u[2] = x[2] /\ u[3] = x[3]
      BY <1>10, <2>2, Zenon DEF Joins
    <2> QED BY <1>6, <1>17, <2>1, <2>3, Zenon DEF space
  <1>19. ASSUME NEW i \in 1..n
         PROVE  Quad(t, 4 * i, IF i = 1 THEN "?" ELSE "&", ps[i][1], "=", ps[i][2])
    <2> DEFINE a == IF i = 1 THEN "?" ELSE "&"
               j == 4 * i - 3
    <2>1. Quad(q, j, a, ps[i][1], "=", ps[i][2])
      BY Zenon DEF Parameters, Queries, n
    <2>2. j \in 1..(4 * n) /\ j + 3 <= 4 * n /\ 3 \in Nat /\ 4 * n \in Nat /\ 3 + j = 4 * i
      BY <1>1
    <2>3. /\ 4 * i \in 1..(3 + 4 * n) /\ 4 * i + 1 \in 1..(3 + 4 * n)
          /\ 4 * i + 2 \in 1..(3 + 4 * n) /\ 4 * i + 3 \in 1..(3 + 4 * n)
      BY <1>1
    <2> HIDE DEF a, j
    <2>4. Quad(u, 3 + j, a, ps[i][1], "=", ps[i][2])
      BY <1>10, <2>1, <2>2, QuadRight, Zenon
    <2>5. Quad(u, 4 * i, a, ps[i][1], "=", ps[i][2])
      BY <2>2, <2>4, Zenon
    <2>6. Quad(t, 4 * i, a, ps[i][1], "=", ps[i][2])
      BY <1>17, <2>3, <2>5, Zenon DEF Quad
    <2> QED BY <2>6, Zenon DEF a
  <1>20. t[4 * n + 4] = " HTTP/1.0"
    <2>1. 4 * n + 4 \in 1..(4 * n + 4) /\ (3 + 4 * n) + 1 = 4 * n + 4 /\ 1 \in 1..1
      BY <1>1
    <2>2. v[(3 + 4 * n) + 1] = y[1]
      BY <1>11, <2>1, Zenon DEF Joins
    <2>3. t[4 * n + 4] = v[4 * n + 4]
      BY <1>16, <2>1, Zenon
    <2> QED BY <1>7, <2>1, <2>2, <2>3, Zenon DEF version
  <1>21. ASSUME NEW i \in 1..k PROVE Quad(t, 4 * n + 1 + 4 * i, "CRLF", hs[i][1], ": ", hs[i][2])
    <2> DEFINE j == 4 * i - 3
               c == 4 * n + 4
               d == 4 * n + 1 + 4 * i
               o == 4 * n + 4 * k + 4
    <2>1. Quad(f, j, "CRLF", hs[i][1], ": ", hs[i][2])
      BY Zenon DEF Headers, Lists, k
    <2>2. j \in 1..(4 * k) /\ j + 3 <= 4 * k /\ c \in Nat /\ 4 * k \in Nat /\ c + j = d
      BY <1>1
    <2>3. d \in 1..o /\ d + 1 \in 1..o /\ d + 2 \in 1..o /\ d + 3 \in 1..o
      BY <1>1
    <2>4. Joins(w, v, f, c, 4 * k) /\ \A l \in 1..o : t[l] = w[l]
      BY <1>12, <1>15, Zenon
    <2> HIDE DEF c, j, d, o
    <2>5. Quad(w, c + j, "CRLF", hs[i][1], ": ", hs[i][2])
      BY <2>1, <2>2, <2>4, QuadRight, Zenon
    <2>6. Quad(w, d, "CRLF", hs[i][1], ": ", hs[i][2])
      BY <2>2, <2>5, Zenon
    <2>7. Quad(t, d, "CRLF", hs[i][1], ": ", hs[i][2])
      BY <2>3, <2>4, <2>6, Zenon DEF Quad
    <2> QED BY <2>7, Zenon DEF d
  <1>22. t[4 * n + 4 * k + 5] = "CRLF" /\ t[4 * n + 4 * k + 6] = "CRLF"
    <2> DEFINE o == 4 * n + 4 * k + 4
               e == 4 * n + 4 * k + 6
    <2>1. o + 1 = 4 * n + 4 * k + 5 /\ o + 2 = e /\ o + 1 \in 1..e /\ o + 2 \in 1..e
      BY <1>1
    <2>2. 1 \in 1..2 /\ 2 \in 1..2
      OBVIOUS
    <2>3. r[o + 1] = z[1] /\ r[o + 2] = z[2]
      BY <1>13, <2>2, Zenon DEF Joins
    <2>4. t[o + 1] = r[o + 1] /\ t[o + 2] = r[o + 2]
      BY <1>14, <2>1, Zenon DEF Joins
    <2> HIDE DEF o
    <2>5. t[o + 1] = "CRLF" /\ t[o + 2] = "CRLF"
      BY <1>8, <2>3, <2>4, Zenon DEF crlf
    <2> QED BY <2>1, <2>5, Zenon
  <1>23. \A i \in 1..Len(body) : t[4 * n + 4 * k + 6 + i] = body[i]
    BY <1>14, Zenon DEF Joins, b
  <1>24. Laid(t, m, p, ps, hs, body, n, k)
    BY <1>18, <1>19, <1>20, <1>21, <1>22, <1>23, Zenon DEF Laid
  <1>25. LaidPlainly(V, t, m, p, ps, hs, body, n, k)
    BY <1>1, <1>3, <1>14, <1>24, Zenon DEF LaidPlainly, b
  <1> QED BY <1>14, <1>25, Zenon DEF n, k

\* A text lists the entries of a map, each once.
WrittenAs(e, V, W, map, first, sep) ==
  e \in Seq(W) /\ \E ps \in Seq(V \X V) : Lists(e, ps, first, sep) /\ Represents(ps, map)

\* The entries of a map with some names.
LEMMA PartWritten ==
  ASSUME NEW V, NEW W, V \subseteq W, NEW first \in W, NEW sep \in W, NEW map,
         NEW D, D \subseteq V, IsFiniteSet(D), \A k \in D : map[k] \in V
  PROVE  WrittenAs(Http!Entries(map, Http!SetToSeq(D), first, sep), V, W, Part(map, D), first, sep)
  <1> DEFINE names == Http!SetToSeq(D)
             ps == EntriesOf(map, names)
             e == Http!Entries(map, names, first, sep)
  <1>1. names \in Seq(D)
    BY NamesOnce, Zenon
  <1>2. Represents(ps, Part(map, D))
    BY PartRepresented, Zenon
  <1> HIDE DEF names
  <1>3. \A i \in 1..Len(names) : names[i] \in D
    BY <1>1, ElementOfSeq, Zenon
  <1>4. names \in Seq(V) /\ \A i \in 1..Len(names) : map[names[i]] \in V
    <2>1. names \in Seq(V)
      BY <1>1
    <2> QED BY <1>3, <2>1, Zenon
  <1>5. e \in Seq(W) /\ ps \in Seq(V \X V) /\ Lists(e, ps, first, sep)
    BY <1>4, EntriesList, Zenon
  <1> HIDE DEF ps, e
  <1>6. WrittenAs(e, V, W, Part(map, D), first, sep)
    BY <1>2, <1>5, Zenon DEF WrittenAs
  <1> QED BY <1>6, Zenon DEF e, names

LEMMA BothWritten ==
  ASSUME NEW V, NEW W, NEW e, NEW f, NEW a, NEW b, NEW first, NEW sep,
         WrittenAs(e, V, W, a, first, sep), WrittenAs(f, V, W, b, first, sep),
         \A k \in DOMAIN a : k \notin DOMAIN b
  PROVE  WrittenAs(e \o f, V, W, Both(a, b), first, sep)
  <1>1. e \in Seq(W) /\ f \in Seq(W)
    BY Zenon DEF WrittenAs
  <1>2. PICK ps \in Seq(V \X V) : Lists(e, ps, first, sep) /\ Represents(ps, a)
    BY Zenon DEF WrittenAs
  <1>3. PICK qs \in Seq(V \X V) : Lists(f, qs, first, sep) /\ Represents(qs, b)
    BY Zenon DEF WrittenAs
  <1>4. e \o f \in Seq(W) /\ ps \o qs \in Seq(V \X V) /\ Lists(e \o f, ps \o qs, first, sep)
    BY <1>1, <1>2, <1>3, ListsBoth, Zenon
  <1>5. Represents(ps \o qs, Both(a, b))
    BY <1>2, <1>3, BothRepresented, Zenon
  <1> QED BY <1>4, <1>5, Zenon DEF WrittenAs

\* One entry.
EntryText(first, k, sep, v) == <<first, k, sep, v>>
Single(k, v) == [x \in {k} |-> v]

LEMMA OneWritten ==
  ASSUME NEW V, NEW W, V \subseteq W, NEW first \in W, NEW sep \in W, NEW k \in V, NEW v \in V
  PROVE  WrittenAs(EntryText(first, k, sep, v), V, W, Single(k, v), first, sep)
  <1> DEFINE e == <<first, k, sep, v>>
             pair == <<k, v>>
             ps == <<pair>>
             map == [x \in {k} |-> v]
  <1>1. e \in Seq(W) /\ Len(e) = 4 /\ e[1] = first /\ e[2] = k /\ e[3] = sep /\ e[4] = v
    OBVIOUS
  <1>2. pair \in V \X V /\ pair[1] = k /\ pair[2] = v
    OBVIOUS
  <1>3. DOMAIN map = {k} /\ map[k] = v
    OBVIOUS
  <1>4. Entry(map, k) = pair
    BY <1>3, Zenon DEF Entry
  <1> HIDE DEF e, pair, map
  <1>5. ps \in Seq(V \X V) /\ Len(ps) = 1 /\ ps[1] = pair
    BY <1>2
  <1> HIDE DEF ps
  <1>6. \A i \in 1..1 : i = 1
    OBVIOUS
  <1>7. 1 \in 1..1 /\ 4 * 1 = 4 /\ 4 * 1 - 3 = 1 /\ 1 + 1 = 2 /\ 1 + 2 = 3 /\ 1 + 3 = 4
    OBVIOUS
  <1>8. Quad(e, 1, first, k, sep, v)
    BY <1>1, <1>7, Zenon DEF Quad
  <1>9. Lists(e, ps, first, sep)
    <2>1. ASSUME NEW i \in 1..1 PROVE Quad(e, 4 * i - 3, first, ps[i][1], sep, ps[i][2])
      <3>1. i = 1
        BY <1>6, Zenon
      <3>2. ps[1][1] = k /\ ps[1][2] = v
        BY <1>2, <1>5, Zenon
      <3> QED BY <1>7, <1>8, <3>1, <3>2, Zenon
    <2> QED BY <1>1, <1>5, <1>7, <2>1, Zenon DEF Lists
  <1>10. Represents(ps, map)
    <2>1. ps[1][1] = k /\ ps[1] = Entry(map, k)
      BY <1>2, <1>4, <1>5, Zenon
    <2>2. \A i, j \in 1..1 : i = j
      BY <1>6, Zenon
    <2>3. ASSUME NEW i \in 1..1 PROVE ps[i][1] \in DOMAIN map /\ ps[i] = Entry(map, ps[i][1])
      BY <1>3, <1>6, <2>1, Zenon
    <2>4. ASSUME NEW l \in DOMAIN map PROVE \E i \in 1..1 : ps[i][1] = l
      BY <1>3, <1>7, <2>1, Zenon
    <2> QED BY <1>5, <2>2, <2>3, <2>4, Zenon DEF Represents
  <1>11. WrittenAs(e, V, W, map, first, sep)
    BY <1>1, <1>5, <1>9, <1>10, Zenon DEF WrittenAs
  <1> QED BY <1>11, Zenon DEF e, map, EntryText, Single

Worded(map, V) == \A k \in DOMAIN map : k \in V /\ map[k] \in V

\* The parameters: those of the endpoint that the request does not set, and the request's.
LEMMA QueryWritten ==
  ASSUME NEW V, NEW W, V \subseteq W, Http!Separators \subseteq W, NEW own, NEW extra,
         IsFiniteSet(DOMAIN own), IsFiniteSet(DOMAIN extra),
         Worded(own, V), Worded(extra, V)
  PROVE  /\ Http!query_string(own, extra) \in Seq(W)
         /\ \E ps \in Seq(V \X V) :
              /\ Queries(Http!query_string(own, extra), ps, "?", "&", "=")
              /\ Represents(ps, Http!Override(own, extra))
  <1> DEFINE D == DOMAIN own \ DOMAIN extra
             a == Part(own, D)
             b == Part(extra, DOMAIN extra)
             e == Http!Entries(own, Http!SetToSeq(D), "&", "=")
                  \o Http!Entries(extra, Http!SetToSeq(DOMAIN extra), "&", "=")
  <1>1. "?" \in W /\ "&" \in W /\ "=" \in W
    BY DEF Http!Separators
  <1>2. /\ D \subseteq V /\ \A k \in D : own[k] \in V
        /\ DOMAIN extra \subseteq V /\ \A k \in DOMAIN extra : extra[k] \in V
    BY DEF Worded
  <1>3. IsFiniteSet(D)
    BY FS_Difference, Zenon
  <1>4. WrittenAs(Http!Entries(own, Http!SetToSeq(D), "&", "="), V, W, a, "&", "=")
    <2> HIDE DEF D
    <2> QED BY <1>1, <1>2, <1>3, PartWritten, Zenon
  <1>5. WrittenAs(Http!Entries(extra, Http!SetToSeq(DOMAIN extra), "&", "="), V, W, b, "&", "=")
    BY <1>1, <1>2, PartWritten, Zenon
  <1>6. DOMAIN a = D /\ DOMAIN b = DOMAIN extra /\ \A k \in DOMAIN a : k \notin DOMAIN b
    BY DEF Part
  <1>7. WrittenAs(e, V, W, Both(a, b), "&", "=")
    BY <1>4, <1>5, <1>6, BothWritten, Zenon
  <1>8. Both(a, b) = Http!Override(own, extra)
    <2> DEFINE c == Both(a, b)
               d == Http!Override(own, extra)
    <2>1. DOMAIN c = DOMAIN d
      BY <1>6 DEF Both, Http!Override
    <2>2. ASSUME NEW k \in DOMAIN d PROVE c[k] = d[k]
      BY <1>6 DEF Both, Part, Http!Override
    <2>3. c = [k \in DOMAIN c |-> c[k]] /\ d = [k \in DOMAIN d |-> d[k]]
      BY DEF Both, Http!Override
    <2> HIDE DEF c, d
    <2>4. c = d
      BY <2>1, <2>2, <2>3
    <2> QED BY <2>4, Zenon DEF c, d
  <1>9. Http!query_string(own, extra) = IF e = <<>> THEN <<>> ELSE <<"?">> \o Tail(e)
    BY Zenon DEF Http!query_string
  <1> HIDE DEF a, b, e
  <1>10. e \in Seq(W)
    BY <1>7, Zenon DEF WrittenAs
  <1>11. PICK ps \in Seq(V \X V) : Lists(e, ps, "&", "=") /\ Represents(ps, Both(a, b))
    BY <1>7, Zenon DEF WrittenAs
  <1> DEFINE q == IF e = <<>> THEN <<>> ELSE <<"?">> \o Tail(e)
  <1>12. q \in Seq(W) /\ Queries(q, ps, "?", "&", "=")
    BY <1>1, <1>10, <1>11, QueryText, Zenon
  <1> HIDE DEF q
  <1>13. Http!query_string(own, extra) = q
    BY <1>9, Zenon DEF q
  <1> QED BY <1>8, <1>11, <1>12, <1>13, Zenon

\* The headers: so are they, and the length of the body is written in any case.
LEMMA HeadersWritten ==
  ASSUME NEW V, NEW W, V \subseteq W, Http!Separators \subseteq W, NEW own, NEW extra, NEW l \in V,
         IsFiniteSet(DOMAIN own), IsFiniteSet(DOMAIN extra),
         Worded(own, V), Worded(extra, V), "Content-Length" \in V
  PROVE  WrittenAs(Http!Entries(own, Http!SetToSeq(DOMAIN own \ (DOMAIN extra \cup {"Content-Length"})),
                              "CRLF", ": ")
                 \o Http!Entries(extra, Http!SetToSeq(DOMAIN extra \ {"Content-Length"}), "CRLF", ": ")
                 \o <<"CRLF", "Content-Length", ": ", l>>,
                 V, W, Http!with(Http!Override(own, extra), "Content-Length", l), "CRLF", ": ")
  <1> DEFINE length == "Content-Length"
             D == DOMAIN own \ (DOMAIN extra \cup {length})
             E == DOMAIN extra \ {length}
             a == Part(own, D)
             b == Part(extra, E)
             c == [x \in {length} |-> l]
             e == Http!Entries(own, Http!SetToSeq(D), "CRLF", ": ")
             f == Http!Entries(extra, Http!SetToSeq(E), "CRLF", ": ")
             g == <<"CRLF", length, ": ", l>>
  <1>1. "CRLF" \in W /\ ": " \in W
    BY DEF Http!Separators
  <1>2. /\ D \subseteq V /\ \A k \in D : own[k] \in V
        /\ E \subseteq V /\ \A k \in E : extra[k] \in V
    BY DEF Worded
  <1>3. IsFiniteSet(D) /\ IsFiniteSet(E)
    BY FS_Difference, Zenon
  <1>4. WrittenAs(e, V, W, a, "CRLF", ": ")
    <2> HIDE DEF D
    <2> QED BY <1>1, <1>2, <1>3, PartWritten, Zenon
  <1>5. WrittenAs(f, V, W, b, "CRLF", ": ")
    <2> HIDE DEF E
    <2> QED BY <1>1, <1>2, <1>3, PartWritten, Zenon
  <1>6. WrittenAs(g, V, W, c, "CRLF", ": ")
    <2> HIDE DEF length
    <2>1. length \in V
      BY Zenon DEF length
    <2> DEFINE first == "CRLF"
               sep == ": "
    <2>2. first \in W /\ sep \in W
      BY <1>1, Zenon
    <2> HIDE DEF first, sep
    <2>3. WrittenAs(EntryText(first, length, sep, l), V, W, Single(length, l), first, sep)
      BY <2>1, <2>2, OneWritten, Zenon
    <2> QED BY <2>3, Zenon DEF first, sep, EntryText, Single
  <1>7. DOMAIN a = D /\ DOMAIN b = E /\ DOMAIN c = {length}
    BY DEF Part
  <1>8. \A k \in DOMAIN a : k \notin DOMAIN b
    BY <1>7
  <1>9. DOMAIN Both(a, b) = DOMAIN a \cup DOMAIN b
    BY DEF Both
  <1>10. \A k \in DOMAIN Both(a, b) : k \notin DOMAIN c
    BY <1>7, <1>9
  <1> HIDE DEF a, b, c, e, f, g
  <1>11. WrittenAs(e \o f, V, W, Both(a, b), "CRLF", ": ")
    BY <1>4, <1>5, <1>8, BothWritten, Zenon
  <1>12. WrittenAs((e \o f) \o g, V, W, Both(Both(a, b), c), "CRLF", ": ")
    BY <1>6, <1>10, <1>11, BothWritten, Zenon
  <1>13. Both(Both(a, b), c) = Http!with(Http!Override(own, extra), length, l)
    <2> DEFINE h == Both(Both(a, b), c)
               d == Http!with(Http!Override(own, extra), length, l)
    <2>1. DOMAIN h = DOMAIN d
      <3>1. DOMAIN h = (D \cup E) \cup {length}
        BY <1>7, <1>9 DEF Both
      <3>2. DOMAIN d = (DOMAIN own \cup DOMAIN extra) \cup {length}
        BY DEF Http!with, Http!Override
      <3> QED BY <3>1, <3>2
    <2>2. ASSUME NEW k \in DOMAIN d PROVE h[k] = d[k]
      <3>1. CASE k = length
        <4>1. h[k] = c[k] /\ c[k] = l
          BY <1>7, <1>9, <2>1, <3>1 DEF Both, c
        <4>2. d[k] = l
          BY <3>1 DEF Http!with
        <4> QED BY <4>1, <4>2, Zenon
      <3>2. CASE k # length /\ k \in DOMAIN extra
        <4>1. k \in E /\ k \notin D
          BY <3>2
        <4>2. h[k] = b[k] /\ b[k] = extra[k]
          BY <1>7, <1>9, <4>1 DEF Both, b, Part
        <4>3. d[k] = extra[k]
          BY <3>2 DEF Http!with, Http!Override
        <4> QED BY <4>2, <4>3, Zenon
      <3>3. CASE k # length /\ k \notin DOMAIN extra
        <4>1. k \in DOMAIN own
          BY <3>3 DEF Http!with, Http!Override
        <4>2. k \in D
          BY <3>3, <4>1
        <4>3. h[k] = a[k] /\ a[k] = own[k]
          BY <1>7, <1>9, <4>2 DEF Both, a, Part
        <4>4. d[k] = own[k]
          BY <3>3, <4>1 DEF Http!with, Http!Override
        <4> QED BY <4>3, <4>4, Zenon
      <3> QED BY <3>1, <3>2, <3>3, Zenon
    <2>3. h = [k \in DOMAIN h |-> h[k]] /\ d = [k \in DOMAIN d |-> d[k]]
      BY DEF Both, Http!with
    <2> HIDE DEF h, d
    <2>4. h = d
      BY <2>1, <2>2, <2>3
    <2> QED BY <2>4, Zenon DEF h, d
  <1>14. WrittenAs((e \o f) \o g, V, W, Http!with(Http!Override(own, extra), length, l), "CRLF", ": ")
    BY <1>12, <1>13, Zenon
  <1> QED BY <1>14, Zenon DEF e, f, g

\* A request: what is written is what a server reads.
LEMMA GeneratedIsRead ==
  ASSUME NEW V, Plain(V), NEW B, NEW body \in Seq(B), NEW endpoint, NEW m \in V, NEW p \in V,
         NEW query, NEW headers, NEW l \in V, l = Http!ToString(Len(body)), "Content-Length" \in V,
         IsFiniteSet(DOMAIN endpoint.query), IsFiniteSet(DOMAIN query),
         IsFiniteSet(DOMAIN endpoint.headers), IsFiniteSet(DOMAIN headers),
         Worded(endpoint.query, V), Worded(query, V), Worded(endpoint.headers, V), Worded(headers, V)
  PROVE  ReadAs(Http!ServerReads(Http!generate_request(endpoint, m, p, query, headers, body)), m, p,
                Http!Override(endpoint.query, query),
                Http!with(Http!Override(endpoint.headers, headers), "Content-Length", l), body)
  <1> DEFINE W == (V \cup Http!Separators) \cup B
             own == endpoint.query
             given == endpoint.headers
             q == Http!query_string(own, query)
             f == Http!Entries(given, Http!SetToSeq(DOMAIN given \ (DOMAIN headers \cup {"Content-Length"})),
                               "CRLF", ": ")
                  \o Http!Entries(headers, Http!SetToSeq(DOMAIN headers \ {"Content-Length"}), "CRLF", ": ")
                  \o <<"CRLF", "Content-Length", ": ", l>>
             queries == Http!Override(own, query)
             fields == Http!with(Http!Override(given, headers), "Content-Length", l)
             t == Http!generate_request(endpoint, m, p, query, headers, body)
  <1>1. V \subseteq W /\ Http!Separators \subseteq W /\ B \subseteq W
    BY Zenon
  <1>2. body \in Seq(W)
    <2> HIDE DEF W
    <2> QED BY <1>1
  <1>3. t = RequestText(m, p, q, f, body)
    BY Zenon DEF Http!generate_request, RequestText
  <1> HIDE DEF W
  <1>4. /\ q \in Seq(W)
        /\ \E ps \in Seq(V \X V) : Queries(q, ps, "?", "&", "=") /\ Represents(ps, queries)
    BY <1>1, QueryWritten, Zenon
  <1>5. WrittenAs(f, V, W, fields, "CRLF", ": ")
    BY <1>1, HeadersWritten, Zenon
  <1> HIDE DEF q, f, queries, fields, t
  <1>6. PICK ps \in Seq(V \X V) : Queries(q, ps, "?", "&", "=") /\ Represents(ps, queries)
    BY <1>4, Zenon
  <1>7. f \in Seq(W)
    BY <1>5, Zenon DEF WrittenAs
  <1>8. PICK hs \in Seq(V \X V) : Lists(f, hs, "CRLF", ": ") /\ Represents(hs, fields)
    BY <1>5, Zenon DEF WrittenAs
  <1>9. Parameters(q, ps) /\ Headers(f, hs)
    BY <1>6, <1>8, Zenon DEF Parameters, Headers
  <1>10. t \in Seq(W) /\ LaidPlainly(V, t, m, p, ps, hs, body, Len(ps), Len(hs))
    BY <1>1, <1>2, <1>3, <1>4, <1>7, <1>9, RequestLaid, Zenon
  <1>11. ReadAs(Http!ServerReads(t), m, p, queries, fields, body)
    BY <1>2, <1>6, <1>8, <1>10, LaidIsRead, Zenon
  <1> QED BY <1>11, Zenon DEF t, queries, fields, own, given

\* Whatever the overload, whatever the endpoint has and the caller gives, a server reads
\* from the text that make_request() sends the method, the path, each parameter and each
\* header once, the caller's in place of the endpoint's, and as Content-Length the size of
\* the body.  (The names and values are none of what separates them, and one overload
\* drops its query.)
THEOREM RequestIsRead ==
  ASSUME NEW V, V \cap Http!Separators = {}, NEW B, NEW body \in Seq(B), NEW endpoint,
         NEW takes \in Http!Overloads, NEW m \in V, NEW p \in V, NEW query, NEW headers,
         Http!ToString(0) \in V, Http!ToString(Len(body)) \in V, "Content-Length" \in V, "GET" \in V,
         IsFiniteSet(DOMAIN endpoint.query), IsFiniteSet(DOMAIN query),
         IsFiniteSet(DOMAIN endpoint.headers), IsFiniteSet(DOMAIN headers),
         Worded(endpoint.query, V), Worded(query, V), Worded(endpoint.headers, V), Worded(headers, V)
  PROVE  Http!RequestReads(endpoint, takes, m, p, query, headers, body)
  <1> DEFINE qs == IF {"query", "headers", "body"} \subseteq takes THEN query ELSE Http!Nothing
             hs == IF "headers" \in takes THEN headers ELSE Http!Nothing
             b == IF "body" \in takes THEN body ELSE <<>>
             a == IF "method" \in takes THEN m ELSE "GET"
             l == Http!ToString(Len(b))
             t == Http!generate_request(endpoint, a, p, qs, hs, b)
             r == Http!ServerReads(t)
             queries == Http!Override(endpoint.query, qs)
             fields == Http!with(Http!Override(endpoint.headers, hs), "Content-Length", l)
  <1>1. Plain(V)
    BY Zenon DEF Plain
  <1>2. IsFiniteSet(DOMAIN Http!Nothing) /\ Worded(Http!Nothing, V)
    <2>1. DOMAIN Http!Nothing = {}
      BY DEF Http!Nothing
    <2>2. IsFiniteSet({})
      BY FS_EmptySet, Zenon
    <2> QED BY <2>1, <2>2, Zenon DEF Worded
  <1>3. IsFiniteSet(DOMAIN qs) /\ Worded(qs, V)
    BY <1>2, Zenon
  <1>4. IsFiniteSet(DOMAIN hs) /\ Worded(hs, V)
    BY <1>2, Zenon
  <1>5. b \in Seq(B) /\ l \in V
    <2>1. CASE "body" \in takes
      BY <2>1, Zenon
    <2>2. CASE "body" \notin takes
      <3>1. <<>> \in Seq(B) /\ Len(<<>>) = 0
        OBVIOUS
      <3>2. b = <<>>
        BY <2>2, Zenon
      <3> QED BY <3>1, <3>2, Zenon
    <2> QED BY <2>1, <2>2, Zenon
  <1>6. a \in V
    BY Zenon
  <1>7. "query" \in takes /\ "body" \in takes => {"query", "headers", "body"} \subseteq takes
    BY DEF Http!Overloads
  <1>8. Http!make_request(endpoint, takes, m, p, query, headers, body) = t
    BY Zenon DEF Http!make_request
  <1>9. "body" \in takes \/ "query" \notin takes =>
          qs = IF "query" \in takes THEN query ELSE Http!Nothing
    <2>1. CASE "query" \in takes /\ "body" \in takes
      BY <1>7, <2>1, Zenon
    <2>2. CASE "query" \notin takes
      <3>1. ~ ({"query", "headers", "body"} \subseteq takes)
        BY <2>2
      <3> QED BY <2>2, <3>1, Zenon
    <2> QED BY <2>1, <2>2, Zenon
  <1>10. ReadAs(r, a, p, queries, fields, b)
    <2> HIDE DEF qs, hs, b, a
    <2> QED BY <1>1, <1>3, <1>4, <1>5, <1>6, GeneratedIsRead, Zenon
  <1> HIDE DEF t, r, queries, fields, l
  <1>11. /\ r.once /\ r.method = a /\ r.path = p /\ r.body = b
         /\ r.query = Http!PairsOf(queries) /\ r.headers = Http!PairsOf(fields)
    BY <1>10, Zenon DEF ReadAs
  <1>12. "body" \in takes \/ "query" \notin takes =>
           r.query = Http!PairsOf(Http!Override(endpoint.query,
                                               IF "query" \in takes THEN query ELSE Http!Nothing))
    <2> HIDE DEF qs
    <2> QED BY <1>9, <1>11, Zenon DEF queries
  <1>13. r.headers = Http!PairsOf(Http!with(Http!Override(endpoint.headers, hs), "Content-Length",
                                            Http!ToString(Len(r.body))))
    <2> HIDE DEF b
    <2> QED BY <1>11, Zenon DEF fields, l
  <1>14. Http!ServerReads(Http!make_request(endpoint, takes, m, p, query, headers, body)) = r
    BY <1>8, Zenon DEF r
  <1> HIDE DEF qs
  <1> QED BY <1>11, <1>12, <1>13, <1>14, Zenon DEF Http!RequestReads

-----------------------------------------------------------------------------
\* The task is none, or one of the inputs.
Given == task = None \/ \E i \in DOMAIN Inputs : task \in Inputs[i]

LEMMA AlwaysGiven == AlgorithmsSpec => []Given
  <1>1. AlgorithmsInit => Given
    BY DEF AlgorithmsInit, Given
  <1>2. Given /\ [CallAlgorithm]_task => Given'
    BY DEF CallAlgorithm, Given
  <1> QED BY <1>1, <1>2, PTL DEF AlgorithmsSpec

\* For every buffer an algorithm is called on, the Verifier's answer is right.
THEOREM VerifiedAlwaysInBounds == AlgorithmsSpec => []VerifiedInBounds
  <1>1. ASSUME Given PROVE VerifiedInBounds
    <2> SUFFICES ASSUME task.about = "buffer", NEW type \in DOMAIN Tables,
                        VerifyBuffer(task.bytes, type),
                        NEW range \in Reads(task.bytes, type, MaxDepth + 1)
                 PROVE  InBounds(task.bytes, range)
      BY DEF VerifiedInBounds, AcceptedInBounds
    <2>1. task # None
      BY DEF None
    <2>2. task.bytes \in Buffers
      BY <1>1, <2>1, InputsAssumption DEF Given, Buffers, Octets
    <2>3. MaxDepth + 1 \in Nat
      BY MaxDepthAssumption
    <2> QED BY <2>2, <2>3, AcceptedBufferInBounds
  <1> QED BY <1>1, AlwaysGiven, PTL

\* For every text an algorithm is called on, its code is its bits, and is decoded to it.
THEOREM CodeAlwaysFaithful == AlgorithmsSpec => []CodeFaithful
  <1>1. ASSUME Given PROVE CodeFaithful
    <2> SUFFICES ASSUME task.about = "base64" PROVE CodesFaithfully(task.text, task.cut)
      BY DEF CodeFaithful
    <2>1. task # None
      BY DEF None
    <2>2. task.text \in Texts /\ task.cut \in 0..Len(task.text)
      BY <1>1, <2>1, InputsAssumption DEF Given, Texts
    <2> QED BY <2>2, CodesAlwaysFaithfully
  <1> QED BY <1>1, AlwaysGiven, PTL

\* For every token an algorithm is called on: header, payload and signature are found.
THEOREM TokenAlwaysReads == AlgorithmsSpec => []TokenReads
  <1>1. ASSUME Given PROVE TokenReads
    <2> SUFFICES ASSUME task.about = "jwt"
                 PROVE  TokenSays(task.alg, task.key, task.header, task.payload, task.fails)
      BY DEF TokenReads
    <2>1. task # None
      BY DEF None
    <2>2. task.header \in Texts /\ task.payload \in Texts /\ task.fails \subseteq {"md", "sign"}
      BY <1>1, <2>1, InputsAssumption DEF Given, Texts
    <2> QED BY <2>2, TokenAlwaysSays
  <1> QED BY <1>1, AlwaysGiven, PTL

\* For every response whose head is made of lines: the code and the body are read.
THEOREM HeadAlwaysReads == AlgorithmsSpec => []HeadReads
  <1>1. ASSUME Given PROVE HeadReads
    <2> SUFFICES ASSUME task.about = "head"
                 PROVE  Http!HeadReads(task.code, task.reason, task.headers, task.body, HeadChars)
      BY DEF HeadReads
    <2>1. task # None
      BY DEF None
    <2>2. /\ task.code \in Seq(Http!Digits) \ {<<>>} /\ task.reason \in Lines
          /\ task.reason[1] \in HeadChars /\ task.headers \in Seq(Lines) /\ task.body \in HeadText
      BY <1>1, <2>1, InputsAssumption DEF Given
    <2>3. /\ "H" \in HeadChars /\ Http!Digits \subseteq HeadChars
          /\ \A c \in Http!Whitespace : c \notin HeadChars
      BY DEF HeadChars, Http!Digits, Http!Whitespace
    <2> DEFINE V == HeadChars \cup Http!Whitespace
    <2>4. ASSUME NEW l \in Lines PROVE l \in Seq(V) /\ l # <<>> /\ Http!IsLine(l)
      BY <2>4, Zenon DEF Lines, HeadText
    <2>5. Len(task.headers) \in Nat /\ \A i \in 1..Len(task.headers) : task.headers[i] \in Lines
      <3> HIDE DEF V
      <3>1. task.headers \in Seq(Lines)
        BY <2>2, Zenon
      <3> QED BY <3>1, LenProperties, ElementOfSeq
    <2>6. \A i \in 1..Len(task.headers) : task.headers[i] \in Seq(V) \ {<<>>} /\ Http!IsLine(task.headers[i])
      <3> TAKE i \in 1..Len(task.headers)
      <3>1. task.headers[i] \in Lines
        BY <2>5, Zenon
      <3>2. task.headers[i] \in Seq(V) /\ task.headers[i] # <<>> /\ Http!IsLine(task.headers[i])
        BY <2>4, <3>1, Zenon
      <3> QED BY <3>2
    <2>7. task.code \in Seq(Http!Digits) /\ task.code # <<>> /\ task.reason[1] \in HeadChars
      BY <2>2
    <2>8. task.reason \in Seq(V) /\ task.reason # <<>> /\ Http!IsLine(task.reason)
      BY <2>2, <2>4, Zenon
    <2>9. task.body \in Seq(V)
      BY <2>2, Zenon DEF HeadText
    <2>10. Len(task.headers) \in Nat
      BY <2>5, Zenon
    <2> QED BY <2>3, <2>6, <2>7, <2>8, <2>9, <2>10, HeadIsRead, Zenon
  <1> QED BY <1>1, AlwaysGiven, PTL

\* The texts of a map, and of several, W among them.
TextsIn(map) == DOMAIN map \cup {map[j] : j \in DOMAIN map}
TextsOfAll(W, maps) == W \cup UNION {TextsIn(m) : m \in maps}

LEMMA TextsOfMaps ==
  ASSUME NEW W, NEW maps, NEW map \in maps, NEW k \in DOMAIN map
  PROVE  k \in TextsOfAll(W, maps) /\ map[k] \in TextsOfAll(W, maps)
  <1>1. k \in TextsIn(map) /\ map[k] \in TextsIn(map)
    BY Zenon DEF TextsIn
  <1> QED BY <1>1, Zenon DEF TextsOfAll

\* For every request: the server reads what the caller gave.
THEOREM RequestAlwaysReads == AlgorithmsSpec => []RequestReads
  <1>1. ASSUME Given PROVE RequestReads
    <2> DEFINE endpoint == [query |-> task.query, headers |-> task.headers]
               V == RequestTexts(task)
    <2> SUFFICES ASSUME task.about = "request"
                 PROVE  Http!RequestReads(endpoint, task.takes, "GET", "/p", task.q, task.h, task.body)
      BY Zenon DEF RequestReads
    <2>1. task # None
      BY DEF None
    <2>2. PICK i \in DOMAIN Inputs : task \in Inputs[i]
      BY <1>1, <2>1, Zenon DEF Given
    <2>3. /\ task.takes \in Http!Overloads /\ V \cap Http!Separators = {}
          /\ \A map \in {task.query, task.headers, task.q, task.h} : IsFiniteSet(DOMAIN map)
          /\ task.body \in Seq(STRING)
      BY <2>2, InputsAssumption, Zenon
    <2>4. /\ endpoint.query = task.query /\ endpoint.headers = task.headers
      BY Zenon
    <2>5. /\ "GET" \in V /\ "/p" \in V /\ "Content-Length" \in V
          /\ Http!ToString(0) \in V /\ Http!ToString(Len(task.body)) \in V
      BY Zenon DEF RequestTexts
    <2>6. ASSUME NEW map \in {task.query, task.headers, task.q, task.h} PROVE Worded(map, V)
      <3> DEFINE W == {"GET", "/p", "Content-Length", Http!ToString(0),
                       Http!ToString(Len(task.body))}
                 maps == {task.query, task.headers, task.q, task.h}
      <3>1. V = TextsOfAll(W, maps)
        BY Zenon DEF RequestTexts, TextsOfAll, TextsIn
      <3>2. map \in maps
        BY <2>6
      <3> HIDE DEF V, W, maps
      <3>3. \A k \in DOMAIN map : k \in TextsOfAll(W, maps) /\ map[k] \in TextsOfAll(W, maps)
        BY <3>2, TextsOfMaps, Zenon
      <3> QED BY <3>1, <3>3, Zenon DEF Worded
    <2> HIDE DEF V, endpoint
    <2>7. /\ Worded(endpoint.query, V) /\ Worded(task.q, V)
          /\ Worded(endpoint.headers, V) /\ Worded(task.h, V)
      BY <2>4, <2>6, Zenon
    <2>8. /\ IsFiniteSet(DOMAIN endpoint.query) /\ IsFiniteSet(DOMAIN task.q)
          /\ IsFiniteSet(DOMAIN endpoint.headers) /\ IsFiniteSet(DOMAIN task.h)
      BY <2>3, <2>4, Zenon
    <2> QED BY <2>3, <2>5, <2>7, <2>8, RequestIsRead, Zenon
  <1> QED BY <1>1, AlwaysGiven, PTL

\* For every URI of the grammar: the parts are read as they were written.
THEOREM PartsAlwaysRead == AlgorithmsSpec => []PartsRead
  <1>1. ASSUME Given PROVE PartsRead
    <2> SUFFICES ASSUME task.about = "uri" PROVE PartsFound(task)
      BY DEF PartsRead
    <2>1. task # None
      BY DEF None
    <2>2. WellFormed(task) /\ PartsOf(task) \subseteq Seq(STRING)
      BY <1>1, <2>1, InputsAssumption, Zenon DEF Given
    <2> QED BY <2>2, UriIsRead, Zenon
  <1> QED BY <1>1, AlwaysGiven, PTL

\* What picojson writes, picojson and, if it is UTF-8, the Parser read back.
THEOREM SerializedAlwaysReads == AlgorithmsSpec => []SerializedReadsBack
  <1>1. ASSUME Given PROVE SerializedReadsBack
    <2> SUFFICES ASSUME task.about = "octets" PROVE WrittenReadsBack(task.octets)
      BY DEF SerializedReadsBack
    <2>1. task # None
      BY DEF None
    <2>2. task.octets \in Seq(Octets)
      BY <1>1, <2>1, InputsAssumption, Zenon DEF Given
    <2> QED BY <2>2, SerializedIsRead, Zenon
  <1> QED BY <1>1, AlwaysGiven, PTL

\* What the Parser writes, both readers read as the same bytes, exactly if they are UTF-8;
\* told to allow others, it writes those too, and neither reads them back.
THEOREM EscapedAlwaysReads == AlgorithmsSpec => []EscapeReadsBack
  <1>1. ASSUME Given PROVE EscapeReadsBack
    <2> SUFFICES ASSUME task.about = "octets" PROVE EscapedReadsBack(task.octets)
      BY DEF EscapeReadsBack
    <2>1. task # None
      BY DEF None
    <2>2. task.octets \in Seq(Octets)
      BY <1>1, <2>1, InputsAssumption, Zenon DEF Given
    <2> QED BY <2>2, EscapedIsRead, Zenon
  <1> QED BY <1>1, AlwaysGiven, PTL
=============================================================================
