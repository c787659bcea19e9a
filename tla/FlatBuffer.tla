------------------------------- MODULE FlatBuffer -------------------------------
(***************************************************************************)
(* Reading a buffer of FlatBuffers (src/flatbuffers/include/flatbuffers/   *)
(* flatbuffers.h): the accessors of tables, strings and vectors, and the   *)
(* Verifier that says whether they may be used, for the tables of          *)
(* oidc_generated.h and reflection_generated.h.                            *)
(*                                                                         *)
(* A buffer is a sequence of bytes, a position a number of bytes from its  *)
(* start.  An address is 32 bits wide, as on the device: adding an offset  *)
(* of 2^31 or more is going back, so offsets are read as signed numbers.   *)
(***************************************************************************)
EXTENDS Integers, SequencesExt

CONSTANTS
  MaxBufferSize, \* FLATBUFFERS_MAX_BUFFER_SIZE
  MaxDepth,      \* of a Verifier: nested tables
  MaxTables      \* of a Verifier: tables in all

ASSUME MaxDepthAssumption == MaxDepth \in Nat

SizeOf(type) ==
  CASE type \in {"int8", "uint8"} -> 1 [] type = "uint16" -> 2
    [] type \in {"int64", "double"} -> 8 [] OTHER -> 4

\* A field of a table: its name, its place in the vtable, its type, for a scalar the
\* default, for others the table (or "string") they refer to.
Field(name, vt, type, default, of, required) ==
  [name |-> name, vt |-> vt, type |-> type, default |-> default, of |-> of, required |-> required]
Number(name, vt, type, default) == Field(name, vt, type, default, "none", FALSE)
String(name, vt) == Field(name, vt, "string", 0, "string", FALSE)
TableOf(name, vt, of) == Field(name, vt, "table", 0, of, FALSE)
VectorOf(name, vt, of) == Field(name, vt, "vector", 0, of, FALSE)
Required(field) == [field EXCEPT !.required = TRUE]

Attributes(vt) == VectorOf("attributes", vt, "KeyValue")
Documentation(vt) == VectorOf("documentation", vt, "string")

\* The fields of each table, in the order of its schema: what its class reads and
\* verifies and its builder adds.  OIDC:
Token ==
  <<String("access_token", 4), String("token_type", 6), String("grant_type", 8),
    String("refresh_token", 10), Number("expires_in", 12, "int32", 0), String("id_token", 14)>>
Error == <<Number("code", 4, "int32", 0), String("message", 6), String("status", 8)>>

\* Reflection:
Type ==
  <<Number("base_type", 4, "int8", 0), Number("element", 6, "int8", 0), Number("index", 8, "int32", -1)>>
KeyValue == <<Required(String("key", 4)), String("value", 6)>>
EnumVal ==
  <<Required(String("name", 4)), Number("value", 6, "int64", 0), TableOf("object", 8, "Object"),
    TableOf("union_type", 10, "Type")>>
Enum ==
  <<Required(String("name", 4)), Required(VectorOf("values", 6, "EnumVal")),
    Number("is_union", 8, "uint8", 0), Required(TableOf("underlying_type", 10, "Type")),
    Attributes(12), Documentation(14)>>
FieldDef ==
  <<Required(String("name", 4)), Required(TableOf("type", 6, "Type")),
    Number("id", 8, "uint16", 0), Number("offset", 10, "uint16", 0),
    Number("default_integer", 12, "int64", 0), Number("default_real", 14, "double", 0),
    Number("deprecated", 16, "uint8", 0), Number("required", 18, "uint8", 0),
    Number("key", 20, "uint8", 0), Attributes(22), Documentation(24)>>
Object ==
  <<Required(String("name", 4)), Required(VectorOf("fields", 6, "Field")),
    Number("is_struct", 8, "uint8", 0), Number("minalign", 10, "int32", 0),
    Number("bytesize", 12, "int32", 0), Attributes(14), Documentation(16)>>
Schema ==
  <<Required(VectorOf("objects", 4, "Object")), Required(VectorOf("enums", 6, "Enum")),
    String("file_ident", 8), String("file_ext", 10), TableOf("root_table", 12, "Object")>>

Tables ==
  [Token |-> Token, Error |-> Error, Type |-> Type, KeyValue |-> KeyValue, EnumVal |-> EnumVal,
   Enum |-> Enum, Field |-> FieldDef, Object |-> Object, Schema |-> Schema]

FieldsOf(type) == {Tables[type][i] : i \in DOMAIN Tables[type]}

-----------------------------------------------------------------------------
\* ReadScalar() of a uint8_t, a voffset_t, a uoffset_t or a soffset_t, and of any
\* other type (whose numbers are small here).  What is not in the buffer is 0.
U8(b, p) == IF p + 1 \in DOMAIN b THEN b[p + 1] ELSE 0
U16(b, p) == U8(b, p) + 256 * U8(b, p + 1)
I32(b, p) == U16(b, p) + 65536 * U8(b, p + 2)
             + 16777216 * (IF U8(b, p + 3) < 128 THEN U8(b, p + 3) ELSE U8(b, p + 3) - 256)
ReadScalar(b, p, size) ==
  CASE size = 1 -> U8(b, p) [] size = 2 -> U16(b, p) [] OTHER -> I32(b, p)

\* Table::GetVTable(), and the size that is the first thing in it.
GetVTable(b, at) == at - I32(b, at)
VTableSize(b, at) == U16(b, GetVTable(b, at))

\* Table::GetOptionalFieldOffset(): 0 for a field the vtable is too short for.
GetOptionalFieldOffset(b, at, vt) ==
  IF vt < VTableSize(b, at) THEN U16(b, GetVTable(b, at) + vt) ELSE 0

\* IndirectHelper::Read(), Table::GetPointer(): what an offset refers to.
Indirect(b, p) == p + I32(b, p)
HasField(b, at, vt) == GetOptionalFieldOffset(b, at, vt) # 0
FieldAt(b, at, vt) == at + GetOptionalFieldOffset(b, at, vt)
GetPointer(b, at, vt) == Indirect(b, FieldAt(b, at, vt))

\* Table::GetField()
GetField(b, at, f) ==
  IF HasField(b, at, f.vt) THEN ReadScalar(b, FieldAt(b, at, f.vt), SizeOf(f.type)) ELSE f.default

\* Vector::size(), Vector::Get() of a vector of offsets, and the characters of a String.
VectorSize(b, p) == I32(b, p)
Element(b, p, i) == Indirect(b, p + 4 * i)
Characters(b, p) == SubSeq(b, p + 5, p + 4 + VectorSize(b, p))

-----------------------------------------------------------------------------
\* Verifier::Verify(elem, elem_len)
Verify(b, elem, elem_len) == elem_len <= Len(b) /\ elem >= 0 /\ elem <= Len(b) - elem_len

\* Verifier::VerifyOffset()
VerifyOffset(b, start) == Verify(b, start, 4) /\ I32(b, start) # 0

\* Verifier::VerifyVector(); a size of 2^31 or more is negative here.
VerifyVector(b, vec, elem_size) ==
  /\ Verify(b, vec, 4)
  /\ VectorSize(b, vec) \in 0..((MaxBufferSize \div elem_size) - 1)
  /\ Verify(b, vec, 4 + elem_size * VectorSize(b, vec))

\* Verifier::Verify(const String *): with its terminator.
VerifyString(b, str) ==
  /\ VerifyVector(b, str, 1)
  /\ Verify(b, str + 4 + VectorSize(b, str), 1)
  /\ U8(b, str + 4 + VectorSize(b, str)) = 0

\* A slip: the size of the vtable need not be even.
VerifyTableStart_odd(b, at) ==
  /\ Verify(b, at, 4)
  /\ Verify(b, GetVTable(b, at), 2)
  /\ Verify(b, GetVTable(b, at), VTableSize(b, at))

\* Table::VerifyTableStart(), without what VerifyComplexity() counts.
VerifyTableStart(b, at) ==
  /\ Verify(b, at, 4)
  /\ Verify(b, GetVTable(b, at), 2)
  /\ VTableSize(b, at) % 2 = 0
  /\ Verify(b, GetVTable(b, at), VTableSize(b, at))

\* What a field that is there refers to is verified: VerifyField(), or VerifyOffset()
\* and then Verify(), VerifyTable(), VerifyVectorOfTables(), VerifyVectorOfStrings().
\* tables[<<type, p>>] says whether the Verify() of a table holds.
VerifyReferred(b, at, f, tables) ==
  LET p == GetPointer(b, at, f.vt)
      elements == 1..VectorSize(b, p)
  IN /\ VerifyOffset(b, FieldAt(b, at, f.vt))
     /\ CASE f.type = "string" -> VerifyString(b, p)
          [] f.type = "table" -> tables[<<f.of, p>>]
          [] OTHER -> /\ VerifyVector(b, p, 4)
                      /\ \A i \in elements :
                           IF f.of = "string" THEN VerifyString(b, Element(b, p, i))
                           ELSE tables[<<f.of, Element(b, p, i)>>]

IsScalar(f) == f.type \notin {"string", "table", "vector"}

VerifyField(b, at, f, tables) ==
  IF ~HasField(b, at, f.vt) THEN ~f.required
  ELSE IF IsScalar(f) THEN Verify(b, FieldAt(b, at, f.vt), SizeOf(f.type))
  ELSE VerifyReferred(b, at, f, tables)

\* The Verify() of a generated table, one level of it.
VerifyTable(b, at, fields, tables) ==
  VerifyTableStart(b, at) /\ \A f \in fields : VerifyField(b, at, f, tables)

\* The tables a table refers to, each as its type and position.
SubTables(b, at, f) ==
  LET p == GetPointer(b, at, f.vt)
  IN IF f.of \notin DOMAIN Tables \/ ~HasField(b, at, f.vt) THEN <<>>
     ELSE IF f.type = "table" THEN <<<<f.of, p>>>>
     ELSE [i \in 1..VectorSize(b, p) |-> <<f.of, Element(b, p, i)>>]

\* VerifyComplexity(): the number of tables a Verifier passes through (of a buffer
\* without a table too deep; such a buffer has none too deep either).
TablesIn(b, type, at) ==
  LET count[x \in (DOMAIN Tables) \X Int] ==
        FoldLeft(LAMBDA n, f : FoldLeft(LAMBDA m, y : m + count[y], n, SubTables(b, x[2], f)),
                 1, Tables[x[1]])
  IN count[<<type, at>>]

\* VerifyComplexity(): does the Verify() of a table hold, which gives up on one that is
\* nested in max_depth_ others?
Verified(b) ==
  LET verified[d \in 0..MaxDepth] ==
        IF d = 0 THEN [x \in (DOMAIN Tables) \X Int |-> FALSE]
        ELSE [x \in (DOMAIN Tables) \X Int |->
                VerifyTable(b, x[2], FieldsOf(x[1]), verified[d - 1])]
  IN verified[MaxDepth]

\* Verifier::VerifyBuffer(): max_depth_ is a bound on nested tables, max_tables_ one
\* on all of them.
VerifyBuffer(b, type) ==
  /\ VerifyOffset(b, 0)
  /\ Verified(b)[<<type, I32(b, 0)>>]
  /\ TablesIn(b, type, I32(b, 0)) <= MaxTables

-----------------------------------------------------------------------------
\* The ranges the accessors of a table read, for one field.
StringReads(b, p) == {<<p, 4>>, <<p + 4, VectorSize(b, p) + 1>>}
FieldReads(b, at, f) ==
  LET vtable == GetVTable(b, at)
      p == GetPointer(b, at, f.vt)
      elements == 1..VectorSize(b, p)
  IN {<<at, 4>>, <<vtable, 2>>}
     \cup (IF f.vt < VTableSize(b, at) THEN {<<vtable + f.vt, 2>>} ELSE {})
     \cup (IF ~HasField(b, at, f.vt) THEN {}
           ELSE IF IsScalar(f) THEN {<<FieldAt(b, at, f.vt), SizeOf(f.type)>>}
           ELSE {<<FieldAt(b, at, f.vt), 4>>}
                \cup (CASE f.type = "string" -> StringReads(b, p)
                        [] f.type = "table" -> {}
                        [] OTHER -> {<<p, 4>>} \cup {<<p + 4 * i, 4>> : i \in elements}
                                    \cup (IF f.of # "string" THEN {}
                                          ELSE UNION {StringReads(b, Element(b, p, i)) : i \in elements})))

\* The tables a table refers to.
References(b, x) == UNION {Range(SubTables(b, x[2], f)) : f \in FieldsOf(x[1])}

\* A reader of all that a buffer says in tables nested to some depth: the ranges it
\* reads of a table and of those it refers to, and of the whole buffer.
OwnReads(b, x) == UNION {FieldReads(b, x[2], f) : f \in FieldsOf(x[1])}
TableReads(b, depth) ==
  LET reads[d \in 0..depth] ==
        IF d = 0 THEN [x \in (DOMAIN Tables) \X Int |-> {}]
        ELSE [x \in (DOMAIN Tables) \X Int |->
                OwnReads(b, x) \cup UNION {reads[d - 1][y] : y \in References(b, x)}]
  IN reads[depth]
Reads(b, type, depth) == {<<0, 4>>} \cup TableReads(b, depth)[<<type, I32(b, 0)>>]

InBounds(b, range) == range[1] >= 0 /\ range[1] + range[2] <= Len(b)

\* Whatever bytes a buffer consists of: once VerifyBuffer() has accepted it for a type,
\* no accessor of that type, and none it leads to, reads outside of it.  (A reader that
\* goes one table deeper than the Verifier finds nothing more.)
AcceptedInBounds(b, type) ==
  VerifyBuffer(b, type) => \A range \in Reads(b, type, MaxDepth + 1) : InBounds(b, range)

\* The object a table is, every field read by its accessor (UnPack()): scalars and
\* strings are values, a table or a vector what it holds; <<>> for what is not there.
ObjectIn(b, type, at) ==
  LET object[x \in (DOMAIN Tables) \X Int] ==
        [name \in {f.name : f \in FieldsOf(x[1])} |->
           LET f == CHOOSE g \in FieldsOf(x[1]) : g.name = name
               p == GetPointer(b, x[2], f.vt)
               value(of, q) == IF of = "string" THEN Characters(b, q) ELSE object[<<of, q>>]
           IN IF IsScalar(f) THEN GetField(b, x[2], f)
              ELSE IF ~HasField(b, x[2], f.vt) THEN <<>>
              ELSE IF f.type = "vector"
              THEN <<[i \in 1..VectorSize(b, p) |-> value(f.of, Element(b, p, i))]>>
              ELSE <<value(f.of, p)>>]
  IN object[<<type, at>>]
=============================================================================
