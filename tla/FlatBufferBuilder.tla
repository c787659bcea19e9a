--------------------------- MODULE FlatBufferBuilder ---------------------------
(***************************************************************************)
(* FlatBufferBuilder and the vector_downward it writes to                  *)
(* (src/flatbuffers/include/flatbuffers/flatbuffers.h), and the Create     *)
(* functions of the generated tables: a buffer is written from its end to  *)
(* its start, objects before the ones that refer to them, each known by    *)
(* its distance from the end.                                              *)
(*                                                                         *)
(* One builder is used again and again: its client makes strings, shared   *)
(* strings, vectors and tables in any order, finishes the buffer, clears   *)
(* the builder and starts over, in the memory the builder has by then.     *)
(***************************************************************************)
EXTENDS Integers, SequencesExt

CONSTANTS
  InitialSize, \* initial_size of the builder
  Texts,       \* the strings, sequences of bytes
  Types,       \* the types of the tables that are made
  Numbers,     \* the values of scalar fields
  MaxObjects,  \* bound: objects, in all the buffers
  MaxBuffers   \* bound: buffers

Fb == INSTANCE FlatBuffer WITH MaxBufferSize <- 1073741823, MaxDepth <- 64, MaxTables <- 1000000

VARIABLES
  fbb,         \* the builder
  made,        \* what the client made, in order: type, distance from the end, value, and
               \* whether it was asked for as a shared string
  left         \* how many objects and buffers may still be made

vars == <<fbb, made, left>>

\* mem is the memory from buf_ to the end, of reserved_ bytes, cur_ how many of them
\* are free.
NewBuilder ==
  [mem |-> <<>>, cur |-> 0, vtables |-> <<>>, string_pool |-> <<>>, minalign |-> 1,
   offsetbuf |-> <<>>, max_voffset |-> 0, nested |-> FALSE, finished |-> FALSE]

\* A byte of memory nothing was written to.
Stale == 170

GetSize(b) == Len(b.mem) - b.cur
data(b) == SubSeq(b.mem, b.cur + 1, Len(b.mem))
\* The index in mem of the byte at a distance from the end.
data_at(b, off) == Len(b.mem) - off + 1

-----------------------------------------------------------------------------
\* PaddingBytes(): how many bytes to the next multiple of size.
PaddingBytes(n, size) == (size - (n % size)) % size

\* vector_downward::growth_policy(), and the new reserved_.
growth_policy(bytes) == IF bytes = 0 THEN InitialSize ELSE ((bytes \div 2) \div 8) * 8
RoundUp(n, size) == n + PaddingBytes(n, size)
Grown(reserved, len) == RoundUp(reserved + Max({len, growth_policy(reserved)}), 8)

\* reallocate(), Allocator::reallocate_downward(): the bytes in use move to the end.
MoreMemory(b, more) == [b EXCEPT !.mem = [i \in 1..more |-> Stale] \o @, !.cur = @ + more]
reallocate(b, len) == MoreMemory(b, Grown(Len(b.mem), len) - Len(b.mem))

\* make_space()
make_space(b, len) == [(IF len > b.cur THEN reallocate(b, len) ELSE b) EXCEPT !.cur = @ - len]

\* Bytes are written from an index of mem on.
Write(b, at, bytes) ==
  [b EXCEPT !.mem = [i \in DOMAIN @ |->
                       IF i \in at..(at + Len(bytes) - 1) THEN bytes[i - at + 1] ELSE @[i]]]

\* push(), PushBytes(), push_small(); fill(), fill_big(), Pad(); pop(), PopBytes()
WriteFirst(b, bytes) == Write(b, b.cur + 1, bytes)
push(b, bytes) == WriteFirst(make_space(b, Len(bytes)), bytes)
fill(b, n) == push(b, [i \in 1..n |-> 0])
pop(b, n) == [b EXCEPT !.cur = @ + n]

\* WriteScalar(): little-endian, two's complement.
Bytes(n, size) ==
  [i \in 1..size |-> IF i > 4 THEN (IF n < 0 THEN 255 ELSE 0)
                     ELSE IF i = 4 THEN (n \div 16777216) % 256
                     ELSE (n \div (IF i = 1 THEN 1 ELSE IF i = 2 THEN 256 ELSE 65536)) % 256]

\* A slip: the alignment the whole buffer needs is not remembered.
Align_forgets(b, size) == fill(b, PaddingBytes(GetSize(b), size))

\* Align(), PreAlign(), PushElement()
Align(b, size) ==
  fill([b EXCEPT !.minalign = Max({@, size})], PaddingBytes(GetSize(b), size))
PreAlign(b, len, alignment) == fill(b, PaddingBytes(GetSize(b) + len, alignment))
PushElement(b, n, size) == push(Align(b, size), Bytes(n, size))

\* ReferTo() and PushElement() of an offset: from where it is stored.
ReferTo(b, off) == GetSize(b) - off + 4
PushReference(b, off) == PushElement(b, ReferTo(b, off), 4)
PushOffset(b, off) == PushReference(Align(b, 4), off)

-----------------------------------------------------------------------------
\* A slip: the terminator is left out.
CreateString_unterminated(b, str) ==
  PushElement(push(PreAlign(b, Len(str), 4), str), Len(str), 4)

\* CreateString(): the terminator, the characters, the length.
CreateString(b, str) ==
  PushElement(push(fill(PreAlign(b, Len(str) + 1, 4), 1), str), Len(str), 4)

\* The string at a distance from the end.
StringAt(b, off) == Fb!Characters(data(b), GetSize(b) - off)

\* What strncmp() sees of a string.
UpToZero(str) ==
  LET zeros == {i \in 1..Len(str) : str[i] = 0}
  IN IF zeros = {} THEN str ELSE SubSeq(str, 1, Min(zeros) - 1)

\* The strings of the pool that compare equal to one.
Pooled(b, str) ==
  LET same(off) == UpToZero(StringAt(b, off)) = UpToZero(str)
  IN SelectSeq(b.string_pool, same)

\* CreateSharedString(), the builder and the offset: the string is written first,
\* and taken off again when the pool has one that compares equal.
Shared(s, size_before, found) ==
  IF found # <<>> THEN [fbb |-> pop(s, GetSize(s) - size_before), off |-> found[1]]
  ELSE [fbb |-> [s EXCEPT !.string_pool = Append(@, GetSize(s))], off |-> GetSize(s)]
CreateSharedString(b, str) == Shared(CreateString(b, str), GetSize(b), Pooled(b, str))

\* StartVector(), EndVector(), CreateVector() of offsets: the last one first.
CreateVector(b, offs) ==
  LET start == PreAlign(b, Len(offs) * 4, 4)
      elements == FoldRight(LAMBDA off, s : PushOffset(s, off), offs, start)
  IN PushElement(elements, Len(offs), 4)

\* StartTable()
StartTable(b) == [b EXCEPT !.nested = TRUE]

\* TrackField()
TrackField(b, vt) ==
  [b EXCEPT !.offsetbuf = Append(@, [off |-> GetSize(b), id |-> vt]),
            !.max_voffset = Max({@, vt})]

\* AddElement(): nothing for the default value.  AddOffset(): nothing for null.
AddElement(b, vt, n, default, size) ==
  IF n = default THEN b ELSE TrackField(PushElement(b, n, size), vt)
AddOffset(b, vt, off) == IF off = 0 THEN b ELSE TrackField(PushOffset(b, off), vt)

ClearOffsets(b) == [b EXCEPT !.offsetbuf = <<>>, !.max_voffset = 0]

\* The vtable of the table being built, whose offset to it is at loc.
VTable(b, start, loc) ==
  LET size == Max({b.max_voffset + 2, 4})
      entry(i) == LET vt == 2 * (i - 1)
                      fields == SelectSeq(b.offsetbuf, LAMBDA fl : fl.id = vt)
                  IN CASE i = 1 -> size [] i = 2 -> loc - start
                       [] OTHER -> IF fields = <<>> THEN 0 ELSE loc - fields[1].off
  IN FlattenSeq([i \in 1..(size \div 2) |-> Bytes(entry(i), 2)])

\* A slip: vtables of the same length are taken for the same.
SameVTables_by_size(b, vtable) ==
  SelectSeq(b.vtables, LAMBDA off : Fb!U16(b.mem, data_at(b, off) - 1) = Len(vtable))

\* The vtables there are already with the same bytes.
SameVTables(b, vtable) ==
  LET same(at) == /\ Fb!U16(b.mem, at - 1) = Len(vtable)
                  /\ SubSeq(b.mem, at, at + Len(vtable) - 1) = vtable
  IN SelectSeq(b.vtables, LAMBDA off : same(data_at(b, off)))

\* EndTable(): the offset to the vtable at loc, then the vtable; if there is one with
\* the same bytes already, that is used and the new one is taken off again.
LinkTable(b, loc, vt_use) ==
  [fbb |-> [Write(b, data_at(b, loc), Bytes(vt_use - loc, 4)) EXCEPT !.nested = FALSE], off |-> loc]
UseVTable(b, loc, same) ==
  IF same = <<>> THEN LinkTable([b EXCEPT !.vtables = Append(@, GetSize(b))], loc, GetSize(b))
  ELSE LinkTable(pop(b, GetSize(b) - loc), loc, same[1])
AddVTable(b, vtable) == UseVTable(ClearOffsets(push(b, vtable)), GetSize(b), SameVTables(b, vtable))
CloseTable(b, start) == AddVTable(b, VTable(b, start, GetSize(b)))
EndTable(b, start) == CloseTable(PushElement(b, 0, 4), start)

\* The order a generated Create function adds fields in: the largest first, of those
\* of one size the last first.
CreateOrder(type) ==
  LET fields == Fb!Tables[type]
  IN FlattenSeq([k \in 1..4 |->
       LET size == <<8, 4, 2, 1>>[k]
       IN Reverse(SelectSeq(fields, LAMBDA f : Fb!SizeOf(f.type) = size))])

\* A generated Create function, the builder and the offset; given is the value or the
\* offset of each field, in the order of the schema.
CreateTable(b, type, given) ==
  LET start == StartTable(b)
      add(s, f) == LET value == given[f.vt \div 2 - 1]
                   IN IF Fb!IsScalar(f) THEN AddElement(s, f.vt, value, f.default, Fb!SizeOf(f.type))
                      ELSE AddOffset(s, f.vt, value)
  IN EndTable(FoldLeft(add, start, CreateOrder(type)), GetSize(b))

\* Finish()
Finish(b, root) == [PushOffset(PreAlign(b, 4, b.minalign), root) EXCEPT !.finished = TRUE]

\* Clear(): the memory is kept; all of it is free.
Clear(b) ==
  [NewBuilder EXCEPT !.mem = [i \in DOMAIN b.mem |-> Stale], !.cur = Len(b.mem)]

-----------------------------------------------------------------------------
Init ==
  /\ fbb = NewBuilder /\ made = <<>>
  /\ left = [objects |-> MaxObjects, buffers |-> MaxBuffers - 1]

Room == ~fbb.finished /\ left.objects > 0
MadeAs(type, s, value, shared) ==
  /\ fbb' = s.fbb
  /\ made' = Append(made, [type |-> type, off |-> s.off, value |-> value, shared |-> shared])
  /\ left' = [left EXCEPT !.objects = @ - 1]
Made(type, s, value) == MadeAs(type, s, value, FALSE)
Newest(b) == [fbb |-> b, off |-> GetSize(b)]

MakeString ==
  /\ Room
  /\ \E str \in Texts : Made("string", Newest(CreateString(fbb, str)), str)

MakeSharedString ==
  /\ Room
  /\ \E str \in Texts : MadeAs("string", CreateSharedString(fbb, str), str, TRUE)

\* What was made of a type ("[x]" is the type of vectors of x), as its distance.
Of(type) == {made[i].off : i \in {j \in DOMAIN made : made[j].type = type}}
VectorsOf == [KeyValue |-> "[KeyValue]", EnumVal |-> "[EnumVal]", string |-> "[string]"]

\* A vector of any two things of one type, or an empty one.
MakeVector ==
  /\ Room
  /\ \E of \in DOMAIN VectorsOf : \E offs \in {<<>>} \cup (Of(of) \X Of(of)) :
       Made(VectorsOf[of], Newest(CreateVector(fbb, offs)), offs)

\* What a field may be given: a number, or the distance of an object.
Available(f) ==
  IF Fb!IsScalar(f) THEN Numbers
  ELSE IF f.type # "vector" THEN Of(f.of)
  ELSE IF f.of \in DOMAIN VectorsOf THEN Of(VectorsOf[f.of]) ELSE {}

\* A Create function is called for a table with some fields left out: none, one or all
\* of those that may be; the others are given the least or the largest of their choices.
MakeTable(type) ==
  LET fields == Fb!Tables[type]
      optional == {f \in Range(fields) : ~f.required}
      left_out == {{}, optional} \cup {{f} : f \in optional}
      none(f) == IF Fb!IsScalar(f) THEN f.default ELSE 0
      given(f, out, last) ==
        IF f \in out \/ Available(f) = {} THEN none(f)
        ELSE IF last THEN Max(Available(f)) ELSE Min(Available(f))
  IN /\ Room /\ \A f \in Range(fields) \ optional : Available(f) # {}
     /\ \E out \in left_out, last \in BOOLEAN :
          \E values \in {[i \in DOMAIN fields |-> given(fields[i], out, last)]} :
            Made(type, CreateTable(fbb, type, values), values)

MakeFinish ==
  /\ ~fbb.finished
  /\ \E i \in DOMAIN made : made[i].type \in Types /\ fbb' = Finish(fbb, made[i].off)
  /\ UNCHANGED <<made, left>>

MakeClear ==
  /\ left.buffers > 0
  /\ fbb' = Clear(fbb) /\ made' = <<>> /\ left' = [left EXCEPT !.buffers = @ - 1]

Next ==
  \/ MakeString \/ MakeSharedString \/ MakeVector
  \/ (\E type \in Types : MakeTable(type)) \/ MakeFinish \/ MakeClear

Spec == Init /\ [][Next]_vars

-----------------------------------------------------------------------------
\* One level of what is at a distance from the end, as its accessors read it; the
\* objects it refers to as their distances.
ReadBack(type, off) ==
  LET b == data(fbb)
      at == Len(b) - off
  IN CASE type = "string" -> Fb!Characters(b, at)
       [] type \in Types ->
            [i \in DOMAIN Fb!Tables[type] |->
               LET f == Fb!Tables[type][i]
               IN IF Fb!IsScalar(f) THEN Fb!GetField(b, at, f)
                  ELSE IF Fb!HasField(b, at, f.vt) THEN Len(b) - Fb!GetPointer(b, at, f.vt) ELSE 0]
       [] OTHER -> [i \in 1..Fb!VectorSize(b, at) |-> Len(b) - Fb!Element(b, at, i)]

ReadsBack(m) == ReadBack(m.type, m.off) = m.value

\* Every object made so far reads as what was given for it, to the byte, whatever was
\* made since: vtables shared, strings shared and taken off again, the memory moved, the
\* builder cleared and used again.  A shared string is exempt when a zero byte is in it
\* or in the one it was taken for: then it is only the same up to that zero byte
\* (SharedStringsExact).
ObjectsReadBack ==
  \A i \in DOMAIN made :
    \/ ReadsBack(made[i])
    \/ LET read == ReadBack(made[i].type, made[i].off)
       IN made[i].shared /\ 0 \in Range(read \o made[i].value)
            /\ UpToZero(read) = UpToZero(made[i].value)

\* A shared string, which "can contain any binary data", is one "with this exact
\* contents" (flatbuffers.h:1031, 1032).  It is not: strings are compared with strncmp(),
\* which stops at a zero byte (flatbuffers.h:1534).
SharedStringsExact == \A i \in DOMAIN made : made[i].shared => ReadsBack(made[i])

\* A finished buffer is accepted by the Verifier for the type of its root.
FinishedVerifies ==
  fbb.finished =>
    \A i \in DOMAIN made :
      made[i].type \in Types /\ made[i].off = GetSize(fbb) - Fb!I32(data(fbb), 0)
        => Fb!VerifyBuffer(data(fbb), made[i].type)

\* In a finished buffer every number is at a multiple of its size, counted from the
\* start of the buffer.
Aligned ==
  fbb.finished =>
    \A i \in DOMAIN made : made[i].type \in Types =>
      LET at == GetSize(fbb) - made[i].off
      IN \A f \in Fb!FieldsOf(made[i].type) :
           Fb!HasField(data(fbb), at, f.vt)
             => Fb!FieldAt(data(fbb), at, f.vt) % Fb!SizeOf(f.type) = 0
=============================================================================
