--------------------------- MODULE JsonVisitor_proofs ---------------------------
(***************************************************************************)
(* Proofs about JsonVisitor, for documents of any length and nesting, any  *)
(* number of them, any keys, schema and paths: a refused item is reported, *)
(* the errback is given nothing that was not at the error path, what is    *)
(* handed over is the item, and no item that was cut short is taken where  *)
(* its braces tell.                                                        *)
(***************************************************************************)
EXTENDS JsonVisitor, JsonStrings_proofs

-----------------------------------------------------------------------------
(***************************************************************************)
(* A refusal is in is_parse_error until the next parse_stream(), which     *)
(* clears both; and a call that is in progress has returned nothing.       *)
(***************************************************************************)
Members(s) == {"is_parse_error", "is_error_path", "current_path"} \subseteq DOMAIN s

RefusalKept ==
  /\ Members(v)
  /\ mode # "idle" => returned # "true"
  /\ "refused" \in seen => v.is_parse_error = TRUE /\ returned # "true"

\* What a step leaves alone that is not about paths or items.
Kept(s, t) ==
  /\ DOMAIN t = DOMAIN s
  /\ t.is_parse_error = s.is_parse_error
  /\ t.is_error_path = s.is_error_path /\ t.current_path = s.current_path

\* Writing keeps the other members.
LEMMA EmitKeeps ==
  ASSUME NEW s, NEW text
  PROVE  Kept(s, Emit(s, text))
  BY DEF Kept, Emit

LEMMA KeptTwice ==
  ASSUME NEW s, NEW t, NEW u, Kept(s, t), Kept(t, u)
  PROVE  Kept(s, u)
  BY DEF Kept

\* A scalar is read, a string is cut.
ScalarRead == \E x \in Scalars : Scalar(x)
StringCut == \E x \in Strings : CutString(x)

\* The callbacks for values, arrays and the start of an object.
LEMMA ValuesKeep ==
  ASSUME \/ ScalarRead \/ StringCut \/ parse_array_start \/ parse_array_item
         \/ parse_array_stop \/ parse_object_start
  PROVE  /\ Kept(v, v') /\ mode # "idle" /\ mode' # "idle"
         /\ UNCHANGED <<call, returned, seen, item>>
  <1>1. ASSUME NEW x, WriteScalar(x)
        PROVE  Kept(v, v') /\ mode # "idle" /\ UNCHANGED <<call, returned, seen, item>>
    BY <1>1, EmitKeeps DEF WriteScalar, Event
  <1>2. CASE ScalarRead \/ StringCut
    BY <1>1, <1>2 DEF ScalarRead, StringCut, Scalar, CutString
  <1>3. CASE parse_array_start
    <2>1. Kept(v, [v EXCEPT !.array_idx = 0])
      BY DEF Kept
    <2>2. Kept(v, v')
      BY <1>3, <2>1, EmitKeeps, KeptTwice DEF parse_array_start
    <2> QED BY <1>3, <2>2 DEF parse_array_start, Event
  <1>4. CASE parse_array_item
    <2> DEFINE t == Emit(v, IF v.array_idx > 0 THEN <<",">> ELSE <<>>)
    <2>1. Kept(v, t)
      BY EmitKeeps
    <2> HIDE DEF t
    <2>2. Kept(t, [t EXCEPT !.array_idx = @ + 1])
      BY DEF Kept
    <2>3. v' = [t EXCEPT !.array_idx = @ + 1]
      BY <1>4 DEF parse_array_item, t
    <2>4. Kept(v, v')
      BY <2>1, <2>2, <2>3, KeptTwice
    <2> QED BY <1>4, <2>4 DEF parse_array_item, Event
  <1>5. CASE parse_array_stop
    <2>1. Kept(v, [v EXCEPT !.array_idx = -1])
      BY DEF Kept
    <2>2. Kept(v, v')
      BY <1>5, <2>1, EmitKeeps, KeptTwice DEF parse_array_stop
    <2> QED BY <1>5, <2>2 DEF parse_array_stop, Event
  <1>6. CASE parse_object_start
    <2>1. Kept(v, [v EXCEPT !.object_depth = @ + 1])
      BY DEF Kept
    <2>2. v' = [v EXCEPT !.object_depth = @ + 1]
      BY <1>6 DEF parse_object_start
    <2> QED BY <1>6, <2>1, <2>2 DEF parse_object_start, Event
  <1> QED BY <1>1, <1>2, <1>3, <1>4, <1>5, <1>6

\* parse_object_item(): the path is one key longer, and says whether this is an error.
LEMMA KeyStep ==
  ASSUME NEW key \in Keys, parse_object_item(key), Members(v)
  PROVE  /\ Members(v') /\ v'.is_parse_error = v.is_parse_error
         /\ v'.current_path = Append(v.current_path, key)
         /\ v'.is_error_path = is_a_subpath(v'.current_path, error_path)
         /\ seen' = IF error_path # <<>> /\ key = Last(error_path)
                    THEN seen \cup {"error_key"} ELSE seen
         /\ mode # "idle" /\ mode' # "idle" /\ UNCHANGED <<call, returned, item>>
  <1> DEFINE path == Append(v.current_path, key)
             error == is_a_subpath(path, error_path)
             emit == error \/ is_a_subpath(path, root_path)
             t == [v EXCEPT !.table = TableAfter(@, key), !.current_path = path,
                            !.is_error_path = error, !.emit_json = emit,
                            !.needs_close_array = FALSE, !.needs_close_object = FALSE]
  <1>1. PICK text : v' = AtKey(path, error, emit, key, text)
    BY DEF parse_object_item
  <1> HIDE DEF path, error, emit
  <1>2. /\ Members(t) /\ t.is_parse_error = v.is_parse_error
        /\ t.current_path = path /\ t.is_error_path = error
    BY DEF Members
  <1>3. v' = Emit(t, KeyText(IsKeyed(v.table), text))
    BY <1>1 DEF AtKey
  <1> HIDE DEF t
  <1>4. Kept(t, v')
    BY <1>3, EmitKeeps
  <1>5. /\ seen' = IF error_path # <<>> /\ key = Last(error_path)
                   THEN seen \cup {"error_key"} ELSE seen
        /\ mode # "idle" /\ mode' # "idle" /\ UNCHANGED <<call, returned, item>>
    BY DEF parse_object_item, Event
  <1> QED BY <1>2, <1>4, <1>5 DEF Kept, Members, path, error

\* The path without its last key.
Shorter(s) == SubSeq(s.current_path, 1, Len(s.current_path) - 1)

LEMMA AfterValueKeeps ==
  ASSUME Members(v)
  PROVE  /\ Members(AfterValue) /\ AfterValue.is_parse_error = v.is_parse_error
         /\ AfterValue.is_error_path = v.is_error_path
         /\ AfterValue.current_path = Shorter(v)
  BY DEF AfterValue, Members, Shorter

LEMMA ClosedItemKeeps == Kept(AfterValue, ClosedItem)
  BY EmitKeeps DEF ClosedItem, Kept

\* parse_object_item() after its value, whether that was read or not.
LEMMA ItemStep ==
  ASSUME NEW whole \in BOOLEAN, ItemEnds(whole), Members(v)
  PROVE  /\ Members(v') /\ v'.current_path = Shorter(v)
         /\ v'.is_error_path = v.is_error_path
         /\ v'.is_parse_error \in {v.is_parse_error, TRUE}
         /\ item' = item \/ item'.error = v.is_error_path
         /\ seen' = seen \/ (seen' = seen \cup {"refused"} /\ v'.is_parse_error = TRUE)
         /\ UNCHANGED <<call, returned>>
  <1>1. UNCHANGED <<call, returned>>
    BY DEF ItemEnds
  <1>2. CASE v' = AfterValue /\ UNCHANGED <<item, seen, raw>>
    BY <1>1, <1>2, AfterValueKeeps
  <1>3. CASE ~(v' = AfterValue /\ UNCHANGED <<item, seen, raw>>)
    <2> DEFINE c == ClosedItem
    <2>1. PICK accepts, expected, keyed :
            /\ item' = ItemOf(c, accepts, expected, whole, keyed)
            /\ v' = [ItemResult(c, item'.ok) EXCEPT !.ss = <<>>, !.emit_json = FALSE]
            /\ seen' = IF item'.ok THEN seen ELSE seen \cup {"refused"}
      BY <1>3 DEF ItemEnds
    <2>2. /\ Members(c) /\ c.is_parse_error = v.is_parse_error
          /\ c.is_error_path = v.is_error_path /\ c.current_path = Shorter(v)
      BY AfterValueKeeps, ClosedItemKeeps DEF Kept, Members
    <2> HIDE DEF c
    <2>3. item'.error = v.is_error_path
      BY <2>1, <2>2 DEF ItemOf
    <2>4. CASE item'.ok
      <3>1. v' = [c EXCEPT !.ss = <<>>, !.emit_json = FALSE] /\ seen' = seen
        BY <2>1, <2>4 DEF ItemResult
      <3> QED BY <1>1, <2>2, <2>3, <3>1 DEF Members
    <2>5. CASE ~item'.ok
      <3>1. /\ v' = [[c EXCEPT !.is_parse_error = TRUE] EXCEPT !.ss = <<>>, !.emit_json = FALSE]
            /\ seen' = seen \cup {"refused"}
        BY <2>1, <2>5 DEF ItemResult
      <3> QED BY <1>1, <2>2, <2>3, <3>1 DEF Members
    <2> QED BY <2>4, <2>5
  <1> QED BY <1>2, <1>3

LEMMA ClosedObjectKeeps == Kept(v, ClosedObject)
  <1> DEFINE s == [v EXCEPT !.object_depth = @ - 1]
             a == Emit(s, <<"]">>)
             o == Emit(s, IF root_path = <<>> THEN <<"}">> ELSE <<"}", "}">>)
  <1>1. Kept(v, s)
    BY DEF Kept
  <1>2. ClosedObject \in {s, [a EXCEPT !.needs_close_array = FALSE],
                         [o EXCEPT !.needs_close_object = FALSE], Emit(s, <<"}">>)}
    BY DEF ClosedObject
  <1> HIDE DEF s
  <1>3. Kept(s, s) /\ Kept(s, a) /\ Kept(s, o) /\ Kept(s, Emit(s, <<"}">>))
    BY EmitKeeps DEF Kept
  <1> HIDE DEF a, o
  <1>4. Kept(a, [a EXCEPT !.needs_close_array = FALSE]) /\ Kept(o, [o EXCEPT !.needs_close_object = FALSE])
    BY DEF Kept
  <1>5. Kept(s, ClosedObject)
    <2>1. CASE ClosedObject = s
      BY <1>3, <2>1
    <2>2. CASE ClosedObject = [a EXCEPT !.needs_close_array = FALSE]
      BY <1>3, <1>4, <2>2 DEF Kept
    <2>3. CASE ClosedObject = [o EXCEPT !.needs_close_object = FALSE]
      BY <1>3, <1>4, <2>3 DEF Kept
    <2>4. CASE ClosedObject = Emit(s, <<"}">>)
      BY <1>3, <2>4
    <2> QED BY <1>2, <2>1, <2>2, <2>3, <2>4
  <1> QED BY <1>1, <1>5, KeptTwice

\* parse_object_stop(): the document itself may be handed over.
LEMMA StopStep ==
  ASSUME parse_object_stop
  PROVE  /\ Kept(v, v') /\ mode # "idle" /\ mode' # "idle"
         /\ item' = item \/ item'.error = v.is_error_path
         /\ UNCHANGED <<call, returned, seen>>
  <1> DEFINE c == ClosedObject
  <1>1. Kept(v, c)
    BY ClosedObjectKeeps
  <1> DEFINE d == [c EXCEPT !.ss = <<>>]
  <1>2. \/ v' = c /\ item' = item
        \/ v' = d /\ \E accepts, expected : item' = ItemOf(c, accepts, expected, TRUE, FALSE)
    BY DEF parse_object_stop
  <1> HIDE DEF c
  <1>3. Kept(c, [c EXCEPT !.ss = <<>>])
    BY DEF Kept
  <1>4. Kept(v, v')
    <2>1. Kept(v, d)
      BY <1>1, <1>3, KeptTwice
    <2>2. v' = c \/ v' = d
      BY <1>2
    <2> QED BY <1>1, <2>1, <2>2
  <1>5. item' = item \/ item'.error = v.is_error_path
    BY <1>1, <1>2 DEF ItemOf, Kept
  <1> QED BY <1>4, <1>5 DEF parse_object_stop, Event

-----------------------------------------------------------------------------
(***************************************************************************)
(* A refused item is reported.                                             *)
(***************************************************************************)
LEMMA InitRefusalKept == VisitorInit => RefusalKept
  BY DEF VisitorInit, NewVisitor, Members, RefusalKept

\* The steps that begin and end a document or a part of it.
LEMMA BeginStep ==
  ASSUME parse_stream
  PROVE  /\ Members(v') /\ v'.current_path = <<>> /\ v'.is_error_path = FALSE
         /\ seen' = {} /\ item' = NoItem /\ call' = call
         /\ returned' = "none" /\ mode' # "idle"
  BY DEF parse_stream, clear, NewVisitor, Members

LEMMA ReturnStep ==
  ASSUME Return
  PROVE  /\ UNCHANGED <<v, call, item, seen>>
         /\ returned' = "true" => v.is_parse_error # TRUE
         /\ returned' \in {"true", "false"} /\ mode' = "idle"
  BY DEF Return, history

\* Which steps there are, by what they do to the visitor.
LEMMA StepsAre ==
  ASSUME VisitorNext
  PROVE  \/ parse_stream
         \/ ScalarRead \/ StringCut \/ parse_array_start \/ parse_array_item
            \/ parse_array_stop \/ parse_object_start
         \/ \E key \in Keys : parse_object_item(key)
         \/ \E whole \in BOOLEAN : ItemEnds(whole) /\ mode # "idle" /\ mode' # "idle"
         \/ parse_object_stop
         \/ UNCHANGED <<v, call, item, seen, returned>> /\ mode # "idle" /\ mode' # "idle"
         \/ Return
  <1>1. CASE EndItem
    BY <1>1 DEF EndItem
  <1>2. CASE SyntaxError
    BY <1>2 DEF SyntaxError, history
  <1>3. CASE Unwind
    BY <1>3 DEF Unwind, history
  <1> QED BY <1>1, <1>2, <1>3 DEF VisitorNext, ScalarRead, StringCut

LEMMA NextRefusalKept == RefusalKept /\ [VisitorNext]_visitor => RefusalKept'
  <1> SUFFICES ASSUME RefusalKept, [VisitorNext]_visitor PROVE RefusalKept'
    OBVIOUS
  <1>1. CASE UNCHANGED visitor
    BY <1>1 DEF RefusalKept, visitor
  <1>2. CASE parse_stream
    BY <1>2, BeginStep DEF RefusalKept
  <1>3. CASE \/ ScalarRead \/ StringCut \/ parse_array_start \/ parse_array_item
             \/ parse_array_stop \/ parse_object_start
    BY <1>3, ValuesKeep DEF RefusalKept, Kept, Members
  <1>4. ASSUME NEW key \in Keys, parse_object_item(key)
        PROVE  RefusalKept'
    BY <1>4, KeyStep DEF RefusalKept
  <1>5. ASSUME NEW whole \in BOOLEAN, ItemEnds(whole), mode # "idle", mode' # "idle"
        PROVE  RefusalKept'
    BY <1>5, ItemStep DEF RefusalKept
  <1>6. CASE parse_object_stop
    BY <1>6, StopStep DEF RefusalKept, Kept, Members
  <1>7. CASE UNCHANGED <<v, call, item, seen, returned>> /\ mode # "idle" /\ mode' # "idle"
    BY <1>7 DEF RefusalKept
  <1>8. CASE Return
    BY <1>8, ReturnStep DEF RefusalKept
  <1> QED BY <1>1, <1>2, <1>3, <1>4, <1>5, <1>6, <1>7, <1>8, StepsAre

LEMMA RefusalAlwaysKept == VisitorSpec => []RefusalKept
  BY InitRefusalKept, NextRefusalKept, PTL DEF VisitorSpec

\* parse_stream() does not return true when an item of a root path was refused, in any
\* document: process_item()'s result reaches is_parse_error, and nothing takes it back.
THEOREM RefusalAlwaysReported == VisitorSpec => []RefusalReported
  <1>1. RefusalKept => RefusalReported
    BY DEF RefusalKept, RefusalReported
  <1> QED BY <1>1, RefusalAlwaysKept, PTL

-----------------------------------------------------------------------------
(***************************************************************************)
(* The errback gets what is at the error path.  is_error_path is set anew  *)
(* by every key and not reset when the key's value ends, so the invariant  *)
(* speaks of both: where the visitor is, and where the last key was.       *)
(***************************************************************************)
ErrorPathRead ==
  /\ v.current_path \in Seq(Keys) /\ call \in Calls
  /\ error_path # <<>> /\ Last(error_path) # "*"
       /\ (is_a_subpath(v.current_path, error_path) \/ v.is_error_path)
       => "error_key" \in seen
  /\ ErrorsHaveErrorKey

\* A key makes a path lead to the error path only as its last key, or below it.
LEMMA KeyReachesError ==
  ASSUME NEW path \in Seq(Keys), NEW error \in Seq(Keys \cup {"*"}), error # <<>>,
         Last(error) # "*", NEW key \in Keys, is_a_subpath(Append(path, key), error)
  PROVE  is_a_subpath(path, error) \/ key = Last(error)
  <1>1. /\ Len(Append(path, key)) = Len(path) + 1
        /\ \A i \in 1..Len(path) : Append(path, key)[i] = path[i]
        /\ Append(path, key)[Len(path) + 1] = key
    BY AppendProperties
  <1>2. Len(path) \in Nat /\ Len(error) \in Nat \ {0}
    BY LenProperties, EmptySeq
  <1>3. Len(error) <= Len(path) + 1
    BY <1>1 DEF is_a_subpath
  <1>4. CASE Len(error) = Len(path) + 1
    <2>1. error[Len(error)] \in {"*", key}
      BY <1>1, <1>2, <1>4 DEF is_a_subpath
    <2> QED BY <2>1 DEF Last
  <1>5. CASE Len(error) <= Len(path)
    <2>1. ASSUME NEW i \in 1..Len(error)
          PROVE  error[i] \in {"*", path[i]}
      BY <1>1, <1>2, <1>5 DEF is_a_subpath
    <2> QED BY <1>5, <2>1 DEF is_a_subpath
  <1> QED BY <1>2, <1>3, <1>4, <1>5

\* A path that leads to the error path without its last key leads there with it.
LEMMA ShorterReachesError ==
  ASSUME NEW s, s.current_path \in Seq(Keys), NEW error \in Seq(Keys \cup {"*"})
  PROVE  /\ Shorter(s) \in Seq(Keys)
         /\ is_a_subpath(Shorter(s), error) => is_a_subpath(s.current_path, error)
  <1> DEFINE path == s.current_path
             n == Len(path)
  <1>1. n \in Nat /\ Len(error) \in Nat /\ \A i \in 1..(n - 1) : path[i] \in Keys
    BY LenProperties, ElementOfSeq
  <1> HIDE DEF n
  <1>2. /\ SubSeq(path, 1, n - 1) \in Seq(Keys)
        /\ Len(SubSeq(path, 1, n - 1)) = IF 1 <= n - 1 THEN n - 1 ELSE 0
        /\ \A i \in 1..(n - 1) : SubSeq(path, 1, n - 1)[i] = path[i]
    <2>1. n - 1 \in Int /\ 1 \in Int
      BY <1>1
    <2>2. /\ SubSeq(path, 1, n - 1) \in Seq(Keys)
          /\ Len(SubSeq(path, 1, n - 1)) = IF 1 <= n - 1 THEN (n - 1) - 1 + 1 ELSE 0
          /\ \A i \in 1..((n - 1) - 1 + 1) : SubSeq(path, 1, n - 1)[i] = path[1 + i - 1]
      BY <1>1, <2>1, SubSeqProperties
    <2> QED BY <1>1, <2>2
  <1>3. ASSUME is_a_subpath(SubSeq(path, 1, n - 1), error) PROVE is_a_subpath(path, error)
    <2>1. Len(error) <= n /\ (Len(error) = 0 \/ Len(error) <= n - 1)
      BY <1>1, <1>2, <1>3 DEF is_a_subpath
    <2>2. ASSUME NEW i \in 1..Len(error) PROVE error[i] \in {"*", path[i]}
      BY <1>1, <1>2, <1>3, <2>1 DEF is_a_subpath
    <2> QED BY <2>1, <2>2 DEF is_a_subpath, n
  <1> QED BY <1>2, <1>3 DEF Shorter, n

LEMMA InitErrorPathRead == VisitorInit => ErrorPathRead
  <1> SUFFICES ASSUME VisitorInit PROVE ErrorPathRead
    OBVIOUS
  <1>1. /\ v.current_path = <<>> /\ v.is_error_path = FALSE /\ call \in Calls
        /\ item.error = FALSE
    BY DEF VisitorInit, NewVisitor, NoItem
  <1>2. ASSUME error_path # <<>> PROVE ~is_a_subpath(<<>>, error_path)
    <2>1. Len(error_path) \in Nat \ {0}
      BY CallsAssumption, <1>1, <1>2, EmptySeq DEF error_path
    <2> QED BY <2>1, EmptySeq DEF is_a_subpath
  <1>3. <<>> \in Seq(Keys)
    BY EmptySeq
  <1> QED BY <1>1, <1>2, <1>3 DEF ErrorPathRead, ErrorsHaveErrorKey

LEMMA NextErrorPathRead == RefusalKept /\ ErrorPathRead /\ [VisitorNext]_visitor => ErrorPathRead'
  <1> SUFFICES ASSUME RefusalKept, ErrorPathRead, [VisitorNext]_visitor PROVE ErrorPathRead'
    OBVIOUS
  <1> USE DEF ErrorsHaveErrorKey
  <1>a. Members(v) /\ error_path \in Seq(Keys \cup {"*"})
    BY CallsAssumption DEF RefusalKept, ErrorPathRead, error_path
  <1>b. call' = call => error_path' = error_path
    BY DEF error_path
  <1>1. CASE UNCHANGED visitor
    BY <1>1, <1>b DEF ErrorPathRead, visitor, is_a_subpath
  <1>2. CASE parse_stream
    <2>1. ASSUME error_path # <<>> PROVE ~is_a_subpath(<<>>, error_path)
      <3>1. Len(error_path) \in Nat \ {0}
        BY <1>a, <2>1, EmptySeq
      <3> QED BY <3>1, EmptySeq DEF is_a_subpath
    <2>2. <<>> \in Seq(Keys) /\ NoItem.error = FALSE
      BY EmptySeq DEF NoItem
    <2> QED BY <1>2, <1>b, <2>1, <2>2, BeginStep DEF ErrorPathRead
  <1>3. CASE \/ ScalarRead \/ StringCut \/ parse_array_start \/ parse_array_item
             \/ parse_array_stop \/ parse_object_start
    BY <1>3, <1>b, ValuesKeep DEF ErrorPathRead, Kept
  <1>4. ASSUME NEW key \in Keys, parse_object_item(key)
        PROVE  ErrorPathRead'
    <2>1. v'.current_path \in Seq(Keys)
      BY <1>4, <1>a, KeyStep, AppendProperties DEF ErrorPathRead
    <2>2. ASSUME error_path # <<>>, Last(error_path) # "*", is_a_subpath(v'.current_path, error_path)
          PROVE  "error_key" \in seen'
      <3>1. is_a_subpath(v.current_path, error_path) \/ key = Last(error_path)
        BY <1>4, <1>a, <2>2, KeyStep, KeyReachesError DEF ErrorPathRead
      <3> QED BY <1>4, <1>a, <2>2, <3>1, KeyStep DEF ErrorPathRead
    <2> QED BY <1>4, <1>a, <1>b, <2>1, <2>2, KeyStep DEF ErrorPathRead
  <1>5. ASSUME NEW whole \in BOOLEAN, ItemEnds(whole), mode # "idle", mode' # "idle"
        PROVE  ErrorPathRead'
    BY <1>5, <1>a, <1>b, ItemStep, ShorterReachesError DEF ErrorPathRead
  <1>6. CASE parse_object_stop
    BY <1>6, <1>b, StopStep DEF ErrorPathRead, Kept
  <1>7. CASE UNCHANGED <<v, call, item, seen, returned>> /\ mode # "idle" /\ mode' # "idle"
    BY <1>7, <1>b DEF ErrorPathRead
  <1>8. CASE Return
    BY <1>8, <1>b, ReturnStep DEF ErrorPathRead
  <1> QED BY <1>1, <1>2, <1>3, <1>4, <1>5, <1>6, <1>7, <1>8, StepsAre

\* The errback is given no document in which the key of the error path was not read,
\* however the documents before it ended.
THEOREM ErrorsAlwaysHaveErrorKey == VisitorSpec => []ErrorsHaveErrorKey
  <1>1. ErrorPathRead => ErrorsHaveErrorKey
    BY DEF ErrorPathRead
  <1> QED BY <1>1, InitErrorPathRead, NextErrorPathRead, RefusalAlwaysKept, PTL DEF VisitorSpec

-----------------------------------------------------------------------------
(***************************************************************************)
(* What is handed over is the item, whole.  The invariant says what ss is  *)
(* at every place of an item, by the frames above it, and that a text is   *)
(* not at its end before its braces are.                                   *)
(***************************************************************************)
Tokens == Keys \cup Scalars \cup Punctuation \cup {"id", "val", "other"}
Containing == [of : {"array", "object"}, n : Nat]
Items ==
  [of : {"item"}, key : Keys, keyed : BOOLEAN, table : DOMAIN TypeTables,
   needs_close_array : BOOLEAN, needs_close_object : BOOLEAN, item : BOOLEAN]
Frames == Containing \cup Items
Visitors ==
  [is_parse_error : BOOLEAN, is_error_path : BOOLEAN, object_depth : Int, array_idx : Int,
   current_path : Seq(Keys), ss : Seq(Tokens), emit_json : BOOLEAN, needs_close_array : BOOLEAN,
   needs_close_object : BOOLEAN, table : DOMAIN TypeTables \cup {"none"}]

VisitorTyped ==
  /\ call \in Calls /\ v \in Visitors /\ frames \in Seq(Frames) /\ raw \in Seq(Tokens)
  /\ mode \in {"idle", "value", "after", "failing"} /\ plain \in BOOLEAN
  /\ mode # "idle" => v.table \in DOMAIN TypeTables
  /\ mode = "idle" => frames = <<>>

Open == mode \in {"value", "after"}

\* Does the path without its last n keys lead to the root path?
Reaches(path, root, n) ==
  Len(path) - n >= Len(root) /\ \A i \in 1..Len(root) : root[i] \in {"*", path[i]}

\* Output is on at a root or error path and below it, and off elsewhere.
EmitsThere ==
  mode # "idle" =>
    /\ v.emit_json => is_a_subpath(v.current_path, root_path) \/ is_a_subpath(v.current_path, error_path)
    /\ ~v.emit_json =>
         v.ss = <<>> /\ (root_path # <<>> => ~is_a_subpath(v.current_path, root_path))

\* The frames are those of containers in containers, the innermost first.
Objects(f) == {d \in 1..Len(f) : f[Len(f) + 1 - d].of = "object"}
Nested(f) ==
  \A i \in 1..Len(f) :
    /\ f[i].of = "item" => i < Len(f) /\ f[i + 1].of = "object" /\ f[i + 1].n > 0
    /\ f[i].of # "item" /\ i < Len(f) => f[i + 1].of \in {"item", "array"}
FramesNested ==
  Open => /\ Nested(frames) /\ v.object_depth = Cardinality(Objects(frames))
          /\ mode = "value" /\ frames # <<>> => Top.of # "object"

\* A document for root_path {}: before its value, after it, and in it.
DocumentFrames(f, idx) ==
  /\ f # <<>> /\ f[Len(f)].of = "object"
  /\ \A i \in 1..Len(f) :
       /\ f[i].of = "item" => ~f[i].needs_close_array /\ f[i].needs_close_object
       /\ f[i].of = "array" => f[i].n = idx /\ \A j \in 1..Len(f) : f[j].of = "array" => j = i
InDocument ==
  /\ DocumentFrames(frames, v.array_idx)
  /\ ~v.needs_close_array
  /\ v.needs_close_object <=> Top.of = "object" /\ Top.n > 0
  /\ raw = IF Top.of = "object" /\ Top.n = 0 THEN v.ss \o <<"{">> ELSE v.ss
  /\ v.emit_json <=> ~(Len(frames) = 1 /\ Top.n = 0)
BeforeDocument ==
  /\ mode = "value" /\ raw = <<>> /\ v.ss = <<>> /\ ~v.emit_json
  /\ ~v.needs_close_array /\ ~v.needs_close_object
WholeShape ==
  Open /\ root_path = <<>> /\ plain =>
    IF frames = <<>> THEN mode = "after" \/ BeforeDocument ELSE InDocument

\* The text before the value of an item.
Opening(f) ==
  IF f.keyed THEN <<"{", "id", ":", f.key, ",", "val", ":">> ELSE <<"{", f.key, ":">>

\* The reader of a text has refused it, or has m brackets to be closed.
Opened(text, m) ==
  LET r == ReaderAfter(text)
  IN r.want = "error" \/ (r.want # "comment" /\ Len(r.open) >= m)
Complete(text) == ReaderAfter(text).want \in {"end", "comment"}
Closable(f, m) == f.keyed => Opened(v.ss, m)

\* An item that a root path led to, at the k-th frame, below which n keys are read.
ItemAt(k, n) ==
  /\ k \in 1..Len(frames)
  /\ frames[k].of = "item" /\ frames[k].item = TRUE
  /\ ~Reaches(v.current_path, root_path, n + 1)

\* Before and after its value.
AtValue ==
  /\ ItemAt(1, 0) /\ ~v.needs_close_object
  /\ mode = "value" => raw = <<>> /\ v.ss = Opening(Top) /\ Closable(Top, 1)
  /\ mode = "after" => /\ raw # <<>> /\ (Last(raw) = "}" => Top.keyed)
                       /\ v.ss = Opening(Top) \o raw \o (IF Last(raw) = "}" THEN <<"}">> ELSE <<>>)
\* In an array that is its value.
InArray ==
  /\ ItemAt(2, 0) /\ ~v.needs_close_object
  /\ Top.of = "array" /\ Top.n = v.array_idx
  /\ v.ss = Opening(frames[2]) \o raw /\ Closable(frames[2], 2)
\* At the start of an object that is the value of a keyed one.
AtObject ==
  /\ ItemAt(2, 0) /\ ~v.needs_close_object /\ frames[2].keyed
  /\ Top.of = "object" /\ Top.n = 0
  /\ v.ss = Opening(frames[2]) /\ raw = <<"{">> /\ Closable(frames[2], 1)
\* Between the members of that object.
InObject ==
  /\ ItemAt(2, 0) /\ v.needs_close_object /\ frames[2].keyed
  /\ Top.of = "object" /\ Top.n > 0
  /\ v.ss = Opening(frames[2]) \o raw /\ Closable(frames[2], 2)
\* At the k-th frame there is a member of that object.
FieldAt(k) ==
  /\ ItemAt(k + 2, 1) /\ ~v.needs_close_object /\ frames[k + 2].keyed
  /\ frames[k].of = "item" /\ ~frames[k].item /\ ~frames[k].keyed
  /\ ~frames[k].needs_close_array /\ frames[k].needs_close_object
  /\ frames[k + 1].of = "object" /\ frames[k + 1].n > 0
  /\ v.ss = Opening(frames[k + 2]) \o raw /\ Closable(frames[k + 2], k + 1)
AtField == FieldAt(1)
InFieldArray == FieldAt(2) /\ Top.of = "array" /\ Top.n = v.array_idx

ItemPlace == AtValue \/ InArray \/ AtObject \/ InObject \/ AtField \/ InFieldArray
ItemShape ==
  Open /\ root_path # <<>> /\ plain /\ v.emit_json => ~v.needs_close_array /\ ItemPlace

\* When the calls return false, the text of a keyed item is not at its end.
CutAt(k, n) ==
  ItemAt(k, n) /\ (frames[k].keyed => ~Complete(v.ss))
CutField(k) ==
  /\ CutAt(k + 2, 1) /\ frames[k].of = "item" /\ ~frames[k].keyed
  /\ frames[k + 1].of = "object"
CutPlace ==
  \/ CutAt(1, 0)
  \/ CutAt(2, 0) /\ Top.of # "item"
  \/ CutField(1)
  \/ CutField(2) /\ Top.of # "item"
CutShape == mode = "failing" /\ root_path # <<>> /\ plain /\ v.emit_json => CutPlace

-----------------------------------------------------------------------------
\* Writing adds the text when output is on, and keeps the other members.
LEMMA EmitWrites ==
  ASSUME NEW s \in Visitors, NEW text \in Seq(Tokens)
  PROVE  /\ Emit(s, text) \in Visitors
         /\ Emit(s, text).ss = IF s.emit_json THEN s.ss \o text ELSE s.ss
         /\ Emit(s, text).emit_json = s.emit_json
         /\ Emit(s, text).is_parse_error = s.is_parse_error
         /\ Emit(s, text).is_error_path = s.is_error_path
         /\ Emit(s, text).object_depth = s.object_depth
         /\ Emit(s, text).array_idx = s.array_idx
         /\ Emit(s, text).current_path = s.current_path
         /\ Emit(s, text).needs_close_array = s.needs_close_array
         /\ Emit(s, text).needs_close_object = s.needs_close_object
         /\ Emit(s, text).table = s.table
  <1>1. s.ss \o text \in Seq(Tokens)
    BY ConcatProperties DEF Visitors
  <1> QED BY <1>1 DEF Emit, Visitors

\* A frame on top of the others.
LEMMA Pushed ==
  ASSUME NEW S, NEW f \in Seq(S), NEW x \in S
  PROVE  /\ <<x>> \o f \in Seq(S) /\ Len(<<x>> \o f) = Len(f) + 1 /\ <<x>> \o f # <<>>
         /\ (<<x>> \o f)[1] = x /\ \A i \in 1..Len(f) : (<<x>> \o f)[i + 1] = f[i]
  <1>1. <<x>> \in Seq(S) /\ Len(<<x>>) = 1 /\ <<x>>[1] = x
    OBVIOUS
  <1>2. /\ <<x>> \o f \in Seq(S) /\ Len(<<x>> \o f) = 1 + Len(f) /\ Len(f) \in Nat
        /\ \A i \in 1..(1 + Len(f)) : (<<x>> \o f)[i] = IF i <= 1 THEN <<x>>[i] ELSE f[i - 1]
    BY <1>1, ConcatProperties, LenProperties
  <1>3. ASSUME NEW i \in 1..Len(f) PROVE (<<x>> \o f)[i + 1] = f[i]
    <2>1. i + 1 \in 1..(1 + Len(f)) /\ ~(i + 1 <= 1) /\ (i + 1) - 1 = i
      BY <1>2
    <2> QED BY <1>2, <2>1
  <1>4. (<<x>> \o f)[1] = x /\ <<x>> \o f # <<>>
    BY <1>1, <1>2, EmptySeq
  <1> QED BY <1>2, <1>3, <1>4

\* The kinds of frames.
LEMMA FrameKinds ==
  ASSUME NEW x \in Frames
  PROVE  /\ x.of \in {"item", "array", "object"}
         /\ x.of # "item" => x \in Containing /\ x.n \in Nat
         /\ x.of = "item" => x \in Items
  BY DEF Frames, Items, Containing

\* The container on top has one more value.
LEMMA Bumped ==
  ASSUME NEW f \in Seq(Frames), f # <<>>, f[1].of # "item",
         NEW g, g = [f EXCEPT ![1].n = @ + 1]
  PROVE  /\ g \in Seq(Frames) /\ Len(g) = Len(f) /\ f[1].n \in Nat
         /\ g[1].of = f[1].of /\ g[1].n = f[1].n + 1
         /\ \A i \in 2..Len(f) : g[i] = f[i]
  <1>1. Len(f) \in Nat \ {0} /\ f[1] \in Frames
    BY EmptySeq, ElementOfSeq
  <1>2. f[1] \in Containing
    BY <1>1 DEF Frames, Containing, Items
  <1> DEFINE e == [f[1] EXCEPT !.n = @ + 1]
  <1>3. e \in Containing /\ e.of = f[1].of /\ e.n = f[1].n + 1 /\ f[1].n \in Nat
    BY <1>2 DEF Containing
  <1>4. g = [f EXCEPT ![1] = e]
    OBVIOUS
  <1> HIDE DEF e
  <1>5. /\ g \in Seq(Frames) /\ Len(g) = Len(f)
        /\ \A j \in 1..Len(f) : g[j] = IF j = 1 THEN e ELSE f[j]
    <2>1. e \in Frames /\ 1 \in 1..Len(f)
      BY <1>1, <1>3 DEF Frames
    <2> QED BY <1>4, <2>1, ExceptSeq
  <1> QED BY <1>1, <1>3, <1>5

\* The tokens of an event, and what it leaves alone.
LEMMA EventTakes ==
  ASSUME VisitorTyped, NEW tokens \in Seq(Tokens), Event(tokens)
  PROVE  /\ raw' \in Seq(Tokens) /\ UNCHANGED <<call, root_path>>
         /\ raw' = IF root_path = <<>> \/ v.emit_json THEN raw \o tokens ELSE <<>>
  <1>1. raw \o tokens \in Seq(Tokens) /\ <<>> \in Seq(Tokens)
    BY ConcatProperties, EmptySeq DEF VisitorTyped
  <1> QED BY <1>1 DEF Event, root_path

\* Members that only keys, items and the ends of objects change.
Stays(s, t) ==
  /\ t.emit_json = s.emit_json /\ t.current_path = s.current_path
  /\ t.needs_close_array = s.needs_close_array /\ t.needs_close_object = s.needs_close_object

\* Setting a counter keeps the other members.
LEMMA IndexSet ==
  ASSUME NEW s \in Visitors, NEW n \in Int, NEW t, t = [s EXCEPT !.array_idx = n]
  PROVE  /\ t \in Visitors /\ Stays(s, t) /\ t.ss = s.ss /\ t.table = s.table
         /\ t.is_error_path = s.is_error_path
         /\ t.array_idx = n /\ t.object_depth = s.object_depth
  <1>1. t \in Visitors
    BY DEF Visitors
  <1>2. t.array_idx = n /\ t.object_depth = s.object_depth
    BY DEF Visitors
  <1>3. Stays(s, t) /\ t.ss = s.ss /\ t.table = s.table /\ t.is_error_path = s.is_error_path
    BY DEF Visitors, Stays
  <1> QED BY <1>1, <1>2, <1>3

LEMMA DepthSet ==
  ASSUME NEW s \in Visitors, NEW n \in Int, NEW t, t = [s EXCEPT !.object_depth = n]
  PROVE  /\ t \in Visitors /\ Stays(s, t) /\ t.ss = s.ss /\ t.table = s.table
         /\ t.is_error_path = s.is_error_path
         /\ t.object_depth = n /\ t.array_idx = s.array_idx
  <1>1. t \in Visitors
    BY DEF Visitors
  <1>2. t.object_depth = n /\ t.array_idx = s.array_idx
    BY DEF Visitors
  <1>3. Stays(s, t) /\ t.ss = s.ss /\ t.table = s.table /\ t.is_error_path = s.is_error_path
    BY DEF Visitors, Stays
  <1> QED BY <1>1, <1>2, <1>3

\* What is written is tokens.
LEMMA MoreTokens == ASSUME NEW S, NEW T, S \subseteq T, NEW s \in Seq(S) PROVE s \in Seq(T)
  <1>1. Len(s) \in Nat /\ \A i \in 1..Len(s) : s[i] \in T
    BY ElementOfSeq, LenProperties
  <1>2. s = [i \in 1..Len(s) |-> s[i]]
    OBVIOUS
  <1> QED BY <1>1, <1>2

LEMMA WrittenTyped ==
  ASSUME NEW x \in Keys \cup Scalars, NEW text \in WrittenAs[x] PROVE text \in Seq(Tokens)
  <1> DEFINE S == Keys \cup Scalars \cup Punctuation \cup {"other"}
  <1>1. text \in Seq(S)
    BY WrittenAssumption, Zenon
  <1>2. S \subseteq Tokens
    BY DEF Tokens
  <1> HIDE DEF S
  <1> QED BY <1>1, <1>2, MoreTokens

LEMMA WriteStep ==
  ASSUME VisitorTyped, NEW x \in Scalars, WriteScalar(x)
  PROVE  /\ v' \in Visitors /\ v'.table = v.table /\ Stays(v, v')
         /\ UNCHANGED <<frames, item, root_path, call>> /\ raw' \in Seq(Tokens)
         /\ plain' \in BOOLEAN /\ (plain' => plain)
         /\ v'.object_depth = v.object_depth /\ v'.array_idx = v.array_idx
         /\ ~v.emit_json => v'.ss = v.ss
         /\ plain' => /\ v'.ss = IF v.emit_json THEN v.ss \o <<x>> ELSE v.ss
                      /\ raw' = IF root_path = <<>> \/ v.emit_json THEN raw \o <<x>> ELSE <<>>
         /\ mode = "value"
  <1>1. <<x>> \in Seq(Tokens)
    BY DEF Tokens
  <1>2. PICK text \in WrittenAs[x] : v' = Emit(v, text) /\ plain' = (plain /\ text = <<x>>)
    BY DEF WriteScalar
  <1>3. Event(<<x>>) /\ UNCHANGED <<frames, item>> /\ mode = "value"
    BY DEF WriteScalar
  <1>4. text \in Seq(Tokens)
    BY WrittenTyped
  <1>5. v \in Visitors /\ plain \in BOOLEAN
    BY DEF VisitorTyped
  <1>6. /\ v' \in Visitors /\ v'.table = v.table /\ Stays(v, v')
        /\ v'.object_depth = v.object_depth /\ v'.array_idx = v.array_idx
        /\ v'.ss = IF v.emit_json THEN v.ss \o text ELSE v.ss
    BY <1>2, <1>4, <1>5, EmitWrites DEF Stays
  <1>7. /\ raw' \in Seq(Tokens) /\ UNCHANGED <<call, root_path>>
        /\ raw' = IF root_path = <<>> \/ v.emit_json THEN raw \o <<x>> ELSE <<>>
    BY <1>1, <1>3, EventTakes
  <1> QED BY <1>2, <1>3, <1>5, <1>6, <1>7, Zenon

\* A scalar, or a string that is cut: while all is plain it is written as itself.
LEMMA ScalarStep ==
  ASSUME VisitorTyped, ScalarRead \/ StringCut
  PROVE  /\ VisitorTyped' /\ Stays(v, v') /\ UNCHANGED <<frames, item, root_path, call>>
         /\ v'.object_depth = v.object_depth /\ v'.array_idx = v.array_idx
         /\ (plain' => plain) /\ (~v.emit_json => v'.ss = v.ss)
         /\ plain' => \E x \in Scalars :
              /\ v'.ss = IF v.emit_json THEN v.ss \o <<x>> ELSE v.ss
              /\ raw' = IF root_path = <<>> \/ v.emit_json THEN raw \o <<x>> ELSE <<>>
         /\ mode = "value" /\ (ScalarRead => mode' = "after") /\ (StringCut => mode' = "failing")
  <1>1. PICK x \in Scalars : WriteScalar(x)
    BY WrittenAssumption DEF ScalarRead, StringCut, Scalar, CutString
  <1>2. /\ v' \in Visitors /\ v'.table = v.table /\ Stays(v, v')
        /\ UNCHANGED <<frames, item, root_path, call>> /\ raw' \in Seq(Tokens)
        /\ plain' \in BOOLEAN /\ (plain' => plain)
        /\ v'.object_depth = v.object_depth /\ v'.array_idx = v.array_idx
        /\ ~v.emit_json => v'.ss = v.ss
        /\ plain' => /\ v'.ss = IF v.emit_json THEN v.ss \o <<x>> ELSE v.ss
                     /\ raw' = IF root_path = <<>> \/ v.emit_json THEN raw \o <<x>> ELSE <<>>
        /\ mode = "value"
    BY <1>1, WriteStep
  <1>3. /\ mode' \in {"after", "failing"}
        /\ (ScalarRead => mode' = "after") /\ (StringCut => mode' = "failing")
    BY DEF ScalarRead, StringCut, Scalar, CutString
  <1>4. VisitorTyped'
    BY <1>2, <1>3 DEF VisitorTyped
  <1> QED BY <1>2, <1>3, <1>4

LEMMA ArrayStartStep ==
  ASSUME VisitorTyped, parse_array_start
  PROVE  /\ VisitorTyped' /\ Stays(v, v') /\ UNCHANGED <<item, root_path, call>>
         /\ v'.object_depth = v.object_depth /\ v'.array_idx = 0
         /\ v'.ss = IF v.emit_json THEN v.ss \o <<"[">> ELSE v.ss
         /\ raw' = IF root_path = <<>> \/ v.emit_json THEN raw \o <<"[">> ELSE <<>>
         /\ [of |-> "array", n |-> 0] \in Frames
         /\ frames' = <<[of |-> "array", n |-> 0]>> \o frames
         /\ plain' = (plain /\ frames # <<>> /\ \A i \in DOMAIN frames : frames[i].of # "array")
         /\ mode = "value" /\ mode' = "after"
  <1>1. <<"[">> \in Seq(Tokens)
    BY DEF Tokens, Punctuation
  <1> DEFINE s == [v EXCEPT !.array_idx = 0]
  <1>2. s \in Visitors /\ Stays(v, s) /\ s.object_depth = v.object_depth /\ s.array_idx = 0
        /\ s.ss = v.ss /\ s.table = v.table
    <2>1. v \in Visitors
      BY DEF VisitorTyped
    <2> QED BY <2>1, IndexSet
  <1>3. v' = Emit(s, <<"[">>) /\ Event(<<"[">>)
    BY DEF parse_array_start
  <1> HIDE DEF s
  <1>4. [of |-> "array", n |-> 0] \in Frames
    BY DEF Frames, Containing
  <1>5. frames' \in Seq(Frames)
    <2>1. frames' = <<[of |-> "array", n |-> 0]>> \o frames
      BY DEF parse_array_start
    <2> QED BY <1>4, <2>1, Pushed DEF VisitorTyped
  <1>6. plain' \in BOOLEAN
    BY DEF parse_array_start
  <1>7. /\ v' \in Visitors /\ v'.table = v.table /\ Stays(v, v')
        /\ v'.object_depth = v.object_depth /\ v'.array_idx = 0
        /\ v'.ss = IF v.emit_json THEN v.ss \o <<"[">> ELSE v.ss
    <2>1. /\ v' \in Visitors /\ v'.table = s.table /\ v'.object_depth = s.object_depth
          /\ v'.array_idx = s.array_idx
          /\ v'.ss = IF s.emit_json THEN s.ss \o <<"[">> ELSE s.ss
      BY <1>1, <1>2, <1>3, EmitWrites
    <2>2. Stays(s, v')
      BY <1>1, <1>2, <1>3, EmitWrites DEF Stays
    <2> QED BY <1>2, <2>1, <2>2 DEF Stays
  <1>8. VisitorTyped'
    BY <1>1, <1>3, <1>5, <1>6, <1>7, EventTakes DEF VisitorTyped, parse_array_start
  <1> QED BY <1>1, <1>3, <1>4, <1>7, <1>8, EventTakes DEF parse_array_start

LEMMA ArrayItemStep ==
  ASSUME VisitorTyped, parse_array_item
  PROVE  /\ VisitorTyped' /\ Stays(v, v') /\ UNCHANGED <<item, root_path, call, plain>>
         /\ v'.object_depth = v.object_depth /\ v'.array_idx = v.array_idx + 1
         /\ v'.ss = IF v.emit_json
                    THEN v.ss \o (IF v.array_idx > 0 THEN <<",">> ELSE <<>>) ELSE v.ss
         /\ raw' = IF root_path = <<>> \/ v.emit_json
                   THEN raw \o (IF Top.n > 0 THEN <<",">> ELSE <<>>) ELSE <<>>
         /\ frames # <<>> /\ Top.of = "array" /\ frames' = [frames EXCEPT ![1].n = @ + 1]
         /\ mode = "after" /\ mode' = "value"
  <1>1. <<",">> \in Seq(Tokens) /\ <<>> \in Seq(Tokens)
    BY EmptySeq DEF Tokens, Punctuation
  <1> DEFINE text == IF v.array_idx > 0 THEN <<",">> ELSE <<>>
             tokens == IF Top.n > 0 THEN <<",">> ELSE <<>>
             s == Emit(v, text)
  <1>2. text \in Seq(Tokens) /\ tokens \in Seq(Tokens)
    BY <1>1
  <1>3. v' = [s EXCEPT !.array_idx = @ + 1] /\ Event(tokens)
    BY DEF parse_array_item
  <1> HIDE DEF text, tokens
  <1>4. /\ s \in Visitors /\ Stays(v, s) /\ s.object_depth = v.object_depth
        /\ s.array_idx = v.array_idx /\ s.table = v.table
        /\ s.ss = IF v.emit_json THEN v.ss \o text ELSE v.ss
    BY <1>2, EmitWrites DEF VisitorTyped, Stays
  <1> HIDE DEF s
  <1>5. /\ v' \in Visitors /\ v'.table = v.table /\ Stays(v, v')
        /\ v'.object_depth = v.object_depth /\ v'.array_idx = v.array_idx + 1 /\ v'.ss = s.ss
    BY <1>3, <1>4 DEF Stays, Visitors
  <1>6. frames # <<>> /\ Top.of = "array" /\ frames' = [frames EXCEPT ![1].n = @ + 1]
    BY DEF parse_array_item, Innermost
  <1>7. frames' \in Seq(Frames)
    BY <1>6, Bumped DEF VisitorTyped, Top
  <1>8. /\ raw' \in Seq(Tokens) /\ UNCHANGED <<call, root_path>>
        /\ raw' = IF root_path = <<>> \/ v.emit_json THEN raw \o tokens ELSE <<>>
    BY <1>2, <1>3, EventTakes
  <1>9. mode = "after" /\ mode' = "value" /\ UNCHANGED <<item, plain>>
    BY DEF parse_array_item
  <1>10. VisitorTyped'
    BY <1>5, <1>7, <1>8, <1>9 DEF VisitorTyped
  <1> QED BY <1>4, <1>5, <1>6, <1>8, <1>9, <1>10 DEF text, tokens

LEMMA ArrayStopStep ==
  ASSUME VisitorTyped, parse_array_stop
  PROVE  /\ VisitorTyped' /\ Stays(v, v') /\ UNCHANGED <<item, root_path, call, plain>>
         /\ v'.object_depth = v.object_depth
         /\ v'.ss = IF v.emit_json THEN v.ss \o <<"]">> ELSE v.ss
         /\ raw' = IF root_path = <<>> \/ v.emit_json THEN raw \o <<"]">> ELSE <<>>
         /\ frames # <<>> /\ Top.of = "array" /\ frames' = Tail(frames)
         /\ mode = "after" /\ mode' = "after"
  <1>1. <<"]">> \in Seq(Tokens)
    BY DEF Tokens, Punctuation
  <1> DEFINE s == [v EXCEPT !.array_idx = -1]
  <1>2. s \in Visitors /\ Stays(v, s) /\ s.object_depth = v.object_depth /\ s.ss = v.ss
        /\ s.table = v.table
    <2>1. v \in Visitors
      BY DEF VisitorTyped
    <2> QED BY <2>1, IndexSet
  <1>3. v' = Emit(s, <<"]">>) /\ Event(<<"]">>)
    BY DEF parse_array_stop
  <1> HIDE DEF s
  <1>4. frames # <<>> /\ Top.of = "array" /\ frames' = Tail(frames)
        /\ mode = "after" /\ mode' = "after" /\ UNCHANGED <<item, plain>>
    BY DEF parse_array_stop, Innermost
  <1>5. frames' \in Seq(Frames)
    BY <1>4, HeadTailProperties DEF VisitorTyped
  <1>6. /\ v' \in Visitors /\ v'.table = v.table /\ Stays(v, v')
        /\ v'.object_depth = v.object_depth
        /\ v'.ss = IF v.emit_json THEN v.ss \o <<"]">> ELSE v.ss
    <2>1. /\ v' \in Visitors /\ v'.table = s.table /\ v'.object_depth = s.object_depth
          /\ v'.ss = IF s.emit_json THEN s.ss \o <<"]">> ELSE s.ss
      BY <1>1, <1>2, <1>3, EmitWrites
    <2>2. Stays(s, v')
      BY <1>1, <1>2, <1>3, EmitWrites DEF Stays
    <2> QED BY <1>2, <2>1, <2>2 DEF Stays
  <1>7. /\ raw' \in Seq(Tokens) /\ UNCHANGED <<call, root_path>>
        /\ raw' = IF root_path = <<>> \/ v.emit_json THEN raw \o <<"]">> ELSE <<>>
    BY <1>1, <1>3, EventTakes
  <1>8. VisitorTyped'
    BY <1>4, <1>5, <1>6, <1>7 DEF VisitorTyped
  <1> QED BY <1>4, <1>6, <1>7, <1>8

LEMMA ObjectStartStep ==
  ASSUME VisitorTyped, parse_object_start
  PROVE  /\ VisitorTyped' /\ Stays(v, v') /\ UNCHANGED <<item, root_path, call>>
         /\ v'.object_depth = v.object_depth + 1 /\ v'.array_idx = v.array_idx
         /\ v'.ss = v.ss
         /\ raw' = IF root_path = <<>> \/ v.emit_json THEN raw \o <<"{">> ELSE <<>>
         /\ [of |-> "object", n |-> 0] \in Frames
         /\ frames' = <<[of |-> "object", n |-> 0]>> \o frames
         /\ plain' = (plain /\ (root_path # <<>> /\ v.emit_json
                                  => Innermost("item") /\ Top.item /\ Top.keyed))
         /\ mode = "value" /\ mode' = "after"
  <1>1. <<"{">> \in Seq(Tokens)
    BY DEF Tokens, Punctuation
  <1>2. /\ v' = [v EXCEPT !.object_depth = @ + 1] /\ Event(<<"{">>)
        /\ frames' = <<[of |-> "object", n |-> 0]>> \o frames
        /\ plain' = (plain /\ (root_path # <<>> /\ v.emit_json
                                  => Innermost("item") /\ Top.item /\ Top.keyed))
        /\ mode = "value" /\ mode' = "after" /\ UNCHANGED item
    BY DEF parse_object_start
  <1>3. v' \in Visitors /\ Stays(v, v') /\ v'.object_depth = v.object_depth + 1
        /\ v'.array_idx = v.array_idx /\ v'.ss = v.ss /\ v'.table = v.table
    <2>1. v \in Visitors /\ v.object_depth + 1 \in Int
      BY DEF VisitorTyped, Visitors
    <2> DEFINE n == v.object_depth + 1
    <2>2. v' = [v EXCEPT !.object_depth = n] /\ n \in Int
      BY <1>2, <2>1
    <2> HIDE DEF n
    <2>3. /\ v' \in Visitors /\ Stays(v, v') /\ v'.ss = v.ss /\ v'.table = v.table
          /\ v'.object_depth = n /\ v'.array_idx = v.array_idx
      BY <2>1, <2>2, DepthSet
    <2> QED BY <2>3 DEF n
  <1>4. [of |-> "object", n |-> 0] \in Frames
    BY DEF Frames, Containing
  <1>5. frames' \in Seq(Frames)
    BY <1>2, <1>4, Pushed DEF VisitorTyped
  <1>6. /\ raw' \in Seq(Tokens) /\ UNCHANGED <<call, root_path>>
        /\ raw' = IF root_path = <<>> \/ v.emit_json THEN raw \o <<"{">> ELSE <<>>
    BY <1>1, <1>2, EventTakes
  <1>7. VisitorTyped'
    BY <1>2, <1>3, <1>5, <1>6 DEF VisitorTyped
  <1> QED BY <1>2, <1>3, <1>4, <1>6, <1>7

\* A key: where it leads, whether it is written, and the frame it makes.
KeyPath(key) == Append(v.current_path, key)
KeyEmits(key) == is_a_subpath(KeyPath(key), error_path) \/ is_a_subpath(KeyPath(key), root_path)
KeyFrame(key) ==
  [of |-> "item", key |-> key, keyed |-> IsKeyed(v.table), table |-> v.table,
   needs_close_array |-> v.needs_close_array \/ (KeyEmits(key) /\ IsKeyed(v.table) /\ v.emit_json),
   needs_close_object |-> v.needs_close_object \/ KeyEmits(key),
   item |-> KeyEmits(key) /\ ~v.emit_json]

\* Short texts.
LEMMA TextsTyped ==
  ASSUME NEW S, NEW a \in S, NEW b \in S, NEW c \in S, NEW d \in S, NEW e \in S, NEW f \in S
  PROVE  /\ <<a>> \in Seq(S) /\ <<a, b>> \in Seq(S) /\ <<>> \in Seq(S)
         /\ <<a, b, c, d, e, f, c>> \in Seq(S)
  BY EmptySeq

LEMMA ThreeTyped ==
  ASSUME NEW S, NEW a \in S, NEW b \in S, NEW c \in S PROVE <<a, b, c>> \in Seq(S)
  OBVIOUS

\* The pieces a key is written of.
LEMMA PiecesTyped ==
  ASSUME NEW key \in Keys
  PROVE  /\ <<"[">> \in Seq(Tokens) /\ <<",">> \in Seq(Tokens) /\ <<>> \in Seq(Tokens)
         /\ <<"{", "id", ":", key, ",", "val", ":">> \in Seq(Tokens)
         /\ <<"{">> \in Seq(Tokens) /\ <<key, ":">> \in Seq(Tokens)
  <1>1. /\ key \in Tokens /\ "{" \in Tokens /\ "[" \in Tokens /\ "," \in Tokens
        /\ ":" \in Tokens /\ "id" \in Tokens /\ "val" \in Tokens
    BY DEF Tokens, Punctuation
  <1>2. <<"[">> \in Seq(Tokens) /\ <<",">> \in Seq(Tokens) /\ <<"{">> \in Seq(Tokens)
    BY <1>1, TextsTyped, Zenon
  <1>3. <<key, ":">> \in Seq(Tokens) /\ <<>> \in Seq(Tokens)
    BY <1>1, TextsTyped, Zenon
  <1>4. <<"{", "id", ":", key, ",", "val", ":">> \in Seq(Tokens)
    BY <1>1, TextsTyped, Zenon
  <1> QED BY <1>2, <1>3, <1>4

\* The text before a value, when the key is written as itself.
PlainKeyText(keyed, key) ==
  IF keyed
  THEN (IF ~v.emit_json THEN <<>> ELSE IF ~v.needs_close_array THEN <<"[">> ELSE <<",">>)
       \o <<"{", "id", ":", key, ",", "val", ":">>
  ELSE (IF v.needs_close_object THEN <<",">> ELSE <<"{">>) \o <<key, ":">>

\* Two tokens, one after the other.
LEMMA TwoOf ==
  ASSUME NEW S, NEW a \in S, NEW b \in S PROVE <<a>> \o <<b>> = <<a, b>>
  <1> DEFINE s == <<a>>
             t == <<b>>
             u == <<a, b>>
  <1>1. /\ s \in Seq(S) /\ Len(s) = 1 /\ s[1] = a
        /\ t \in Seq(S) /\ Len(t) = 1 /\ t[1] = b
        /\ u \in Seq(S) /\ Len(u) = 2 /\ u[1] = a /\ u[2] = b
    OBVIOUS
  <1> HIDE DEF s, t, u
  <1>2. /\ s \o t \in Seq(S) /\ Len(s \o t) = Len(s) + Len(t)
        /\ \A i \in 1..(Len(s) + Len(t)) : (s \o t)[i] = IF i <= Len(s) THEN s[i] ELSE t[i - Len(s)]
    BY <1>1, ConcatProperties
  <1>3. ASSUME NEW i \in 1..2 PROVE (s \o t)[i] = u[i]
    <2>1. i = 1 \/ i = 2
      OBVIOUS
    <2> QED BY <1>1, <1>2, <2>1
  <1>4. s \o t = u
    BY <1>1, <1>2, <1>3, SeqEqual
  <1> QED BY <1>4 DEF s, t, u

LEMMA PlainKey ==
  ASSUME NEW keyed \in BOOLEAN, NEW key \in Keys
  PROVE  KeyText(keyed, <<key>>) = PlainKeyText(keyed, key)
  <1> DEFINE a == "id"
             b == ":"
             d == ","
             e == "val"
             f == "{"
  <1>1. /\ <<f, a, b>> \o <<key>> \o <<d, e, b>> = <<f, a, b, key, d, e, b>>
        /\ <<key>> \o <<b>> = <<key, b>>
    <2> HIDE DEF a, b, d, e, f
    <2> DEFINE x == <<f, a, b>>
               y == <<key>>
               z == <<d, e, b>>
               w == <<f, a, b, key, d, e, b>>
               T == {f, a, b, key, d, e}
    <2>1. /\ x \in Seq(T) /\ Len(x) = 3 /\ x[1] = f /\ x[2] = a /\ x[3] = b
          /\ y \in Seq(T) /\ Len(y) = 1 /\ y[1] = key
          /\ z \in Seq(T) /\ Len(z) = 3 /\ z[1] = d /\ z[2] = e /\ z[3] = b
      OBVIOUS
    <2>2. /\ w \in Seq(T) /\ Len(w) = 7 /\ w[1] = f /\ w[2] = a /\ w[3] = b /\ w[4] = key
          /\ w[5] = d /\ w[6] = e /\ w[7] = b
      OBVIOUS
    <2> HIDE DEF x, y, z, w, T
    <2>3. /\ x \o y \in Seq(T) /\ Len(x \o y) = Len(x) + Len(y)
          /\ \A i \in 1..(Len(x) + Len(y)) :
               (x \o y)[i] = IF i <= Len(x) THEN x[i] ELSE y[i - Len(x)]
      BY <2>1, ConcatProperties
    <2> DEFINE u == x \o y
    <2>4. u \in Seq(T) /\ Len(u) = 4 /\ u[1] = f /\ u[2] = a /\ u[3] = b /\ u[4] = key
      BY <2>1, <2>3
    <2> HIDE DEF u
    <2>5. /\ u \o z \in Seq(T) /\ Len(u \o z) = Len(u) + Len(z)
          /\ \A i \in 1..(Len(u) + Len(z)) :
               (u \o z)[i] = IF i <= Len(u) THEN u[i] ELSE z[i - Len(u)]
      BY <2>1, <2>4, ConcatProperties
    <2> DEFINE q == u \o z
    <2>6. /\ q \in Seq(T) /\ Len(q) = 7 /\ q[1] = f /\ q[2] = a /\ q[3] = b /\ q[4] = key
          /\ q[5] = d /\ q[6] = e /\ q[7] = b
      BY <2>1, <2>4, <2>5
    <2> HIDE DEF q
    <2>7. ASSUME NEW i \in 1..7 PROVE q[i] = w[i]
      <3>1. i = 1 \/ i = 2 \/ i = 3 \/ i = 4 \/ i = 5 \/ i = 6 \/ i = 7
        OBVIOUS
      <3> QED BY <2>2, <2>6, <3>1
    <2>8. q = w
      BY <2>2, <2>6, <2>7, SeqEqual
    <2>9. <<key>> \o <<b>> = <<key, b>>
      <3>1. key \in T /\ b \in T
        BY DEF T
      <3> QED BY <3>1, TwoOf
    <2> QED BY <2>8, <2>9, Zenon DEF q, u, x, y, z, w
  <1>2. CASE keyed
    BY <1>1, <1>2, Zenon DEF KeyText, PlainKeyText, a, b, d, e, f
  <1>3. CASE ~keyed
    BY <1>1, <1>3, Zenon DEF KeyText, PlainKeyText, a, b, d, e, f
  <1> QED BY <1>2, <1>3

LEMMA KeyTextTyped ==
  ASSUME NEW keyed \in BOOLEAN, NEW text \in Seq(Tokens)
  PROVE  KeyText(keyed, text) \in Seq(Tokens)
  <1> DEFINE a == <<"{", "id", ":">>
             b == <<",", "val", ":">>
             c == <<":">>
             p == IF ~v.emit_json THEN <<>> ELSE IF ~v.needs_close_array THEN <<"[">> ELSE <<",">>
             q == IF v.needs_close_object THEN <<",">> ELSE <<"{">>
  <1>1. /\ "{" \in Tokens /\ "id" \in Tokens /\ ":" \in Tokens /\ "," \in Tokens
        /\ "val" \in Tokens /\ "[" \in Tokens
    BY DEF Tokens, Punctuation
  <1>2. a \in Seq(Tokens) /\ b \in Seq(Tokens)
    BY <1>1, ThreeTyped, Zenon
  <1>3. /\ c \in Seq(Tokens) /\ <<>> \in Seq(Tokens) /\ <<",">> \in Seq(Tokens)
        /\ <<"[">> \in Seq(Tokens) /\ <<"{">> \in Seq(Tokens)
    <2>1. ASSUME NEW t \in Tokens PROVE <<t>> \in Seq(Tokens) /\ <<>> \in Seq(Tokens)
      BY TextsTyped, Zenon
    <2>2. c \in Seq(Tokens) /\ <<>> \in Seq(Tokens) /\ <<",">> \in Seq(Tokens)
      BY <1>1, <2>1, Zenon
    <2>3. <<"[">> \in Seq(Tokens) /\ <<"{">> \in Seq(Tokens)
      BY <1>1, <2>1, Zenon
    <2> QED BY <2>2, <2>3
  <1>4. p \in Seq(Tokens) /\ q \in Seq(Tokens)
    BY <1>3, Zenon
  <1>5. KeyText(keyed, text) = IF keyed THEN p \o (a \o text \o b) ELSE q \o (text \o c)
    BY Zenon DEF KeyText
  <1> HIDE DEF a, b, c, p, q
  <1>6. p \o (a \o text \o b) \in Seq(Tokens) /\ q \o (text \o c) \in Seq(Tokens)
    BY <1>2, <1>3, <1>4, ConcatProperties
  <1> QED BY <1>5, <1>6, Zenon

\* The table of a value is one of the schema.
LEMMA TableTyped ==
  ASSUME NEW t \in DOMAIN TypeTables, NEW key PROVE TableAfter(t, key) \in DOMAIN TypeTables
  BY TypeTablesAssumption DEF TableAfter

LEMMA KeyEffect ==
  ASSUME VisitorTyped, NEW key \in Keys, parse_object_item(key)
  PROVE  /\ VisitorTyped' /\ UNCHANGED <<item, root_path, call>>
         /\ mode = "after" /\ mode' = "value" /\ frames # <<>> /\ Top.of = "object"
         /\ v'.current_path = KeyPath(key) /\ v'.emit_json = KeyEmits(key)
         /\ v'.needs_close_array = FALSE /\ v'.needs_close_object = FALSE
         /\ v'.object_depth = v.object_depth /\ v'.array_idx = v.array_idx
         /\ ~KeyEmits(key) => v'.ss = v.ss
         /\ plain' /\ KeyEmits(key) => v'.ss = v.ss \o PlainKeyText(IsKeyed(v.table), key)
         /\ raw' = IF root_path = <<>> \/ v.emit_json
                   THEN raw \o ((IF Top.n > 0 THEN <<",">> ELSE <<>>) \o <<key, ":">>) ELSE <<>>
         /\ KeyFrame(key) \in Frames
         /\ frames' = <<KeyFrame(key)>> \o [frames EXCEPT ![1].n = @ + 1]
         /\ plain' => IF root_path # <<>> /\ KeyEmits(key) /\ ~v.emit_json
                      THEN IsKeyed(v.table) \/ ~v.needs_close_object
                      ELSE plain /\ ~IsKeyed(v.table)
  <1> DEFINE path == KeyPath(key)
             error == is_a_subpath(path, error_path)
             emit == KeyEmits(key)
             keyed == IsKeyed(v.table)
             s == [v EXCEPT !.table = TableAfter(@, key), !.current_path = path,
                            !.is_error_path = error, !.emit_json = emit,
                            !.needs_close_array = FALSE, !.needs_close_object = FALSE]
             tokens == (IF Top.n > 0 THEN <<",">> ELSE <<>>) \o <<key, ":">>
  <1>1. /\ mode = "after" /\ mode' = "value" /\ frames # <<>> /\ Top.of = "object"
        /\ Event(tokens) /\ UNCHANGED item
        /\ frames' = <<KeyFrame(key)>> \o [frames EXCEPT ![1].n = @ + 1]
    BY DEF parse_object_item, Innermost, KeyPath, KeyEmits, KeyFrame
  <1>w. PICK text \in WrittenAs[key] :
          /\ v' = AtKey(path, error, emit, key, text)
          /\ plain' = (text = <<key>> /\ IF root_path # <<>> /\ emit /\ ~v.emit_json
                                        THEN keyed \/ ~v.needs_close_object
                                        ELSE plain /\ ~keyed)
    BY DEF parse_object_item, KeyPath, KeyEmits
  <1>2. v \in Visitors /\ v.table \in DOMAIN TypeTables /\ plain \in BOOLEAN /\ keyed \in BOOLEAN
        /\ emit \in BOOLEAN /\ error \in BOOLEAN
    BY <1>1 DEF VisitorTyped, IsKeyed, KeyEmits, is_a_subpath
  <1>3. path \in Seq(Keys)
    BY <1>2, AppendProperties DEF KeyPath, Visitors
  <1>4. KeyFrame(key) \in Frames
    <2>1. v.needs_close_array \in BOOLEAN /\ v.needs_close_object \in BOOLEAN /\ v.emit_json \in BOOLEAN
      BY <1>2 DEF Visitors
    <2> QED BY <1>2, <2>1 DEF KeyFrame, Frames, Items
  <1>5. tokens \in Seq(Tokens)
    <2>1. <<",">> \in Seq(Tokens) /\ <<>> \in Seq(Tokens) /\ <<key, ":">> \in Seq(Tokens)
      BY PiecesTyped
    <2> DEFINE pre == IF Top.n > 0 THEN <<",">> ELSE <<>>
    <2>2. pre \in Seq(Tokens)
      BY <2>1
    <2> HIDE DEF pre
    <2>3. pre \o <<key, ":">> \in Seq(Tokens)
      BY <2>1, <2>2, ConcatProperties
    <2> QED BY <2>3 DEF pre
  <1>6. KeyText(keyed, text) \in Seq(Tokens)
    BY <1>2, WrittenTyped, KeyTextTyped
  <1>7. TableAfter(v.table, key) \in DOMAIN TypeTables
    BY <1>2, TableTyped
  <1>8. v' = Emit(s, KeyText(keyed, text))
    BY <1>w DEF AtKey
  <1> HIDE DEF path, error, emit, keyed, tokens
  <1>9. s \in Visitors
    BY <1>2, <1>3, <1>7 DEF Visitors
  <1>10. /\ s.current_path = path /\ s.emit_json = emit /\ s.needs_close_array = FALSE
         /\ s.needs_close_object = FALSE /\ s.table = TableAfter(v.table, key)
    BY <1>2 DEF Visitors
  <1>11. s.object_depth = v.object_depth /\ s.array_idx = v.array_idx /\ s.ss = v.ss
    BY <1>2 DEF Visitors
  <1> HIDE DEF s
  <1>12. /\ v' \in Visitors /\ v'.table \in DOMAIN TypeTables
         /\ v'.current_path = path /\ v'.emit_json = emit
         /\ v'.needs_close_array = FALSE /\ v'.needs_close_object = FALSE
         /\ v'.object_depth = v.object_depth /\ v'.array_idx = v.array_idx
         /\ v'.ss = IF emit THEN v.ss \o KeyText(keyed, text) ELSE v.ss
    BY <1>6, <1>7, <1>8, <1>9, <1>10, <1>11, EmitWrites
  <1>13. frames' \in Seq(Frames)
    <2> DEFINE g == [frames EXCEPT ![1].n = @ + 1]
    <2>1. g \in Seq(Frames)
      BY <1>1, Bumped DEF VisitorTyped, Top
    <2> HIDE DEF g
    <2>2. <<KeyFrame(key)>> \o g \in Seq(Frames)
      BY <1>4, <2>1, Pushed
    <2> QED BY <1>1, <2>2 DEF g
  <1>14. /\ raw' \in Seq(Tokens) /\ UNCHANGED <<call, root_path>>
         /\ raw' = IF root_path = <<>> \/ v.emit_json THEN raw \o tokens ELSE <<>>
    BY <1>1, <1>5, EventTakes
  <1>15. plain' \in BOOLEAN
    <2>1. (keyed \/ ~v.needs_close_object) \in BOOLEAN
      BY <1>2 DEF Visitors
    <2> QED BY <1>w, <1>2, <2>1
  <1>16. VisitorTyped'
    BY <1>1, <1>12, <1>13, <1>14, <1>15 DEF VisitorTyped
  <1>17. /\ plain' /\ emit => v'.ss = v.ss \o PlainKeyText(keyed, key)
         /\ plain' => IF root_path # <<>> /\ emit /\ ~v.emit_json
                      THEN keyed \/ ~v.needs_close_object ELSE plain /\ ~keyed
    <2>1. plain' => text = <<key>>
      BY <1>w, Zenon
    <2>2. KeyText(keyed, <<key>>) = PlainKeyText(keyed, key)
      BY <1>2, PlainKey
    <2> QED BY <1>w, <1>12, <2>1, <2>2, Zenon
  <1> QED BY <1>1, <1>4, <1>12, <1>14, <1>16, <1>17 DEF path, emit, keyed, tokens

\* When the value of an item is parsed, the members it had before are back.
LEMMA AfterValueTyped ==
  ASSUME VisitorTyped, mode # "idle", frames # <<>>, Top.of = "item"
  PROVE  /\ AfterValue \in Visitors /\ AfterValue.table \in DOMAIN TypeTables
         /\ AfterValue.needs_close_array = Top.needs_close_array
         /\ AfterValue.needs_close_object = Top.needs_close_object
         /\ AfterValue.current_path = Shorter(v) /\ AfterValue.ss = v.ss
         /\ AfterValue.emit_json = v.emit_json /\ AfterValue.object_depth = v.object_depth
         /\ AfterValue.array_idx = v.array_idx /\ Top \in Items
  <1>1. v \in Visitors /\ frames \in Seq(Frames)
    BY DEF VisitorTyped
  <1>2. Top \in Items
    <2>1. Len(frames) \in Nat \ {0}
      BY <1>1, EmptySeq
    <2>2. frames[1] \in Frames
      BY <1>1, <2>1, ElementOfSeq
    <2> QED BY <2>2 DEF Top, Frames, Items, Containing
  <1>3. Top.needs_close_array \in BOOLEAN /\ Top.needs_close_object \in BOOLEAN
        /\ Top.table \in DOMAIN TypeTables
    BY <1>2 DEF Items
  <1>4. Shorter(v) \in Seq(Keys)
    <2>1. v.current_path \in Seq(Keys) /\ <<>> \in Seq(Keys \cup {"*"})
      BY <1>1, EmptySeq DEF Visitors
    <2> QED BY <2>1, ShorterReachesError
  <1> DEFINE a == Top.needs_close_array
             o == Top.needs_close_object
             t == Top.table
             p == Shorter(v)
  <1>5. AfterValue = [v EXCEPT !.needs_close_array = a, !.needs_close_object = o, !.table = t,
                               !.current_path = p]
    BY DEF AfterValue, Shorter
  <1>6. a \in BOOLEAN /\ o \in BOOLEAN /\ t \in DOMAIN TypeTables /\ p \in Seq(Keys)
    BY <1>3, <1>4
  <1> HIDE DEF a, o, t, p
  <1>7. AfterValue \in Visitors
    BY <1>1, <1>5, <1>6 DEF Visitors
  <1>8. AfterValue.needs_close_array = a /\ AfterValue.needs_close_object = o
        /\ AfterValue.table = t /\ AfterValue.current_path = p
    BY <1>1, <1>5 DEF Visitors
  <1>9. AfterValue.ss = v.ss /\ AfterValue.emit_json = v.emit_json
        /\ AfterValue.object_depth = v.object_depth /\ AfterValue.array_idx = v.array_idx
    BY <1>1, <1>5 DEF Visitors
  <1> QED BY <1>2, <1>6, <1>7, <1>8, <1>9 DEF a, o, t, p

\* An item is handed over: its text, and what was expected.
Handed(whole) ==
  /\ v.emit_json /\ ~is_a_subpath(Shorter(v), root_path)
  /\ v'.emit_json = FALSE /\ v'.ss = <<>> /\ raw' = <<>>
  /\ \E accepts \in BOOLEAN : item' = ItemOf(ClosedItem, accepts, ExpectedHere, whole, Top.keyed)
  /\ ClosedItem.ss = IF Top.keyed THEN v.ss ELSE v.ss \o <<"}">>

LEMMA ItemEffect ==
  ASSUME VisitorTyped, NEW whole \in BOOLEAN, ItemEnds(whole), mode # "idle",
         mode' \in {"after", "failing"}, frames # <<>>, Top.of = "item"
  PROVE  /\ VisitorTyped' /\ UNCHANGED <<plain, root_path, call>> /\ frames' = Tail(frames)
         /\ v'.current_path = Shorter(v)
         /\ v'.needs_close_array = Top.needs_close_array
         /\ v'.needs_close_object = Top.needs_close_object
         /\ v'.object_depth = v.object_depth /\ v'.array_idx = v.array_idx
         /\ \/ /\ is_a_subpath(Shorter(v), root_path) \/ ~v.emit_json
               /\ v'.emit_json = v.emit_json /\ v'.ss = v.ss /\ UNCHANGED <<item, raw>>
            \/ Handed(whole)
  <1> DEFINE w == AfterValue
             c == ClosedItem
  <1>1. /\ w \in Visitors /\ w.table \in DOMAIN TypeTables
        /\ w.needs_close_array = Top.needs_close_array
        /\ w.needs_close_object = Top.needs_close_object
        /\ w.current_path = Shorter(v) /\ w.ss = v.ss
        /\ w.emit_json = v.emit_json /\ w.object_depth = v.object_depth
        /\ w.array_idx = v.array_idx
    BY AfterValueTyped
  <1>2. frames' \in Seq(Frames) /\ frames' = Tail(frames) /\ UNCHANGED <<call, root_path, plain>>
    BY HeadTailProperties DEF ItemEnds, VisitorTyped, root_path
  <1>3. CASE is_a_subpath(w.current_path, root_path) \/ ~v.emit_json
    <2>1. v' = w /\ UNCHANGED <<item, raw>>
      BY <1>3 DEF ItemEnds
    <2> HIDE DEF w
    <2>2. VisitorTyped'
      BY <1>1, <1>2, <2>1 DEF VisitorTyped
    <2> QED BY <1>1, <1>2, <1>3, <2>1, <2>2
  <1>4. CASE ~(is_a_subpath(w.current_path, root_path) \/ ~v.emit_json)
    <2>1. PICK accepts \in BOOLEAN :
            /\ item' = ItemOf(c, accepts, ExpectedHere, whole, Top.keyed)
            /\ v' = [ItemResult(c, item'.ok) EXCEPT !.ss = <<>>, !.emit_json = FALSE]
            /\ raw' = <<>>
      BY <1>4 DEF ItemEnds
    <2>2. v.emit_json /\ ~is_a_subpath(Shorter(v), root_path)
      BY <1>1, <1>4
    <2>3. <<"}">> \in Seq(Tokens) /\ <<>> \in Seq(Tokens)
      BY EmptySeq DEF Tokens, Punctuation
    <2>4. c = IF Top.keyed THEN w ELSE Emit(w, <<"}">>)
      BY DEF ClosedItem
    <2> HIDE DEF w, c
    <2>5. /\ c \in Visitors /\ c.table \in DOMAIN TypeTables
          /\ c.needs_close_array = Top.needs_close_array
          /\ c.needs_close_object = Top.needs_close_object
          /\ c.current_path = Shorter(v)
          /\ c.object_depth = v.object_depth /\ c.array_idx = v.array_idx
          /\ c.ss = IF Top.keyed THEN v.ss ELSE v.ss \o <<"}">>
      <3>1. CASE Top.keyed
        BY <1>1, <2>4, <3>1
      <3>2. CASE ~Top.keyed
        <4>1. c = Emit(w, <<"}">>) /\ w.emit_json
          BY <1>1, <2>2, <2>4, <3>2
        <4>2. /\ c \in Visitors /\ c.table = w.table /\ c.ss = w.ss \o <<"}">>
              /\ c.needs_close_array = w.needs_close_array
              /\ c.needs_close_object = w.needs_close_object
              /\ c.current_path = w.current_path /\ c.object_depth = w.object_depth
              /\ c.array_idx = w.array_idx
          BY <1>1, <2>3, <4>1, EmitWrites
        <4> QED BY <1>1, <3>2, <4>2
      <3> QED BY <3>1, <3>2
    <2>6. PICK b \in BOOLEAN :
            v' = [c EXCEPT !.is_parse_error = b, !.ss = <<>>, !.emit_json = FALSE]
      <3>1. c.is_parse_error \in BOOLEAN
        BY <2>5 DEF Visitors
      <3>2. CASE item'.ok
        <4>1. v' = [c EXCEPT !.ss = <<>>, !.emit_json = FALSE]
          BY <2>1, <3>2 DEF ItemResult
        <4>2. v' = [c EXCEPT !.is_parse_error = c.is_parse_error, !.ss = <<>>, !.emit_json = FALSE]
          BY <2>5, <4>1 DEF Visitors
        <4> QED BY <3>1, <4>2
      <3>3. CASE ~item'.ok
        <4>1. v' = [[c EXCEPT !.is_parse_error = TRUE] EXCEPT !.ss = <<>>, !.emit_json = FALSE]
          BY <2>1, <3>3 DEF ItemResult
        <4>2. v' = [c EXCEPT !.is_parse_error = TRUE, !.ss = <<>>, !.emit_json = FALSE]
          BY <2>5, <4>1 DEF Visitors
        <4> QED BY <4>2
      <3> QED BY <3>2, <3>3
    <2>7. v' \in Visitors
      BY <2>3, <2>5, <2>6 DEF Visitors
    <2>8. v'.emit_json = FALSE /\ v'.ss = <<>> /\ v'.table = c.table
          /\ v'.current_path = c.current_path
      BY <2>5, <2>6 DEF Visitors
    <2>9. /\ v'.needs_close_array = c.needs_close_array
          /\ v'.needs_close_object = c.needs_close_object
          /\ v'.object_depth = c.object_depth /\ v'.array_idx = c.array_idx
      BY <2>5, <2>6 DEF Visitors
    <2>10. VisitorTyped'
      BY <1>2, <2>1, <2>3, <2>5, <2>7, <2>8 DEF VisitorTyped
    <2>11. Handed(whole)
      BY <2>1, <2>2, <2>5, <2>8 DEF Handed, c
    <2> QED BY <1>2, <2>5, <2>8, <2>9, <2>10, <2>11
  <1> QED BY <1>3, <1>4

\* Closing an object of a text: the brackets, and the document itself when it was the last.
ClosedText == IF root_path = <<>> THEN <<"}">> ELSE <<"}", "}">>

LEMMA ObjectClosed ==
  ASSUME v \in Visitors
  PROVE  /\ ClosedObject \in Visitors /\ ClosedObject.table = v.table
         /\ ClosedObject.emit_json = v.emit_json /\ ClosedObject.current_path = v.current_path
         /\ ClosedObject.object_depth = v.object_depth - 1 /\ ClosedObject.array_idx = v.array_idx
         /\ ~v.emit_json => /\ ClosedObject.ss = v.ss
                            /\ ClosedObject.needs_close_array = v.needs_close_array
                            /\ ClosedObject.needs_close_object = v.needs_close_object
         /\ v.emit_json /\ ~v.needs_close_array /\ v.needs_close_object =>
              /\ ClosedObject.ss = v.ss \o ClosedText
              /\ ClosedObject.needs_close_array = FALSE /\ ClosedObject.needs_close_object = FALSE
  <1> DEFINE n == v.object_depth - 1
             s == [v EXCEPT !.object_depth = n]
             a == Emit(s, <<"]">>)
             o == Emit(s, ClosedText)
             b == Emit(s, <<"}">>)
             c == ClosedObject
  <1>1. n \in Int
    BY DEF Visitors
  <1> HIDE DEF n
  <1>2. /\ s \in Visitors /\ Stays(v, s) /\ s.ss = v.ss /\ s.table = v.table
        /\ s.object_depth = n /\ s.array_idx = v.array_idx
    BY <1>1, DepthSet
  <1>3. c = IF ~s.emit_json THEN s
            ELSE IF s.needs_close_array THEN [a EXCEPT !.needs_close_array = FALSE]
            ELSE IF s.needs_close_object THEN [o EXCEPT !.needs_close_object = FALSE]
            ELSE b
    BY DEF ClosedObject, ClosedText, n
  <1>4. "]" \in Tokens /\ "}" \in Tokens
    BY DEF Tokens, Punctuation
  <1>5. <<"]">> \in Seq(Tokens) /\ <<"}">> \in Seq(Tokens) /\ <<"}", "}">> \in Seq(Tokens)
    BY <1>4, TextsTyped, Zenon
  <1>6. ClosedText \in Seq(Tokens)
    BY <1>5 DEF ClosedText
  <1> HIDE DEF s, c
  <1>7. CASE ~s.emit_json
    BY <1>2, <1>3, <1>7 DEF Stays, n, c
  <1>8. CASE s.emit_json /\ s.needs_close_array
    <2>1. /\ a \in Visitors /\ a.table = s.table /\ a.emit_json = s.emit_json
          /\ a.current_path = s.current_path /\ a.object_depth = n /\ a.array_idx = s.array_idx
      BY <1>2, <1>5, EmitWrites
    <2> HIDE DEF a
    <2>2. c = [a EXCEPT !.needs_close_array = FALSE]
      BY <1>3, <1>8
    <2>3. /\ c \in Visitors /\ c.table = a.table /\ c.emit_json = a.emit_json
          /\ c.current_path = a.current_path
      BY <2>1, <2>2 DEF Visitors
    <2>4. c.object_depth = a.object_depth /\ c.array_idx = a.array_idx
      BY <2>1, <2>2 DEF Visitors
    <2> QED BY <1>2, <1>8, <2>1, <2>3, <2>4 DEF Stays, n, c
  <1>9. CASE s.emit_json /\ ~s.needs_close_array /\ s.needs_close_object
    <2>1. /\ o \in Visitors /\ o.table = s.table /\ o.emit_json = s.emit_json
          /\ o.current_path = s.current_path /\ o.object_depth = n /\ o.array_idx = s.array_idx
          /\ o.needs_close_array = s.needs_close_array
          /\ o.ss = IF s.emit_json THEN s.ss \o ClosedText ELSE s.ss
      BY <1>2, <1>6, EmitWrites
    <2> HIDE DEF o
    <2>2. c = [o EXCEPT !.needs_close_object = FALSE]
      BY <1>3, <1>9
    <2>3. /\ c \in Visitors /\ c.table = o.table /\ c.emit_json = o.emit_json
          /\ c.current_path = o.current_path
      BY <2>1, <2>2 DEF Visitors
    <2>4. c.object_depth = o.object_depth /\ c.array_idx = o.array_idx
          /\ c.needs_close_object = FALSE
      BY <2>1, <2>2 DEF Visitors
    <2>5. c.needs_close_array = o.needs_close_array /\ c.ss = o.ss
      BY <2>1, <2>2 DEF Visitors
    <2>6. c.needs_close_array = FALSE
      BY <1>9, <2>1, <2>3, <2>5 DEF Visitors
    <2> QED BY <1>2, <1>9, <2>1, <2>3, <2>4, <2>5, <2>6 DEF Stays, n, c
  <1>10. CASE s.emit_json /\ ~s.needs_close_array /\ ~s.needs_close_object
    <2>1. /\ b \in Visitors /\ b.table = s.table /\ b.emit_json = s.emit_json
          /\ b.current_path = s.current_path /\ b.object_depth = n /\ b.array_idx = s.array_idx
      BY <1>2, <1>5, EmitWrites
    <2> HIDE DEF b
    <2>2. c = b
      BY <1>3, <1>10
    <2> QED BY <1>2, <1>10, <2>1, <2>2 DEF Stays, n, c
  <1> QED BY <1>7, <1>8, <1>9, <1>10

LEMMA ObjectStopEffect ==
  ASSUME VisitorTyped, parse_object_stop
  PROVE  /\ VisitorTyped' /\ UNCHANGED <<root_path, call>>
         /\ mode = "after" /\ mode' = "after" /\ frames # <<>> /\ Top.of = "object"
         /\ frames' = Tail(frames) /\ plain' = (plain /\ (v.emit_json => Top.n > 0))
         /\ raw' = IF root_path = <<>> \/ v.emit_json THEN raw \o <<"}">> ELSE <<>>
         /\ v'.current_path = v.current_path /\ v'.emit_json = v.emit_json
         /\ v'.object_depth = v.object_depth - 1 /\ v'.array_idx = v.array_idx
         /\ ~v.emit_json => /\ v'.ss = v.ss /\ item' = item
                            /\ v'.needs_close_array = v.needs_close_array
                            /\ v'.needs_close_object = v.needs_close_object
         /\ v.emit_json /\ ~v.needs_close_array /\ v.needs_close_object =>
              /\ ClosedObject.ss = v.ss \o ClosedText
              /\ v'.needs_close_array = FALSE /\ v'.needs_close_object = FALSE
              /\ v'.object_depth # 0 => v'.ss = v.ss \o ClosedText /\ item' = item
              /\ v'.object_depth = 0 => v'.ss = <<>>
         /\ item' # item => \E accepts \in BOOLEAN :
              item' = ItemOf(ClosedObject, accepts, IF root_path = <<>> THEN raw' ELSE <<>>, TRUE, FALSE)
         /\ ~(v.emit_json /\ v'.object_depth = 0) => item' = item
  <1> DEFINE c == ClosedObject
  <1>1. v \in Visitors
    BY DEF VisitorTyped
  <1>2. /\ c \in Visitors /\ c.table = v.table
        /\ c.emit_json = v.emit_json /\ c.current_path = v.current_path
        /\ c.object_depth = v.object_depth - 1 /\ c.array_idx = v.array_idx
        /\ ~v.emit_json => /\ c.ss = v.ss
                           /\ c.needs_close_array = v.needs_close_array
                           /\ c.needs_close_object = v.needs_close_object
        /\ v.emit_json /\ ~v.needs_close_array /\ v.needs_close_object =>
             /\ c.ss = v.ss \o ClosedText
             /\ c.needs_close_array = FALSE /\ c.needs_close_object = FALSE
    BY <1>1, ObjectClosed
  <1>3. /\ mode = "after" /\ mode' = "after" /\ frames # <<>> /\ Top.of = "object"
        /\ frames' = Tail(frames) /\ plain' = (plain /\ (v.emit_json => Top.n > 0))
        /\ Event(<<"}">>)
        /\ IF v.emit_json /\ c.object_depth = 0
           THEN /\ v' = [c EXCEPT !.ss = <<>>]
                /\ \E accepts \in BOOLEAN :
                     item' = ItemOf(c, accepts, IF root_path = <<>> THEN raw' ELSE <<>>, TRUE, FALSE)
           ELSE v' = c /\ UNCHANGED item
    BY DEF parse_object_stop, Innermost
  <1> HIDE DEF c
  <1>4. "}" \in Tokens
    BY DEF Tokens, Punctuation
  <1>5. <<"}">> \in Seq(Tokens) /\ <<>> \in Seq(Tokens)
    BY <1>4, TextsTyped, Zenon
  <1>6. /\ raw' \in Seq(Tokens) /\ UNCHANGED <<call, root_path>>
        /\ raw' = IF root_path = <<>> \/ v.emit_json THEN raw \o <<"}">> ELSE <<>>
    BY <1>3, <1>5, EventTakes
  <1>7. /\ v' \in Visitors /\ v'.table = c.table /\ v'.emit_json = c.emit_json
        /\ v'.current_path = c.current_path /\ v'.object_depth = c.object_depth
        /\ v'.array_idx = c.array_idx /\ v'.needs_close_array = c.needs_close_array
        /\ v'.needs_close_object = c.needs_close_object
        /\ v'.ss = IF v.emit_json /\ c.object_depth = 0 THEN <<>> ELSE c.ss
    <2>1. CASE v.emit_json /\ c.object_depth = 0
      <3>1. v' = [c EXCEPT !.ss = <<>>]
        BY <1>3, <2>1
      <3>2. /\ v' \in Visitors /\ v'.table = c.table /\ v'.emit_json = c.emit_json
            /\ v'.current_path = c.current_path
        BY <1>2, <1>5, <3>1 DEF Visitors
      <3>3. /\ v'.object_depth = c.object_depth /\ v'.ss = <<>>
            /\ v'.array_idx = c.array_idx
        BY <1>2, <3>1 DEF Visitors
      <3>4. /\ v'.needs_close_array = c.needs_close_array
            /\ v'.needs_close_object = c.needs_close_object
        BY <1>2, <3>1 DEF Visitors
      <3> QED BY <2>1, <3>2, <3>3, <3>4
    <2>2. CASE ~(v.emit_json /\ c.object_depth = 0)
      <3>1. v' = c
        BY <1>3, <2>2
      <3> QED BY <1>2, <2>2, <3>1
    <2> QED BY <2>1, <2>2
  <1>8. frames' \in Seq(Frames) /\ plain' \in BOOLEAN
    BY <1>3, HeadTailProperties DEF VisitorTyped
  <1>9. VisitorTyped'
    BY <1>2, <1>3, <1>6, <1>7, <1>8 DEF VisitorTyped
  <1>10. /\ item' # item => \E accepts \in BOOLEAN :
              item' = ItemOf(c, accepts, IF root_path = <<>> THEN raw' ELSE <<>>, TRUE, FALSE)
         /\ ~(v.emit_json /\ c.object_depth = 0) => item' = item
    BY <1>3
  <1> QED BY <1>2, <1>3, <1>6, <1>7, <1>9, <1>10 DEF c

\* The steps that read nothing.
QuietStep ==
  \/ SyntaxError
  \/ mode = "failing" /\ mode' = "failing" /\ frames # <<>> /\ Top.of # "item"
     /\ frames' = Tail(frames) /\ UNCHANGED <<v, call, plain, raw, item>>
  \/ Return

LEMMA QuietEffect ==
  ASSUME VisitorTyped, QuietStep
  PROVE  /\ VisitorTyped' /\ UNCHANGED <<v, call, root_path, plain, raw, item>>
         /\ mode' = "idle" \/ (mode' = "failing" /\ mode # "idle")
         /\ SyntaxError => /\ mode' = "failing" /\ frames' = frames /\ mode \in {"value", "after"}
                           /\ mode = "after" => frames # <<>> /\ Top.of # "item"
         /\ mode' = "failing" /\ ~SyntaxError
              => mode = "failing" /\ frames # <<>> /\ Top.of # "item" /\ frames' = Tail(frames)
  <1>1. CASE SyntaxError
    BY <1>1 DEF SyntaxError, history, VisitorTyped, root_path
  <1>2. CASE Return
    <2>1. /\ UNCHANGED <<v, call, frames, plain, raw, item>> /\ mode' = "idle" /\ frames = <<>>
          /\ mode # "idle"
      BY <1>2 DEF Return, history
    <2>2. ~SyntaxError
      BY <2>1 DEF SyntaxError
    <2>3. VisitorTyped' /\ UNCHANGED root_path
      BY <2>1 DEF VisitorTyped, root_path
    <2> QED BY <2>1, <2>2, <2>3
  <1>3. CASE mode = "failing" /\ mode' = "failing" /\ frames # <<>> /\ Top.of # "item"
             /\ frames' = Tail(frames) /\ UNCHANGED <<v, call, plain, raw, item>>
    <2>1. frames' \in Seq(Frames)
      BY <1>3, HeadTailProperties DEF VisitorTyped
    <2>2. ~SyntaxError
      BY <1>3 DEF SyntaxError
    <2>3. VisitorTyped' /\ UNCHANGED root_path
      BY <1>3, <2>1 DEF VisitorTyped, root_path
    <2> QED BY <1>3, <2>2, <2>3
  <1> QED BY <1>1, <1>2, <1>3 DEF QuietStep

\* A document begins.
LEMMA BeginEffect ==
  ASSUME VisitorTyped, parse_stream
  PROVE  /\ VisitorTyped' /\ UNCHANGED <<call, root_path>> /\ item' = NoItem
         /\ frames' = <<>>
         /\ mode = "idle" /\ mode' = "value" /\ plain' = TRUE /\ raw' = <<>>
         /\ v'.ss = <<>> /\ v'.emit_json = FALSE /\ v'.current_path = <<>>
         /\ v'.object_depth = 0
         /\ v'.needs_close_array = FALSE /\ v'.needs_close_object = FALSE
  <1>1. call.table \in DOMAIN TypeTables
        /\ v' = [is_parse_error |-> FALSE, is_error_path |-> FALSE, object_depth |-> 0,
                 array_idx |-> 0, current_path |-> <<>>, ss |-> <<>>, emit_json |-> FALSE,
                 needs_close_array |-> FALSE, needs_close_object |-> FALSE, table |-> call.table]
    <2>1. v' = [NewVisitor EXCEPT !.table = call.table]
      BY DEF parse_stream, clear
    <2> QED BY <2>1, CallsAssumption DEF NewVisitor, VisitorTyped
  <1>2. <<>> \in Seq(Keys) /\ <<>> \in Seq(Tokens)
    BY EmptySeq
  <1>3. v' \in Visitors /\ v'.table = call.table
    BY <1>1, <1>2 DEF Visitors
  <1>4. /\ v'.ss = <<>> /\ v'.emit_json = FALSE /\ v'.current_path = <<>>
        /\ v'.object_depth = 0
        /\ v'.needs_close_array = FALSE /\ v'.needs_close_object = FALSE
    BY <1>1
  <1>5. /\ UNCHANGED <<call, root_path, frames>> /\ item' = NoItem
        /\ mode = "idle" /\ mode' = "value" /\ plain' = TRUE /\ raw' = <<>>
    BY DEF parse_stream, root_path
  <1>6. VisitorTyped' /\ frames' = <<>>
    BY <1>1, <1>2, <1>3, <1>5 DEF VisitorTyped
  <1> QED BY <1>4, <1>5, <1>6

-----------------------------------------------------------------------------
\* The steps, by their effects.
LEMMA EffectsAre ==
  ASSUME VisitorNext
  PROVE  \/ parse_stream
         \/ ScalarRead \/ StringCut
         \/ parse_array_start
         \/ parse_array_item
         \/ parse_array_stop
         \/ parse_object_start
         \/ \E key \in Keys : parse_object_item(key)
         \/ \E whole \in BOOLEAN :
              /\ ItemEnds(whole) /\ frames # <<>> /\ Top.of = "item"
              /\ mode = (IF whole THEN "after" ELSE "failing") /\ mode' = mode
         \/ parse_object_stop
         \/ QuietStep
  <1>1. CASE EndItem
    BY <1>1 DEF EndItem, Innermost
  <1>2. CASE Unwind
    BY <1>2 DEF Unwind, QuietStep, history
  <1>3. CASE SyntaxError \/ Return
    BY <1>3 DEF QuietStep
  <1> QED BY <1>1, <1>2, <1>3 DEF VisitorNext, ScalarRead, StringCut

LEMMA InitVisitorTyped == VisitorInit => VisitorTyped
  <1> SUFFICES ASSUME VisitorInit PROVE VisitorTyped
    OBVIOUS
  <1>1. <<>> \in Seq(Keys) /\ <<>> \in Seq(Tokens) /\ <<>> \in Seq(Frames)
    BY EmptySeq
  <1>2. v \in Visitors
    BY <1>1 DEF VisitorInit, NewVisitor, Visitors
  <1> QED BY <1>1, <1>2 DEF VisitorInit, VisitorTyped

LEMMA NextVisitorTyped == VisitorTyped /\ [VisitorNext]_visitor => VisitorTyped'
  <1> SUFFICES ASSUME VisitorTyped, [VisitorNext]_visitor PROVE VisitorTyped'
    OBVIOUS
  <1>1. CASE UNCHANGED visitor
    BY <1>1 DEF VisitorTyped, visitor
  <1>2. CASE parse_stream
    BY <1>2, BeginEffect
  <1>3. CASE ScalarRead \/ StringCut
    BY <1>3, ScalarStep
  <1>4. CASE parse_array_start
    BY <1>4, ArrayStartStep
  <1>5. CASE parse_array_item
    BY <1>5, ArrayItemStep
  <1>6. CASE parse_array_stop
    BY <1>6, ArrayStopStep
  <1>7. CASE parse_object_start
    BY <1>7, ObjectStartStep
  <1>8. ASSUME NEW key \in Keys, parse_object_item(key) PROVE VisitorTyped'
    BY <1>8, KeyEffect
  <1>9. ASSUME NEW whole \in BOOLEAN, ItemEnds(whole), frames # <<>>, Top.of = "item",
               mode = (IF whole THEN "after" ELSE "failing"), mode' = mode
        PROVE  VisitorTyped'
    BY <1>9, ItemEffect
  <1>10. CASE parse_object_stop
    BY <1>10, ObjectStopEffect
  <1>11. CASE QuietStep
    BY <1>11, QuietEffect
  <1> QED BY <1>1, <1>2, <1>3, <1>4, <1>5, <1>6, <1>7, <1>8, <1>9, <1>10, <1>11, EffectsAre

-----------------------------------------------------------------------------
Paths == Seq(Keys)
Roots == Seq(Keys \cup {"*"})

LEMMA RootsTyped == VisitorTyped => root_path \in Roots /\ error_path \in Roots
  BY CallsAssumption DEF VisitorTyped, root_path, error_path, Roots

\* A path with one more key reaches what it did, and leads to no root it did not reach.
LEMMA ReachesPushed ==
  ASSUME NEW path \in Paths, NEW root \in Roots, NEW key \in Keys, NEW n \in Nat
  PROVE  /\ is_a_subpath(path, root) = Reaches(path, root, 0)
         /\ Reaches(Append(path, key), root, n + 1) = Reaches(path, root, n)
         /\ is_a_subpath(path, root) => is_a_subpath(Append(path, key), root)
         /\ root # <<>> => ~is_a_subpath(<<>>, root)
  <1>1. /\ Len(Append(path, key)) = Len(path) + 1 /\ Len(path) \in Nat /\ Len(root) \in Nat
        /\ \A i \in 1..Len(path) : Append(path, key)[i] = path[i]
    BY AppendProperties, LenProperties DEF Paths, Roots
  <1>2. is_a_subpath(path, root) = Reaches(path, root, 0)
    <2>1. Len(path) - 0 = Len(path)
      BY <1>1
    <2>2. CASE Len(path) >= Len(root)
      BY <2>1, <2>2 DEF is_a_subpath, Reaches
    <2>3. CASE ~(Len(path) >= Len(root))
      BY <2>1, <2>3 DEF is_a_subpath, Reaches
    <2> QED BY <2>2, <2>3
  <1> DEFINE p == Append(path, key)
  <1> HIDE DEF p
  <1>3. Reaches(p, root, n + 1) = Reaches(path, root, n)
    <2>1. (Len(p) - (n + 1) >= Len(root)) = (Len(path) - n >= Len(root))
      BY <1>1 DEF p
    <2>2. ASSUME Len(path) - n >= Len(root), NEW i \in 1..Len(root) PROVE p[i] = path[i]
      BY <1>1, <2>2 DEF p
    <2>3. CASE Len(path) - n >= Len(root)
      BY <2>1, <2>2, <2>3 DEF Reaches
    <2>4. CASE ~(Len(path) - n >= Len(root))
      BY <2>1, <2>4 DEF Reaches
    <2> QED BY <2>3, <2>4
  <1>4. ASSUME is_a_subpath(path, root) PROVE is_a_subpath(p, root)
    <2>1. Len(p) >= Len(root)
      BY <1>1, <1>4 DEF is_a_subpath, p
    <2>2. ASSUME NEW i \in 1..Len(root) PROVE root[i] \in {"*", p[i]}
      BY <1>1, <1>4, <2>2 DEF is_a_subpath, p
    <2> QED BY <2>1, <2>2 DEF is_a_subpath
  <1>5. root # <<>> => ~is_a_subpath(<<>>, root)
    <2>1. root # <<>> => Len(root) \in Nat \ {0}
      BY EmptySeq DEF Roots
    <2>2. Len(<<>>) = 0
      BY EmptySeq
    <2> QED BY <2>1, <2>2 DEF is_a_subpath
  <1> QED BY <1>2, <1>3, <1>4, <1>5 DEF p

\* A path without its last key.
LEMMA ReachesPopped ==
  ASSUME NEW s, s.current_path \in Paths, NEW root \in Roots, NEW n \in Nat
  PROVE  /\ Shorter(s) \in Paths
         /\ root # <<>> => Reaches(Shorter(s), root, n) = Reaches(s.current_path, root, n + 1)
         /\ is_a_subpath(Shorter(s), root) => is_a_subpath(s.current_path, root)
  <1>1. /\ Shorter(s) \in Paths
        /\ is_a_subpath(Shorter(s), root) => is_a_subpath(s.current_path, root)
    BY ShorterReachesError DEF Paths, Roots
  <1> DEFINE path == s.current_path
             p == Shorter(s)
  <1>2. Len(path) \in Nat /\ Len(root) \in Nat /\ (root # <<>> => Len(root) > 0)
        /\ \A i \in 1..(Len(path) - 1) : path[i] \in Keys
    BY LenProperties, ElementOfSeq, EmptySeq DEF Paths, Roots
  <1>3. /\ Len(p) = IF 1 <= Len(path) - 1 THEN Len(path) - 1 ELSE 0
        /\ \A i \in 1..(Len(path) - 1) : p[i] = path[i]
    <2>1. Len(path) - 1 \in Int /\ 1 \in Int
      BY <1>2
    <2>2. /\ Len(SubSeq(path, 1, Len(path) - 1)) = IF 1 <= Len(path) - 1 THEN (Len(path) - 1) - 1 + 1 ELSE 0
          /\ \A i \in 1..((Len(path) - 1) - 1 + 1) : SubSeq(path, 1, Len(path) - 1)[i] = path[1 + i - 1]
      BY <1>2, <2>1, SubSeqProperties
    <2> QED BY <1>2, <2>2 DEF Shorter
  <1> HIDE DEF p, path
  <1>4. ASSUME root # <<>> PROVE Reaches(p, root, n) = Reaches(path, root, n + 1)
    <2>1. CASE Len(path) - (n + 1) >= Len(root)
      <3>1. Len(p) - n >= Len(root)
        BY <1>2, <1>3, <1>4, <2>1
      <3>2. ASSUME NEW i \in 1..Len(root) PROVE p[i] = path[i]
        BY <1>2, <1>3, <2>1, <3>2
      <3> QED BY <2>1, <3>1, <3>2 DEF Reaches
    <2>2. CASE ~(Len(path) - (n + 1) >= Len(root))
      <3>1. ~(Len(p) - n >= Len(root))
        BY <1>2, <1>3, <1>4, <2>2
      <3> QED BY <2>2, <3>1 DEF Reaches
    <2> QED BY <2>1, <2>2
  <1> QED BY <1>1, <1>4 DEF p, path

-----------------------------------------------------------------------------
LEMMA NextEmitsThere == VisitorTyped /\ EmitsThere /\ [VisitorNext]_visitor => EmitsThere'
  <1> SUFFICES ASSUME VisitorTyped, EmitsThere, [VisitorNext]_visitor PROVE EmitsThere'
    OBVIOUS
  <1>a. root_path \in Roots /\ error_path \in Roots /\ v.current_path \in Paths
    BY RootsTyped DEF VisitorTyped, Visitors, Paths
  <1>b. call' = call => root_path' = root_path /\ error_path' = error_path
    BY DEF root_path, error_path
  <1>c. ASSUME Stays(v, v'), call' = call, mode # "idle", ~v.emit_json => v'.ss = v.ss
        PROVE  EmitsThere'
    BY <1>b, <1>c DEF EmitsThere, Stays
  <1>1. CASE UNCHANGED visitor
    BY <1>1, <1>b DEF EmitsThere, visitor, is_a_subpath
  <1>2. CASE parse_stream
    <2>1. root_path # <<>> => ~is_a_subpath(<<>>, root_path)
      BY <1>a DEF is_a_subpath, Roots
    <2> QED BY <1>2, <1>b, <2>1, BeginEffect DEF EmitsThere
  <1>3. CASE ScalarRead \/ StringCut
    BY <1>3, <1>c, ScalarStep
  <1>4. CASE parse_array_start
    BY <1>4, <1>c, ArrayStartStep
  <1>5. CASE parse_array_item
    BY <1>5, <1>c, ArrayItemStep
  <1>6. CASE parse_array_stop
    BY <1>6, <1>c, ArrayStopStep
  <1>7. CASE parse_object_start
    BY <1>7, <1>c, ObjectStartStep
  <1>8. ASSUME NEW key \in Keys, parse_object_item(key) PROVE EmitsThere'
    <2>1. /\ call' = call /\ v'.current_path = KeyPath(key) /\ v'.emit_json = KeyEmits(key)
          /\ ~KeyEmits(key) => v'.ss = v.ss /\ mode = "after"
      BY <1>8, KeyEffect
    <2>2. v.emit_json => KeyEmits(key)
      <3>1. 0 \in Nat
        OBVIOUS
      <3>2. mode # "idle"
        BY <1>8, KeyEffect
      <3> QED BY <1>a, <3>1, <3>2, ReachesPushed DEF EmitsThere, KeyEmits, KeyPath
    <2>3. mode = "after"
      BY <1>8, KeyEffect
    <2> QED BY <1>b, <2>1, <2>2, <2>3 DEF EmitsThere, KeyEmits
  <1>9. ASSUME NEW whole \in BOOLEAN, ItemEnds(whole), frames # <<>>, Top.of = "item",
               mode = (IF whole THEN "after" ELSE "failing"), mode' = mode
        PROVE  EmitsThere'
    <2>1. mode # "idle" /\ mode' \in {"after", "failing"}
      BY <1>9
    <2>2. /\ call' = call /\ v'.current_path = Shorter(v)
          /\ \/ /\ is_a_subpath(Shorter(v), root_path) \/ ~v.emit_json
                /\ v'.emit_json = v.emit_json /\ v'.ss = v.ss
             \/ Handed(whole)
      BY <1>9, <2>1, ItemEffect
    <2>3. is_a_subpath(Shorter(v), root_path) => is_a_subpath(v.current_path, root_path)
      <3>1. 0 \in Nat
        OBVIOUS
      <3> QED BY <1>a, <3>1, ReachesPopped
    <2>4. CASE Handed(whole)
      BY <1>b, <2>2, <2>4 DEF EmitsThere, Handed
    <2>5. CASE ~Handed(whole)
      BY <1>b, <2>1, <2>2, <2>3, <2>5 DEF EmitsThere
    <2> QED BY <2>4, <2>5
  <1>10. CASE parse_object_stop
    BY <1>10, <1>b, ObjectStopEffect DEF EmitsThere
  <1>11. CASE QuietStep
    BY <1>11, <1>b, QuietEffect DEF EmitsThere
  <1> QED BY <1>1, <1>2, <1>3, <1>4, <1>5, <1>6, <1>7, <1>8, <1>9, <1>10, <1>11, EffectsAre

-----------------------------------------------------------------------------
\* object_depth counts the objects among the frames.
LEMMA DepthPushed ==
  ASSUME NEW f \in Seq(Frames), NEW x \in Frames
  PROVE  /\ IsFiniteSet(Objects(f)) /\ Cardinality(Objects(f)) \in Nat
         /\ Cardinality(Objects(<<x>> \o f))
              = IF x.of = "object" THEN Cardinality(Objects(f)) + 1 ELSE Cardinality(Objects(f))
  <1> DEFINE g == <<x>> \o f
             n == Len(f)
  <1>1. /\ Len(g) = n + 1 /\ g[1] = x /\ n \in Nat /\ \A i \in 1..n : g[i + 1] = f[i]
    BY Pushed, LenProperties
  <1> HIDE DEF g, n
  <1>2. IsFiniteSet(Objects(f)) /\ Cardinality(Objects(f)) \in Nat
    <2>1. Objects(f) \in SUBSET (1..n) /\ 1 \in Int /\ n \in Int
      BY <1>1 DEF Objects, n
    <2>2. IsFiniteSet(1..n)
      BY <2>1, FS_Interval
    <2> QED BY <2>1, <2>2, FS_Subset, FS_CardinalityType
  <1>3. \A d \in 1..n : g[n + 2 - d] = f[n + 1 - d]
    <2> TAKE d \in 1..n
    <2>1. n + 1 - d \in 1..n /\ n + 2 - d = (n + 1 - d) + 1
      BY <1>1
    <2> QED BY <1>1, <2>1
  <1>4. Objects(g) = IF x.of = "object" THEN Objects(f) \cup {n + 1} ELSE Objects(f)
    <2>1. Objects(g) = {d \in 1..(n + 1) : g[n + 2 - d].of = "object"}
      BY <1>1 DEF Objects
    <2>2. Objects(f) = {d \in 1..n : f[n + 1 - d].of = "object"}
      BY DEF Objects, n
    <2>3. g[n + 2 - (n + 1)] = x
      BY <1>1
    <2>4. 1..(n + 1) = (1..n) \cup {n + 1}
      BY <1>1
    <2> QED BY <1>3, <2>1, <2>2, <2>3, <2>4
  <1>5. n + 1 \notin Objects(f)
    BY <1>1 DEF Objects, n
  <1> QED BY <1>2, <1>4, <1>5, FS_AddElement DEF g

\* Frames are the one on top and the others.
LEMMA TopAndOthers ==
  ASSUME NEW S, NEW f \in Seq(S), f # <<>>
  PROVE  /\ f[1] \in S /\ Tail(f) \in Seq(S) /\ f = <<f[1]>> \o Tail(f)
         /\ Len(f) \in Nat /\ Len(Tail(f)) = Len(f) - 1
         /\ \A i \in 1..(Len(f) - 1) : Tail(f)[i] = f[i + 1]
         /\ Tail(f) # <<>> <=> Len(f) > 1
  <1>1. Len(f) \in Nat \ {0}
    BY EmptySeq
  <1>2. f[1] \in S
    BY <1>1, ElementOfSeq
  <1>3. /\ Tail(f) \in Seq(S) /\ Len(Tail(f)) = Len(f) - 1
        /\ \A i \in 1..Len(Tail(f)) : Tail(f)[i] = f[i + 1]
    BY HeadTailProperties
  <1>4. Tail(f) # <<>> <=> Len(f) > 1
    <2>1. Tail(f) = <<>> => Len(Tail(f)) = 0
      BY EmptySeq
    <2>2. Tail(f) # <<>> => Len(Tail(f)) \in Nat \ {0}
      BY <1>3, EmptySeq
    <2> QED BY <1>1, <1>3, <2>1, <2>2
  <1> DEFINE t == Tail(f)
             g == <<f[1]>> \o t
  <1>5. f = g
    <2>1. /\ g \in Seq(S) /\ Len(g) = Len(t) + 1 /\ g[1] = f[1]
          /\ \A i \in 1..Len(t) : g[i + 1] = t[i]
      BY <1>2, <1>3, Pushed
    <2> HIDE DEF g
    <2>2. ASSUME NEW i \in 1..Len(f) PROVE f[i] = g[i]
      <3>1. CASE i = 1
        BY <2>1, <3>1
      <3>2. CASE i # 1
        <4>1. i - 1 \in 1..Len(t) /\ (i - 1) + 1 = i
          BY <1>1, <1>3, <3>2
        <4> QED BY <1>3, <2>1, <4>1
      <3> QED BY <3>1, <3>2
    <2>3. Len(f) = Len(g)
      BY <1>1, <1>3, <2>1
    <2> QED BY <2>1, <2>2, <2>3, SeqEqual
  <1> QED BY <1>1, <1>2, <1>3, <1>4, <1>5

LEMMA DepthPopped ==
  ASSUME NEW f \in Seq(Frames), f # <<>>
  PROVE  /\ Cardinality(Objects(f)) \in Nat /\ Cardinality(Objects(Tail(f))) \in Nat
         /\ Cardinality(Objects(f))
              = IF f[1].of = "object" THEN Cardinality(Objects(Tail(f))) + 1
                ELSE Cardinality(Objects(Tail(f)))
         /\ \A i \in 1..Len(f) : i > 1 /\ f[i].of = "object" => Cardinality(Objects(Tail(f))) > 0
  <1> DEFINE t == Tail(f)
  <1>1. /\ f[1] \in Frames /\ t \in Seq(Frames) /\ f = <<f[1]>> \o t
        /\ Len(f) \in Nat /\ Len(t) = Len(f) - 1
        /\ \A i \in 1..(Len(f) - 1) : t[i] = f[i + 1]
    BY TopAndOthers
  <1> HIDE DEF t
  <1>2. /\ IsFiniteSet(Objects(t)) /\ Cardinality(Objects(t)) \in Nat
        /\ Cardinality(Objects(<<f[1]>> \o t))
             = IF f[1].of = "object" THEN Cardinality(Objects(t)) + 1 ELSE Cardinality(Objects(t))
    BY <1>1, DepthPushed
  <1>3. ASSUME NEW i \in 1..Len(f), i > 1, f[i].of = "object" PROVE Cardinality(Objects(t)) > 0
    <2> DEFINE d == Len(t) + 1 - (i - 1)
    <2>1. d \in 1..Len(t) /\ Len(t) + 1 - d = i - 1 /\ t[i - 1] = f[i]
      <3>1. i - 1 \in 1..(Len(f) - 1) /\ (i - 1) + 1 = i
        BY <1>1, <1>3
      <3> QED BY <1>1, <3>1
    <2>2. d \in Objects(t)
      BY <1>3, <2>1 DEF Objects
    <2>3. Cardinality(Objects(t)) # 0
      BY <1>2, <2>2, FS_EmptySet, Zenon
    <2>4. Cardinality(Objects(t)) \in Nat
      BY <1>2
    <2> QED BY <2>3, <2>4
  <1>4. Objects(<<f[1]>> \o t) = Objects(f)
    BY <1>1, Zenon
  <1>5. /\ Cardinality(Objects(f)) \in Nat /\ Cardinality(Objects(t)) \in Nat
        /\ Cardinality(Objects(f))
             = IF f[1].of = "object" THEN Cardinality(Objects(t)) + 1 ELSE Cardinality(Objects(t))
    BY <1>2, <1>4
  <1> QED BY <1>3, <1>5, Zenon DEF t

LEMMA DepthBumped ==
  ASSUME NEW f \in Seq(Frames), f # <<>>, f[1].of # "item",
         NEW g, g = [f EXCEPT ![1].n = @ + 1]
  PROVE  Objects(g) = Objects(f) /\ (Nested(f) => Nested(g))
  <1>1. /\ Len(g) = Len(f) /\ g[1].of = f[1].of /\ \A i \in 2..Len(f) : g[i] = f[i]
        /\ Len(f) \in Nat
    BY Bumped, LenProperties
  <1>2. \A i \in 1..Len(f) : g[i].of = f[i].of
    <2> TAKE i \in 1..Len(f)
    <2>1. CASE i = 1
      BY <1>1, <2>1
    <2>2. CASE i # 1
      <3>1. i \in 2..Len(f)
        BY <1>1, <2>2
      <3> QED BY <1>1, <3>1
    <2> QED BY <2>1, <2>2
  <1>3. \A d \in 1..Len(f) : Len(f) + 1 - d \in 1..Len(f)
    BY <1>1
  <1>4. Objects(g) = Objects(f)
    BY <1>1, <1>2, <1>3 DEF Objects
  <1>5. ASSUME Nested(f) PROVE Nested(g)
    <2> SUFFICES ASSUME NEW i \in 1..Len(f)
                 PROVE  /\ g[i].of = "item" => i < Len(f) /\ g[i + 1].of = "object" /\ g[i + 1].n > 0
                        /\ g[i].of # "item" /\ i < Len(f) => g[i + 1].of \in {"item", "array"}
      BY <1>1 DEF Nested
    <2>1. /\ f[i].of = "item" => i < Len(f) /\ f[i + 1].of = "object" /\ f[i + 1].n > 0
          /\ f[i].of # "item" /\ i < Len(f) => f[i + 1].of \in {"item", "array"}
      BY <1>5 DEF Nested
    <2>2. i < Len(f) => g[i + 1] = f[i + 1]
      <3>1. i < Len(f) => i + 1 \in 2..Len(f)
        BY <1>1
      <3> QED BY <1>1, <3>1
    <2> QED BY <1>2, <2>1, <2>2
  <1> QED BY <1>4, <1>5

LEMMA NestedPushed ==
  ASSUME NEW f \in Seq(Frames), NEW x \in Frames, Nested(f),
         x.of = "item" => f # <<>> /\ f[1].of = "object" /\ f[1].n > 0,
         x.of # "item" /\ f # <<>> => f[1].of \in {"item", "array"}
  PROVE  Nested(<<x>> \o f)
  <1> DEFINE g == <<x>> \o f
             n == Len(f)
  <1>1. /\ Len(g) = n + 1 /\ g[1] = x /\ n \in Nat /\ \A i \in 1..n : g[i + 1] = f[i]
        /\ f # <<>> => n > 0
        /\ f = <<>> => n = 0
    BY Pushed, LenProperties, EmptySeq
  <1> HIDE DEF g, n
  <1> SUFFICES ASSUME NEW i \in 1..(n + 1)
               PROVE  /\ g[i].of = "item" => i < n + 1 /\ g[i + 1].of = "object" /\ g[i + 1].n > 0
                      /\ g[i].of # "item" /\ i < n + 1 => g[i + 1].of \in {"item", "array"}
    BY <1>1 DEF Nested, g
  <1>2. CASE i = 1
    <2>1. n > 0 => 1 \in 1..n /\ g[1 + 1] = f[1]
      BY <1>1
    <2> QED BY <1>1, <1>2, <2>1
  <1>3. CASE i # 1
    <2> DEFINE j == i - 1
    <2>1. j \in 1..n /\ j + 1 = i
      BY <1>1, <1>3
    <2>2. g[i] = f[j]
      BY <1>1, <2>1
    <2>3. j < n => g[i + 1] = f[j + 1]
      <3>1. j < n => i \in 1..n
        BY <1>1, <2>1
      <3> QED BY <1>1, <2>1, <3>1
    <2>4. /\ f[j].of = "item" => j < n /\ f[j + 1].of = "object" /\ f[j + 1].n > 0
          /\ f[j].of # "item" /\ j < n => f[j + 1].of \in {"item", "array"}
      BY <2>1 DEF Nested, n
    <2>5. (i < n + 1) = (j < n)
      BY <1>1
    <2> HIDE DEF j
    <2> QED BY <2>2, <2>3, <2>4, <2>5
  <1> QED BY <1>2, <1>3

LEMMA NestedPopped ==
  ASSUME NEW f \in Seq(Frames), f # <<>>, Nested(f) PROVE Nested(Tail(f))
  <1> DEFINE t == Tail(f)
  <1>1. /\ Len(f) \in Nat /\ Len(t) = Len(f) - 1
        /\ \A i \in 1..(Len(f) - 1) : t[i] = f[i + 1]
    BY TopAndOthers
  <1> HIDE DEF t
  <1> SUFFICES ASSUME NEW i \in 1..(Len(f) - 1)
               PROVE  /\ t[i].of = "item" => i < Len(f) - 1 /\ t[i + 1].of = "object" /\ t[i + 1].n > 0
                      /\ t[i].of # "item" /\ i < Len(f) - 1 => t[i + 1].of \in {"item", "array"}
    BY <1>1 DEF Nested, t
  <1> DEFINE j == i + 1
  <1>2. j \in 1..Len(f) /\ (i < Len(f) - 1) = (j < Len(f)) /\ t[i] = f[j]
    BY <1>1
  <1>3. i < Len(f) - 1 => t[i + 1] = f[j + 1]
    <2>1. i < Len(f) - 1 => i + 1 \in 1..(Len(f) - 1)
      BY <1>1
    <2> QED BY <1>1, <2>1
  <1>4. /\ f[j].of = "item" => j < Len(f) /\ f[j + 1].of = "object" /\ f[j + 1].n > 0
        /\ f[j].of # "item" /\ j < Len(f) => f[j + 1].of \in {"item", "array"}
    BY <1>2 DEF Nested
  <1> HIDE DEF j
  <1> QED BY <1>2, <1>3, <1>4

LEMMA NextFramesNested == VisitorTyped /\ FramesNested /\ [VisitorNext]_visitor => FramesNested'
  <1> SUFFICES ASSUME VisitorTyped, FramesNested, [VisitorNext]_visitor, Open' PROVE FramesNested'
    BY DEF FramesNested
  <1>a. frames \in Seq(Frames) /\ v \in Visitors /\ v.object_depth \in Int
    BY DEF VisitorTyped, Visitors
  <1> DEFINE depth(f) == Cardinality(Objects(f))
  <1>b. Open => Nested(frames) /\ v.object_depth = depth(frames)
    BY DEF FramesNested
  <1>c. mode = "value" /\ frames # <<>> => Top.of \in {"item", "array"}
    <2>1. frames # <<>> => frames[1] \in Frames
      BY <1>a, TopAndOthers
    <2>2. frames # <<>> => Top.of \in {"item", "array", "object"}
      BY <2>1 DEF Frames, Containing, Items, Top
    <2> QED BY <2>2 DEF FramesNested, Open
  <1>1. CASE UNCHANGED visitor
    BY <1>1 DEF FramesNested, visitor, Open, Top
  <1>2. CASE parse_stream
    <2>1. Nested(<<>>) /\ Objects(<<>>) = {} /\ Cardinality({}) = 0
      BY EmptySeq, FS_EmptySet DEF Nested, Objects
    <2> QED BY <1>2, <2>1, BeginEffect DEF FramesNested
  <1>3. CASE ScalarRead \/ StringCut
    <2>1. Open /\ mode' # "value" /\ frames' = frames /\ v'.object_depth = v.object_depth
      BY <1>3, ScalarStep DEF Open
    <2> QED BY <1>b, <2>1 DEF FramesNested
  <1>4. CASE parse_array_start
    <2> DEFINE x == [of |-> "array", n |-> 0]
    <2>1. /\ mode = "value" /\ mode' # "value" /\ x \in Frames /\ frames' = <<x>> \o frames
          /\ v'.object_depth = v.object_depth
      BY <1>4, ArrayStartStep
    <2>2. Nested(frames)
      BY <1>b, <2>1 DEF Open
    <2>3. Nested(frames')
      BY <1>a, <1>c, <2>1, <2>2, NestedPushed DEF Top
    <2>4. depth(frames') = depth(frames)
      BY <1>a, <2>1, DepthPushed
    <2> QED BY <1>b, <2>1, <2>3, <2>4 DEF FramesNested, Open
  <1>5. CASE parse_array_item
    <2>1. /\ mode = "after" /\ frames # <<>> /\ Top.of = "array"
          /\ frames' = [frames EXCEPT ![1].n = @ + 1]
          /\ v'.object_depth = v.object_depth
      BY <1>5, ArrayItemStep
    <2>2. Nested(frames') /\ Objects(frames') = Objects(frames)
      BY <1>a, <1>b, <2>1, DepthBumped DEF Open, Top
    <2>3. Top'.of # "object"
      BY <1>a, <2>1, Bumped DEF Top
    <2> QED BY <1>b, <2>1, <2>2, <2>3 DEF FramesNested, Open
  <1>6. CASE parse_array_stop
    <2>1. /\ mode = "after" /\ mode' = "after" /\ frames # <<>> /\ frames[1].of = "array"
          /\ frames' = Tail(frames) /\ v'.object_depth = v.object_depth
      BY <1>6, ArrayStopStep DEF Top
    <2>2. Nested(frames') /\ depth(frames') = depth(frames)
      BY <1>a, <1>b, <2>1, NestedPopped, DepthPopped DEF Open
    <2> QED BY <1>b, <2>1, <2>2 DEF FramesNested, Open
  <1>7. CASE parse_object_start
    <2> DEFINE x == [of |-> "object", n |-> 0]
    <2>1. /\ mode = "value" /\ mode' # "value" /\ x \in Frames /\ frames' = <<x>> \o frames
          /\ v'.object_depth = v.object_depth + 1
      BY <1>7, ObjectStartStep
    <2>2. Nested(frames)
      BY <1>b, <2>1 DEF Open
    <2>3. Nested(frames')
      BY <1>a, <1>c, <2>1, <2>2, NestedPushed DEF Top
    <2>4. depth(frames') = depth(frames) + 1
      BY <1>a, <2>1, DepthPushed
    <2> QED BY <1>b, <2>1, <2>3, <2>4 DEF FramesNested, Open
  <1>8. ASSUME NEW key \in Keys, parse_object_item(key) PROVE FramesNested'
    <2> DEFINE g == [frames EXCEPT ![1].n = @ + 1]
               x == KeyFrame(key)
    <2>1. /\ mode = "after" /\ frames # <<>> /\ Top.of = "object"
          /\ x \in Frames /\ frames' = <<x>> \o g /\ v'.object_depth = v.object_depth
      BY <1>8, KeyEffect
    <2>2. x.of = "item"
      BY DEF KeyFrame
    <2>3. /\ g \in Seq(Frames) /\ g[1].of = "object" /\ g[1].n > 0 /\ Len(g) = Len(frames)
          /\ Len(frames) \in Nat \ {0}
      <3>1. Len(frames) \in Nat \ {0}
        BY <1>a, <2>1, EmptySeq
      <3>2. /\ g \in Seq(Frames) /\ Len(g) = Len(frames) /\ frames[1].n \in Nat
            /\ g[1].of = frames[1].of /\ g[1].n = frames[1].n + 1
        BY <1>a, <2>1, Bumped DEF Top
      <3> QED BY <2>1, <3>1, <3>2 DEF Top
    <2>4. Nested(g) /\ Objects(g) = Objects(frames)
      BY <1>a, <1>b, <2>1, DepthBumped DEF Open, Top
    <2> HIDE DEF g, x
    <2>5. g # <<>>
      BY <2>3, EmptySeq
    <2>6. Nested(frames')
      BY <2>1, <2>2, <2>3, <2>4, <2>5, NestedPushed
    <2>7. depth(frames') = depth(g)
      BY <2>1, <2>2, <2>3, DepthPushed
    <2>8. frames'[1] = x
      BY <2>1, <2>3, Pushed
    <2> QED BY <1>b, <2>1, <2>2, <2>4, <2>6, <2>7, <2>8 DEF FramesNested, Open, Top
  <1>9. ASSUME NEW whole \in BOOLEAN, ItemEnds(whole), frames # <<>>, Top.of = "item",
               mode = (IF whole THEN "after" ELSE "failing"), mode' = mode
        PROVE  FramesNested'
    <2>1. mode = "after" /\ mode' = "after"
      BY <1>9 DEF Open
    <2>2. frames' = Tail(frames) /\ v'.object_depth = v.object_depth
      BY <1>9, <2>1, ItemEffect
    <2>3. Nested(frames') /\ depth(frames') = depth(frames)
      BY <1>a, <1>b, <1>9, <2>1, <2>2, NestedPopped, DepthPopped DEF Open, Top
    <2> QED BY <1>b, <2>1, <2>2, <2>3 DEF FramesNested, Open
  <1>10. CASE parse_object_stop
    <2>1. /\ mode = "after" /\ mode' = "after" /\ frames # <<>> /\ frames[1].of = "object"
          /\ frames' = Tail(frames) /\ v'.object_depth = v.object_depth - 1
      BY <1>10, ObjectStopEffect DEF Top
    <2>2. /\ Nested(frames') /\ depth(frames) = depth(frames') + 1
          /\ depth(frames') \in Nat
      BY <1>a, <1>b, <2>1, NestedPopped, DepthPopped DEF Open
    <2> QED BY <1>b, <2>1, <2>2 DEF FramesNested, Open
  <1>11. CASE QuietStep
    BY <1>11, QuietEffect DEF Open
  <1> QED BY <1>1, <1>2, <1>3, <1>4, <1>5, <1>6, <1>7, <1>8, <1>9, <1>10, <1>11, EffectsAre

-----------------------------------------------------------------------------
\* The frames of a document, pushed and popped.
LEMMA DocumentPushed ==
  ASSUME NEW f \in Seq(Frames), NEW x \in Frames, NEW idx \in Int, NEW new \in Int,
         IF f = <<>> THEN x.of = "object" ELSE DocumentFrames(f, idx),
         x.of = "item" => ~x.needs_close_array /\ x.needs_close_object,
         \/ x.of # "array" /\ new = idx
         \/ x.of = "array" /\ x.n = new /\ \A i \in 1..Len(f) : f[i].of # "array"
  PROVE  DocumentFrames(<<x>> \o f, new)
  <1> DEFINE g == <<x>> \o f
             n == Len(f)
  <1>1. /\ g # <<>> /\ Len(g) = n + 1 /\ g[1] = x /\ n \in Nat /\ \A i \in 1..n : g[i + 1] = f[i]
        /\ f # <<>> => n > 0
        /\ f = <<>> => n = 0
    BY Pushed, LenProperties, EmptySeq
  <1> HIDE DEF g, n
  <1>2. g[n + 1].of = "object"
    <2>1. CASE f = <<>>
      BY <1>1, <2>1
    <2>2. CASE f # <<>>
      <3>1. n \in 1..n /\ f[n].of = "object"
        BY <1>1, <2>2 DEF DocumentFrames, n
      <3> QED BY <1>1, <3>1
    <2> QED BY <2>1, <2>2
  <1>3. \A i \in 2..(n + 1) : i - 1 \in 1..n /\ g[i] = f[i - 1]
    <2> TAKE i \in 2..(n + 1)
    <2>1. i - 1 \in 1..n /\ (i - 1) + 1 = i
      BY <1>1
    <2> QED BY <1>1, <2>1
  <1>4. \A i \in 1..n :
          /\ f[i].of = "item" => ~f[i].needs_close_array /\ f[i].needs_close_object
          /\ f[i].of = "array" => f[i].n = idx /\ \A j \in 1..n : f[j].of = "array" => j = i
    <2>1. f = <<>> => 1..n = {}
      BY <1>1
    <2> QED BY <2>1 DEF DocumentFrames, n
  <1>5. ASSUME NEW i \in 1..(n + 1), g[i].of = "item"
        PROVE  ~g[i].needs_close_array /\ g[i].needs_close_object
    <2>1. CASE i = 1
      BY <1>1, <1>5, <2>1
    <2>2. CASE i # 1
      <3>1. i \in 2..(n + 1)
        BY <1>1, <2>2
      <3> QED BY <1>3, <1>4, <1>5, <3>1
    <2> QED BY <2>1, <2>2
  <1>6. ASSUME NEW i \in 1..(n + 1), NEW j \in 1..(n + 1), g[i].of = "array", g[j].of = "array"
        PROVE  j = i /\ g[i].n = new
    <2>1. CASE x.of = "array"
      <3>1. \A k \in 1..n : f[k].of # "array"
        BY <2>1 DEF n
      <3>2. \A k \in 2..(n + 1) : g[k].of # "array"
        BY <1>3, <3>1
      <3>3. i = 1 /\ j = 1
        BY <1>1, <1>6, <3>2
      <3> QED BY <1>1, <2>1, <3>3
    <2>2. CASE x.of # "array"
      <3>1. i \in 2..(n + 1) /\ j \in 2..(n + 1)
        BY <1>1, <1>6, <2>2
      <3>2. /\ i - 1 \in 1..n /\ j - 1 \in 1..n /\ g[i] = f[i - 1] /\ g[j] = f[j - 1]
        BY <1>3, <3>1
      <3>3. f[i - 1].n = idx /\ j - 1 = i - 1
        BY <1>4, <1>6, <3>2
      <3> QED BY <1>1, <2>2, <3>1, <3>2, <3>3
    <2> QED BY <2>1, <2>2
  <1> QED BY <1>1, <1>2, <1>5, <1>6 DEF DocumentFrames, g

LEMMA DocumentPopped ==
  ASSUME NEW f \in Seq(Frames), NEW idx \in Int, NEW new \in Int, DocumentFrames(f, idx),
         f[1].of = "array" \/ new = idx
  PROVE  /\ Tail(f) # <<>> => DocumentFrames(Tail(f), new)
         /\ f[1].of # "object" => Tail(f) # <<>>
         /\ f[1].of = "array" => \A i \in 1..Len(Tail(f)) : Tail(f)[i].of # "array"
  <1> DEFINE t == Tail(f)
             n == Len(f)
  <1>1. /\ n \in Nat /\ n > 0 /\ Len(t) = n - 1 /\ (t # <<>> <=> n > 1)
        /\ \A i \in 1..(n - 1) : t[i] = f[i + 1]
    <2>1. f # <<>>
      BY DEF DocumentFrames
    <2>2. Len(f) \in Nat \ {0}
      BY <2>1, EmptySeq
    <2>3. /\ Len(Tail(f)) = Len(f) - 1 /\ (Tail(f) # <<>> <=> Len(f) > 1)
          /\ \A i \in 1..(Len(f) - 1) : Tail(f)[i] = f[i + 1]
      BY <2>1, TopAndOthers
    <2> QED BY <2>2, <2>3
  <1>2. /\ f[n].of = "object"
        /\ \A i \in 1..n :
             /\ f[i].of = "item" => ~f[i].needs_close_array /\ f[i].needs_close_object
             /\ f[i].of = "array" => f[i].n = idx /\ \A j \in 1..n : f[j].of = "array" => j = i
    BY DEF DocumentFrames
  <1> HIDE DEF n, t
  <1>3. \A i \in 1..(n - 1) : i + 1 \in 1..n
    BY <1>1
  <1>4. ASSUME f[1].of = "array", NEW i \in 1..(n - 1) PROVE t[i].of # "array"
    <2>1. i + 1 \in 1..n /\ 1 \in 1..n /\ i + 1 # 1 /\ t[i] = f[i + 1]
      BY <1>1
    <2> QED BY <1>2, <1>4, <2>1
  <1>5. ASSUME t # <<>> PROVE DocumentFrames(t, new)
    <2>1. t[n - 1].of = "object"
      <3>1. n - 1 \in 1..(n - 1) /\ (n - 1) + 1 = n
        BY <1>1, <1>5
      <3> QED BY <1>1, <1>2, <3>1
    <2>2. ASSUME NEW i \in 1..(n - 1), t[i].of = "item"
          PROVE  ~t[i].needs_close_array /\ t[i].needs_close_object
      BY <1>1, <1>2, <1>3, <2>2
    <2>3. ASSUME NEW i \in 1..(n - 1), t[i].of = "array" PROVE t[i].n = new
      BY <1>1, <1>2, <1>3, <1>4, <2>3
    <2>4. ASSUME NEW i \in 1..(n - 1), NEW j \in 1..(n - 1), t[i].of = "array", t[j].of = "array"
          PROVE  j = i
      <3>1. i + 1 \in 1..n /\ j + 1 \in 1..n /\ f[i + 1].of = "array" /\ f[j + 1].of = "array"
        BY <1>1, <1>3, <2>4
      <3>2. j + 1 = i + 1
        BY <1>2, <3>1
      <3> QED BY <1>1, <3>2
    <2> QED BY <1>1, <1>5, <2>1, <2>2, <2>3, <2>4 DEF DocumentFrames
  <1>6. f[1].of # "object" => t # <<>>
    <2>1. n = 1 => f[1].of = "object"
      BY <1>2
    <2> QED BY <1>1, <2>1
  <1> QED BY <1>1, <1>4, <1>5, <1>6 DEF t

LEMMA DocumentBumped ==
  ASSUME NEW f \in Seq(Frames), NEW idx \in Int, NEW new \in Int, DocumentFrames(f, idx),
         NEW g, g = [f EXCEPT ![1].n = @ + 1],
         \/ f[1].of = "object" /\ new = idx
         \/ f[1].of = "array" /\ new = idx + 1
  PROVE  DocumentFrames(g, new)
  <1> DEFINE n == Len(f)
  <1>1. f # <<>> /\ n \in Nat /\ n > 0
    <2>1. f # <<>>
      BY DEF DocumentFrames
    <2>2. Len(f) \in Nat \ {0}
      BY <2>1, EmptySeq
    <2> QED BY <2>1, <2>2
  <1>2. /\ f[n].of = "object"
        /\ \A i \in 1..n :
             /\ f[i].of = "item" => ~f[i].needs_close_array /\ f[i].needs_close_object
             /\ f[i].of = "array" => f[i].n = idx /\ \A j \in 1..n : f[j].of = "array" => j = i
    BY DEF DocumentFrames
  <1>3. /\ g \in Seq(Frames) /\ Len(g) = n /\ g[1].of = f[1].of /\ g[1].n = f[1].n + 1
        /\ \A i \in 2..n : g[i] = f[i]
    BY <1>1, Bumped
  <1>4. g # <<>>
    BY <1>1, <1>3, EmptySeq
  <1> HIDE DEF n
  <1>5. \A i \in 1..n : i = 1 \/ i \in 2..n
    BY <1>1
  <1>6. \A i \in 1..n : g[i].of = f[i].of
    BY <1>3, <1>5
  <1>7. ASSUME NEW i \in 1..n, g[i].of = "item"
        PROVE  ~g[i].needs_close_array /\ g[i].needs_close_object
    <2>1. i # 1
      BY <1>3, <1>7
    <2>2. g[i] = f[i]
      BY <1>3, <1>5, <2>1
    <2> QED BY <1>2, <1>7, <2>2
  <1>8. ASSUME NEW i \in 1..n, g[i].of = "array" PROVE g[i].n = new
    <2>1. f[i].of = "array" /\ f[i].n = idx /\ \A j \in 1..n : f[j].of = "array" => j = i
      BY <1>2, <1>6, <1>8
    <2>2. CASE i = 1
      BY <1>3, <2>1, <2>2
    <2>3. CASE i # 1
      <3>1. g[i] = f[i]
        BY <1>3, <1>5, <2>3
      <3>2. 1 \in 1..n
        BY <1>1
      <3>3. f[1].of # "array"
        BY <2>1, <2>3, <3>2
      <3> QED BY <2>1, <3>1, <3>3
    <2> QED BY <2>2, <2>3
  <1>9. ASSUME NEW i \in 1..n, NEW j \in 1..n, g[i].of = "array", g[j].of = "array" PROVE j = i
    BY <1>2, <1>6, <1>9
  <1>10. g[n].of = "object"
    <2>1. n \in 1..n
      BY <1>1
    <2> QED BY <1>2, <1>6, <2>1
  <1> QED BY <1>3, <1>4, <1>7, <1>8, <1>9, <1>10 DEF DocumentFrames

\* A frame that there is.
LEMMA TopHere ==
  ASSUME VisitorTyped, frames # <<>>
  PROVE  /\ Len(frames) \in Nat /\ Len(frames) > 0 /\ 1 \in 1..Len(frames)
         /\ Top = frames[1] /\ Top \in Frames /\ Top.of \in {"item", "array", "object"}
         /\ Top.of # "item" => Top.n \in Nat
         /\ frames \in Seq(Frames)
  <1>1. frames \in Seq(Frames)
    BY DEF VisitorTyped
  <1>2. Len(frames) \in Nat \ {0}
    BY <1>1, EmptySeq
  <1>3. Top = frames[1] /\ Top \in Frames
    BY <1>1, <1>2, ElementOfSeq DEF Top
  <1>4. Top.of \in {"item", "array", "object"} /\ (Top.of # "item" => Top.n \in Nat)
    BY <1>3, FrameKinds
  <1> QED BY <1>1, <1>2, <1>3, <1>4

LEMMA Positive == ASSUME NEW n \in Nat
                 PROVE  (n = 0 \/ n > 0) /\ (n > 0 => n # 0) /\ (n > 1 => n # 1) /\ ~(0 > 0)
  OBVIOUS

LEMMA ConcatThrice ==
  ASSUME NEW S, NEW a \in Seq(S), NEW b \in Seq(S), NEW c \in Seq(S)
  PROVE  (a \o b) \o c = a \o (b \o c)
  BY ConcatAssociative

LEMMA TokensThrice ==
  \A a, b, c \in Seq(Tokens) : (a \o b) \o c = a \o (b \o c)
  BY ConcatThrice

\* What a key adds to the text and to the document, when no element begins with it.
LEMMA KeyWritten ==
  ASSUME NEW key \in Keys, NEW s \in Seq(Tokens), NEW r \in Seq(Tokens), NEW n \in Nat,
         v.needs_close_object <=> n > 0, r = IF n = 0 THEN s \o <<"{">> ELSE s
  PROVE  r \o ((IF n > 0 THEN <<",">> ELSE <<>>) \o <<key, ":">>) = s \o PlainKeyText(FALSE, key)
  <1> DEFINE k == <<key, ":">>
  <1>1. k \in Seq(Tokens) /\ <<"{">> \in Seq(Tokens)
    BY PiecesTyped
  <1>2. PlainKeyText(FALSE, key) = (IF v.needs_close_object THEN <<",">> ELSE <<"{">>) \o k
    BY DEF PlainKeyText
  <1> HIDE DEF k
  <1>n. ~(0 > 0) /\ (n > 0 => n # 0)
    BY Positive, Zenon
  <1>3. CASE n = 0
    <2>0. ~(n > 0)
      BY <1>n, <1>3, Zenon
    <2>1. ~v.needs_close_object /\ ~(n > 0)
      BY <2>0, Zenon
    <2>2. r = s \o <<"{">>
      BY <1>3, Zenon
    <2>3. PlainKeyText(FALSE, key) = <<"{">> \o k
      BY <1>2, <2>1, Zenon
    <2>4. (IF n > 0 THEN <<",">> ELSE <<>>) \o k = k
      <3>1. <<>> \o k = k
        BY <1>1, ConcatEmptySeq
      <3> QED BY <2>1, <3>1, Zenon
    <2>5. (s \o <<"{">>) \o k = s \o (<<"{">> \o k)
      <3> DEFINE b == <<"{">>
      <3>1. s \in Seq(Tokens) /\ k \in Seq(Tokens) /\ b \in Seq(Tokens)
        BY <1>1, Zenon
      <3> HIDE DEF b
      <3>2. (s \o b) \o k = s \o (b \o k)
        BY ONLY <3>1, TokensThrice, Zenon
      <3> QED BY <3>2, Zenon DEF b
    <2>6. r \o ((IF n > 0 THEN <<",">> ELSE <<>>) \o k) = s \o PlainKeyText(FALSE, key)
      BY <2>2, <2>3, <2>4, <2>5, Zenon
    <2> QED BY <2>6 DEF k
  <1>4. CASE n > 0
    <2>1. v.needs_close_object
      BY <1>4
    <2>2. r = s
      BY <1>n, <1>4, Zenon
    <2>3. PlainKeyText(FALSE, key) = <<",">> \o k
      BY <1>2, <2>1, Zenon
    <2>4. r \o ((IF n > 0 THEN <<",">> ELSE <<>>) \o k) = s \o PlainKeyText(FALSE, key)
      BY <1>4, <2>2, <2>3, Zenon
    <2> QED BY <2>4 DEF k
  <1>5. n = 0 \/ n > 0
    BY Positive, Zenon
  <1> QED BY <1>3, <1>4, <1>5, Zenon

\* Below the document's own object output is on.
LEMMA EmitsInside ==
  ASSUME VisitorTyped, frames # <<>>, InDocument, Len(frames) > 1
  PROVE  v.emit_json
  <1>1. Len(frames) # 1
    <2>1. Len(frames) \in Nat
      BY TopHere
    <2>2. Len(frames) > 1
      OBVIOUS
    <2> QED BY <2>1, <2>2, Positive, Zenon
  <1> QED BY <1>1, Zenon DEF InDocument

LEMMA InitWholeShape == VisitorInit => WholeShape /\ EmitsThere /\ FramesNested /\ ItemShape /\ CutShape
  BY DEF VisitorInit, WholeShape, EmitsThere, FramesNested, ItemShape, CutShape, Open

LEMMA NextWholeShape ==
  VisitorTyped /\ EmitsThere /\ FramesNested /\ WholeShape /\ [VisitorNext]_visitor => WholeShape'
  <1> SUFFICES ASSUME VisitorTyped, EmitsThere, FramesNested, WholeShape, [VisitorNext]_visitor,
                      Open', root_path' = <<>>, plain'
               PROVE  IF frames' = <<>> THEN mode' = "after" \/ BeforeDocument' ELSE InDocument'
    BY DEF WholeShape
  <1>a. /\ frames \in Seq(Frames) /\ v.array_idx \in Int /\ v.ss \in Seq(Tokens)
        /\ raw \in Seq(Tokens) /\ v.emit_json \in BOOLEAN
        /\ v.needs_close_object \in BOOLEAN
    BY DEF VisitorTyped, Visitors
  <1>b. /\ <<"{">> \in Seq(Tokens) /\ <<"[">> \in Seq(Tokens) /\ <<",">> \in Seq(Tokens)
        /\ <<>> \in Seq(Tokens)
    <2>1. "{" \in Tokens /\ "[" \in Tokens /\ "," \in Tokens
      BY DEF Tokens, Punctuation
    <2> QED BY <2>1, TextsTyped, Zenon
  <1>c. Open => Nested(frames) /\ v.object_depth = Cardinality(Objects(frames))
    BY DEF FramesNested
  <1>d. frames # <<>> => /\ Len(frames) \in Nat /\ Len(frames) > 0 /\ 1 \in 1..Len(frames)
                         /\ Top = frames[1] /\ Top \in Frames /\ Top.of \in {"item", "array", "object"}
                         /\ Top.of # "item" => Top.n \in Nat
    BY TopHere
  <1>e. Open /\ frames # <<>> /\ Top.of = "item" =>
          Len(frames) > 1 /\ frames[2].of = "object" /\ frames[2].n > 0
    BY <1>c, <1>d DEF Nested, Top
  <1>f. Open /\ frames # <<>> /\ Top.of # "item" /\ Len(frames) > 1 => frames[2].of \in {"item", "array"}
    BY <1>c, <1>d DEF Nested, Top
  <1>g. ASSUME InDocument, frames # <<>>, Top.of = "array" PROVE Len(frames) > 1
    <2>1. Len(frames) = 1 => frames[1].of = "object"
      BY <1>g DEF InDocument, DocumentFrames
    <2>2. Len(frames) # 1
      BY <1>g, <2>1 DEF Top
    <2> QED BY <1>d, <1>g, <2>2
  \* Where a value comes next, the frames are an item's or an array's.
  <1>v. ASSUME mode = "value", frames # <<>>, InDocument
        PROVE  /\ Top.of \in {"item", "array"} /\ Len(frames) > 1 /\ v.emit_json
               /\ ~v.needs_close_object /\ raw = v.ss
    <2>1. Top.of \in {"item", "array"}
      <3>1. Top.of # "object"
        BY <1>v DEF FramesNested, Open
      <3> QED BY <1>v, <1>d, <3>1
    <2>2. Len(frames) > 1
      BY <1>v, <1>d, <1>e, <1>g, <2>1 DEF Open
    <2>4. v.emit_json
      BY <1>v, <2>2, EmitsInside
    <2> QED BY <1>v, <2>1, <2>2, <2>4 DEF InDocument
  <1>1. CASE UNCHANGED visitor
    <2>1. UNCHANGED <<v, call, frames, mode, raw, plain>>
      BY <1>1 DEF visitor
    <2> QED BY <2>1 DEF WholeShape, BeforeDocument, InDocument, DocumentFrames, Open, root_path, Top
  <1>2. CASE parse_stream
    BY <1>2, BeginEffect DEF BeforeDocument
  <1>3. CASE ScalarRead \/ StringCut
    <2>1. /\ mode = "value" /\ mode' = "after" /\ frames' = frames /\ plain /\ root_path = <<>>
          /\ Stays(v, v') /\ v'.array_idx = v.array_idx
      BY <1>3, ScalarStep DEF Open
    <2>3. PICK x \in Scalars :
            /\ v'.ss = IF v.emit_json THEN v.ss \o <<x>> ELSE v.ss
            /\ raw' = raw \o <<x>>
      BY <1>3, ScalarStep
    <2>2. CASE frames # <<>>
      <3>1. InDocument
        BY <2>1, <2>2 DEF WholeShape, Open
      <3>2. /\ Top.of \in {"item", "array"} /\ Len(frames) > 1 /\ v.emit_json
            /\ ~v.needs_close_object /\ raw = v.ss
        BY <2>1, <2>2, <3>1, <1>v
      <3>3. Top' = Top /\ raw' = v'.ss
        BY <2>1, <2>3, <3>2 DEF Top
      <3> QED BY <2>1, <2>2, <3>1, <3>2, <3>3, <1>d DEF InDocument, Stays
    <2> QED BY <2>1, <2>2
  <1>4. CASE parse_array_start
    <2> DEFINE x == [of |-> "array", n |-> 0]
    <2>1. /\ mode = "value" /\ mode' = "after" /\ x \in Frames /\ frames' = <<x>> \o frames
          /\ plain /\ frames # <<>> /\ \A i \in DOMAIN frames : frames[i].of # "array"
          /\ Stays(v, v') /\ v'.array_idx = 0 /\ root_path = <<>>
          /\ v'.ss = IF v.emit_json THEN v.ss \o <<"[">> ELSE v.ss
          /\ raw' = raw \o <<"[">>
      BY <1>4, ArrayStartStep
    <2>2. InDocument
      BY <2>1 DEF WholeShape, Open
    <2>3. /\ Len(frames) > 1 /\ v.emit_json /\ ~v.needs_close_object /\ raw = v.ss
      BY <2>1, <2>2, <1>v
    <2>4. DocumentFrames(frames', v'.array_idx)
      <3>1. \A i \in 1..Len(frames) : frames[i].of # "array"
        BY <1>a, <2>1, LenProperties
      <3>2. DocumentFrames(frames, v.array_idx)
        BY <2>2 DEF InDocument
      <3> QED BY <1>a, <2>1, <3>1, <3>2, DocumentPushed
    <2>5. Top' = x /\ Len(frames') = Len(frames) + 1 /\ frames' # <<>>
      BY <1>a, <2>1, Pushed DEF Top
    <2> HIDE DEF x
    <2>6. Top'.of = "array"
      BY <2>5 DEF x
    <2>7. v'.emit_json <=> ~(Len(frames') = 1 /\ Top'.n = 0)
      <3>1. v'.emit_json
        BY <2>1, <2>3 DEF Stays
      <3>2. Len(frames) \in Nat
        BY <1>a, LenProperties
      <3>3. Len(frames') # 1
        BY <2>3, <2>5, <3>2
      <3> QED BY <3>1, <3>3
    <2> QED BY <2>1, <2>2, <2>3, <2>4, <2>5, <2>6, <2>7 DEF InDocument, Stays
  <1>5. CASE parse_array_item
    <2> DEFINE text == IF v.array_idx > 0 THEN <<",">> ELSE <<>>
    <2>1. /\ mode = "after" /\ frames # <<>> /\ Top.of = "array"
          /\ frames' = [frames EXCEPT ![1].n = @ + 1]
          /\ plain /\ Stays(v, v') /\ v'.array_idx = v.array_idx + 1 /\ root_path = <<>>
          /\ v'.ss = IF v.emit_json THEN v.ss \o text ELSE v.ss
          /\ raw' = raw \o (IF Top.n > 0 THEN <<",">> ELSE <<>>)
      BY <1>5, ArrayItemStep
    <2>h. /\ frames # <<>> /\ Len(frames) \in Nat /\ Len(frames) > 0 /\ 1 \in 1..Len(frames)
          /\ Top = frames[1] /\ Top \in Frames /\ (Top.of # "item" => Top.n \in Nat)
      <3>1. frames # <<>>
        BY <2>1
      <3> QED BY <3>1, TopHere
    <2>2. InDocument
      BY <2>1 DEF WholeShape, Open
    <2>3. Top.n = v.array_idx
      <3>1. frames[1].of = "array" /\ 1 \in 1..Len(frames)
        BY <2>1, <2>h
      <3> QED BY <2>2, <2>h, <3>1 DEF InDocument, DocumentFrames
    <2>a. Top.of = "array"
      BY <2>1
    <2>b. Len(frames) > 1
      BY <1>g, <2>2, <2>a, <2>h
    <2>c. v.emit_json
      BY <2>2, <2>b, <2>h, EmitsInside
    <2>4. Len(frames) > 1 /\ v.emit_json /\ ~v.needs_close_object /\ raw = v.ss
      BY <2>2, <2>a, <2>b, <2>c DEF InDocument
    <2>5. DocumentFrames(frames', v'.array_idx)
      <3>1. DocumentFrames(frames, v.array_idx) /\ v.array_idx \in Int
        BY <1>a, <2>2 DEF InDocument
      <3>2. frames' = [frames EXCEPT ![1].n = @ + 1] /\ frames[1].of = "array"
        BY <2>1, <2>h
      <3>3. v'.array_idx = v.array_idx + 1
        BY <2>1
      <3>4. v'.array_idx \in Int /\ frames \in Seq(Frames)
        BY <1>a, <3>1, <3>3
      <3>5. v'.array_idx = v.array_idx + 1 /\ frames[1].of = "array"
        BY <3>2, <3>3
      <3> HIDE DEF text
      <3> QED BY <3>1, <3>2, <3>4, <3>5, DocumentBumped
    <2>6. Top'.of = "array" /\ Len(frames') = Len(frames)
      BY <1>a, <2>1, Bumped DEF Top
    <2>7. v'.emit_json <=> ~(Len(frames') = 1 /\ Top'.n = 0)
      <3>1. v'.emit_json
        BY <2>1, <2>4 DEF Stays
      <3>2. Len(frames') # 1
        BY <2>4, <2>6, <2>h
      <3> QED BY <3>1, <3>2
    <2>8. frames' # <<>>
      BY <2>5 DEF DocumentFrames
    <2>9. raw' = v'.ss
      BY <2>1, <2>3, <2>4
    <2> QED BY <2>1, <2>2, <2>4, <2>5, <2>6, <2>7, <2>8, <2>9 DEF InDocument, Stays
  <1>6. CASE parse_array_stop
    <2>1. /\ mode = "after" /\ frames # <<>> /\ Top.of = "array" /\ frames' = Tail(frames)
          /\ plain /\ Stays(v, v') /\ root_path = <<>>
          /\ v'.ss = IF v.emit_json THEN v.ss \o <<"]">> ELSE v.ss
          /\ raw' = raw \o <<"]">> /\ VisitorTyped'
      BY <1>6, ArrayStopStep
    <2>h. /\ frames # <<>> /\ Len(frames) \in Nat /\ Len(frames) > 0 /\ 1 \in 1..Len(frames)
          /\ Top = frames[1] /\ Top \in Frames /\ (Top.of # "item" => Top.n \in Nat)
      <3>1. frames # <<>>
        BY <2>1
      <3> QED BY <3>1, TopHere
    <2>2. InDocument
      BY <2>1 DEF WholeShape, Open
    <2>a. Top.of = "array"
      BY <2>1
    <2>b. Len(frames) > 1
      BY <1>g, <2>2, <2>a, <2>h
    <2>c. v.emit_json
      BY <2>2, <2>b, <2>h, EmitsInside
    <2>3. Len(frames) > 1 /\ v.emit_json /\ ~v.needs_close_object /\ raw = v.ss
      BY <2>2, <2>a, <2>b, <2>c DEF InDocument
    <2>4. /\ DocumentFrames(frames', v'.array_idx) /\ frames' # <<>>
          /\ \A i \in 1..Len(frames') : frames'[i].of # "array"
      <3>1. DocumentFrames(frames, v.array_idx) /\ v'.array_idx \in Int
        BY <2>1, <2>2 DEF InDocument, VisitorTyped, Visitors
      <3> QED BY <1>a, <2>1, <3>1, DocumentPopped DEF Top
    <2>5. frames'[1] = frames[2] /\ Len(frames') = Len(frames) - 1
      BY <1>a, <2>h, <2>1, <2>3, TopAndOthers
    <2>6. Top'.of = "item"
      <3>1. 1 \in 1..Len(frames')
        BY <2>h, <2>3, <2>5
      <3> QED BY <1>f, <2>1, <2>3, <2>4, <2>5, <3>1 DEF Open, Top
    <2>7. Len(frames') > 1
      <3>1. Nested(frames) /\ 2 \in 1..Len(frames)
        BY <1>c, <2>h, <2>1, <2>3 DEF Open
      <3>2. 2 < Len(frames)
        BY <2>5, <2>6, <3>1 DEF Nested, Top
      <3> QED BY <2>h, <2>1, <2>5, <3>2
    <2>8. v'.emit_json <=> ~(Len(frames') = 1 /\ Top'.n = 0)
      <3>1. v'.emit_json
        BY <2>1, <2>3 DEF Stays
      <3>2. Len(frames') # 1
        BY <2>3, <2>5, <2>7, <2>h
      <3> QED BY <3>1, <3>2
    <2> QED BY <2>1, <2>2, <2>3, <2>4, <2>6, <2>8 DEF InDocument, Stays
  <1>7. CASE parse_object_start
    <2> DEFINE x == [of |-> "object", n |-> 0]
    <2>1. /\ mode = "value" /\ mode' = "after" /\ x \in Frames /\ frames' = <<x>> \o frames
          /\ plain /\ Stays(v, v') /\ v'.array_idx = v.array_idx /\ root_path = <<>>
          /\ v'.ss = v.ss /\ raw' = raw \o <<"{">>
      BY <1>7, ObjectStartStep
    <2>2. /\ x.of = "object" /\ x.n = 0
          /\ Top' = x /\ Len(frames') = Len(frames) + 1 /\ frames' # <<>>
      <3>1. x.of = "object" /\ x.n = 0
        OBVIOUS
      <3>2. x \in Frames /\ frames' = <<x>> \o frames
        BY <2>1, Zenon
      <3> HIDE DEF x
      <3> QED BY <1>a, <3>1, <3>2, Pushed DEF Top
    <2> HIDE DEF x
    <2>3. CASE frames = <<>>
      <3>1. BeforeDocument
        BY <2>1, <2>3 DEF WholeShape, Open
      <3>2. DocumentFrames(frames', v'.array_idx)
        BY <1>a, <2>1, <2>2, <2>3, DocumentPushed
      <3>3. raw' = v'.ss \o <<"{">>
        BY <2>1, <3>1 DEF BeforeDocument
      <3>4. Len(frames') = 1
        <4>1. Len(frames) = 0
          BY <2>3
        <4> QED BY <2>2, <4>1
      <3>5. Top'.of = "object" /\ Top'.n = 0 /\ ~(Top'.n > 0)
        BY <2>2
      <3>6. ~v'.emit_json /\ ~v'.needs_close_array /\ ~v'.needs_close_object
        BY <2>1, <3>1 DEF BeforeDocument, Stays
      <3>7. frames' # <<>>
        BY <2>2
      <3> QED BY <3>2, <3>3, <3>4, <3>5, <3>6, <3>7, Zenon DEF InDocument
    <2>4. CASE frames # <<>>
      <3>1. InDocument
        BY <2>1, <2>4 DEF WholeShape, Open
      <3>2. Len(frames) > 1 /\ v.emit_json /\ ~v.needs_close_object /\ raw = v.ss
        BY <2>1, <2>4, <3>1, <1>v
      <3>3. DocumentFrames(frames', v'.array_idx)
        <4>1. DocumentFrames(frames, v.array_idx)
          BY <3>1 DEF InDocument
        <4> QED BY <1>a, <2>1, <2>2, <2>4, <4>1, DocumentPushed
      <3>4. v'.emit_json <=> ~(Len(frames') = 1 /\ Top'.n = 0)
        <4>1. v'.emit_json
          BY <2>1, <3>2 DEF Stays
        <4>2. Len(frames) \in Nat
          BY <1>a, LenProperties
        <4>3. Len(frames') # 1
          BY <2>2, <3>2, <4>2
        <4> QED BY <4>1, <4>3
      <3>5. Top'.of = "object" /\ Top'.n = 0 /\ ~(Top'.n > 0)
        BY <2>2
      <3>6. /\ ~v'.needs_close_array /\ ~v'.needs_close_object
            /\ raw' = v'.ss \o <<"{">>
        BY <2>1, <3>1, <3>2 DEF InDocument, Stays
      <3>7. frames' # <<>>
        BY <2>2
      <3> QED BY <3>3, <3>4, <3>5, <3>6, <3>7, Zenon DEF InDocument
    <2> QED BY <2>3, <2>4
  <1>8. ASSUME NEW key \in Keys, parse_object_item(key)
        PROVE  IF frames' = <<>> THEN mode' = "after" \/ BeforeDocument' ELSE InDocument'
    <2> DEFINE g == [frames EXCEPT ![1].n = @ + 1]
               x == KeyFrame(key)
               tokens == (IF Top.n > 0 THEN <<",">> ELSE <<>>) \o <<key, ":">>
    <2>1. /\ mode = "after" /\ frames # <<>> /\ Top.of = "object"
          /\ x \in Frames /\ frames' = <<x>> \o g /\ root_path = <<>>
          /\ v'.emit_json = KeyEmits(key) /\ v'.array_idx = v.array_idx
          /\ v'.needs_close_array = FALSE /\ v'.needs_close_object = FALSE
          /\ KeyEmits(key) => v'.ss = v.ss \o PlainKeyText(IsKeyed(v.table), key)
          /\ raw' = raw \o tokens /\ plain /\ ~IsKeyed(v.table)
      BY <1>8, KeyEffect
    <2>2. InDocument
      BY <2>1 DEF WholeShape, Open
    <2>3. KeyEmits(key)
      <3>1. Len(KeyPath(key)) \in Nat
        <4>1. v.current_path \in Seq(Keys)
          BY DEF VisitorTyped, Visitors
        <4> QED BY <1>8, <4>1, AppendProperties, LenProperties DEF KeyPath
      <3>2. is_a_subpath(KeyPath(key), root_path)
        <4>1. Len(root_path) = 0 /\ root_path = <<>>
          BY <2>1
        <4>2. \A i \in 1..Len(root_path) : FALSE
          BY <4>1
        <4> QED BY <3>1, <4>1, <4>2 DEF is_a_subpath
      <3> QED BY <3>2 DEF KeyEmits
    <2>4. x.of = "item" /\ ~x.needs_close_array /\ x.needs_close_object
      BY <2>1, <2>2, <2>3 DEF KeyFrame, InDocument
    <2>5. /\ g \in Seq(Frames) /\ Len(g) = Len(frames) /\ Top.n \in Nat
      BY <1>a, <2>1, Bumped DEF Top
    <2>6. DocumentFrames(g, v.array_idx)
      <3>1. DocumentFrames(frames, v.array_idx)
        BY <2>2 DEF InDocument
      <3> QED BY <1>a, <2>1, <3>1, DocumentBumped DEF Top
    <2>7. raw' = v'.ss
      <3>1. (v.needs_close_object <=> Top.n > 0) /\ raw = IF Top.n = 0 THEN v.ss \o <<"{">> ELSE v.ss
        BY <2>1, <2>2 DEF InDocument
      <3>2. raw \o tokens = v.ss \o PlainKeyText(FALSE, key)
        BY <1>8, <1>a, <2>5, <3>1, KeyWritten
      <3>3. IsKeyed(v.table) = FALSE
        BY <2>1 DEF IsKeyed
      <3> QED BY <2>1, <2>3, <3>2, <3>3
    <2> HIDE DEF g, x
    <2>8. DocumentFrames(frames', v'.array_idx)
      <3>1. g # <<>>
        BY <2>6 DEF DocumentFrames
      <3> QED BY <1>a, <2>1, <2>4, <2>5, <2>6, <3>1, DocumentPushed
    <2>9. Top' = x /\ Len(frames') = Len(frames) + 1 /\ frames' # <<>>
      <3>1. x \in Frames /\ frames' = <<x>> \o g
        BY <2>1
      <3> QED BY <2>5, <3>1, Pushed DEF Top
    <2>10. v'.emit_json <=> ~(Len(frames') = 1 /\ Top'.n = 0)
      <3>1. v'.emit_json
        BY <2>1, <2>3
      <3>2. frames # <<>>
        BY <2>1
      <3>3. Len(frames') # 1
        BY <1>d, <2>9, <3>2
      <3> QED BY <3>1, <3>3
    <2> QED BY <2>1, <2>4, <2>7, <2>8, <2>9, <2>10 DEF InDocument
  <1>9. ASSUME NEW whole \in BOOLEAN, ItemEnds(whole), frames # <<>>, Top.of = "item",
               mode = (IF whole THEN "after" ELSE "failing"), mode' = mode
        PROVE  IF frames' = <<>> THEN mode' = "after" \/ BeforeDocument' ELSE InDocument'
    <2>1. mode = "after" /\ mode' = "after" /\ whole = TRUE
      BY <1>9 DEF Open
    <2>h. /\ frames # <<>> /\ Len(frames) \in Nat /\ Len(frames) > 0 /\ 1 \in 1..Len(frames)
          /\ Top = frames[1] /\ Top \in Frames /\ (Top.of # "item" => Top.n \in Nat)
      <3>1. frames # <<>>
        BY <1>9
      <3> QED BY <3>1, TopHere
    <2>2. /\ frames' = Tail(frames) /\ v'.array_idx = v.array_idx /\ root_path = <<>> /\ plain
          /\ v'.needs_close_array = Top.needs_close_array
          /\ v'.needs_close_object = Top.needs_close_object
          /\ \/ v'.emit_json = v.emit_json /\ v'.ss = v.ss /\ raw' = raw
             \/ Handed(whole)
      BY <1>9, <2>1, ItemEffect
    <2>3. ~Handed(whole)
      <3>1. v.current_path \in Paths /\ root_path \in Roots /\ 0 \in Nat
        BY RootsTyped DEF VisitorTyped, Visitors, Paths
      <3>2. Len(Shorter(v)) \in Nat
        BY <3>1, ReachesPopped, LenProperties DEF Paths
      <3>3. is_a_subpath(Shorter(v), root_path)
        BY <2>2, <3>2, EmptySeq DEF is_a_subpath
      <3> QED BY <3>3 DEF Handed
    <2>4. InDocument
      BY <1>9, <2>1, <2>2 DEF WholeShape, Open
    <2>5. Len(frames) > 1 /\ frames[2].of = "object" /\ frames[2].n > 0
      BY <1>9, <1>e, <2>1 DEF Open
    <2>6. ~Top.needs_close_array /\ Top.needs_close_object = TRUE
      <3>1. 1 \in 1..Len(frames)
        BY <1>9, <2>h
      <3>2. Top.needs_close_object \in BOOLEAN
        BY <1>9, <2>h, FrameKinds DEF Items
      <3> QED BY <1>9, <2>4, <3>1, <3>2 DEF InDocument, DocumentFrames, Top
    <2>7. frames' # <<>> /\ DocumentFrames(frames', v'.array_idx)
      <3>1. DocumentFrames(frames, v.array_idx)
        BY <2>4 DEF InDocument
      <3> QED BY <1>9, <1>a, <2>2, <3>1, DocumentPopped DEF Top
    <2>8. Top' = frames[2]
      BY <1>9, <1>a, <2>h, <2>2, <2>5, TopAndOthers DEF Top
    <2>9. v.emit_json /\ raw = v.ss
      <3>1. v.emit_json
        BY <2>4, <2>5, <2>h, EmitsInside
      <3> QED BY <1>9, <2>4, <3>1 DEF InDocument
    <2>10. frames[2].n \in Nat /\ Top'.n # 0
      <3>1. frames[2] \in Frames
        BY <1>a, <2>h, <2>5, ElementOfSeq
      <3>2. frames[2].n \in Nat
        BY <2>5, <3>1, FrameKinds
      <3> QED BY <2>5, <2>8, <3>2
    <2> QED BY <2>2, <2>3, <2>5, <2>6, <2>7, <2>8, <2>9, <2>10 DEF InDocument
  <1>10. CASE parse_object_stop
    <2>1. /\ mode = "after" /\ mode' = "after" /\ frames # <<>> /\ Top.of = "object"
          /\ frames' = Tail(frames) /\ plain /\ root_path = <<>> /\ (v.emit_json => Top.n > 0)
          /\ raw' = raw \o <<"}">>
          /\ v'.emit_json = v.emit_json
          /\ v'.object_depth = v.object_depth - 1 /\ v'.array_idx = v.array_idx
          /\ v.emit_json /\ ~v.needs_close_array /\ v.needs_close_object =>
               /\ v'.needs_close_array = FALSE /\ v'.needs_close_object = FALSE
               /\ v'.object_depth # 0 => v'.ss = v.ss \o ClosedText
      BY <1>10, ObjectStopEffect
    <2>h. /\ frames # <<>> /\ Len(frames) \in Nat /\ Len(frames) > 0 /\ 1 \in 1..Len(frames)
          /\ Top = frames[1] /\ Top \in Frames /\ (Top.of # "item" => Top.n \in Nat)
      <3>1. frames # <<>>
        BY <2>1
      <3> QED BY <3>1, TopHere
    <2>2. SUFFICES ASSUME frames' # <<>> PROVE InDocument'
      BY <2>1
    <2>3. InDocument
      BY <2>1 DEF WholeShape, Open
    <2>4. Len(frames) > 1
      <3>1. Tail(frames) # <<>>
        BY <2>1, <2>2
      <3> QED BY <1>a, <2>h, <3>1, TopAndOthers
    <2>5. v.emit_json /\ Top.n > 0 /\ ~v.needs_close_array /\ v.needs_close_object /\ raw = v.ss
      <3>1. v.emit_json
        BY <2>3, <2>4, <2>h, EmitsInside
      <3>2. Top.of = "object" /\ Top.n \in Nat /\ Top.n > 0
        BY <2>1, <2>h, <3>1
      <3>3. Top.n # 0
        BY <3>2
      <3> QED BY <2>3, <3>1, <3>2, <3>3 DEF InDocument
    <2>6. v'.object_depth # 0
      <3>1. frames[Len(frames)].of = "object" /\ Len(frames) \in 1..Len(frames)
        <4>1. Len(frames) \in 1..Len(frames)
          BY <2>h
        <4> QED BY <2>3, <4>1 DEF InDocument, DocumentFrames
      <3>2. /\ Cardinality(Objects(frames)) = Cardinality(Objects(Tail(frames))) + 1
            /\ Cardinality(Objects(Tail(frames))) \in Nat
            /\ Cardinality(Objects(Tail(frames))) > 0
        <4>1. Len(frames) > 1 /\ Len(frames) \in 1..Len(frames)
          BY <2>4, <3>1
        <4>2. frames[1].of = "object"
          BY <2>1, <2>h
        <4> QED BY <1>a, <2>h, <3>1, <4>1, <4>2, DepthPopped
      <3>3. v.object_depth = Cardinality(Objects(frames)) /\ v'.object_depth = v.object_depth - 1
        BY <1>c, <2>1 DEF Open
      <3> QED BY <3>2, <3>3
    <2>7. raw' = v'.ss
      BY <2>1, <2>5, <2>6 DEF ClosedText
    <2>8. DocumentFrames(frames', v'.array_idx)
      <3>1. DocumentFrames(frames, v.array_idx)
        BY <2>3 DEF InDocument
      <3> QED BY <1>a, <2>1, <2>2, <3>1, DocumentPopped
    <2>9. Top' = frames[2] /\ Top'.of \in {"item", "array"} /\ Len(frames') = Len(frames) - 1
      <3>1. Top' = frames[2] /\ Len(frames') = Len(frames) - 1
        <4>1. /\ Len(Tail(frames)) = Len(frames) - 1
              /\ \A i \in 1..(Len(frames) - 1) : Tail(frames)[i] = frames[i + 1]
          BY <1>a, <2>h, TopAndOthers
        <4>2. Tail(frames)[1] = frames[2]
          BY <2>4, <2>h, <4>1
        <4>3. frames' = Tail(frames)
          BY <2>1
        <4> QED BY <4>1, <4>2, <4>3 DEF Top
      <3>2. frames # <<>> /\ Top.of # "item" /\ mode = "after"
        BY <2>1
      <3> QED BY <1>f, <2>4, <3>1, <3>2 DEF Open
    <2>10. Len(frames') # 1
      <3>1. Nested(frames) /\ 2 \in 1..Len(frames)
        <4>1. mode = "after"
          BY <2>1
        <4> QED BY <1>c, <2>h, <2>4, <4>1 DEF Open
      <3>2. CASE Top'.of = "item"
        <4>1. frames[2].of = "item"
          BY <2>9, <3>2
        <4>2. 2 < Len(frames)
          BY <3>1, <4>1 DEF Nested
        <4> QED BY <2>h, <2>9, <4>2
      <3>3. CASE Top'.of = "array"
        <4>1. Len(frames') = 1 => Top'.of = "object"
          BY <2>8 DEF DocumentFrames, Top
        <4> QED BY <3>3, <4>1
      <3> QED BY <2>9, <3>2, <3>3
    <2> QED BY <2>1, <2>5, <2>7, <2>8, <2>9, <2>10 DEF InDocument
  <1>11. CASE QuietStep
    BY <1>11, QuietEffect DEF Open
  <1> QED BY <1>1, <1>2, <1>3, <1>4, <1>5, <1>6, <1>7, <1>8, <1>9, <1>10, <1>11, EffectsAre

-----------------------------------------------------------------------------
(***************************************************************************)
(* The reader of a text takes one token after the other.                   *)
(***************************************************************************)
Start == [open |-> <<>>, want |-> "value"]
Wants == {"value", "key", "colon", "separator", "end", "comment", "error"}
Readers == [open : Seq({"{", "["}), want : Wants]

LEMMA ReadTokenTyped ==
  ASSUME NEW r \in Readers, NEW t
  PROVE  ReadToken(r, t) \in Readers
  <1> DEFINE top == IF r.open = <<>> THEN "none" ELSE Head(r.open)
  <1>1. r.open \in Seq({"{", "["}) /\ r.want \in Wants
    BY DEF Readers
  <1>2. ASSUME t \in {"{", "["} PROVE <<t>> \o r.open \in Seq({"{", "["})
    BY <1>1, <1>2, Pushed
  <1>3. ASSUME top \in {"{", "["} PROVE Tail(r.open) \in Seq({"{", "["})
    <2>1. r.open # <<>>
      BY <1>3
    <2> QED BY <1>1, <2>1, TopAndOthers
  <1>4. ASSUME NEW want \in Wants PROVE [r EXCEPT !.want = want] \in Readers
    BY DEF Readers
  <1>5. ASSUME t \in {"{", "["}, NEW want \in Wants
        PROVE  [open |-> <<t>> \o r.open, want |-> want] \in Readers
    BY <1>2, <1>5 DEF Readers
  <1>6. ASSUME top \in {"{", "["}, NEW want \in Wants
        PROVE  [open |-> Tail(r.open), want |-> want] \in Readers
    BY <1>3, <1>6 DEF Readers
  <1> QED BY <1>4, <1>5, <1>6 DEF ReadToken, Wants

\* ReaderAfter() of a text, token by token.
LEMMA ReadsOn ==
  ASSUME NEW text \in Seq(Tokens)
  PROVE  \E f \in [0..Len(text) -> Readers] :
           /\ f[0] = Start /\ \A i \in 1..Len(text) : f[i] = ReadToken(f[i - 1], text[i])
           /\ ReaderAfter(text) = f[Len(text)]
  <1> DEFINE n == Len(text)
             step == [p \in Readers \X (1..n) |-> ReadToken(p[1], text[p[2]])]
             Solves(f) == f = [i \in 0..n |-> IF i = 0 THEN Start ELSE ReadToken(f[i - 1], text[i])]
             read == CHOOSE f : Solves(f)
  <1>1. n \in Nat
    BY LenProperties
  <1>2. Start \in Readers
    BY EmptySeq DEF Start, Readers, Wants
  <1>3. StaysIn(Readers, n, step)
    BY ReadTokenTyped DEF StaysIn
  <1>4. \E f \in [0..n -> Readers] : Iterates(f, n, Start, step)
    <2> HIDE DEF step, n
    <2> QED BY <1>1, <1>2, <1>3, Iteration
  <1>5. PICK f \in [0..n -> Readers] : Iterates(f, n, Start, step)
    BY <1>4
  <1>6. \A i \in 1..n : f[i] = ReadToken(f[i - 1], text[i])
    <2> SUFFICES ASSUME NEW i \in 1..n PROVE f[i] = ReadToken(f[i - 1], text[i])
      OBVIOUS
    <2>1. f[i - 1] \in Readers
      BY <1>1
    <2>2. step[<<f[i - 1], i>>] = ReadToken(f[i - 1], text[i])
      BY <2>1
    <2> QED BY <1>5, <2>2 DEF Iterates
  <1>7. Solves(f)
    <2>1. DOMAIN f = 0..n
      OBVIOUS
    <2>2. \A i \in 0..n : f[i] = IF i = 0 THEN Start ELSE ReadToken(f[i - 1], text[i])
      BY <1>1, <1>5, <1>6 DEF Iterates
    <2> QED BY <2>1, <2>2
  <1>8. ReaderAfter(text) = read[n]
    BY DEF ReaderAfter, Start
  <1>9. Solves(read)
    BY <1>7
  <1> HIDE DEF read, n
  <1>10. /\ read[0] = Start /\ \A i \in 1..n : read[i] = ReadToken(read[i - 1], text[i])
    BY <1>1, <1>9
  <1>11. \A i \in 0..n : f[i] = read[i]
    <2>1. \A i \in 0..(n - 1) : f[i] = read[i] => f[i + 1] = read[i + 1]
      <3> SUFFICES ASSUME NEW i \in 0..(n - 1), f[i] = read[i] PROVE f[i + 1] = read[i + 1]
        OBVIOUS
      <3>1. i + 1 \in 1..n /\ (i + 1) - 1 = i
        BY <1>1
      <3> QED BY <1>6, <1>10, <3>1
    <2>2. f[0] = read[0]
      BY <1>5, <1>10 DEF Iterates
    <2> QED BY <1>1, <2>1, <2>2, Agreement, Zenon
  <1>12. ReaderAfter(text) = f[n]
    BY <1>1, <1>8, <1>11
  <1> QED BY <1>5, <1>6, <1>12 DEF n, Iterates

LEMMA ReaderEmpty == ReaderAfter(<<>>) = Start
  <1>1. <<>> \in Seq(Tokens) /\ Len(<<>>) = 0
    BY EmptySeq
  <1> QED BY <1>1, ReadsOn

LEMMA ReaderTyped == \A text \in Seq(Tokens) : ReaderAfter(text) \in Readers
  <1> SUFFICES ASSUME NEW text \in Seq(Tokens) PROVE ReaderAfter(text) \in Readers
    OBVIOUS
  <1>1. Len(text) \in Nat
    BY LenProperties
  <1> QED BY <1>1, ReadsOn

LEMMA ReaderAppend ==
  ASSUME NEW text \in Seq(Tokens), NEW t \in Tokens
  PROVE  ReaderAfter(Append(text, t)) = ReadToken(ReaderAfter(text), t)
  <1> DEFINE n == Len(text)
             s == Append(text, t)
  <1>1. n \in Nat /\ s \in Seq(Tokens) /\ Len(s) = n + 1 /\ s[n + 1] = t
        /\ \A i \in 1..n : s[i] = text[i]
    BY AppendProperties, LenProperties
  <1> HIDE DEF s
  <1>2. PICK f \in [0..n -> Readers] :
          /\ f[0] = Start /\ \A i \in 1..n : f[i] = ReadToken(f[i - 1], text[i])
          /\ ReaderAfter(text) = f[n]
    BY ReadsOn
  <1>3. PICK g \in [0..(n + 1) -> Readers] :
          /\ g[0] = Start /\ \A i \in 1..(n + 1) : g[i] = ReadToken(g[i - 1], s[i])
          /\ ReaderAfter(s) = g[n + 1]
    BY <1>1, ReadsOn
  <1> HIDE DEF n
  <1>4. \A i \in 0..(n - 1) : f[i] = g[i] => f[i + 1] = g[i + 1]
    <2> SUFFICES ASSUME NEW i \in 0..(n - 1), f[i] = g[i] PROVE f[i + 1] = g[i + 1]
      OBVIOUS
    <2>1. i + 1 \in 1..n /\ i + 1 \in 1..(n + 1) /\ (i + 1) - 1 = i
      BY <1>1
    <2>2. f[i + 1] = ReadToken(f[i], text[i + 1])
      BY <1>2, <2>1
    <2>3. g[i + 1] = ReadToken(g[i], s[i + 1])
      BY <1>3, <2>1
    <2> QED BY <1>1, <2>1, <2>2, <2>3
  <1>5. f[n] = g[n]
    <2>1. \A i \in 0..n : f[i] = g[i]
      <3>1. f[0] = g[0]
        BY <1>2, <1>3
      <3>2. n \in Nat
        BY <1>1
      <3> QED BY <1>4, <3>1, <3>2, Agreement, Zenon
    <2> QED BY <1>1, <2>1
  <1>6. g[n + 1] = ReadToken(g[n], t)
    <2>1. n + 1 \in 1..(n + 1) /\ (n + 1) - 1 = n
      BY <1>1
    <2> QED BY <1>1, <1>3, <2>1
  <1> QED BY <1>2, <1>3, <1>5, <1>6 DEF s

\* What a token does: it opens or closes a bracket, does neither, or is refused.
TokenOpens(r, t, u) ==
  t \in {"{", "["} /\ \E want \in {"key", "value"} : u = [open |-> <<t>> \o r.open, want |-> want]
TokenCloses(r, t, u) ==
  /\ t \in {"}", "]"} /\ r.open # <<>>
  /\ u = [open |-> Tail(r.open), want |-> IF Len(r.open) = 1 THEN "end" ELSE "separator"]
TokenStays(r, t, u) ==
  /\ t \notin {"{", "[", "}", "]", "//"}
  /\ \E want \in {"end", "separator", "colon", "value", "key"} :
       u = [r EXCEPT !.want = want] /\ (want = "end" => r.open = <<>>)

LEMMA TokenCases ==
  ASSUME NEW r \in Readers, NEW t, NEW u, u = ReadToken(r, t), u.want \notin {"error", "comment"}
  PROVE  TokenOpens(r, t, u) \/ TokenCloses(r, t, u) \/ TokenStays(r, t, u)
  <1> DEFINE top == IF r.open = <<>> THEN "none" ELSE Head(r.open)
             to(want) == [r EXCEPT !.want = want]
             next == [r EXCEPT !.want = IF r.open = <<>> THEN "end" ELSE "separator"]
             pop == [open |-> Tail(r.open), want |-> IF Len(r.open) = 1 THEN "end" ELSE "separator"]
             opened(want) == [open |-> <<t>> \o r.open, want |-> want]
  <1>1. u = CASE r.want = "value" /\ t = "{" -> opened("key")
              [] r.want = "value" /\ t = "[" -> opened("value")
              [] r.want = "value" /\ t \notin Punctuation -> next
              [] r.want = "key" /\ t \notin Punctuation -> to("colon")
              [] r.want = "colon" /\ t = ":" -> to("value")
              [] r.want = "separator" /\ t = "," /\ top = "{" -> to("key")
              [] r.want = "separator" /\ t = "," /\ top = "[" -> to("value")
              [] r.want \in {"key", "separator"} /\ t = "}" /\ top = "{" -> pop
              [] r.want \in {"value", "separator"} /\ t = "]" /\ top = "[" -> pop
              [] r.want = "end" /\ t = "//" -> to("comment")
              [] r.want = "comment" -> r
              [] OTHER -> to("error")
    BY DEF ReadToken
  <1>2. /\ u # to("error") /\ u # to("comment") /\ ~(u = r /\ r.want = "comment")
        /\ (top # "none" => r.open # <<>>)
    <2>1. to("error").want = "error" /\ to("comment").want = "comment"
      BY DEF Readers
    <2>2. top # "none" => r.open # <<>>
      OBVIOUS
    <2>3. ~(u = r /\ r.want = "comment")
      OBVIOUS
    <2> QED BY <2>1, <2>2, <2>3
  <1>3. next = (IF r.open = <<>> THEN to("end") ELSE to("separator"))
    OBVIOUS
  <1> HIDE DEF top, to, next, pop, opened
  <1>4. \/ t \in {"{", "["} /\ u \in {opened("key"), opened("value")}
        \/ t \in {"}", "]"} /\ top # "none" /\ u = pop
        \/ t \notin {"{", "[", "}", "]", "//"} /\ u \in {next, to("colon"), to("value"), to("key")}
    BY <1>1, <1>2 DEF Punctuation
  <1>5. CASE t \in {"{", "["} /\ u \in {opened("key"), opened("value")}
    BY <1>5 DEF opened, TokenOpens
  <1>6. CASE t \in {"}", "]"} /\ top # "none" /\ u = pop
    BY <1>2, <1>6 DEF pop, TokenCloses
  <1>7. CASE t \notin {"{", "[", "}", "]", "//"} /\ u \in {next, to("colon"), to("value"), to("key")}
    BY <1>3, <1>7 DEF to, TokenStays
  <1> QED BY <1>4, <1>5, <1>6, <1>7

\* The members of the reader's states.
LEMMA StateMembers ==
  ASSUME NEW r \in Readers, NEW want
  PROVE  /\ [r EXCEPT !.want = want].open = r.open /\ [r EXCEPT !.want = want].want = want
         /\ r.open \in Seq({"{", "["}) /\ Len(r.open) \in Nat /\ (r.open = <<>> => Len(r.open) = 0)
  <1>1. [r EXCEPT !.want = want].open = r.open /\ [r EXCEPT !.want = want].want = want
    BY DEF Readers
  <1>2. r.open \in Seq({"{", "["})
    BY DEF Readers
  <1>3. Len(r.open) \in Nat /\ (r.open = <<>> => Len(r.open) = 0)
    BY <1>2, LenProperties, EmptySeq
  <1> QED BY <1>1, <1>2, <1>3

Openers == {"{", "["}
\* The tokens after which less of a text may be open, or a comment.
Closers == {"}", "]", "//"}

\* How a token changes the brackets that are open.
LEMMA ReadDepth ==
  ASSUME NEW r \in Readers, NEW t, NEW u, u = ReadToken(r, t), u.want \notin {"error", "comment"}
  PROVE  /\ t \in Openers => Len(u.open) = Len(r.open) + 1
         /\ t \notin Openers \cup Closers => u.open = r.open
         /\ t \in Closers => Len(u.open) = Len(r.open) - 1
         /\ u.want = "end" => Len(u.open) = 0
  <1>1. r.open \in Seq({"{", "["}) /\ Len(r.open) \in Nat /\ (r.open = <<>> => Len(r.open) = 0)
    BY StateMembers
  <1>2. CASE TokenOpens(r, t, u)
    <2> DEFINE o == <<t>> \o r.open
    <2>1. Len(o) = Len(r.open) + 1
      BY <1>1, <1>2, Pushed DEF TokenOpens
    <2>2. PICK want \in {"key", "value"} : u = [open |-> o, want |-> want]
      BY <1>2 DEF TokenOpens
    <2> HIDE DEF o
    <2>3. u.open = o /\ u.want # "end"
      BY <2>2
    <2>4. t \in Openers /\ t \notin Closers
      BY <1>2 DEF TokenOpens, Openers, Closers
    <2> QED BY <2>1, <2>3, <2>4
  <1>3. CASE TokenCloses(r, t, u)
    <2> DEFINE o == Tail(r.open)
    <2>1. Len(o) = Len(r.open) - 1
      BY <1>1, <1>3, TopAndOthers DEF TokenCloses
    <2> HIDE DEF o
    <2>2. u = [open |-> o, want |-> IF Len(r.open) = 1 THEN "end" ELSE "separator"]
      BY <1>3 DEF o, TokenCloses
    <2>3. u.open = o /\ u.want = IF Len(r.open) = 1 THEN "end" ELSE "separator"
      BY <2>2
    <2>4. u.want = "end" => Len(u.open) = 0
      <3>1. Len(r.open) = 1 => Len(u.open) = 0
        BY <2>1, <2>3
      <3>2. Len(r.open) # 1 => u.want = "separator"
        BY <2>3, Zenon
      <3>3. "separator" # "end"
        OBVIOUS
      <3> QED BY <3>1, <3>2, <3>3, Zenon
    <2>5. t \in Closers /\ t \notin Openers
      BY <1>3 DEF TokenCloses, Openers, Closers
    <2> QED BY <2>1, <2>3, <2>4, <2>5
  <1>4. CASE TokenStays(r, t, u)
    <2>1. PICK want : u = [r EXCEPT !.want = want] /\ (want = "end" => r.open = <<>>)
      BY <1>4 DEF TokenStays
    <2>2. u.open = r.open /\ u.want = want
      <3>1. [r EXCEPT !.want = want].open = r.open /\ [r EXCEPT !.want = want].want = want
        BY StateMembers, Zenon
      <3>2. u = [r EXCEPT !.want = want]
        BY <2>1, Zenon
      <3> QED BY <3>1, <3>2, Zenon
    <2>3. t \notin Closers /\ t \notin Openers
      BY <1>4 DEF TokenStays, Openers, Closers
    <2> QED BY <1>1, <2>1, <2>2, <2>3
  <1> QED BY <1>2, <1>3, <1>4, TokenCases, Zenon

\* What is at its end has nothing open, and only that becomes a comment.
LEMMA EndClosed ==
  ASSUME NEW text \in Seq(Tokens), ReaderAfter(text).want = "end"
  PROVE  Len(ReaderAfter(text).open) = 0
  <1>1. CASE text = <<>>
    BY <1>1, ReaderEmpty DEF Start
  <1>2. ASSUME NEW front \in Seq(Tokens), NEW t \in Tokens, text = Append(front, t)
        PROVE  Len(ReaderAfter(text).open) = 0
    <2> DEFINE r == ReaderAfter(front)
               u == ReaderAfter(text)
    <2>1. r \in Readers /\ u = ReadToken(r, t)
      BY <1>2, ReaderTyped, ReaderAppend
    <2>2. u.want = "end" /\ u.want \notin {"error", "comment"}
      OBVIOUS
    <2> HIDE DEF r, u
    <2>3. Len(u.open) = 0
      BY <2>1, <2>2, ReadDepth
    <2> QED BY <2>3 DEF u
  <1> QED BY <1>1, <1>2, SequenceEmptyOrAppend

LEMMA CommentBegins ==
  ASSUME NEW r \in Readers, NEW t, ReadToken(r, t).want = "comment"
  PROVE  r.want = "comment" \/ (r.want = "end" /\ t = "//")
  BY StateMembers DEF ReadToken

\* A refused text stays refused.
LEMMA ErrorStays ==
  ASSUME NEW r \in Readers, NEW t, r.want = "error" PROVE ReadToken(r, t).want = "error"
  BY StateMembers DEF ReadToken

LEMMA OpenedAppend ==
  ASSUME NEW text \in Seq(Tokens), NEW t \in Tokens, NEW m \in Nat
  PROVE  /\ Opened(text, m) /\ t \notin Closers => Opened(Append(text, t), m)
         /\ Opened(text, m) /\ t \in Openers => Opened(Append(text, t), m + 1)
         /\ Opened(text, m + 1) => Opened(Append(text, t), m)
  <1> DEFINE r == ReaderAfter(text)
             u == ReaderAfter(Append(text, t))
  <1>1. r \in Readers /\ u = ReadToken(r, t)
    BY ReaderTyped, ReaderAppend
  <1> HIDE DEF r, u
  <1>2. Len(r.open) \in Nat
    BY <1>1, LenProperties DEF Readers
  <1>3. CASE u.want = "error"
    BY <1>3 DEF Opened, u
  <1>c. CASE u.want = "comment"
    <2>1. r.want = "comment" \/ (r.want = "end" /\ t = "//")
      BY <1>1, <1>c, CommentBegins
    <2>2. CASE r.want = "comment"
      BY <2>2 DEF Opened, r
    <2>3. CASE r.want = "end" /\ t = "//"
      <3>1. Len(r.open) = 0
        BY <2>3, EndClosed DEF r
      <3>2. ~Opened(text, m + 1)
        <4>1. ~(0 >= m + 1)
          OBVIOUS
        <4> QED BY <2>3, <3>1, <4>1 DEF Opened, r
      <3> QED BY <2>3, <3>2 DEF Closers, Openers
    <2> QED BY <2>1, <2>2, <2>3
  <1>4. CASE u.want \notin {"error", "comment"}
    <2>0. r.want # "error"
      BY <1>1, <1>4, ErrorStays
    <2>1. /\ t \in Openers => Len(u.open) = Len(r.open) + 1
          /\ t \notin Openers \cup Closers => u.open = r.open
          /\ t \in Closers => Len(u.open) = Len(r.open) - 1
      BY <1>1, <1>4, ReadDepth
    <2>2. \A k : Opened(text, k) => Len(r.open) >= k
      BY <2>0 DEF Opened, r
    <2>3. \A k : Len(u.open) >= k => Opened(Append(text, t), k)
      BY <1>4 DEF Opened, u
    <2>a. Opened(text, m) => Len(r.open) >= m
      BY <2>2
    <2>4. Opened(text, m) /\ t \notin Closers => Len(u.open) >= m
      BY <1>2, <2>1, <2>a
    <2>5. Opened(text, m) /\ t \in Openers => Len(u.open) >= m + 1
      BY <1>2, <2>1, <2>a
    <2>6. Opened(text, m + 1) => Len(u.open) >= m
      <3>1. Opened(text, m + 1) => Len(r.open) >= m + 1
        BY <2>2
      <3>2. Len(u.open) \in {Len(r.open) + 1, Len(r.open), Len(r.open) - 1}
        BY <2>1
      <3> QED BY <1>2, <3>1, <3>2
    <2> QED BY <2>3, <2>4, <2>5, <2>6
  <1> QED BY <1>3, <1>c, <1>4

\* More of a text, of one token or of any that close nothing.
LEMMA OpenedOne ==
  ASSUME NEW text \in Seq(Tokens), NEW t \in Tokens, NEW m \in Nat
  PROVE  /\ Opened(text, m) /\ t \notin Closers => Opened(text \o <<t>>, m)
         /\ Opened(text, m) /\ t \in Openers => Opened(text \o <<t>>, m + 1)
         /\ Opened(text, m + 1) => Opened(text \o <<t>>, m)
  <1> DEFINE w == text \o <<t>>
  <1>1. Append(text, t) = w
    BY AppendIsConcat, Zenon
  <1>2. /\ Opened(text, m) /\ t \notin Closers => Opened(Append(text, t), m)
        /\ Opened(text, m) /\ t \in Openers => Opened(Append(text, t), m + 1)
        /\ Opened(text, m + 1) => Opened(Append(text, t), m)
    BY OpenedAppend, Zenon
  <1> HIDE DEF w
  <1>3. /\ Opened(text, m) /\ t \notin Closers => Opened(w, m)
        /\ Opened(text, m) /\ t \in Openers => Opened(w, m + 1)
        /\ Opened(text, m + 1) => Opened(w, m)
    BY <1>1, <1>2, Zenon
  <1> QED BY <1>3 DEF w

LEMMA OpenedMore ==
  ASSUME NEW text \in Seq(Tokens), NEW more \in Seq(Tokens), NEW m \in Nat, Opened(text, m),
         \A i \in 1..Len(more) : more[i] \notin Closers
  PROVE  Opened(text \o more, m)
  <1> DEFINE n == Len(more)
             upto(i) == text \o SubSeq(more, 1, i)
             S == {i \in 0..n : Opened(upto(i), m)}
  <1>1. n \in Nat
    BY LenProperties
  <1>s. \A i \in 1..n : SubSeq(more, 1, i) = SubSeq(more, 1, i - 1) \o <<more[i]>>
    <2> SUFFICES ASSUME NEW i \in 1..n PROVE SubSeq(more, 1, i) = SubSeq(more, 1, i - 1) \o <<more[i]>>
      OBVIOUS
    <2>1. 1 \in 1..Len(more) /\ i \in 1..Len(more)
      BY <1>1
    <2> QED BY <2>1, SubSeqRecursiveSecond
  <1>m. \A i \in 1..n : more[i] \in Tokens /\ more[i] \notin Closers
    BY ElementOfSeq
  <1>5. SubSeq(more, 1, n) = more
    BY SubSeqFull
  <1> HIDE DEF n
  <1>2. 0 \in S
    <2>1. SubSeq(more, 1, 0) = <<>>
      <3>1. 0 \in Int /\ 1 \in Int /\ 0 < 1
        OBVIOUS
      <3> QED BY <3>1, SubSeqEmpty, Zenon
    <2>2. text \o <<>> = text
      BY ConcatEmptySeq
    <2>3. upto(0) = text
      BY <2>1, <2>2
    <2> HIDE DEF upto
    <2> QED BY <1>1, <2>3
  <1>3. ASSUME NEW i \in 0..(n - 1), i \in S PROVE i + 1 \in S
    <2>1. i + 1 \in 1..n /\ i \in Nat
      BY <1>1
    <2>2. more[i + 1] \in Tokens /\ more[i + 1] \notin Closers
      BY <1>m, <2>1
    <2>3. upto(i) \in Seq(Tokens) /\ SubSeq(more, 1, i) \in Seq(Tokens) /\ <<more[i + 1]>> \in Seq(Tokens)
      <3>1. \A j \in 1..i : more[j] \in Tokens
        BY <1>1, <1>m, <2>1
      <3>2. SubSeq(more, 1, i) \in Seq(Tokens)
        <4>1. 1 \in Int /\ i \in Int
          BY <2>1
        <4> QED BY <3>1, <4>1, SubSeqProperties, Zenon
      <3>3. <<more[i + 1]>> \in Seq(Tokens)
        BY <2>2
      <3> QED BY <3>2, <3>3, ConcatProperties, Zenon
    <2>4. SubSeq(more, 1, i + 1) = SubSeq(more, 1, i) \o <<more[i + 1]>>
      <3>1. (i + 1) - 1 = i
        BY <2>1
      <3> QED BY <1>s, <2>1, <3>1
    <2>5. upto(i + 1) = upto(i) \o <<more[i + 1]>>
      <3> DEFINE a == SubSeq(more, 1, i)
                 b == <<more[i + 1]>>
      <3>1. upto(i) = text \o a /\ upto(i + 1) = text \o (a \o b)
        BY <2>4
      <3>2. a \in Seq(Tokens) /\ b \in Seq(Tokens)
        BY <2>3
      <3> HIDE DEF a, b, upto
      <3>3. (text \o a) \o b = text \o (a \o b)
        BY <3>2, TokensThrice, Zenon
      <3> QED BY <3>1, <3>3, Zenon DEF b
    <2> HIDE DEF upto
    <2>6. Opened(upto(i), m)
      BY <1>3
    <2>7. Opened(upto(i + 1), m)
      <3>1. Opened(upto(i) \o <<more[i + 1]>>, m)
        <4> DEFINE a == upto(i)
                   b == more[i + 1]
        <4>1. a \in Seq(Tokens) /\ b \in Tokens /\ b \notin Closers /\ Opened(a, m)
          BY <2>2, <2>3, <2>6, Zenon
        <4> HIDE DEF a, b
        <4>2. Opened(a \o <<b>>, m)
          BY <4>1, OpenedOne, Zenon
        <4> QED BY <4>2 DEF a, b
      <3> QED BY <2>5, <3>1, Zenon
    <2> QED BY <1>1, <2>1, <2>7
  <1>4. n \in S
    <2> HIDE DEF S
    <2>1. 0..n \subseteq S
      BY <1>1, <1>2, <1>3, UpTo, Zenon
    <2> QED BY <1>1, <2>1
  <1> QED BY <1>4, <1>5

LEMMA NotAtEnd ==
  ASSUME NEW text \in Seq(Tokens), NEW m \in Nat, m > 0, Opened(text, m)
  PROVE  ~Complete(text)
  <1>1. ReaderAfter(text).want # "comment"
    BY DEF Opened
  <1>2. ReaderAfter(text).want # "end"
    <2>1. ReaderAfter(text).want = "end" => Len(ReaderAfter(text).open) >= m
      BY DEF Opened
    <2>2. ~(0 >= m)
      OBVIOUS
    <2> QED BY <2>1, <2>2, EndClosed
  <1> QED BY <1>1, <1>2 DEF Complete

-----------------------------------------------------------------------------
(***************************************************************************)
(* The places of an item, and how the events lead from one to the next.    *)
(***************************************************************************)
LEMMA Here ==
  ASSUME VisitorTyped
  PROVE  /\ frames \in Seq(Frames) /\ Len(frames) \in Nat
         /\ v.ss \in Seq(Tokens) /\ raw \in Seq(Tokens) /\ v.array_idx \in Int
         /\ v.current_path \in Paths /\ root_path \in Roots
         /\ v.emit_json \in BOOLEAN /\ v.needs_close_object \in BOOLEAN
         /\ \A k \in 1..Len(frames) : frames[k] \in Frames
  <1>1. frames \in Seq(Frames) /\ v \in Visitors /\ raw \in Seq(Tokens)
    BY DEF VisitorTyped
  <1>2. Len(frames) \in Nat /\ \A k \in 1..Len(frames) : frames[k] \in Frames
    BY <1>1, LenProperties, ElementOfSeq
  <1> QED BY <1>1, <1>2, RootsTyped DEF Visitors, Paths

\* The text before a value.
LEMMA OpeningTyped ==
  ASSUME NEW f \in Frames, f.of = "item" PROVE Opening(f) \in Seq(Tokens)
  <1>1. f.key \in Keys /\ f.keyed \in BOOLEAN
    BY FrameKinds DEF Items
  <1> DEFINE k == f.key
             a == <<"{", "id", ":", k, ",", "val", ":">>
             b == <<"{", k, ":">>
  <1>2. k \in Tokens /\ "{" \in Tokens /\ ":" \in Tokens
    BY <1>1 DEF Tokens, Punctuation
  <1>3. a \in Seq(Tokens)
    BY <1>1, PiecesTyped
  <1>4. b \in Seq(Tokens)
    BY <1>2, ThreeTyped, Zenon
  <1>5. Opening(f) = IF f.keyed THEN a ELSE b
    BY DEF Opening
  <1> HIDE DEF a, b
  <1> QED BY <1>3, <1>4, <1>5

\* What is added to the text is added to the value.
LEMMA ValueGrows ==
  ASSUME NEW o \in Seq(Tokens), NEW r \in Seq(Tokens), NEW u \in Seq(Tokens)
  PROVE  (o \o r) \o u = o \o (r \o u)
  BY TokensThrice, Zenon

\* The one token a step writes.
LEMMA OneToken ==
  /\ "," \in Tokens /\ "," \notin Closers
  /\ "[" \in Tokens /\ "[" \in Openers /\ "[" \notin Closers
  /\ "{" \in Tokens /\ "{" \in Openers /\ "{" \notin Closers
  /\ "]" \in Tokens /\ "}" \in Tokens
  BY DEF Tokens, Openers, Closers, Punctuation

LEMMA ScalarToken == ASSUME NEW x \in Scalars PROVE x \in Tokens /\ x \notin Closers
  BY KeysAssumption DEF Tokens, Closers, Punctuation

LEMMA LastOf ==
  ASSUME NEW S, NEW s \in Seq(S), NEW t \in S
  PROVE  /\ s \o <<t>> \in Seq(S) /\ s \o <<t>> # <<>> /\ Last(s \o <<t>>) = t
  <1> DEFINE u == s \o <<t>>
  <1>1. u = Append(s, t)
    BY AppendIsConcat, Zenon
  <1> DEFINE a == Append(s, t)
  <1>2. a \in Seq(S) /\ Len(a) = Len(s) + 1 /\ a[Len(s) + 1] = t /\ Len(s) \in Nat
    BY AppendProperties, LenProperties
  <1> HIDE DEF a, u
  <1>3. a # <<>>
    BY <1>2, EmptySeq
  <1>4. Last(a) = t
    BY <1>2 DEF Last
  <1>5. u = a
    BY <1>1 DEF a
  <1>6. u \in Seq(S) /\ u # <<>> /\ Last(u) = t
    BY <1>2, <1>3, <1>4, <1>5, Zenon
  <1> QED BY <1>6 DEF u

\* A token of the value is one of the text.
LEMMA TokenWritten ==
  ASSUME VisitorTyped, NEW t \in Tokens, t \notin Closers, NEW k \in Nat, NEW m \in Nat,
         k \in 1..Len(frames), frames[k].of = "item",
         v.ss = Opening(frames[k]) \o raw, Closable(frames[k], m),
         UNCHANGED frames, v'.ss = v.ss \o <<t>>, raw' = raw \o <<t>>
  PROVE  /\ v'.ss = Opening(frames'[k]) \o raw' /\ (frames'[k].keyed => Opened(v'.ss, m))
         /\ t \in Openers => (frames'[k].keyed => Opened(v'.ss, m + 1))
  <1>1. /\ raw \in Seq(Tokens) /\ v.ss \in Seq(Tokens) /\ Opening(frames[k]) \in Seq(Tokens)
        /\ <<t>> \in Seq(Tokens)
    BY Here, OpeningTyped
  <1>2. (Opening(frames[k]) \o raw) \o <<t>> = Opening(frames[k]) \o (raw \o <<t>>)
    BY <1>1, ValueGrows, Zenon
  <1>3. v'.ss = Opening(frames'[k]) \o raw'
    BY <1>2, Zenon
  <1>4. frames[k].keyed => Opened(v.ss, m)
    BY DEF Closable
  <1>5. frames[k].keyed => Opened(v.ss \o <<t>>, m)
    BY <1>1, <1>4, OpenedOne, Zenon
  <1>6. t \in Openers => (frames[k].keyed => Opened(v.ss \o <<t>>, m + 1))
    BY <1>1, <1>4, OpenedOne, Zenon
  <1> QED BY <1>3, <1>5, <1>6, Zenon

\* What a step leaves where it was: the item at the same frame, and its path.
LEMMA ItemStays ==
  ASSUME NEW k, NEW n, ItemAt(k, n), UNCHANGED <<frames, root_path>>,
         v'.current_path = v.current_path
  PROVE  ItemAt(k, n)'
  BY DEF ItemAt, Reaches

\* A token of a member of the object that is the value.
LEMMA FieldWritten ==
  ASSUME VisitorTyped, NEW k \in {1, 2}, FieldAt(k), NEW t \in Tokens, t \notin Closers,
         UNCHANGED <<frames, root_path>>, Stays(v, v'),
         v'.ss = v.ss \o <<t>>, raw' = raw \o <<t>>
  PROVE  FieldAt(k)' /\ CutField(k)'
  <1>1. /\ ItemAt(k + 2, 1) /\ v.ss = Opening(frames[k + 2]) \o raw
        /\ Closable(frames[k + 2], k + 1)
    BY DEF FieldAt
  <1>2. /\ k + 2 \in Nat /\ k + 1 \in Nat /\ k + 1 > 0
        /\ k + 2 \in 1..Len(frames) /\ frames[k + 2].of = "item"
    BY <1>1 DEF ItemAt
  <1>3. v'.ss = Opening(frames'[k + 2]) \o raw' /\ (frames'[k + 2].keyed => Opened(v'.ss, k + 1))
    BY <1>1, <1>2, TokenWritten, Zenon
  <1>4. ItemAt(k + 2, 1)'
    BY <1>1, ItemStays DEF Stays
  <1>5. FieldAt(k)'
    BY <1>3, <1>4 DEF FieldAt, Stays, Closable
  <1>6. v'.ss \in Seq(Tokens)
    BY Here, LastOf, Zenon
  <1>7. frames'[k + 2].keyed => ~Complete(v'.ss)
    BY <1>2, <1>3, <1>6, NotAtEnd
  <1> QED BY <1>4, <1>5, <1>7 DEF FieldAt, CutField, CutAt

\* A token of the array that is the value.
LEMMA ArrayWritten ==
  ASSUME VisitorTyped, InArray, NEW t \in Tokens, t \notin Closers,
         UNCHANGED <<frames, root_path>>, Stays(v, v'), v'.array_idx = v.array_idx,
         v'.ss = v.ss \o <<t>>, raw' = raw \o <<t>>
  PROVE  InArray' /\ CutAt(2, 0)' /\ Top'.of = "array"
  <1>1. /\ ItemAt(2, 0) /\ v.ss = Opening(frames[2]) \o raw /\ Closable(frames[2], 2)
    BY DEF InArray
  <1>2. 2 \in Nat /\ 2 > 0 /\ 2 \in 1..Len(frames) /\ frames[2].of = "item"
    BY <1>1 DEF ItemAt
  <1>3. v'.ss = Opening(frames'[2]) \o raw' /\ (frames'[2].keyed => Opened(v'.ss, 2))
    BY <1>1, <1>2, TokenWritten, Zenon
  <1>4. ItemAt(2, 0)'
    BY <1>1, ItemStays DEF Stays
  <1>5. InArray' /\ Top'.of = "array"
    BY <1>3, <1>4 DEF InArray, Stays, Closable, Top
  <1>6. v'.ss \in Seq(Tokens)
    BY Here, LastOf, Zenon
  <1>7. frames'[2].keyed => ~Complete(v'.ss)
    BY <1>2, <1>3, <1>6, NotAtEnd
  <1> QED BY <1>4, <1>5, <1>7 DEF CutAt

\* A scalar that is the value, or is in it.
LEMMA ScalarPlaces ==
  ASSUME VisitorTyped, NEW x \in Scalars, ItemPlace, mode = "value", Top.of # "object", Stays(v, v'),
         UNCHANGED <<frames, root_path>>, v'.array_idx = v.array_idx,
         v'.ss = v.ss \o <<x>>, raw' = raw \o <<x>>
  PROVE  /\ mode' = "after" => ItemPlace'
         /\ mode' = "failing" => CutPlace'
  <1>t. /\ Top' = Top /\ v'.current_path = v.current_path
        /\ v'.needs_close_object = v.needs_close_object
    BY DEF Top, Stays
  <1>v. x \in Tokens /\ x \notin Closers /\ x # "}"
    BY ScalarToken DEF Closers
  <1>k. 1 \in Nat /\ 2 \in Nat /\ 3 \in Nat /\ 4 \in Nat
    OBVIOUS
  <1>h. raw \in Seq(Tokens) /\ v.ss \in Seq(Tokens)
    BY Here
  <1>1. CASE AtValue
    <2>1. /\ ItemAt(1, 0) /\ ~v.needs_close_object /\ raw = <<>> /\ v.ss = Opening(Top)
          /\ Top.keyed => Opened(v.ss, 1)
      BY <1>1 DEF AtValue, Closable
    <2>2. ItemAt(1, 0)'
      BY <1>t, <2>1, ItemStays
    <2>3. raw' = <<x>> /\ raw' # <<>> /\ Last(raw') # "}"
      <3>0. x \in Tokens
        BY <1>v
      <3>1. raw' # <<>> /\ Last(raw') = x
        <4>1. raw \o <<x>> # <<>> /\ Last(raw \o <<x>>) = x
          BY <1>h, <3>0, LastOf
        <4> QED BY <4>1, Zenon
      <3>2. <<>> \o <<x>> = <<x>>
        <4>1. <<x>> \in Seq(Tokens)
          BY <3>0, TextsTyped, Zenon
        <4> QED BY <4>1, ConcatEmptySeq
      <3> QED BY <1>v, <2>1, <3>1, <3>2, Zenon
    <2>4. v'.ss \in Seq(Tokens)
      BY <1>h, <1>v, LastOf, Zenon
    <2>5. v'.ss = Opening(Top') \o raw'
      BY <1>t, <2>1, <2>3, Zenon
    <2>6. v'.ss \o <<>> = v'.ss
      BY <2>4, ConcatEmptySeq
    <2>7. AtValue' \/ mode' # "after"
      BY <1>t, <2>1, <2>2, <2>3, <2>5, <2>6, Zenon DEF AtValue
    <2>8. Top.keyed => ~Complete(v'.ss)
      <3>1. Top.keyed => Opened(v.ss \o <<x>>, 1)
        BY <1>h, <1>k, <1>v, <2>1, OpenedOne, Zenon
      <3>2. Top.keyed => Opened(v'.ss, 1)
        BY <3>1, Zenon
      <3>3. 1 > 0
        OBVIOUS
      <3> QED BY <1>k, <2>4, <3>2, <3>3, NotAtEnd, Zenon
    <2>9. CutAt(1, 0)'
      BY <1>t, <2>2, <2>8 DEF CutAt, Top
    <2> QED BY <2>7, <2>9 DEF ItemPlace, CutPlace
  <1>2. CASE InArray
    <2>1. InArray' /\ CutAt(2, 0)' /\ Top'.of # "item"
      BY <1>2, <1>v, ArrayWritten
    <2> QED BY <2>1 DEF ItemPlace, CutPlace
  <1>3. CASE AtField
    <2>1. FieldAt(1)' /\ CutField(1)'
      BY <1>3, <1>v, FieldWritten DEF AtField
    <2> QED BY <2>1 DEF AtField, ItemPlace, CutPlace
  <1>4. CASE InFieldArray
    <2>1. FieldAt(2)' /\ CutField(2)'
      BY <1>4, <1>v, FieldWritten DEF InFieldArray
    <2>2. InFieldArray' /\ Top'.of # "item"
      BY <1>4, <1>t, <2>1 DEF InFieldArray
    <2> QED BY <2>1, <2>2 DEF ItemPlace, CutPlace
  <1> QED BY <1>1, <1>2, <1>3, <1>4 DEF ItemPlace, AtObject, InObject

\* A frame is pushed on those of an item.
LEMMA ItemPushed ==
  ASSUME VisitorTyped, NEW k \in Nat, NEW n, ItemAt(k, n), NEW x \in Frames,
         frames' = <<x>> \o frames, UNCHANGED root_path, v'.current_path = v.current_path
  PROVE  /\ ItemAt(k + 1, n)' /\ frames'[k + 1] = frames[k] /\ Top' = x
         /\ \A i \in 1..Len(frames) : frames'[i + 1] = frames[i]
  <1>1. /\ frames' = <<x>> \o frames /\ frames \in Seq(Frames) /\ Len(frames) \in Nat
        /\ k \in 1..Len(frames)
    BY Here DEF ItemAt
  <1>2. /\ Len(frames') = Len(frames) + 1 /\ frames'[1] = x
        /\ \A i \in 1..Len(frames) : frames'[i + 1] = frames[i]
    BY <1>1, Pushed
  <1>3. k + 1 \in 1..Len(frames') /\ frames'[k + 1] = frames[k]
    BY <1>1, <1>2
  <1>4. ItemAt(k + 1, n)'
    BY <1>3 DEF ItemAt, Reaches
  <1> QED BY <1>2, <1>3, <1>4 DEF Top

\* The text of an item grows with its value.
LEMMA TextGrows ==
  ASSUME VisitorTyped, NEW f \in Frames, f.of = "item", NEW u \in Seq(Tokens),
         v.ss = Opening(f) \o raw, v'.ss = v.ss \o u, raw' = raw \o u
  PROVE  v'.ss = Opening(f) \o raw'
  <1>1. raw \in Seq(Tokens) /\ Opening(f) \in Seq(Tokens)
    BY Here, OpeningTyped
  <1>2. (Opening(f) \o raw) \o u = Opening(f) \o (raw \o u)
    BY <1>1, ValueGrows, Zenon
  <1> QED BY <1>2, Zenon

\* The frame of an item.
LEMMA ItemFrame ==
  ASSUME VisitorTyped, NEW k, NEW n, ItemAt(k, n)
  PROVE  k \in 1..Len(frames) /\ frames[k] \in Frames /\ frames[k].of = "item"
  BY Here DEF ItemAt

\* An array that is the value, or a member of the object that is.
LEMMA ArrayStartPlaces ==
  ASSUME VisitorTyped, ItemPlace, mode = "value", Top.of # "object", Stays(v, v'),
         NEW x \in Frames, x.of = "array", x.n = 0, frames' = <<x>> \o frames,
         \A i \in 1..Len(frames) : frames[i].of # "array",
         UNCHANGED root_path, v'.array_idx = 0,
         v'.ss = v.ss \o <<"[">>, raw' = raw \o <<"[">>
  PROVE  ItemPlace'
  <1>s. /\ v'.current_path = v.current_path /\ v'.needs_close_object = v.needs_close_object
        /\ root_path' = root_path
    BY DEF Stays
  <1>v. "[" \in Tokens /\ "[" \notin Closers /\ "[" \in Openers
    BY OneToken
  <1>w. <<"[">> \in Seq(Tokens)
    BY <1>v, TextsTyped, Zenon
  <1>k. 1 \in Nat /\ 2 \in Nat /\ 3 \in Nat /\ 4 \in Nat
    OBVIOUS
  <1>h. raw \in Seq(Tokens) /\ v.ss \in Seq(Tokens)
    BY Here
  <1>1. CASE AtValue
    <2>1. /\ ItemAt(1, 0) /\ ~v.needs_close_object /\ raw = <<>> /\ v.ss = Opening(frames[1])
          /\ frames[1].keyed => Opened(v.ss, 1)
      BY <1>1 DEF AtValue, Closable, Top
    <2>2. ItemAt(2, 0)' /\ frames'[2] = frames[1] /\ Top' = x
      <3>1. 1 + 1 = 2
        OBVIOUS
      <3> QED BY <1>k, <1>s, <2>1, <3>1, ItemPushed
    <2>3. v'.ss = Opening(frames'[2]) \o raw'
      <3>1. frames[1] \in Frames /\ frames[1].of = "item"
        BY <2>1, ItemFrame
      <3>2. Opening(frames[1]) \in Seq(Tokens)
        BY <3>1, OpeningTyped
      <3>3. Opening(frames[1]) \o <<>> = Opening(frames[1])
        BY <3>2, ConcatEmptySeq
      <3>4. v.ss = Opening(frames[1]) \o raw
        BY <2>1, <3>3, Zenon
      <3>5. v'.ss = Opening(frames[1]) \o raw'
        BY <1>w, <3>1, <3>4, TextGrows, Zenon
      <3> QED BY <2>2, <3>5, Zenon
    <2>4. frames'[2].keyed => Opened(v'.ss, 2)
      <3>1. frames[1].keyed => Opened(v.ss \o <<"[">>, 1 + 1)
        BY <1>h, <1>k, <1>v, <2>1, OpenedOne, Zenon
      <3>2. 1 + 1 = 2
        OBVIOUS
      <3> QED BY <2>2, <3>1, <3>2, Zenon
    <2>5. Top'.of = "array" /\ Top'.n = v'.array_idx
      BY <2>2
    <2> QED BY <1>s, <2>1, <2>2, <2>3, <2>4, <2>5, Zenon DEF InArray, Closable, ItemPlace
  <1>2. CASE AtField
    <2>1. /\ ItemAt(3, 1) /\ ~v.needs_close_object /\ frames[3].keyed
          /\ frames[1].of = "item" /\ ~frames[1].item /\ ~frames[1].keyed
          /\ ~frames[1].needs_close_array /\ frames[1].needs_close_object
          /\ frames[2].of = "object" /\ frames[2].n > 0
          /\ v.ss = Opening(frames[3]) \o raw /\ Opened(v.ss, 2)
      <3>1. 1 + 2 = 3 /\ 1 + 1 = 2
        OBVIOUS
      <3> QED BY <1>2, <3>1 DEF AtField, FieldAt, Closable
    <2>2. ItemAt(4, 1)' /\ frames'[4] = frames[3] /\ Top' = x
          /\ frames'[2] = frames[1] /\ frames'[3] = frames[2]
      <3>1. 3 + 1 = 4 /\ 1 + 1 = 2 /\ 2 + 1 = 3
        OBVIOUS
      <3>2. 3 \in 1..Len(frames)
        BY <2>1, ItemFrame
      <3>3. Len(frames) \in Nat
        BY Here
      <3>4. 1 \in 1..Len(frames) /\ 2 \in 1..Len(frames)
        BY <3>2, <3>3
      <3> QED BY <1>k, <1>s, <2>1, <3>1, <3>4, ItemPushed
    <2>3. v'.ss = Opening(frames'[4]) \o raw'
      <3>1. frames[3] \in Frames /\ frames[3].of = "item"
        BY <2>1, ItemFrame
      <3>2. v'.ss = Opening(frames[3]) \o raw'
        BY <1>w, <2>1, <3>1, TextGrows, Zenon
      <3> QED BY <2>2, <3>2, Zenon
    <2>4. Opened(v'.ss, 3)
      <3>1. Opened(v.ss \o <<"[">>, 2 + 1)
        BY <1>h, <1>k, <1>v, <2>1, OpenedOne, Zenon
      <3>2. 2 + 1 = 3
        OBVIOUS
      <3> QED BY <3>1, <3>2, Zenon
    <2>5. Top'.of = "array" /\ Top'.n = v'.array_idx
      BY <2>2
    <2>6. FieldAt(2)'
      <3>1. 2 + 2 = 4 /\ 2 + 1 = 3
        OBVIOUS
      <3> QED BY <1>s, <2>1, <2>2, <2>3, <2>4, <3>1 DEF FieldAt, Closable
    <2> QED BY <2>5, <2>6 DEF InFieldArray, ItemPlace
  <1>3. ~InArray /\ ~InFieldArray
    <2>1. Len(frames) \in Nat
      BY Here
    <2>2. InArray \/ InFieldArray => Top.of = "array" /\ Len(frames) > 0
      <3>1. InArray => 2 \in 1..Len(frames)
        BY ItemFrame DEF InArray
      <3>2. InFieldArray => 2 + 2 \in 1..Len(frames)
        BY ItemFrame DEF InFieldArray, FieldAt
      <3> QED BY <2>1, <3>1, <3>2 DEF InArray, InFieldArray
    <2>3. Len(frames) > 0 => 1 \in 1..Len(frames)
      BY <2>1
    <2> QED BY <2>2, <2>3 DEF Top
  <1> QED BY <1>1, <1>2, <1>3 DEF ItemPlace, AtObject, InObject

LEMMA SmallNumbers ==
  /\ 1 \in Nat /\ 2 \in Nat /\ 3 \in Nat /\ 4 \in Nat /\ 2 # 1 /\ 4 # 1 /\ 1 > 0 /\ 2 > 0 /\ 3 > 0
  /\ 1 + 1 = 2 /\ 2 + 1 = 3 /\ 1 + 2 = 3 /\ 2 + 2 = 4 /\ 3 + 1 = 4
  OBVIOUS

LEMMA InnerFrames ==
  ASSUME NEW n \in Nat, 4 \in 1..n
  PROVE  2 \in 2..n /\ 3 \in 2..n /\ 1 \in 1..(n - 1) /\ 2 \in 1..(n - 1)
  OBVIOUS

\* A container above an item has one more value.
LEMMA ItemBumped ==
  ASSUME VisitorTyped, NEW k, NEW n, ItemAt(k, n), k # 1, Top.of # "item",
         frames' = [frames EXCEPT ![1].n = @ + 1],
         UNCHANGED root_path, v'.current_path = v.current_path
  PROVE  /\ ItemAt(k, n)' /\ frames'[k] = frames[k] /\ Top'.of = Top.of /\ Top'.n = Top.n + 1
         /\ Top.n \in Nat
         /\ Len(frames') = Len(frames) /\ \A i \in 2..Len(frames) : frames'[i] = frames[i]
  <1>1. k \in 1..Len(frames) /\ Len(frames) \in Nat /\ frames \in Seq(Frames)
    BY Here, ItemFrame
  <1>2. frames # <<>> /\ Top = frames[1]
    BY <1>1, EmptySeq DEF Top
  <1>3. frames[1].of # "item"
    BY <1>2
  <1> DEFINE g == frames'
  <1>4. g = [frames EXCEPT ![1].n = @ + 1]
    OBVIOUS
  <1> HIDE DEF g
  <1>5. /\ Len(g) = Len(frames) /\ frames[1].n \in Nat
        /\ g[1].of = frames[1].of /\ g[1].n = frames[1].n + 1
        /\ \A i \in 2..Len(frames) : g[i] = frames[i]
    BY <1>1, <1>2, <1>3, <1>4, Bumped
  <1>6. k \in 2..Len(frames)
    BY <1>1
  <1>7. g[k] = frames[k] /\ k \in 1..Len(g)
    BY <1>1, <1>5, <1>6
  <1>8. ItemAt(k, n)'
    BY <1>7 DEF ItemAt, Reaches, g
  <1> QED BY <1>2, <1>5, <1>7, <1>8 DEF Top, g

\* A comma, or none, closes nothing.
LEMMA CommaWritten ==
  ASSUME NEW text \in Seq(Tokens), NEW m \in Nat, Opened(text, m), NEW n
  PROVE  /\ Opened(text \o (IF n > 0 THEN <<",">> ELSE <<>>), m)
         /\ (IF n > 0 THEN <<",">> ELSE <<>>) \in Seq(Tokens)
  <1>1. "," \in Tokens /\ "," \notin Closers
    BY OneToken
  <1>2. <<",">> \in Seq(Tokens) /\ <<>> \in Seq(Tokens)
    BY <1>1, TextsTyped, Zenon
  <1>3. Opened(text \o <<",">>, m)
    BY <1>1, OpenedOne, Zenon
  <1>4. text \o <<>> = text
    BY ConcatEmptySeq
  <1>5. CASE n > 0
    BY <1>2, <1>3, <1>5, Zenon
  <1>6. CASE ~(n > 0)
    BY <1>2, <1>4, <1>6, Zenon
  <1> QED BY <1>5, <1>6

\* The next element of an array: a comma, but before the first.
LEMMA ArrayItemPlaces ==
  ASSUME VisitorTyped, ItemPlace, mode = "after", frames # <<>>, Top.of = "array", Stays(v, v'),
         frames' = [frames EXCEPT ![1].n = @ + 1], UNCHANGED root_path,
         v'.array_idx = v.array_idx + 1,
         v'.ss = v.ss \o (IF v.array_idx > 0 THEN <<",">> ELSE <<>>),
         raw' = raw \o (IF Top.n > 0 THEN <<",">> ELSE <<>>)
  PROVE  ItemPlace'
  <1>s. /\ v'.current_path = v.current_path /\ v'.needs_close_object = v.needs_close_object
        /\ root_path' = root_path
    BY DEF Stays
  <1>h. v.ss \in Seq(Tokens) /\ raw \in Seq(Tokens) /\ Len(frames) \in Nat /\ frames[1] = Top
    BY Here DEF Top
  <1> DEFINE c == IF Top.n > 0 THEN <<",">> ELSE <<>>
  <1>b. raw' = raw \o c
    BY Zenon
  <1>c. v.array_idx = Top.n => v'.ss = v.ss \o c
    BY Zenon
  <1>k. /\ 2 \in Nat /\ 3 \in Nat /\ 2 # 1 /\ 4 # 1
        /\ 2 + 2 = 4 /\ 2 + 1 = 3 /\ 1 + 2 = 3 /\ 1 + 1 = 2 /\ 3 + 1 = 4
    BY SmallNumbers
  <1> HIDE DEF c
  <1>1. CASE InArray
    <2>1. /\ ItemAt(2, 0) /\ ~v.needs_close_object /\ Top.n = v.array_idx
          /\ v.ss = Opening(frames[2]) \o raw
      BY <1>1 DEF InArray
    <2>2. /\ ItemAt(2, 0)' /\ frames'[2] = frames[2] /\ Top'.of = "array"
          /\ Top'.n = v'.array_idx
      BY <1>k, <1>s, <2>1, ItemBumped, Zenon
    <2>3. frames[2] \in Frames /\ frames[2].of = "item"
      BY <2>1, ItemFrame
    <2>4. c \in Seq(Tokens) /\ (frames[2].keyed => Opened(v.ss \o c, 2))
      <3>1. frames[2].keyed => Opened(v.ss, 2)
        BY <1>1 DEF InArray, Closable
      <3>2. c \in Seq(Tokens)
        <4>1. "," \in Tokens
          BY OneToken
        <4>2. <<",">> \in Seq(Tokens) /\ <<>> \in Seq(Tokens)
          BY <4>1, TextsTyped, Zenon
        <4> QED BY <4>2, Zenon DEF c
      <3>3. frames[2].keyed => Opened(v.ss \o (IF Top.n > 0 THEN <<",">> ELSE <<>>), 2)
        BY <1>h, <1>k, <3>1, CommaWritten, Zenon
      <3> QED BY <3>2, <3>3, Zenon DEF c
    <2>5. v'.ss = v.ss \o c
      BY <1>c, <2>1
    <2>6. v'.ss = Opening(frames'[2]) \o raw'
      <3>1. v'.ss = Opening(frames[2]) \o raw'
        BY <1>b, <2>1, <2>3, <2>4, <2>5, TextGrows, Zenon
      <3> QED BY <2>2, <3>1, Zenon
    <2>7. frames'[2].keyed => Opened(v'.ss, 2)
      BY <2>2, <2>4, <2>5, Zenon
    <2> QED BY <1>s, <2>1, <2>2, <2>6, <2>7, Zenon DEF InArray, Closable, ItemPlace
  <1>2. CASE InFieldArray
    <2>1. /\ ItemAt(4, 1) /\ ~v.needs_close_object /\ frames[4].keyed
          /\ frames[2].of = "item" /\ ~frames[2].item /\ ~frames[2].keyed
          /\ ~frames[2].needs_close_array /\ frames[2].needs_close_object
          /\ frames[3].of = "object" /\ frames[3].n > 0
          /\ v.ss = Opening(frames[4]) \o raw /\ Top.n = v.array_idx /\ Opened(v.ss, 3)
      BY <1>2, <1>k DEF InFieldArray, FieldAt, Closable
    <2>2. /\ ItemAt(4, 1)' /\ frames'[4] = frames[4] /\ Top'.of = "array"
          /\ Top'.n = v'.array_idx
          /\ \A i \in 2..Len(frames) : frames'[i] = frames[i]
      BY <1>k, <1>s, <2>1, ItemBumped, Zenon
    <2>3. frames[4] \in Frames /\ frames[4].of = "item" /\ 4 \in 1..Len(frames)
      BY <2>1, ItemFrame
    <2>4. frames'[2] = frames[2] /\ frames'[3] = frames[3]
      <3>1. 2 \in 2..Len(frames) /\ 3 \in 2..Len(frames)
        BY <1>h, <2>3, InnerFrames
      <3> QED BY <2>2, <3>1
    <2>5. c \in Seq(Tokens) /\ Opened(v.ss \o c, 3)
      <3>1. /\ Opened(v.ss \o (IF Top.n > 0 THEN <<",">> ELSE <<>>), 3)
            /\ (IF Top.n > 0 THEN <<",">> ELSE <<>>) \in Seq(Tokens)
        BY <1>h, <1>k, <2>1, CommaWritten, Zenon
      <3> QED BY <3>1, Zenon DEF c
    <2>6. v'.ss = v.ss \o c
      BY <1>c, <2>1
    <2>7. v'.ss = Opening(frames'[4]) \o raw'
      <3>1. v'.ss = Opening(frames[4]) \o raw'
        BY <1>b, <2>1, <2>3, <2>5, <2>6, TextGrows, Zenon
      <3> QED BY <2>2, <3>1, Zenon
    <2>8. Opened(v'.ss, 3)
      BY <2>5, <2>6, Zenon
    <2>9. /\ ItemAt(4, 1)' /\ ~v'.needs_close_object /\ frames'[4].keyed
          /\ frames'[2].of = "item" /\ ~frames'[2].item /\ ~frames'[2].keyed
          /\ ~frames'[2].needs_close_array /\ frames'[2].needs_close_object
          /\ frames'[3].of = "object" /\ frames'[3].n > 0
      BY <1>s, <2>1, <2>2, <2>4, Zenon
    <2>10. FieldAt(2)'
      BY <1>k, <2>7, <2>8, <2>9 DEF FieldAt, Closable
    <2> QED BY <2>2, <2>10 DEF InFieldArray, ItemPlace
  <1>3. ~AtValue /\ ~AtField
    BY <1>h DEF AtValue, AtField, FieldAt, ItemAt
  <1>4. ~AtObject /\ ~InObject
    BY DEF AtObject, InObject
  <1> QED BY <1>1, <1>2, <1>3, <1>4 DEF ItemPlace

\* The innermost frame of those above an item is popped.
LEMMA ItemPopped ==
  ASSUME VisitorTyped, NEW k \in Nat, NEW n, ItemAt(k + 1, n), k > 0,
         frames' = Tail(frames), UNCHANGED root_path, v'.current_path = v.current_path
  PROVE  /\ ItemAt(k, n)' /\ frames'[k] = frames[k + 1] /\ Len(frames') = Len(frames) - 1
         /\ \A i \in 1..(Len(frames) - 1) : frames'[i] = frames[i + 1]
  <1>1. k + 1 \in 1..Len(frames) /\ Len(frames) \in Nat /\ frames \in Seq(Frames)
    BY Here, ItemFrame
  <1>2. frames # <<>>
    BY <1>1, EmptySeq
  <1>3. /\ Len(frames') = Len(frames) - 1
        /\ \A i \in 1..(Len(frames) - 1) : frames'[i] = frames[i + 1]
    BY <1>1, <1>2, TopAndOthers
  <1>4. k \in 1..(Len(frames) - 1)
    BY <1>1
  <1>5. frames'[k] = frames[k + 1]
    BY <1>3, <1>4
  <1>6. k \in 1..Len(frames')
    BY <1>1, <1>3
  <1>7. ItemAt(k, n)'
    BY <1>5, <1>6 DEF ItemAt, Reaches
  <1> QED BY <1>3, <1>5, <1>7

\* An array is closed.
LEMMA ArrayStopPlaces ==
  ASSUME VisitorTyped, ItemPlace, frames # <<>>, Top.of = "array", Stays(v, v'),
         frames' = Tail(frames), UNCHANGED root_path, mode' = "after",
         v'.ss = v.ss \o <<"]">>, raw' = raw \o <<"]">>
  PROVE  ItemPlace'
  <1>s. /\ v'.current_path = v.current_path /\ v'.needs_close_object = v.needs_close_object
        /\ root_path' = root_path
    BY DEF Stays
  <1>h. v.ss \in Seq(Tokens) /\ raw \in Seq(Tokens) /\ Len(frames) \in Nat /\ frames[1] = Top
    BY Here DEF Top
  <1>v. "]" \in Tokens
    BY OneToken
  <1>w. <<"]">> \in Seq(Tokens)
    BY <1>v, TextsTyped, Zenon
  <1>1. CASE InArray
    <2>1. /\ ItemAt(2, 0) /\ ~v.needs_close_object /\ v.ss = Opening(frames[2]) \o raw
      BY <1>1 DEF InArray
    <2>2. ItemAt(1, 0)' /\ frames'[1] = frames[2]
      <3>1. 1 \in Nat /\ 1 + 1 = 2 /\ 1 > 0
        OBVIOUS
      <3> QED BY <1>s, <2>1, <3>1, ItemPopped
    <2>3. frames[2] \in Frames /\ frames[2].of = "item"
      BY <2>1, ItemFrame
    <2>4. v'.ss = Opening(Top') \o raw'
      <3>1. v'.ss = Opening(frames[2]) \o raw'
        BY <1>w, <2>1, <2>3, TextGrows, Zenon
      <3> QED BY <2>2, <3>1, Zenon DEF Top
    <2>5. raw' # <<>> /\ Last(raw') # "}"
      <3>1. raw \o <<"]">> # <<>> /\ Last(raw \o <<"]">>) = "]"
        <4>1. raw \in Seq(Tokens)
          BY <1>h
        <4> QED BY ONLY <4>1, <1>v, LastOf, Zenon
      <3>2. raw' # <<>> /\ Last(raw') = "]"
        BY <3>1, Zenon
      <3> QED BY <3>2
    <2>6. v'.ss \o <<>> = v'.ss
      <3>1. v'.ss \in Seq(Tokens)
        BY <1>h, <1>v, LastOf, Zenon
      <3> QED BY <3>1, ConcatEmptySeq
    <2>7. AtValue'
      BY <1>s, <2>1, <2>2, <2>4, <2>5, <2>6, Zenon DEF AtValue
    <2> QED BY <2>7 DEF ItemPlace
  <1>2. CASE InFieldArray
    <2>k. 2 + 2 = 4 /\ 2 + 1 = 3 /\ 1 + 2 = 3 /\ 1 + 1 = 2 /\ 3 + 1 = 4
      BY SmallNumbers
    <2>1. /\ ItemAt(4, 1) /\ ~v.needs_close_object /\ frames[4].keyed
          /\ frames[2].of = "item" /\ ~frames[2].item /\ ~frames[2].keyed
          /\ ~frames[2].needs_close_array /\ frames[2].needs_close_object
          /\ frames[3].of = "object" /\ frames[3].n > 0
          /\ v.ss = Opening(frames[4]) \o raw /\ Opened(v.ss, 3)
      BY <1>2, <2>k DEF InFieldArray, FieldAt, Closable
    <2>2. /\ ItemAt(3, 1)' /\ frames'[3] = frames[4]
          /\ \A i \in 1..(Len(frames) - 1) : frames'[i] = frames[i + 1]
      <3>1. 3 \in Nat /\ 3 > 0
        OBVIOUS
      <3> QED BY <1>s, <2>k, <2>1, <3>1, ItemPopped
    <2>3. frames[4] \in Frames /\ frames[4].of = "item" /\ 4 \in 1..Len(frames)
      BY <2>1, ItemFrame
    <2>4. frames'[1] = frames[2] /\ frames'[2] = frames[3]
      <3>1. 1 \in 1..(Len(frames) - 1) /\ 2 \in 1..(Len(frames) - 1)
        BY <1>h, <2>3, InnerFrames
      <3> QED BY <2>k, <2>2, <3>1
    <2>5. v'.ss = Opening(frames'[3]) \o raw'
      <3>1. v'.ss = Opening(frames[4]) \o raw'
        BY <1>w, <2>1, <2>3, TextGrows, Zenon
      <3> QED BY <2>2, <3>1, Zenon
    <2>6. Opened(v'.ss, 2)
      <3>1. Opened(v.ss, 2 + 1)
        BY <2>k, <2>1
      <3>2. Opened(v.ss \o <<"]">>, 2)
        <4>1. 2 \in Nat
          OBVIOUS
        <4> QED BY <1>h, <1>v, <3>1, <4>1, OpenedOne, Zenon
      <3> QED BY <3>2, Zenon
    <2>7. FieldAt(1)'
      BY <1>s, <2>k, <2>1, <2>2, <2>4, <2>5, <2>6 DEF FieldAt, Closable
    <2> QED BY <2>7 DEF AtField, ItemPlace
  <1>3. ~AtValue /\ ~AtField
    BY <1>h DEF AtValue, AtField, FieldAt, ItemAt
  <1>4. ~AtObject /\ ~InObject
    BY DEF AtObject, InObject
  <1> QED BY <1>1, <1>2, <1>3, <1>4 DEF ItemPlace

\* An object that is the value of a keyed item: nothing is written yet.
LEMMA ObjectStartPlaces ==
  ASSUME VisitorTyped, ItemPlace, mode = "value", Stays(v, v'),
         Top.of = "item", Top.item = TRUE, Top.keyed,
         NEW x \in Frames, x.of = "object", x.n = 0, frames' = <<x>> \o frames,
         UNCHANGED root_path, v'.ss = v.ss, raw' = raw \o <<"{">>
  PROVE  ItemPlace'
  <1>s. /\ v'.current_path = v.current_path /\ v'.needs_close_object = v.needs_close_object
        /\ root_path' = root_path
    BY DEF Stays
  <1>1. AtValue
    <2>1. ~InArray /\ ~AtObject /\ ~InObject /\ ~InFieldArray
      BY DEF InArray, AtObject, InObject, InFieldArray
    <2>2. ~AtField
      BY DEF AtField, FieldAt, Top
    <2> QED BY <2>1, <2>2 DEF ItemPlace
  <1>2. /\ ItemAt(1, 0) /\ ~v.needs_close_object /\ raw = <<>> /\ v.ss = Opening(frames[1])
        /\ frames[1].keyed /\ Opened(v.ss, 1)
    BY <1>1 DEF AtValue, Closable, Top
  <1>3. ItemAt(2, 0)' /\ frames'[2] = frames[1] /\ Top' = x
    BY <1>s, <1>2, SmallNumbers, ItemPushed
  <1>4. raw' = <<"{">>
    <2>1. "{" \in Tokens
      BY OneToken
    <2>2. <<"{">> \in Seq(Tokens)
      BY <2>1, TextsTyped, Zenon
    <2>3. <<>> \o <<"{">> = <<"{">>
      BY <2>2, ConcatEmptySeq
    <2> QED BY <1>2, <2>3, Zenon
  <1>5. AtObject'
    BY <1>s, <1>2, <1>3, <1>4, Zenon DEF AtObject, Closable
  <1> QED BY <1>5 DEF ItemPlace

\* A key opens or closes nothing.
LEMMA KeyTokens ==
  ASSUME NEW key \in Keys
  PROVE  /\ <<key, ":">> \in Seq(Tokens)
         /\ \A i \in 1..Len(<<key, ":">>) : <<key, ":">>[i] \notin Closers
  <1>1. key \notin Closers /\ ":" \notin Closers
    BY KeysAssumption DEF Closers, Punctuation
  <1> DEFINE c == ":"
             s == <<key, c>>
  <1>2. s \in Seq(Tokens)
    BY PiecesTyped
  <1>3. c \notin Closers
    BY <1>1
  <1> HIDE DEF c
  <1>4. Len(s) = 2 /\ s[1] = key /\ s[2] = c
    OBVIOUS
  <1> HIDE DEF s
  <1>5. \A i \in 1..Len(s) : s[i] \notin Closers
    <2>1. ASSUME NEW i \in 1..Len(s) PROVE s[i] \notin Closers
      <3>1. i = 1 \/ i = 2
        BY <1>4
      <3> QED BY <1>1, <1>3, <1>4, <3>1
    <2> QED BY <2>1
  <1> QED BY <1>2, <1>5 DEF s, c

\* What comes after the brace of a keyed item.
LEMMA IdTokens ==
  ASSUME NEW key \in Keys
  PROVE  LET more == <<"id", ":", key, ",", "val", ":">>
         IN /\ more \in Seq(Tokens) /\ \A i \in 1..Len(more) : more[i] \notin Closers
            /\ <<"{", "id", ":", key, ",", "val", ":">> = <<"{">> \o more
  <1> DEFINE a == "id"
             b == ":"
             d == ","
             e == "val"
             f == "{"
             more == <<a, b, key, d, e, b>>
  <1>1. key \notin Closers /\ b \notin Closers /\ a \notin Closers /\ d \notin Closers /\ e \notin Closers
    BY KeysAssumption DEF Closers, Punctuation
  <1>2. key \in Tokens /\ b \in Tokens /\ a \in Tokens /\ d \in Tokens /\ e \in Tokens /\ f \in Tokens
    BY DEF Tokens, Punctuation
  <1> HIDE DEF a, b, d, e, f
  <1>3. more \in Seq(Tokens)
    BY <1>2
  <1>4. /\ Len(more) = 6 /\ more[1] = a /\ more[2] = b /\ more[3] = key /\ more[4] = d
        /\ more[5] = e /\ more[6] = b
    OBVIOUS
  <1>5. <<f, a, b, key, d, e, b>> = <<f>> \o more
    OBVIOUS
  <1> HIDE DEF more
  <1>6. \A i \in 1..Len(more) : more[i] \notin Closers
    <2>1. ASSUME NEW i \in 1..Len(more) PROVE more[i] \notin Closers
      <3>1. i = 1 \/ i = 2 \/ i = 3 \/ i = 4 \/ i = 5 \/ i = 6
        BY <1>4
      <3> QED BY <1>1, <1>4, <3>1
    <2> QED BY <2>1
  <1> QED BY <1>3, <1>5, <1>6 DEF more, a, b, d, e, f

\* The text before the value of a keyed item has a brace to be closed.
LEMMA OpeningOpened ==
  ASSUME NEW f \in Frames, f.of = "item", f.keyed PROVE Opened(Opening(f), 1)
  <1>1. f.key \in Keys
    BY FrameKinds DEF Items
  <1> DEFINE k == f.key
             more == <<"id", ":", k, ",", "val", ":">>
  <1>2. /\ more \in Seq(Tokens) /\ \A i \in 1..Len(more) : more[i] \notin Closers
        /\ Opening(f) = <<"{">> \o more
    BY <1>1, IdTokens DEF Opening
  <1>3. "{" \in Tokens /\ "{" \in Openers
    BY OneToken
  <1>4. <<>> \in Seq(Tokens) /\ <<"{">> \in Seq(Tokens)
    BY <1>3, TextsTyped, Zenon
  <1>5. Opened(<<>>, 0)
    <2>1. ReaderAfter(<<>>).open = <<>> /\ ReaderAfter(<<>>).want # "comment"
      BY ReaderEmpty DEF Start
    <2>2. Len(<<>>) >= 0
      BY EmptySeq
    <2> QED BY <2>1, <2>2 DEF Opened
  <1>6. Opened(<<"{">>, 1)
    <2>1. Opened(<<>> \o <<"{">>, 0 + 1)
      <3>1. 0 \in Nat
        OBVIOUS
      <3> QED BY ONLY <1>3, <1>4, <1>5, <3>1, OpenedOne, Zenon
    <2>2. 0 + 1 = 1
      OBVIOUS
    <2>3. <<>> \o <<"{">> = <<"{">>
      BY <1>4, ConcatEmptySeq
    <2> QED BY <2>1, <2>2, <2>3, Zenon
  <1> HIDE DEF more
  <1>7. Opened(<<"{">> \o more, 1)
    BY <1>2, <1>4, <1>6, SmallNumbers, OpenedMore, Zenon
  <1> QED BY <1>2, <1>7, Zenon

LEMMA ThreeOf ==
  ASSUME NEW S, NEW a \in S, NEW b \in S, NEW c \in S PROVE <<a>> \o <<b, c>> = <<a, b, c>>
  <1> DEFINE s == <<a>>
             t == <<b, c>>
             u == <<a, b, c>>
  <1>1. /\ s \in Seq(S) /\ Len(s) = 1 /\ s[1] = a
        /\ t \in Seq(S) /\ Len(t) = 2 /\ t[1] = b /\ t[2] = c
        /\ u \in Seq(S) /\ Len(u) = 3 /\ u[1] = a /\ u[2] = b /\ u[3] = c
    OBVIOUS
  <1> HIDE DEF s, t, u
  <1>2. /\ s \o t \in Seq(S) /\ Len(s \o t) = Len(s) + Len(t)
        /\ \A i \in 1..(Len(s) + Len(t)) : (s \o t)[i] = IF i <= Len(s) THEN s[i] ELSE t[i - Len(s)]
    BY <1>1, ConcatProperties
  <1>3. ASSUME NEW i \in 1..3 PROVE (s \o t)[i] = u[i]
    <2>1. CASE i = 1
      BY <1>1, <1>2, <2>1
    <2>2. CASE i = 2
      BY <1>1, <1>2, <2>2
    <2>3. CASE i = 3
      BY <1>1, <1>2, <2>3
    <2>4. i = 1 \/ i = 2 \/ i = 3
      OBVIOUS
    <2> QED BY <2>1, <2>2, <2>3, <2>4, Zenon
  <1>4. s \o t = u
    BY <1>1, <1>2, <1>3, SeqEqual
  <1> QED BY <1>4 DEF s, t, u

\* What a key is written as that leads to a root path.
LEMMA OpeningWritten ==
  ASSUME VisitorTyped, NEW key \in Keys, ~v.emit_json,
         IsKeyed(v.table) \/ ~v.needs_close_object
  PROVE  <<>> \o PlainKeyText(IsKeyed(v.table), key) = Opening(KeyFrame(key))
  <1> DEFINE a == <<"{", "id", ":", key, ",", "val", ":">>
             b == <<"{">> \o <<key, ":">>
             e == <<"{", key, ":">>
  <1>1. a \in Seq(Tokens)
    BY PiecesTyped
  <1>2. b = e
    <2>1. "{" \in Tokens /\ ":" \in Tokens /\ key \in Tokens
      BY DEF Tokens, Punctuation
    <2> QED BY <2>1, ThreeOf, Zenon
  <1>3. e \in Seq(Tokens)
    <2>1. "{" \in Tokens /\ ":" \in Tokens /\ key \in Tokens
      BY DEF Tokens, Punctuation
    <2> QED BY <2>1, ThreeTyped, Zenon
  <1>4. KeyFrame(key).key = key /\ KeyFrame(key).keyed = IsKeyed(v.table)
    BY DEF KeyFrame
  <1>5. Opening(KeyFrame(key)) = IF IsKeyed(v.table) THEN a ELSE e
    BY <1>4, Zenon DEF Opening
  <1>6. PlainKeyText(IsKeyed(v.table), key) = IF IsKeyed(v.table) THEN <<>> \o a ELSE b
    BY Zenon DEF PlainKeyText
  <1> HIDE DEF a, b, e
  <1>7. <<>> \o a = a /\ <<>> \o e = e
    BY <1>1, <1>3, ConcatEmptySeq
  <1>8. CASE IsKeyed(v.table)
    <2>1. PlainKeyText(IsKeyed(v.table), key) = a /\ Opening(KeyFrame(key)) = a
      BY <1>5, <1>6, <1>7, <1>8, Zenon
    <2> QED BY <1>7, <2>1, Zenon
  <1>9. CASE ~IsKeyed(v.table)
    <2>1. PlainKeyText(IsKeyed(v.table), key) = e /\ Opening(KeyFrame(key)) = e
      BY <1>2, <1>5, <1>6, <1>9, Zenon
    <2> QED BY <1>7, <2>1, Zenon
  <1> QED BY <1>8, <1>9

\* A key that leads to a root path begins an item.
LEMMA KeyStarts ==
  ASSUME VisitorTyped, EmitsThere, root_path # <<>>, NEW key \in Keys, parse_object_item(key),
         plain', ~v.emit_json, KeyEmits(key)
  PROVE  ItemPlace'
  <1> DEFINE x == KeyFrame(key)
             g == [frames EXCEPT ![1].n = @ + 1]
  <1>1. /\ root_path' = root_path /\ mode = "after" /\ mode' = "value"
        /\ v'.current_path = KeyPath(key) /\ v'.needs_close_object = FALSE
        /\ v'.ss = v.ss \o PlainKeyText(IsKeyed(v.table), key)
        /\ raw' = <<>> /\ x \in Frames /\ frames' = <<x>> \o g
        /\ frames # <<>> /\ Top.of = "object"
        /\ IsKeyed(v.table) \/ ~v.needs_close_object
    <2>1. ~(root_path = <<>> \/ v.emit_json)
      OBVIOUS
    <2>2. raw' = <<>>
      BY <2>1, KeyEffect
    <2>3. IsKeyed(v.table) \/ ~v.needs_close_object
      BY KeyEffect
    <2> QED BY <2>2, <2>3, KeyEffect
  <1>2. v.ss = <<>> /\ ~is_a_subpath(v.current_path, root_path)
    BY <1>1 DEF EmitsThere
  <1>3. x.item = TRUE /\ x.of = "item" /\ x.keyed = IsKeyed(v.table)
    BY DEF KeyFrame, KeyEmits, is_a_subpath
  <1>4. v'.ss = Opening(x)
    <2>1. v'.ss = <<>> \o PlainKeyText(IsKeyed(v.table), key)
      BY <1>1, <1>2, Zenon
    <2> QED BY <1>1, <2>1, OpeningWritten, Zenon
  <1>5. x.keyed => Opened(v'.ss, 1)
    BY <1>1, <1>3, <1>4, OpeningOpened, Zenon
  <1>6. g \in Seq(Frames)
    BY <1>1, TopHere, Bumped
  <1> HIDE DEF x, g
  <1>7. frames'[1] = x /\ 1 \in 1..Len(frames')
    <2>1. frames'[1] = x /\ Len(frames') = Len(g) + 1 /\ Len(g) \in Nat
      BY <1>1, <1>6, Pushed, LenProperties
    <2> QED BY <2>1
  <1>8. ~Reaches(v'.current_path, root_path, 1)
    <2>1. v.current_path \in Paths /\ root_path \in Roots
      BY Here
    <2>2. 0 \in Nat /\ 0 + 1 = 1
      OBVIOUS
    <2>3. Reaches(Append(v.current_path, key), root_path, 0 + 1) = Reaches(v.current_path, root_path, 0)
      BY <2>1, <2>2, ReachesPushed
    <2>4. is_a_subpath(v.current_path, root_path) = Reaches(v.current_path, root_path, 0)
      BY <2>1, <2>2, ReachesPushed
    <2>5. ~Reaches(Append(v.current_path, key), root_path, 1)
      BY <1>2, <2>2, <2>3, <2>4
    <2> QED BY <1>1, <2>5 DEF KeyPath
  <1>9. ItemAt(1, 0)'
    <2>1. 0 + 1 = 1
      OBVIOUS
    <2> QED BY <1>1, <1>3, <1>7, <1>8, <2>1 DEF ItemAt
  <1>10. AtValue'
    BY <1>1, <1>4, <1>5, <1>7, <1>9 DEF AtValue, Closable, Top
  <1> QED BY <1>10 DEF ItemPlace

\* A key inside the object that is the value of an item.
LEMMA KeyInside ==
  ASSUME VisitorTyped, ItemPlace, ~v.needs_close_array, NEW key \in Keys, parse_object_item(key),
         plain', v.emit_json, KeyEmits(key)
  PROVE  ItemPlace'
  <1> DEFINE x == KeyFrame(key)
             g == [frames EXCEPT ![1].n = @ + 1]
             k == <<key, ":">>
             c == IF Top.n > 0 THEN <<",">> ELSE <<>>
             p == IF v.needs_close_object THEN <<",">> ELSE <<"{">>
  <1>1. /\ root_path' = root_path /\ mode = "after" /\ mode' = "value"
        /\ v'.current_path = KeyPath(key) /\ v'.needs_close_object = FALSE
        /\ v'.ss = v.ss \o PlainKeyText(IsKeyed(v.table), key)
        /\ raw' = raw \o (c \o k) /\ x \in Frames /\ frames' = <<x>> \o g
        /\ frames # <<>> /\ Top.of = "object" /\ ~IsKeyed(v.table)
    <2>1. raw' = raw \o (c \o k)
      BY KeyEffect
    <2>2. ~IsKeyed(v.table)
      BY KeyEffect
    <2> QED BY <2>1, <2>2, KeyEffect
  <1>2. /\ x.of = "item" /\ x.item = FALSE /\ ~x.keyed /\ ~x.needs_close_array /\ x.needs_close_object
    BY <1>1 DEF KeyFrame
  <1>3. v'.ss = v.ss \o (p \o k)
    <2>1. PlainKeyText(IsKeyed(v.table), key) = p \o k
      BY <1>1, Zenon DEF PlainKeyText
    <2> QED BY <1>1, <2>1, Zenon
  <1>4. /\ k \in Seq(Tokens) /\ \A i \in 1..Len(k) : k[i] \notin Closers
    BY KeyTokens
  <1>h. /\ v.ss \in Seq(Tokens) /\ raw \in Seq(Tokens) /\ Len(frames) \in Nat /\ frames \in Seq(Frames)
        /\ v.current_path \in Paths /\ root_path \in Roots
    BY Here
  <1>t. frames[1] = Top /\ Top.n \in Nat
    BY <1>1, TopHere
  <1>q. (Top.n = 0 \/ Top.n > 0) /\ (Top.n > 0 => Top.n # 0)
    BY <1>t, Positive, Zenon
  <1>5. /\ "," \in Tokens /\ "," \notin Closers /\ "{" \in Tokens /\ "{" \notin Closers /\ "{" \in Openers
        /\ <<",">> \in Seq(Tokens) /\ <<"{">> \in Seq(Tokens) /\ <<>> \in Seq(Tokens)
    BY OneToken, PiecesTyped
  <1>6. /\ ItemAt(2, 0) /\ frames[2].keyed
        /\ \/ Top.n = 0 /\ ~v.needs_close_object /\ v.ss = Opening(frames[2]) /\ raw = <<"{">>
              /\ Opened(v.ss, 1)
           \/ Top.n > 0 /\ v.needs_close_object /\ v.ss = Opening(frames[2]) \o raw /\ Opened(v.ss, 2)
    <2>1. ~AtValue /\ ~AtField
      BY <1>1, <1>t DEF AtValue, AtField, FieldAt, ItemAt
    <2>2. ~InArray /\ ~InFieldArray
      BY <1>1 DEF InArray, InFieldArray
    <2>3. CASE AtObject
      BY <2>3 DEF AtObject, Closable
    <2>4. CASE InObject
      BY <2>4 DEF InObject, Closable
    <2> QED BY <2>1, <2>2, <2>3, <2>4 DEF ItemPlace
  <1>7. /\ g \in Seq(Frames) /\ Len(g) = Len(frames) /\ g[1].of = "object" /\ g[1].n = Top.n + 1
        /\ \A i \in 2..Len(frames) : g[i] = frames[i]
    <2>1. frames[1].of = "object" /\ frames[1].of # "item"
      BY <1>1, <1>t
    <2>2. g = [frames EXCEPT ![1].n = @ + 1]
      OBVIOUS
    <2> HIDE DEF g
    <2>3. /\ g \in Seq(Frames) /\ Len(g) = Len(frames)
          /\ g[1].of = frames[1].of /\ g[1].n = frames[1].n + 1
          /\ \A i \in 2..Len(frames) : g[i] = frames[i]
      <3>1. frames # <<>> /\ frames \in Seq(Frames)
        BY <1>1, <1>h
      <3>2. frames[1].of # "item"
        BY <2>1
      <3> QED BY ONLY <2>2, <3>1, <3>2, Bumped
    <2> QED BY <1>t, <2>1, <2>3
  <1> HIDE DEF x, g, k, c, p
  <1>8. /\ Len(frames') = Len(frames) + 1 /\ frames'[1] = x
        /\ \A i \in 1..Len(frames) : frames'[i + 1] = g[i]
    BY <1>1, <1>7, Pushed
  <1>9. 2 \in 1..Len(frames) /\ frames[2] \in Frames /\ frames[2].of = "item"
    BY <1>6, ItemFrame
  <1>10. /\ frames'[2].of = "object" /\ frames'[2].n > 0 /\ frames'[3] = frames[2]
         /\ 3 \in 1..Len(frames')
    <2>1. 1 \in 1..Len(frames) /\ 2 \in 2..Len(frames) /\ 3 \in 1..(Len(frames) + 1)
      BY <1>h, <1>9
    <2>2. frames'[1 + 1] = g[1] /\ frames'[2 + 1] = g[2] /\ g[2] = frames[2]
      BY <1>7, <1>8, <1>9, <2>1
    <2>3. frames'[2] = g[1] /\ frames'[3] = frames[2]
      BY <2>2, SmallNumbers
    <2>4. g[1].n > 0
      BY <1>t, <1>7
    <2> QED BY <1>7, <1>8, <2>1, <2>3, <2>4
  <1>11. ItemAt(3, 1)'
    <2>1. ~Reaches(v.current_path, root_path, 1)
      <3>1. 0 + 1 = 1
        OBVIOUS
      <3> QED BY <1>6, <3>1 DEF ItemAt
    <2>2. Reaches(Append(v.current_path, key), root_path, 1 + 1) = Reaches(v.current_path, root_path, 1)
      BY <1>h, SmallNumbers, ReachesPushed
    <2>3. ~Reaches(v'.current_path, root_path, 1 + 1)
      BY <1>1, <2>1, <2>2 DEF KeyPath
    <2>4. frames'[3].of = "item" /\ frames'[3].item = TRUE
      BY <1>6, <1>10 DEF ItemAt
    <2> QED BY <1>1, <1>10, <2>3, <2>4 DEF ItemAt
  <1>12. v'.ss = Opening(frames[2]) \o raw' /\ Opened(v'.ss, 2)
    <2>s. /\ v.ss \in Seq(Tokens) /\ k \in Seq(Tokens)
          /\ <<",">> \in Seq(Tokens) /\ <<"{">> \in Seq(Tokens)
      BY <1>4, <1>5, <1>h
    <2>o. Opening(frames[2]) \in Seq(Tokens)
      BY <1>9, OpeningTyped
    <2>1. CASE Top.n = 0
      <3>1. c = <<>> /\ p = <<"{">>
        <4>1. ~(Top.n > 0) /\ ~v.needs_close_object
          BY <1>6, <1>q, <2>1, Zenon
        <4> QED BY <4>1, Zenon DEF c, p
      <3>2. c \o k = k
        BY <1>4, <3>1, ConcatEmptySeq
      <3>3. v.ss = Opening(frames[2]) /\ raw = <<"{">> /\ Opened(v.ss, 1)
        BY <1>6, <1>q, <2>1, Zenon
      <3>4. raw' = p \o k
        BY <1>1, <3>1, <3>2, <3>3, Zenon
      <3>5. v'.ss = Opening(frames[2]) \o raw'
        BY <1>3, <3>3, <3>4, Zenon
      <3>6. Opened(v.ss \o <<"{">>, 1 + 1)
        BY <1>5, <1>h, <3>3, SmallNumbers, OpenedOne, Zenon
      <3>7. Opened(v.ss \o <<"{">>, 2)
        BY <3>6, SmallNumbers, Zenon
      <3>8. v.ss \o <<"{">> \in Seq(Tokens)
        BY <1>5, <1>h, LastOf, Zenon
      <3>9. Opened((v.ss \o <<"{">>) \o k, 2)
        BY <1>4, <3>7, <3>8, SmallNumbers, OpenedMore, Zenon
      <3>10. (v.ss \o <<"{">>) \o k = v.ss \o (<<"{">> \o k)
        BY <2>s, ValueGrows, Zenon
      <3>11. Opened(v'.ss, 2)
        BY <1>3, <3>1, <3>9, <3>10, Zenon
      <3> QED BY <3>5, <3>11
    <2>2. CASE Top.n > 0
      <3>1. c = <<",">> /\ p = <<",">>
        <4>1. Top.n > 0 /\ v.needs_close_object
          BY <1>6, <1>q, <2>2, Zenon
        <4> QED BY <4>1, Zenon DEF c, p
      <3>3. v.ss = Opening(frames[2]) \o raw /\ Opened(v.ss, 2)
        BY <1>6, <1>q, <2>2, Zenon
      <3>4. <<",">> \o k \in Seq(Tokens)
        BY <1>4, <1>5, ConcatProperties
      <3>5. (Opening(frames[2]) \o raw) \o (<<",">> \o k) = Opening(frames[2]) \o (raw \o (<<",">> \o k))
        BY <1>h, <2>o, <3>4, TokensThrice, Zenon
      <3>6. v'.ss = Opening(frames[2]) \o raw'
        BY <1>1, <1>3, <3>1, <3>3, <3>5, Zenon
      <3>7. Opened(v.ss \o <<",">>, 2)
        BY <1>5, <1>h, <3>3, SmallNumbers, OpenedOne, Zenon
      <3>8. v.ss \o <<",">> \in Seq(Tokens)
        BY <1>5, <1>h, LastOf, Zenon
      <3>9. Opened((v.ss \o <<",">>) \o k, 2)
        BY <1>4, <3>7, <3>8, SmallNumbers, OpenedMore, Zenon
      <3>10. (v.ss \o <<",">>) \o k = v.ss \o (<<",">> \o k)
        BY <2>s, ValueGrows, Zenon
      <3>11. Opened(v'.ss, 2)
        BY <1>3, <3>1, <3>9, <3>10, Zenon
      <3> QED BY <3>6, <3>11
    <2> QED BY <1>q, <2>1, <2>2, Zenon
  <1>13. v'.ss = Opening(frames'[3]) \o raw'
    BY <1>10, <1>12, Zenon
  <1>14. FieldAt(1)'
    <2>1. 1 + 2 = 3 /\ 1 + 1 = 2
      BY SmallNumbers
    <2> QED BY <1>1, <1>2, <1>6, <1>8, <1>10, <1>11, <1>12, <1>13, <2>1 DEF FieldAt, Closable
  <1> QED BY <1>14 DEF AtField, ItemPlace

\* The value of a key that an item is above has ended: the path is that key shorter.
LEMMA ItemUncovered ==
  ASSUME VisitorTyped, root_path # <<>>, NEW k \in Nat, NEW n \in Nat, ItemAt(k + 1, n + 1), k > 0,
         frames' = Tail(frames), UNCHANGED root_path, v'.current_path = Shorter(v)
  PROVE  /\ ItemAt(k, n)' /\ frames'[k] = frames[k + 1] /\ Len(frames') = Len(frames) - 1
         /\ \A i \in 1..(Len(frames) - 1) : frames'[i] = frames[i + 1]
  <1>1. k + 1 \in 1..Len(frames) /\ Len(frames) \in Nat /\ frames \in Seq(Frames)
    BY Here, ItemFrame
  <1>2. frames # <<>>
    BY <1>1, EmptySeq
  <1>3. /\ Len(frames') = Len(frames) - 1
        /\ \A i \in 1..(Len(frames) - 1) : frames'[i] = frames[i + 1]
    BY <1>1, <1>2, TopAndOthers
  <1>4. k \in 1..(Len(frames) - 1)
    BY <1>1
  <1>5. frames'[k] = frames[k + 1]
    BY <1>3, <1>4
  <1>6. k \in 1..Len(frames')
    BY <1>1, <1>3
  <1>7. ~Reaches(v'.current_path, root_path, n + 1)
    <2>1. v.current_path \in Paths /\ root_path \in Roots
      BY Here
    <2>2. n + 1 \in Nat
      OBVIOUS
    <2>3. Reaches(Shorter(v), root_path, n + 1) = Reaches(v.current_path, root_path, (n + 1) + 1)
      BY <2>1, <2>2, ReachesPopped
    <2>4. ~Reaches(v.current_path, root_path, (n + 1) + 1)
      BY DEF ItemAt
    <2> QED BY <2>3, <2>4
  <1>8. ItemAt(k, n)'
    BY <1>5, <1>6, <1>7 DEF ItemAt
  <1> QED BY <1>3, <1>5, <1>8

LEMMA SubpathReaches ==
  ASSUME NEW path \in Paths, NEW root \in Roots
  PROVE  is_a_subpath(path, root) <=> Reaches(path, root, 0)
  <1> DEFINE n == Len(path)
  <1>1. n \in Nat
    BY LenProperties DEF Paths
  <1>2. n >= Len(root) <=> n - 0 >= Len(root)
    BY <1>1
  <1> HIDE DEF n
  <1> QED BY <1>2, Zenon DEF is_a_subpath, Reaches, n

\* An item that a root path led to is at its end: its path led there, and what is
\* left of it does not.
LEMMA ItemLeaves ==
  ASSUME VisitorTyped, root_path # <<>>, ItemAt(1, 0)
  PROVE  ~is_a_subpath(Shorter(v), root_path)
  <1>1. v.current_path \in Paths /\ root_path \in Roots
    BY Here
  <1>2. 0 \in Nat /\ 0 + 1 = 1
    OBVIOUS
  <1>3. Reaches(Shorter(v), root_path, 0) = Reaches(v.current_path, root_path, 0 + 1)
    BY <1>1, <1>2, ReachesPopped
  <1>4. Shorter(v) \in Paths
    BY <1>1, <1>2, ReachesPopped
  <1>5. is_a_subpath(Shorter(v), root_path) <=> Reaches(Shorter(v), root_path, 0)
    BY <1>1, <1>4, SubpathReaches
  <1>6. ~Reaches(v.current_path, root_path, 0 + 1)
    BY DEF ItemAt
  <1> QED BY <1>3, <1>5, <1>6

\* The value of a key has ended, inside an item.
LEMMA ItemEndPlaces ==
  ASSUME VisitorTyped, ItemPlace, root_path # <<>>, v.emit_json, ItemEnds(TRUE),
         mode = "after", mode' = "after", frames # <<>>, Top.of = "item", v'.emit_json
  PROVE  ItemPlace' /\ ~v'.needs_close_array
  <1>1. /\ root_path' = root_path /\ frames' = Tail(frames) /\ v'.current_path = Shorter(v)
        /\ v'.needs_close_array = Top.needs_close_array
        /\ v'.needs_close_object = Top.needs_close_object
        /\ is_a_subpath(Shorter(v), root_path) /\ v'.ss = v.ss /\ raw' = raw
    <2>1. TRUE \in BOOLEAN /\ mode # "idle" /\ mode' \in {"after", "failing"}
      OBVIOUS
    <2>2. ~Handed(TRUE)
      BY DEF Handed
    <2> QED BY <2>1, <2>2, ItemEffect
  <1>2. ~AtValue
    BY <1>1, ItemLeaves DEF AtValue
  <1>3. AtField
    <2>1. ~InArray /\ ~AtObject /\ ~InObject /\ ~InFieldArray
      BY DEF InArray, AtObject, InObject, InFieldArray
    <2> QED BY <1>2, <2>1 DEF ItemPlace
  <1>4. /\ ItemAt(3, 1) /\ frames[3].keyed
        /\ frames[1].of = "item" /\ ~frames[1].item /\ ~frames[1].keyed
        /\ ~frames[1].needs_close_array /\ frames[1].needs_close_object
        /\ frames[2].of = "object" /\ frames[2].n > 0
        /\ v.ss = Opening(frames[3]) \o raw /\ Opened(v.ss, 2)
    BY <1>3, SmallNumbers DEF AtField, FieldAt, Closable
  <1>5. /\ ItemAt(2, 0)' /\ frames'[2] = frames[3]
        /\ \A i \in 1..(Len(frames) - 1) : frames'[i] = frames[i + 1]
    <2>1. 0 \in Nat /\ 0 + 1 = 1
      OBVIOUS
    <2>2. ItemAt(2 + 1, 0 + 1)
      BY <1>4, <2>1, SmallNumbers
    <2>3. /\ ItemAt(2, 0)' /\ frames'[2] = frames[2 + 1]
          /\ \A i \in 1..(Len(frames) - 1) : frames'[i] = frames[i + 1]
      BY <1>1, <2>1, <2>2, SmallNumbers, ItemUncovered, Zenon
    <2> QED BY <2>3, SmallNumbers
  <1>6. frames'[1] = frames[2]
    <2>1. 3 \in 1..Len(frames) /\ Len(frames) \in Nat
      BY <1>4, ItemFrame, Here
    <2>2. 1 \in 1..(Len(frames) - 1)
      BY <2>1
    <2> QED BY <1>5, <2>2, SmallNumbers
  <1>7. v'.needs_close_object /\ ~v'.needs_close_array
    BY <1>1, <1>4 DEF Top
  <1>8. v'.ss = Opening(frames'[2]) \o raw' /\ (frames'[2].keyed => Opened(v'.ss, 2))
    BY <1>1, <1>4, <1>5, Zenon
  <1>9. InObject'
    BY <1>1, <1>4, <1>5, <1>6, <1>7, <1>8, Zenon DEF InObject, Closable, Top
  <1> QED BY <1>7, <1>9 DEF ItemPlace

\* The object that is the value of an item is closed, with a brace too many.
LEMMA ObjectStopPlaces ==
  ASSUME VisitorTyped, FramesNested, ItemPlace, ~v.needs_close_array, root_path # <<>>, v.emit_json,
         parse_object_stop, plain'
  PROVE  ItemPlace' /\ ~v'.needs_close_array /\ item' = item
  <1>1. /\ root_path' = root_path /\ mode = "after" /\ mode' = "after"
        /\ frames # <<>> /\ Top.of = "object"
        /\ frames' = Tail(frames) /\ Top.n > 0
        /\ v'.current_path = v.current_path /\ raw' = raw \o <<"}">>
        /\ v'.object_depth = v.object_depth - 1
    BY ObjectStopEffect
  <1>t. Top = frames[1] /\ Top.n \in Nat /\ Len(frames) \in Nat /\ frames \in Seq(Frames)
    BY <1>1, TopHere
  <1>2. InObject
    <2>1. ~AtValue /\ ~AtField
      BY <1>1, <1>t DEF AtValue, AtField, FieldAt, ItemAt
    <2>2. ~InArray /\ ~InFieldArray
      BY <1>1 DEF InArray, InFieldArray
    <2>3. Top.n # 0
      BY ONLY <1>1, <1>t, Positive, Zenon
    <2>4. ~AtObject
      BY <2>3 DEF AtObject
    <2> QED BY <2>1, <2>2, <2>4 DEF ItemPlace
  <1>3. /\ ItemAt(2, 0) /\ v.needs_close_object /\ frames[2].keyed
        /\ v.ss = Opening(frames[2]) \o raw
    BY <1>2 DEF InObject
  <1>4. frames[2] \in Frames /\ frames[2].of = "item" /\ 2 \in 1..Len(frames)
    BY <1>3, ItemFrame
  <1>5. v'.object_depth # 0
    <2>1. Nested(frames) /\ v.object_depth = Cardinality(Objects(frames))
      BY <1>1 DEF FramesNested, Open
    <2>2. 2 < Len(frames) /\ frames[2 + 1].of = "object"
      BY <1>4, <2>1 DEF Nested
    <2>3. 3 \in 1..Len(frames) /\ 3 > 1 /\ frames[3].of = "object"
      BY <1>t, <2>2
    <2> DEFINE a == Cardinality(Objects(frames))
               b == Cardinality(Objects(Tail(frames)))
    <2>4. b \in Nat /\ a = b + 1 /\ b > 0
      BY <1>1, <1>t, <2>3, DepthPopped
    <2>5. v'.object_depth = a - 1
      BY <1>1, <2>1
    <2> HIDE DEF a, b
    <2> QED BY <2>4, <2>5
  <1>6. /\ v'.ss = v.ss \o ClosedText /\ v'.needs_close_array = FALSE
        /\ v'.needs_close_object = FALSE /\ item' = item
    BY <1>3, <1>5, ObjectStopEffect
  <1>7. ItemAt(1, 0)' /\ frames'[1] = frames[2]
    <2>1. ItemAt(1 + 1, 0)
      BY <1>3, SmallNumbers
    <2>2. ItemAt(1, 0)' /\ frames'[1] = frames[1 + 1]
      BY <1>1, <2>1, SmallNumbers, ItemPopped, Zenon
    <2> QED BY <2>2, SmallNumbers
  <1>h. raw \in Seq(Tokens) /\ v.ss \in Seq(Tokens)
    BY Here
  <1>v. "}" \in Tokens
    BY OneToken
  <1>w. <<"}">> \in Seq(Tokens)
    BY <1>v, TextsTyped, Zenon
  <1>8. raw' # <<>> /\ Last(raw') = "}"
    <2>1. raw \o <<"}">> # <<>> /\ Last(raw \o <<"}">>) = "}"
      BY ONLY <1>h, <1>v, LastOf, Zenon
    <2> QED BY <1>1, <2>1, Zenon
  <1>9. v'.ss = (Opening(frames[2]) \o raw') \o <<"}">>
    <2>1. Opening(frames[2]) \in Seq(Tokens)
      BY <1>4, OpeningTyped
    <2>2. ClosedText = <<"}">> \o <<"}">>
      <3>1. ClosedText = <<"}", "}">>
        BY Zenon DEF ClosedText
      <3>2. <<"}">> \o <<"}">> = <<"}", "}">>
        BY ONLY <1>v, TwoOf, Zenon
      <3> QED BY <3>1, <3>2, Zenon
    <2>3. v.ss \o (<<"}">> \o <<"}">>) = (v.ss \o <<"}">>) \o <<"}">>
      BY ONLY <1>h, <1>w, ValueGrows, Zenon
    <2>4. (Opening(frames[2]) \o raw) \o <<"}">> = Opening(frames[2]) \o (raw \o <<"}">>)
      BY ONLY <1>h, <1>w, <2>1, ValueGrows, Zenon
    <2> QED BY <1>1, <1>3, <1>6, <2>2, <2>3, <2>4, Zenon
  <1>10. AtValue'
    <2>1. v'.ss = Opening(Top') \o raw' \o (IF Last(raw') = "}" THEN <<"}">> ELSE <<>>)
      BY <1>7, <1>8, <1>9, Zenon DEF Top
    <2>2. mode' # "value"
      BY <1>1
    <2> QED BY <1>3, <1>6, <1>7, <1>8, <2>1, <2>2, Zenon DEF AtValue, Top
  <1> QED BY <1>6, <1>10 DEF ItemPlace

\* A step that changes none of this leaves an item where it is.
LEMMA PlaceSame ==
  ASSUME UNCHANGED <<v, call, frames, mode, raw>>, ItemPlace PROVE ItemPlace'
  <1>1. /\ frames' = frames /\ v' = v /\ raw' = raw /\ mode' = mode
        /\ Top' = Top /\ root_path' = root_path
    BY DEF Top, root_path
  <1>2. ASSUME NEW k, NEW n, ItemAt(k, n) PROVE ItemAt(k, n)'
    BY <1>1, <1>2 DEF ItemAt, Reaches
  <1>3. ASSUME NEW k, NEW n, Closable(frames[k], n) PROVE Closable(frames[k], n)'
    BY <1>1, <1>3 DEF Closable
  <1>4. ASSUME NEW k, FieldAt(k) PROVE FieldAt(k)'
    BY <1>1, <1>2, <1>3, <1>4, Zenon DEF FieldAt
  <1>5. CASE AtValue
    BY <1>1, <1>2, <1>5, Zenon DEF AtValue, ItemPlace, Closable
  <1>6. CASE InArray
    BY <1>1, <1>2, <1>3, <1>6, Zenon DEF InArray, ItemPlace
  <1>7. CASE AtObject
    BY <1>1, <1>2, <1>3, <1>7, Zenon DEF AtObject, ItemPlace
  <1>8. CASE InObject
    BY <1>1, <1>2, <1>3, <1>8, Zenon DEF InObject, ItemPlace
  <1>9. CASE AtField
    BY <1>4, <1>9, Zenon DEF AtField, ItemPlace
  <1>10. CASE InFieldArray
    BY <1>1, <1>4, <1>10, Zenon DEF InFieldArray, ItemPlace
  <1> QED BY <1>5, <1>6, <1>7, <1>8, <1>9, <1>10 DEF ItemPlace

\* There is a frame wherever an item is.
LEMMA PlaceFrames ==
  ASSUME VisitorTyped, ItemPlace PROVE frames # <<>>
  <1>1. Len(frames) \in Nat
    BY Here
  <1>2. \E k \in {1, 2, 3, 4}, n \in {0, 1} : ItemAt(k, n)
    <2>1. CASE AtValue
      BY <2>1 DEF AtValue
    <2>2. CASE InArray \/ AtObject \/ InObject
      BY <2>2 DEF InArray, AtObject, InObject
    <2>3. CASE AtField \/ InFieldArray
      BY <2>3, SmallNumbers DEF AtField, InFieldArray, FieldAt
    <2> QED BY <2>1, <2>2, <2>3 DEF ItemPlace
  <1>3. Len(frames) # 0
    BY <1>1, <1>2, ItemFrame
  <1> QED BY <1>3, EmptySeq

LEMMA NextItemShape ==
  VisitorTyped /\ EmitsThere /\ FramesNested /\ ItemShape /\ [VisitorNext]_visitor => ItemShape'
  <1> SUFFICES ASSUME VisitorTyped, EmitsThere, FramesNested, ItemShape, [VisitorNext]_visitor,
                      Open', root_path' # <<>>, plain', v'.emit_json
               PROVE  ~v'.needs_close_array /\ ItemPlace'
    BY DEF ItemShape
  <1>v. mode = "value" /\ frames # <<>> => Top.of # "object"
    BY DEF FramesNested, Open
  <1>p. Open /\ root_path # <<>> /\ plain /\ v.emit_json => ~v.needs_close_array /\ ItemPlace /\ frames # <<>>
    BY PlaceFrames DEF ItemShape
  <1>1. CASE UNCHANGED visitor
    <2>1. UNCHANGED <<v, call, frames, mode, raw, plain>>
      BY <1>1 DEF visitor
    <2>2. ~v.needs_close_array /\ ItemPlace
      BY <2>1 DEF ItemShape, Open, root_path
    <2> QED BY <2>1, <2>2, PlaceSame
  <1>2. CASE parse_stream
    BY <1>2, BeginEffect
  <1>3. CASE ScalarRead \/ StringCut
    <2>1. /\ mode = "value" /\ mode' = "after" /\ UNCHANGED <<frames, root_path>> /\ plain
          /\ Stays(v, v') /\ v'.array_idx = v.array_idx
      BY <1>3, ScalarStep DEF Open
    <2>2. root_path # <<>> /\ plain /\ v.emit_json /\ Open /\ v'.needs_close_array = v.needs_close_array
      BY <2>1 DEF Stays, Open
    <2>3. ~v.needs_close_array /\ ItemPlace /\ Top.of # "object"
      BY <1>p, <1>v, <2>1, <2>2
    <2>4. PICK x \in Scalars : v'.ss = v.ss \o <<x>> /\ raw' = raw \o <<x>>
      BY <1>3, <2>2, ScalarStep
    <2>5. ItemPlace'
      BY <2>1, <2>3, <2>4, ScalarPlaces, Zenon
    <2> QED BY <2>2, <2>3, <2>5
  <1>4. CASE parse_array_start
    <2> DEFINE x == [of |-> "array", n |-> 0]
    <2>1. /\ mode = "value" /\ UNCHANGED root_path /\ plain /\ x \in Frames
          /\ frames' = <<x>> \o frames /\ \A i \in DOMAIN frames : frames[i].of # "array"
          /\ Stays(v, v') /\ v'.array_idx = 0
      BY <1>4, ArrayStartStep
    <2>2. root_path # <<>> /\ v.emit_json /\ Open /\ v'.needs_close_array = v.needs_close_array
      BY <2>1 DEF Stays, Open
    <2>3. ~v.needs_close_array /\ ItemPlace /\ Top.of # "object"
      BY <1>p, <1>v, <2>1, <2>2
    <2>4. v'.ss = v.ss \o <<"[">> /\ raw' = raw \o <<"[">>
      BY <1>4, <2>2, ArrayStartStep
    <2>5. \A i \in 1..Len(frames) : frames[i].of # "array"
      <3>1. DOMAIN frames = 1..Len(frames)
        BY Here
      <3> QED BY <2>1, <3>1
    <2>6. x.of = "array" /\ x.n = 0
      OBVIOUS
    <2> HIDE DEF x
    <2>7. ItemPlace'
      BY <2>1, <2>3, <2>4, <2>5, <2>6, ArrayStartPlaces, Zenon
    <2> QED BY <2>2, <2>3, <2>7
  <1>5. CASE parse_array_item
    <2>1. /\ mode = "after" /\ UNCHANGED <<root_path, plain>> /\ frames # <<>> /\ Top.of = "array"
          /\ frames' = [frames EXCEPT ![1].n = @ + 1]
          /\ Stays(v, v') /\ v'.array_idx = v.array_idx + 1
      BY <1>5, ArrayItemStep
    <2>2. root_path # <<>> /\ plain /\ v.emit_json /\ Open /\ v'.needs_close_array = v.needs_close_array
      BY <2>1 DEF Stays, Open
    <2>3. ~v.needs_close_array /\ ItemPlace
      BY <1>p, <2>2
    <2>4. /\ v'.ss = v.ss \o (IF v.array_idx > 0 THEN <<",">> ELSE <<>>)
          /\ raw' = raw \o (IF Top.n > 0 THEN <<",">> ELSE <<>>)
      BY <1>5, <2>2, ArrayItemStep, Zenon
    <2>5. ItemPlace'
      BY <2>1, <2>3, <2>4, ArrayItemPlaces, Zenon
    <2> QED BY <2>2, <2>3, <2>5
  <1>6. CASE parse_array_stop
    <2>1. /\ mode = "after" /\ mode' = "after" /\ UNCHANGED <<root_path, plain>>
          /\ frames # <<>> /\ Top.of = "array" /\ frames' = Tail(frames) /\ Stays(v, v')
      BY <1>6, ArrayStopStep
    <2>2. root_path # <<>> /\ plain /\ v.emit_json /\ Open /\ v'.needs_close_array = v.needs_close_array
      BY <2>1 DEF Stays, Open
    <2>3. ~v.needs_close_array /\ ItemPlace
      BY <1>p, <2>2
    <2>4. v'.ss = v.ss \o <<"]">> /\ raw' = raw \o <<"]">>
      BY <1>6, <2>2, ArrayStopStep
    <2>5. ItemPlace'
      BY <2>1, <2>3, <2>4, ArrayStopPlaces, Zenon
    <2> QED BY <2>2, <2>3, <2>5
  <1>7. CASE parse_object_start
    <2> DEFINE x == [of |-> "object", n |-> 0]
    <2>1. /\ mode = "value" /\ UNCHANGED root_path /\ plain /\ x \in Frames
          /\ frames' = <<x>> \o frames /\ Stays(v, v') /\ v'.ss = v.ss
          /\ root_path # <<>> /\ v.emit_json => Top.of = "item" /\ Top.item /\ Top.keyed
      BY <1>7, ObjectStartStep DEF Innermost
    <2>2. root_path # <<>> /\ v.emit_json /\ Open /\ v'.needs_close_array = v.needs_close_array
      BY <2>1 DEF Stays, Open
    <2>3. ~v.needs_close_array /\ ItemPlace /\ frames # <<>>
      BY <1>p, <2>1, <2>2
    <2>4. raw' = raw \o <<"{">>
      BY <1>7, <2>2, ObjectStartStep
    <2>5. Top.of = "item" /\ Top.item = TRUE /\ Top.keyed
      <3>1. Top \in Items
        BY <2>1, <2>2, <2>3, TopHere, FrameKinds
      <3> QED BY <2>1, <2>2, <3>1 DEF Items
    <2>6. x.of = "object" /\ x.n = 0
      OBVIOUS
    <2> HIDE DEF x
    <2>7. ItemPlace'
      BY <2>1, <2>3, <2>4, <2>5, <2>6, ObjectStartPlaces, Zenon
    <2> QED BY <2>2, <2>3, <2>7
  <1>8. ASSUME NEW key \in Keys, parse_object_item(key)
        PROVE  ~v'.needs_close_array /\ ItemPlace'
    <2>1. /\ mode = "after" /\ UNCHANGED root_path /\ KeyEmits(key) /\ v'.needs_close_array = FALSE
          /\ plain' = IF root_path # <<>> /\ KeyEmits(key) /\ ~v.emit_json
                      THEN IsKeyed(v.table) \/ ~v.needs_close_object
                      ELSE plain /\ ~IsKeyed(v.table)
      BY <1>8, KeyEffect
    <2>2. root_path # <<>> /\ Open /\ v.emit_json \in BOOLEAN
      BY <2>1, Here DEF Open
    <2>3. CASE ~v.emit_json
      BY <1>8, <2>1, <2>2, <2>3, KeyStarts
    <2>4. CASE v.emit_json
      <3>1. plain
        BY <2>1, <2>4
      <3>2. ~v.needs_close_array /\ ItemPlace
        BY <1>p, <2>2, <2>4, <3>1
      <3>3. ItemPlace'
        BY <1>8, <2>1, <2>4, <3>2, KeyInside
      <3> QED BY <2>1, <3>3
    <2> QED BY <2>3, <2>4
  <1>9. ASSUME NEW whole \in BOOLEAN, ItemEnds(whole), frames # <<>>, Top.of = "item",
               mode = (IF whole THEN "after" ELSE "failing"), mode' = mode
        PROVE  ~v'.needs_close_array /\ ItemPlace'
    <2>1. whole = TRUE /\ mode = "after" /\ mode' = "after"
      BY <1>9 DEF Open
    <2>2. UNCHANGED <<root_path, plain>> /\ v.emit_json
      <3>1. mode # "idle" /\ mode' \in {"after", "failing"}
        BY <2>1
      <3> QED BY <1>9, <3>1, ItemEffect DEF Handed
    <2>3. root_path # <<>> /\ ~v.needs_close_array /\ ItemPlace
      BY <1>p, <2>1, <2>2 DEF Open
    <2> QED BY <1>9, <2>1, <2>2, <2>3, ItemEndPlaces
  <1>10. CASE parse_object_stop
    <2>1. /\ mode = "after" /\ UNCHANGED root_path /\ v'.emit_json = v.emit_json /\ (plain' => plain)
      BY <1>10, ObjectStopEffect
    <2>2. root_path # <<>> /\ v.emit_json /\ ~v.needs_close_array /\ ItemPlace
      BY <1>p, <2>1 DEF Open
    <2> QED BY <1>10, <2>2, ObjectStopPlaces
  <1>11. CASE QuietStep
    BY <1>11, QuietEffect DEF Open
  <1> QED BY <1>1, <1>2, <1>3, <1>4, <1>5, <1>6, <1>7, <1>8, <1>9, <1>10, <1>11, EffectsAre

\* A byte that does not belong there ends an item at no place where its text could end.
LEMMA SyntaxCut ==
  ASSUME VisitorTyped, ItemPlace, mode = "value" \/ Top.of # "item"
  PROVE  CutPlace
  <1>s. v.ss \in Seq(Tokens) /\ frames[1] = Top
    BY Here DEF Top
  <1>n. ASSUME NEW m \in Nat, m > 0, Opened(v.ss, m) PROVE ~Complete(v.ss)
    BY <1>n, <1>s, NotAtEnd
  <1>1. CASE AtValue
    <2>1. ItemAt(1, 0) /\ mode = "value"
      BY <1>1, <1>s DEF AtValue, ItemAt
    <2>2. frames[1].keyed => Opened(v.ss, 1)
      BY <1>1, <2>1 DEF AtValue, Closable, Top
    <2> QED BY <1>n, <2>1, <2>2, SmallNumbers DEF CutAt, CutPlace
  <1>2. CASE InArray
    BY <1>2, <1>n, SmallNumbers DEF InArray, Closable, CutAt, CutPlace
  <1>3. CASE AtObject
    BY <1>3, <1>n, SmallNumbers DEF AtObject, Closable, CutAt, CutPlace
  <1>4. CASE InObject
    BY <1>4, <1>n, SmallNumbers DEF InObject, Closable, CutAt, CutPlace
  <1>5. CASE AtField
    <2>1. /\ ItemAt(3, 1) /\ (frames[3].keyed => Opened(v.ss, 2))
          /\ frames[1].of = "item" /\ ~frames[1].keyed /\ frames[2].of = "object"
      BY <1>5, SmallNumbers DEF AtField, FieldAt, Closable
    <2>2. CutAt(3, 1)
      BY <1>n, <2>1, SmallNumbers DEF CutAt
    <2>3. CutField(1)
      BY <2>1, <2>2, SmallNumbers DEF CutField
    <2> QED BY <2>3 DEF CutPlace
  <1>6. CASE InFieldArray
    <2>1. /\ ItemAt(4, 1) /\ (frames[4].keyed => Opened(v.ss, 3)) /\ Top.of # "item"
          /\ frames[2].of = "item" /\ ~frames[2].keyed /\ frames[3].of = "object"
      BY <1>6, SmallNumbers DEF InFieldArray, FieldAt, Closable
    <2>2. CutAt(4, 1)
      BY <1>n, <2>1, SmallNumbers DEF CutAt
    <2>3. CutField(2)
      BY <2>1, <2>2, SmallNumbers DEF CutField
    <2> QED BY <2>1, <2>3 DEF CutPlace
  <1> QED BY <1>1, <1>2, <1>3, <1>4, <1>5, <1>6 DEF ItemPlace

LEMMA CutSame ==
  ASSUME UNCHANGED <<v, call, frames>>, CutPlace PROVE CutPlace'
  <1>1. /\ frames' = frames /\ v' = v /\ Top' = Top /\ root_path' = root_path
    BY DEF Top, root_path
  <1>2. ASSUME NEW k, NEW n, CutAt(k, n) PROVE CutAt(k, n)'
    BY <1>1, <1>2 DEF CutAt, ItemAt, Reaches
  <1>3. ASSUME NEW k, CutField(k) PROVE CutField(k)'
    BY <1>1, <1>2, <1>3, Zenon DEF CutField
  <1> QED BY <1>1, <1>2, <1>3 DEF CutPlace

\* A container is left behind.
LEMMA UnwindPlaces ==
  ASSUME VisitorTyped, CutPlace, Top.of # "item", frames' = Tail(frames), UNCHANGED <<v, root_path>>
  PROVE  CutPlace'
  <1>t. frames[1].of # "item" /\ v'.ss = v.ss /\ v'.current_path = v.current_path
    BY DEF Top
  <1>1. CASE CutAt(2, 0)
    <2>1. ItemAt(1 + 1, 0)
      BY <1>1, SmallNumbers DEF CutAt
    <2>2. ItemAt(1, 0)' /\ frames'[1] = frames[1 + 1]
      BY <1>t, <2>1, SmallNumbers, ItemPopped, Zenon
    <2>3. CutAt(1, 0)'
      BY <1>1, <1>t, <2>2, SmallNumbers DEF CutAt
    <2> QED BY <2>3 DEF CutPlace
  <1>2. CASE CutField(2)
    <2>1. /\ CutAt(4, 1) /\ frames[2].of = "item" /\ ~frames[2].keyed /\ frames[3].of = "object"
      BY <1>2, SmallNumbers DEF CutField
    <2>2. ItemAt(3 + 1, 1)
      BY <2>1, SmallNumbers DEF CutAt
    <2>3. /\ ItemAt(3, 1)' /\ frames'[3] = frames[3 + 1]
          /\ \A i \in 1..(Len(frames) - 1) : frames'[i] = frames[i + 1]
      BY <1>t, <2>2, SmallNumbers, ItemPopped, Zenon
    <2>4. CutAt(3, 1)'
      BY <1>t, <2>1, <2>3, SmallNumbers DEF CutAt
    <2>5. 4 \in 1..Len(frames) /\ Len(frames) \in Nat
      BY <2>1, ItemFrame, Here DEF CutAt
    <2>6. 1 \in 1..(Len(frames) - 1) /\ 2 \in 1..(Len(frames) - 1)
      BY <2>5, InnerFrames
    <2>7. frames'[1] = frames[2] /\ frames'[2] = frames[3]
      BY <2>3, <2>6, SmallNumbers
    <2>8. CutField(1)'
      BY <2>1, <2>4, <2>7, SmallNumbers DEF CutField
    <2> QED BY <2>8 DEF CutPlace
  <1>3. ~CutAt(1, 0) /\ ~CutField(1)
    BY <1>t DEF CutAt, ItemAt, CutField
  <1> QED BY <1>1, <1>2, <1>3 DEF CutPlace

\* The value of a key is left behind, inside an item.
LEMMA CutEndPlaces ==
  ASSUME VisitorTyped, CutPlace, root_path # <<>>, v.emit_json, ItemEnds(FALSE),
         mode = "failing", mode' = "failing", frames # <<>>, Top.of = "item", v'.emit_json
  PROVE  CutPlace'
  <1>1. /\ root_path' = root_path /\ frames' = Tail(frames) /\ v'.current_path = Shorter(v)
        /\ is_a_subpath(Shorter(v), root_path) /\ v'.ss = v.ss
    <2>1. FALSE \in BOOLEAN /\ mode # "idle" /\ mode' \in {"after", "failing"}
      OBVIOUS
    <2>2. ~Handed(FALSE)
      BY DEF Handed
    <2> QED BY <2>1, <2>2, ItemEffect
  <1>2. CutField(1)
    BY <1>1, ItemLeaves DEF CutAt, CutPlace
  <1>3. CutAt(3, 1) /\ frames[2].of = "object"
    BY <1>2, SmallNumbers DEF CutField
  <1>4. /\ ItemAt(2, 0)' /\ frames'[2] = frames[3]
        /\ \A i \in 1..(Len(frames) - 1) : frames'[i] = frames[i + 1]
    <2>1. 0 \in Nat /\ 0 + 1 = 1
      OBVIOUS
    <2>2. ItemAt(2 + 1, 0 + 1)
      BY <1>3, <2>1, SmallNumbers DEF CutAt
    <2>3. /\ ItemAt(2, 0)' /\ frames'[2] = frames[2 + 1]
          /\ \A i \in 1..(Len(frames) - 1) : frames'[i] = frames[i + 1]
      BY <1>1, <2>1, <2>2, SmallNumbers, ItemUncovered, Zenon
    <2> QED BY <2>3, SmallNumbers
  <1>5. frames'[1] = frames[2]
    <2>1. 3 \in 1..Len(frames) /\ Len(frames) \in Nat
      BY <1>3, ItemFrame, Here DEF CutAt
    <2>2. 1 \in 1..(Len(frames) - 1)
      BY <2>1
    <2> QED BY <1>4, <2>2, SmallNumbers
  <1>6. CutAt(2, 0)'
    BY <1>1, <1>3, <1>4 DEF CutAt
  <1>7. Top'.of # "item"
    BY <1>3, <1>5 DEF Top
  <1> QED BY <1>6, <1>7 DEF CutPlace

LEMMA NextCutShape ==
  /\ VisitorTyped /\ EmitsThere /\ FramesNested /\ ItemShape /\ CutShape /\ [VisitorNext]_visitor
  => CutShape'
  <1> SUFFICES ASSUME VisitorTyped, EmitsThere, FramesNested, ItemShape, CutShape,
                      [VisitorNext]_visitor,
                      mode' = "failing", root_path' # <<>>, plain', v'.emit_json
               PROVE  CutPlace'
    BY DEF CutShape
  <1>v. mode = "value" /\ frames # <<>> => Top.of # "object"
    BY DEF FramesNested, Open
  <1>p. Open /\ root_path # <<>> /\ plain /\ v.emit_json => ~v.needs_close_array /\ ItemPlace /\ frames # <<>>
    BY PlaceFrames DEF ItemShape
  <1>1. CASE UNCHANGED visitor
    <2>1. UNCHANGED <<v, call, frames>>
      BY <1>1 DEF visitor
    <2>2. CutPlace
      BY <1>1 DEF visitor, CutShape, root_path
    <2> QED BY <2>1, <2>2, CutSame
  <1>2. CASE parse_stream
    BY <1>2, BeginEffect
  <1>3. CASE ScalarRead \/ StringCut
    <2>1. /\ mode = "value" /\ UNCHANGED <<frames, root_path>> /\ plain
          /\ Stays(v, v') /\ v'.array_idx = v.array_idx
      BY <1>3, ScalarStep
    <2>2. root_path # <<>> /\ plain /\ v.emit_json /\ Open
      BY <2>1 DEF Stays, Open
    <2>3. ItemPlace /\ Top.of # "object"
      BY <1>p, <1>v, <2>1, <2>2
    <2>4. PICK x \in Scalars : v'.ss = v.ss \o <<x>> /\ raw' = raw \o <<x>>
      BY <1>3, <2>2, ScalarStep
    <2> QED BY <2>1, <2>3, <2>4, ScalarPlaces, Zenon
  <1>4. CASE \/ parse_array_start \/ parse_array_item \/ parse_array_stop \/ parse_object_start
             \/ parse_object_stop \/ \E key \in Keys : parse_object_item(key)
    BY <1>4, ArrayStartStep, ArrayItemStep, ArrayStopStep, ObjectStartStep, ObjectStopEffect, KeyEffect
  <1>5. ASSUME NEW whole \in BOOLEAN, ItemEnds(whole), frames # <<>>, Top.of = "item",
               mode = (IF whole THEN "after" ELSE "failing"), mode' = mode
        PROVE  CutPlace'
    <2>1. whole = FALSE /\ mode = "failing"
      BY <1>5
    <2>2. UNCHANGED <<root_path, plain>> /\ v.emit_json
      <3>1. mode # "idle" /\ mode' \in {"after", "failing"}
        BY <2>1
      <3> QED BY <1>5, <3>1, ItemEffect DEF Handed
    <2>3. root_path # <<>> /\ CutPlace
      BY <2>1, <2>2 DEF CutShape
    <2> QED BY <1>5, <2>1, <2>2, <2>3, CutEndPlaces
  <1>6. CASE QuietStep
    <2>1. UNCHANGED <<v, call, root_path, plain>> /\ root_path # <<>> /\ plain /\ v.emit_json
      BY <1>6, QuietEffect
    <2>2. CASE SyntaxError
      <3>1. /\ frames' = frames /\ mode \in {"value", "after"}
            /\ mode = "after" => frames # <<>> /\ Top.of # "item"
        BY <1>6, <2>2, QuietEffect
      <3>2. ItemPlace
        BY <1>p, <2>1, <3>1 DEF Open
      <3>3. CutPlace
        BY <3>1, <3>2, SyntaxCut
      <3> QED BY <2>1, <3>1, <3>3, CutSame
    <2>3. CASE ~SyntaxError
      <3>1. mode = "failing" /\ Top.of # "item" /\ frames' = Tail(frames)
        BY <1>6, <2>3, QuietEffect
      <3>2. CutPlace
        BY <2>1, <3>1 DEF CutShape
      <3> QED BY <2>1, <3>1, <3>2, UnwindPlaces
    <2> QED BY <2>2, <2>3
  <1> QED BY <1>1, <1>2, <1>3, <1>4, <1>5, <1>6, EffectsAre

-----------------------------------------------------------------------------
(***************************************************************************)
(* What is handed over.                                                    *)
(***************************************************************************)
\* The end of an item: what its text is then.
LEMMA HandedFaithful ==
  ASSUME VisitorTyped, ItemShape, plain, mode = "after", frames # <<>>, Top.of = "item",
         Handed(TRUE), ExpectedHere # <<>>
  PROVE  ClosedItem.ss = ExpectedHere
  <1>1. v.emit_json /\ root_path # <<>>
    <2>1. ~is_a_subpath(Shorter(v), root_path) /\ v.emit_json
      BY DEF Handed
    <2>2. v.current_path \in Paths /\ root_path \in Roots
      BY Here
    <2>3. Shorter(v) \in Paths
      <3>1. 0 \in Nat
        OBVIOUS
      <3> QED BY <2>2, <3>1, ReachesPopped
    <2>4. root_path = <<>> => is_a_subpath(Shorter(v), root_path)
      <3>1. Len(Shorter(v)) \in Nat
        BY <2>3, LenProperties DEF Paths
      <3>2. Len(<<>>) = 0
        BY EmptySeq
      <3> QED BY <3>1, <3>2 DEF is_a_subpath
    <2> QED BY <2>1, <2>4
  <1>2. ItemPlace
    BY <1>1 DEF ItemShape, Open
  <1>3. Top \in Items
    BY TopHere, FrameKinds
  <1>4. Top.item = TRUE /\ (Top.keyed => Last(raw) = "}") /\ ExpectedHere = Expected(Top)
    BY <1>3 DEF ExpectedHere, Items
  <1>5. AtValue
    <2>1. ~InArray /\ ~AtObject /\ ~InObject /\ ~InFieldArray
      BY DEF InArray, AtObject, InObject, InFieldArray
    <2>2. ~AtField
      BY <1>4 DEF AtField, FieldAt, Top
    <2> QED BY <1>2, <2>1, <2>2 DEF ItemPlace
  <1>6. /\ Last(raw) = "}" => Top.keyed
        /\ v.ss = (Opening(Top) \o raw) \o (IF Last(raw) = "}" THEN <<"}">> ELSE <<>>)
    BY <1>5 DEF AtValue
  <1>7. Expected(Top) = (Opening(Top) \o raw) \o <<"}">>
    BY Zenon DEF Expected, Opening
  <1>8. CASE Top.keyed
    <2>1. ClosedItem.ss = v.ss
      BY <1>8 DEF Handed
    <2>2. v.ss = (Opening(Top) \o raw) \o <<"}">>
      BY <1>4, <1>6, <1>8, Zenon
    <2> QED BY <1>4, <1>7, <2>1, <2>2, Zenon
  <1>9. CASE ~Top.keyed
    <2>1. ClosedItem.ss = v.ss \o <<"}">>
      BY <1>9 DEF Handed
    <2>2. v.ss = (Opening(Top) \o raw) \o <<>>
      BY <1>6, <1>9, Zenon
    <2>3. (Opening(Top) \o raw) \o <<>> = Opening(Top) \o raw
      <3>1. Top \in Frames
        BY <1>3 DEF Frames
      <3>2. Opening(Top) \in Seq(Tokens) /\ raw \in Seq(Tokens)
        BY <3>1, OpeningTyped, Here
      <3>3. Opening(Top) \o raw \in Seq(Tokens)
        BY <3>2, ConcatProperties
      <3> QED BY <3>3, ConcatEmptySeq
    <2> QED BY <1>4, <1>7, <2>1, <2>2, <2>3, Zenon
  <1> QED BY <1>8, <1>9

\* The end of the document, for root_path {}.
LEMMA DocumentFaithful ==
  ASSUME VisitorTyped, FramesNested, WholeShape, plain, root_path = <<>>, parse_object_stop,
         v.emit_json, v'.object_depth = 0
  PROVE  ClosedObject.ss = raw'
  <1>1. /\ mode = "after" /\ frames # <<>> /\ Top.of = "object" /\ raw' = raw \o <<"}">>
        /\ v'.object_depth = v.object_depth - 1
    BY ObjectStopEffect
  <1>2. InDocument
    BY <1>1 DEF WholeShape, Open
  <1>t. Top = frames[1] /\ Top.n \in Nat /\ Len(frames) \in Nat /\ Len(frames) > 0 /\ frames \in Seq(Frames)
    BY <1>1, TopHere
  <1>3. Len(frames) = 1
    <2>1. v.object_depth = Cardinality(Objects(frames))
      BY <1>1 DEF FramesNested, Open
    <2> DEFINE n == Len(frames)
               a == Cardinality(Objects(frames))
               b == Cardinality(Objects(Tail(frames)))
    <2>2. n \in 1..n /\ frames[n].of = "object"
      <3>1. frames[n].of = "object"
        BY <1>2 DEF InDocument, DocumentFrames
      <3>2. n \in Nat /\ n > 0
        BY <1>t
      <3> HIDE DEF n
      <3> QED BY <3>1, <3>2
    <2>3. b \in Nat /\ a = b + 1 /\ (n > 1 => b > 0)
      BY <1>1, <1>t, <2>2, DepthPopped
    <2>4. v'.object_depth = a - 1
      BY <1>1, <2>1
    <2>5. n \in Nat /\ n > 0
      BY <1>t
    <2> HIDE DEF a, b, n
    <2>6. n = 1
      BY <2>3, <2>4, <2>5
    <2> QED BY <2>6 DEF n
  <1>4. Top.n > 0
    <2>1. Top.n # 0
      BY <1>2, <1>3 DEF InDocument
    <2> QED BY ONLY <1>t, <2>1, Positive, Zenon
  <1>5. ~v.needs_close_array /\ v.needs_close_object /\ raw = v.ss
    <2>1. ~v.needs_close_array /\ v.needs_close_object
      BY <1>1, <1>2, <1>4 DEF InDocument
    <2>2. raw = IF Top.of = "object" /\ Top.n = 0 THEN v.ss \o <<"{">> ELSE v.ss
      BY <1>2 DEF InDocument
    <2>3. Top.n # 0
      BY ONLY <1>t, <1>4, Positive, Zenon
    <2> QED BY <2>1, <2>2, <2>3, Zenon
  <1>6. ClosedObject.ss = v.ss \o ClosedText
    BY <1>5, ObjectStopEffect
  <1>7. ClosedText = <<"}">>
    BY Zenon DEF ClosedText
  <1> QED BY <1>1, <1>5, <1>6, <1>7, Zenon

\* The steps that hand nothing over.
LEMMA ItemKept ==
  ASSUME VisitorTyped, [VisitorNext]_visitor, ~parse_stream, ~parse_object_stop,
         \A whole \in BOOLEAN :
           ~(/\ ItemEnds(whole) /\ frames # <<>> /\ Top.of = "item"
             /\ mode = (IF whole THEN "after" ELSE "failing") /\ mode' = mode)
  PROVE  item' = item /\ root_path' = root_path
  <1>1. CASE UNCHANGED visitor
    BY <1>1 DEF visitor, root_path
  <1>2. CASE ScalarRead \/ StringCut
    BY <1>2, ScalarStep
  <1>3. CASE parse_array_start \/ parse_array_item \/ parse_array_stop \/ parse_object_start
    BY <1>3, ArrayStartStep, ArrayItemStep, ArrayStopStep, ObjectStartStep
  <1>4. ASSUME NEW key \in Keys, parse_object_item(key) PROVE item' = item /\ root_path' = root_path
    BY <1>4, KeyEffect
  <1>5. CASE QuietStep
    BY <1>5, QuietEffect
  <1> QED BY <1>1, <1>2, <1>3, <1>4, <1>5, EffectsAre

LEMMA NextItemsFaithful ==
  /\ VisitorTyped /\ FramesNested /\ WholeShape /\ ItemShape /\ ItemsFaithful /\ [VisitorNext]_visitor
  => ItemsFaithful'
  <1> SUFFICES ASSUME VisitorTyped, FramesNested, WholeShape, ItemShape, ItemsFaithful,
                      [VisitorNext]_visitor
               PROVE  ItemsFaithful'
    OBVIOUS
  <1>1. CASE item' = item
    BY <1>1 DEF ItemsFaithful
  <1>2. CASE parse_stream
    BY <1>2, BeginEffect DEF ItemsFaithful, NoItem
  <1>3. CASE parse_object_stop /\ item' # item
    <2>1. v.emit_json /\ v'.object_depth = 0
      BY <1>3, ObjectStopEffect
    <2>2. PICK accepts \in BOOLEAN :
            item' = ItemOf(ClosedObject, accepts, IF root_path = <<>> THEN raw' ELSE <<>>, TRUE, FALSE)
      BY <1>3, ObjectStopEffect
    <2>3. /\ item'.plain = plain /\ item'.text = ClosedObject.ss
          /\ item'.expected = IF root_path = <<>> THEN raw' ELSE <<>>
      BY <2>2 DEF ItemOf
    <2>4. CASE root_path = <<>>
      <3>1. plain => ClosedObject.ss = raw'
        BY <1>3, <2>1, <2>4, DocumentFaithful
      <3>2. item'.expected = raw'
        BY <2>3, <2>4, Zenon
      <3> QED BY <2>3, <3>1, <3>2, Zenon DEF ItemsFaithful
    <2>5. CASE root_path # <<>>
      <3>1. item'.expected = <<>>
        BY <2>3, <2>5, Zenon
      <3> QED BY <3>1, Zenon DEF ItemsFaithful
    <2> QED BY <2>4, <2>5
  <1>4. ASSUME NEW whole \in BOOLEAN, ItemEnds(whole), frames # <<>>, Top.of = "item",
               mode = (IF whole THEN "after" ELSE "failing"), mode' = mode, item' # item
        PROVE  ItemsFaithful'
    <2>1. Handed(whole)
      <3>1. mode # "idle" /\ mode' \in {"after", "failing"}
        BY <1>4
      <3> QED BY <1>4, <3>1, ItemEffect
    <2>2. PICK accepts \in BOOLEAN :
            item' = ItemOf(ClosedItem, accepts, ExpectedHere, whole, Top.keyed)
      BY <2>1 DEF Handed
    <2>3. /\ item'.plain = plain /\ item'.text = ClosedItem.ss /\ item'.whole = whole
          /\ item'.expected = ExpectedHere
      BY <2>2 DEF ItemOf
    <2>4. ASSUME whole, plain, ExpectedHere # <<>> PROVE ClosedItem.ss = ExpectedHere
      <3>1. whole = TRUE
        BY <2>4
      <3>2. mode = "after" /\ Handed(TRUE)
        BY <1>4, <2>1, <3>1
      <3> QED BY <1>4, <2>4, <3>2, HandedFaithful
    <2> QED BY <2>3, <2>4, Zenon DEF ItemsFaithful
  <1> QED BY <1>1, <1>2, <1>3, <1>4, ItemKept

LEMMA NextCutItemsRefused ==
  VisitorTyped /\ CutShape /\ CutItemsRefused /\ [VisitorNext]_visitor => CutItemsRefused'
  <1> SUFFICES ASSUME VisitorTyped, CutShape, CutItemsRefused, [VisitorNext]_visitor
               PROVE  CutItemsRefused'
    OBVIOUS
  <1>1. CASE item' = item /\ root_path' = root_path
    BY <1>1 DEF CutItemsRefused
  <1>2. CASE parse_stream
    BY <1>2, BeginEffect DEF CutItemsRefused, NoItem
  <1>3. CASE parse_object_stop
    <2>1. root_path' = root_path
      BY <1>3, ObjectStopEffect
    <2>2. ASSUME item' # item PROVE item'.whole
      <3>1. PICK accepts \in BOOLEAN :
              item' = ItemOf(ClosedObject, accepts, IF root_path = <<>> THEN raw' ELSE <<>>, TRUE, FALSE)
        BY <1>3, <2>2, ObjectStopEffect
      <3> QED BY <3>1 DEF ItemOf
    <2> QED BY <1>1, <2>1, <2>2 DEF CutItemsRefused
  <1>4. ASSUME NEW whole \in BOOLEAN, ItemEnds(whole), frames # <<>>, Top.of = "item",
               mode = (IF whole THEN "after" ELSE "failing"), mode' = mode
        PROVE  CutItemsRefused'
    <2>1. root_path' = root_path /\ (item' = item \/ Handed(whole))
      <3>1. mode # "idle" /\ mode' \in {"after", "failing"}
        BY <1>4
      <3> QED BY <1>4, <3>1, ItemEffect
    <2>2. CASE Handed(whole)
      <3>1. PICK accepts \in BOOLEAN :
              item' = ItemOf(ClosedItem, accepts, ExpectedHere, whole, Top.keyed)
        BY <2>2 DEF Handed
      <3>2. /\ item'.plain = plain /\ item'.whole = whole /\ item'.keyed = Top.keyed
            /\ item'.ok => Complete(ClosedItem.ss)
        BY <3>1 DEF ItemOf, Parses, Complete
      <3>3. v.emit_json /\ ~is_a_subpath(Shorter(v), root_path)
            /\ (Top.keyed => ClosedItem.ss = v.ss)
        BY <2>2 DEF Handed
      <3>4. root_path # <<>>
        <4>1. v.current_path \in Paths /\ root_path \in Roots /\ 0 \in Nat
          BY Here
        <4>2. Len(Shorter(v)) \in Nat
          BY <4>1, ReachesPopped, LenProperties DEF Paths
        <4>3. Len(<<>>) = 0
          BY EmptySeq
        <4> QED BY <3>3, <4>2, <4>3 DEF is_a_subpath
      <3>5. ASSUME ~whole, plain, Top.keyed PROVE ~Complete(v.ss)
        <4>1. CutPlace
          BY <1>4, <3>3, <3>4, <3>5 DEF CutShape
        <4>2. frames[1] = Top
          BY DEF Top
        <4>3. ~CutField(1)
          BY <3>5, <4>2 DEF CutField
        <4>4. CutAt(1, 0)
          BY <1>4, <4>1, <4>3 DEF CutPlace
        <4> QED BY <3>5, <4>2, <4>4 DEF CutAt
      <3> QED BY <2>1, <3>2, <3>3, <3>4, <3>5 DEF CutItemsRefused
    <2> QED BY <1>1, <2>1, <2>2
  <1> QED BY <1>1, <1>2, <1>3, <1>4, ItemKept

-----------------------------------------------------------------------------
VisitorInv == VisitorTyped /\ EmitsThere /\ FramesNested /\ WholeShape /\ ItemShape /\ CutShape

LEMMA VisitorAlways == VisitorSpec => []VisitorInv
  <1>1. VisitorInit => VisitorInv
    BY InitVisitorTyped, InitWholeShape DEF VisitorInv
  <1>2. VisitorInv /\ [VisitorNext]_visitor => VisitorInv'
    BY NextVisitorTyped, NextEmitsThere, NextFramesNested, NextWholeShape, NextItemShape,
       NextCutShape DEF VisitorInv
  <1> QED BY <1>1, <1>2, PTL DEF VisitorSpec

\* For any document, keys, schema and path, of the forms the visitor supports: what
\* process_item() is given is the item of the document, written again as JSON.
THEOREM ItemsAlwaysFaithful == VisitorSpec => []ItemsFaithful
  <1>1. VisitorInit => ItemsFaithful
    BY DEF VisitorInit, ItemsFaithful, NoItem
  <1>2. VisitorInv /\ ItemsFaithful /\ [VisitorNext]_visitor => ItemsFaithful'
    BY NextItemsFaithful DEF VisitorInv
  <1> QED BY <1>1, <1>2, VisitorAlways, PTL DEF VisitorSpec

\* The end of the stream, wherever it comes, makes no whole item of a keyed one, or of
\* the document: its braces are counted.
THEOREM CutItemsAlwaysRefused == VisitorSpec => []CutItemsRefused
  <1>1. VisitorInit => CutItemsRefused
    BY DEF VisitorInit, CutItemsRefused, NoItem
  <1>2. VisitorInv /\ CutItemsRefused /\ [VisitorNext]_visitor => CutItemsRefused'
    BY NextCutItemsRefused DEF VisitorInv
  <1> QED BY <1>1, <1>2, VisitorAlways, PTL DEF VisitorSpec
=============================================================================
